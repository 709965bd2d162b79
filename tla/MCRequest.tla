------------------------------ MODULE MCRequest -----------------------------
(***************************************************************************)
(* Small requests: every message of up to three parts, every pair of       *)
(* messages of up to two parts, and what else may be wrong with a request. *)
(***************************************************************************)
EXTENDS RequestProperties

MCByte == {"a", "b"}

MCParts ==
  { [kind |-> "text", text |-> <<"a">>],
    [kind |-> "text", text |-> <<"b", "a">>],
    [kind |-> "tool_call", id |-> "i1"],
    [kind |-> "tool_result", id |-> "i1"],
    [kind |-> "extension"] }

MessagesOf(n) == [role : Roles, parts : UNION {[1 .. k -> MCParts] : k \in 1 .. n}]

RequestOf(messages) == [model |-> TRUE, messages |-> messages, tools |-> << >>, large |-> FALSE]

Hello == [role |-> "user", parts |-> << [kind |-> "text", text |-> <<"a">>] >>]

MCTools == {[name |-> "read", schema |-> TRUE], [name |-> "write", schema |-> TRUE],
            [name |-> "bad", schema |-> FALSE]}

MCRequests ==
       {RequestOf(<<value>>) : value \in MessagesOf(3)}
  \cup {RequestOf(<<first, second>>) : first \in MessagesOf(2), second \in MessagesOf(2)}
  \cup [model : BOOLEAN, messages : {<<Hello>>}, large : BOOLEAN,
        tools : {<< >>} \cup {<<t>> : t \in MCTools} \cup {<<t, u>> \in MCTools \X MCTools : t # u}]
  \cup {[model |-> FALSE, messages |-> << >>, tools |-> << >>, large |-> FALSE]}

=============================================================================
