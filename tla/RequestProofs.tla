---------------------------- MODULE RequestProofs ---------------------------
(***************************************************************************)
(* For every set of requests and every cap: what translateRequest builds   *)
(* is well typed and well formed, it keeps the conversation, and it        *)
(* refuses exactly what it must.                                           *)
(***************************************************************************)
EXTENDS RequestProperties, Iteration

WellFormed(list) ==
  \A i \in 1 .. Len(list) : list[i].type = "message" => list[i].text # << >> /\ list[i].role # "tool"

\* The items of the message being translated are as well formed as the others.
TranslatorInvariant ==
  /\ TypeOK
  /\ Len(items) <= MaxInputItems
  /\ WellFormed(items) /\ WellFormed(own)

-----------------------------------------------------------------------------
LEMMA MessageType ==
  ASSUME TypeOK, InMessage
  PROVE  message \in Message /\ message.role \in Roles /\ message.parts \in Seq(Part)
<1>1. request.messages \in Seq(Message) /\ at \in Nat /\ at < Len(request.messages)
  BY DEF TypeOK, Request, InMessage
<1>2. message \in Message
  BY <1>1 DEF message
<1> QED BY <1>2 DEF Message

LEMMA PartType ==
  ASSUME TypeOK, InPart
  PROVE  /\ part \in Part
         /\ part.kind = "text" => part.text \in Seq(Byte)
         /\ part.kind \in {"tool_call", "tool_result"} => part.id \in CallIDs
<1>1. message.parts \in Seq(Part) /\ done \in Nat /\ done < Len(message.parts)
  BY MessageType DEF InPart, TypeOK
<1>2. part \in Part
  BY <1>1 DEF part
<1> QED BY <1>2 DEF Part

\* Flushing keeps the items well formed.
LEMMA FlushedFacts ==
  ASSUME TranslatorInvariant, InMessage, CanFlush
  PROVE  Flushed \in Seq(InputItem) /\ WellFormed(Flushed)
<1>1. CASE text = << >>
  BY <1>1 DEF Flushed, TranslatorInvariant, TypeOK
<1>2. CASE text # << >>
  <2> DEFINE item == [type |-> "message", role |-> message.role, text |-> text]
  <2>1. item \in InputItem
    BY MessageType DEF InputItem, TranslatorInvariant, TypeOK
  <2>2. Flushed = Append(own, item) /\ own \in Seq(InputItem)
    BY <1>2 DEF Flushed, TranslatorInvariant, TypeOK
  <2>3. item.text # << >> /\ item.role # "tool"
    BY <1>2 DEF CanFlush
  <2> HIDE DEF item
  <2> QED BY <2>1, <2>2, <2>3 DEF WellFormed, TranslatorInvariant
<1> QED BY <1>1, <1>2

LEMMA StructuredFacts ==
  ASSUME TranslatorInvariant, InPart, CanFlush, part.kind \in {"tool_call", "tool_result"},
         NEW type \in {"function_call", "function_call_output"}
  PROVE  LET list == Append(Flushed, [type |-> type, id |-> part.id])
         IN  list \in Seq(InputItem) /\ WellFormed(list)
<1> DEFINE item == [type |-> type, id |-> part.id]
<1>1. Flushed \in Seq(InputItem) /\ WellFormed(Flushed)
  BY FlushedFacts DEF InPart
<1>2. item \in InputItem /\ item.type # "message"
  BY PartType DEF InputItem, TranslatorInvariant
<1> HIDE DEF item
<1>3. Append(Flushed, item) \in Seq(InputItem) /\ WellFormed(Append(Flushed, item))
  BY <1>1, <1>2 DEF WellFormed
<1> QED BY <1>3 DEF item

-----------------------------------------------------------------------------
LEMMA InitTranslation == Init => TranslatorInvariant
<1> SUFFICES ASSUME Init PROVE TranslatorInvariant
  OBVIOUS
<1>1. request \in Request /\ MaxInputItems \in Nat
  BY RequestAssumption DEF Init
<1>2. request.messages \in Seq(Message) /\ request.tools \in Seq(Definition)
  BY <1>1 DEF Request
<1> QED BY <1>1, <1>2 DEF Init, TranslatorInvariant, TypeOK, WellFormed

\* The steps that leave the items alone.
LEMMA PassStep ==
  ASSUME TranslatorInvariant,
         phase' \in {"start", "messages", "tools", "accepted", "rejected"},
         UNCHANGED <<request, translator, items, tools>>
  PROVE  TranslatorInvariant'
BY DEF TranslatorInvariant, TypeOK, translator, WellFormed

LEMMA TextStep ==
  ASSUME TranslatorInvariant, TextPart
  PROVE  TranslatorInvariant'
<1>1. text' \in Seq(Byte)
  BY PartType DEF TextPart, TranslatorInvariant, TypeOK
<1> QED BY <1>1 DEF TextPart, TranslatorInvariant, TypeOK, WellFormed

LEMMA StructuredStep ==
  ASSUME TranslatorInvariant, NEW kind \in {"tool_call", "tool_result"}, NEW role,
         NEW type \in {"function_call", "function_call_output"}, Structured(kind, role, type)
  PROVE  TranslatorInvariant'
<1>1. CASE Reject
  BY <1>1, PassStep DEF Reject
<1>2. CASE ~Reject
  <2>1. /\ CanFlush /\ InPart /\ part.kind = kind
        /\ own' = Append(Flushed, [type |-> type, id |-> part.id])
        /\ text' = << >> /\ done' = done + 1
        /\ UNCHANGED <<request, phase, at, items, tools>>
    BY <1>2 DEF Structured
  <2>2. own' \in Seq(InputItem) /\ WellFormed(own')
    BY <2>1, StructuredFacts
  <2>3. text' \in Seq(Byte)
    BY <2>1
  <2> QED BY <2>1, <2>2, <2>3 DEF TranslatorInvariant, TypeOK, WellFormed
<1> QED BY <1>1, <1>2

LEMMA EndMessageStep ==
  ASSUME TranslatorInvariant, EndMessage
  PROVE  TranslatorInvariant'
<1>1. CASE Reject
  BY <1>1, PassStep DEF Reject
<1>2. CASE ~Reject
  <2>1. /\ InMessage /\ CanFlush /\ Fits
        /\ items' = items \o Flushed
        /\ at' = at + 1 /\ done' = 0 /\ text' = << >> /\ own' = << >>
        /\ UNCHANGED <<request, phase, tools>>
    BY <1>2 DEF EndMessage
  <2>2. Flushed \in Seq(InputItem) /\ WellFormed(Flushed)
    BY <2>1, FlushedFacts
  <2>3. items \in Seq(InputItem) /\ WellFormed(items)
    BY DEF TranslatorInvariant, TypeOK
  <2>4. items' \in Seq(InputItem) /\ Len(items') = Len(items) + Len(Flushed)
    BY <2>1, <2>2, <2>3
  <2>5. WellFormed(items')
    BY <2>1, <2>2, <2>3, <2>4 DEF WellFormed
  <2>6. Len(items') <= MaxInputItems
    BY <2>1, <2>2, <2>3, <2>4, RequestAssumption DEF Fits
  <2>7. at' \in 0 .. Len(request'.messages)
    <3>1. request.messages \in Seq(Message)
      BY DEF TranslatorInvariant, TypeOK, Request
    <3> QED BY <2>1, <3>1 DEF InMessage, TranslatorInvariant, TypeOK
  <2>8. own' \in Seq(InputItem) /\ WellFormed(own') /\ text' \in Seq(Byte) /\ done' \in Nat
    BY <2>1 DEF WellFormed
  <2> QED BY <2>1, <2>4, <2>5, <2>6, <2>7, <2>8 DEF TranslatorInvariant, TypeOK
<1> QED BY <1>1, <1>2

LEMMA ToolStep ==
  ASSUME TranslatorInvariant, TranslateTool
  PROVE  TranslatorInvariant'
<1>1. CASE Reject
  BY <1>1, PassStep DEF Reject
<1>2. CASE ~Reject
  <2> DEFINE definition == request.tools[Len(tools) + 1]
  <2>1. /\ tools' = Append(tools, definition.name) /\ Len(tools) < Len(request.tools)
        /\ UNCHANGED <<request, phase, translator, items>>
    BY <1>2 DEF TranslateTool
  <2>2. request.tools \in Seq(Definition) /\ tools \in Seq(ToolNames)
    BY DEF TranslatorInvariant, TypeOK, Request
  <2>3. definition \in Definition
    BY <2>1, <2>2
  <2>4. definition.name \in ToolNames
    BY <2>3 DEF Definition
  <2>5. tools' \in Seq(ToolNames) /\ Len(tools') <= Len(request'.tools)
    BY <2>1, <2>2, <2>4
  <2> QED BY <2>1, <2>5 DEF TranslatorInvariant, TypeOK, translator, WellFormed
<1> QED BY <1>1, <1>2

LEMMA TranslationStep == TranslatorInvariant /\ [Next]_vars => TranslatorInvariant'
<1> SUFFICES ASSUME TranslatorInvariant, [Next]_vars PROVE TranslatorInvariant'
  OBVIOUS
<1>1. CASE UNCHANGED vars
  BY <1>1, PassStep DEF vars, TranslatorInvariant, TypeOK
<1>2. CASE Begin \/ ExtensionPart
  BY <1>2, PassStep DEF Begin, ExtensionPart, Reject
<1>3. CASE EndMessages \/ Finish
  BY <1>3, PassStep DEF EndMessages, Finish
<1>4. CASE TextPart
  BY <1>4, TextStep
<1>5. CASE CallPart \/ ResultPart
  BY <1>5, StructuredStep DEF CallPart, ResultPart
<1>6. CASE EndMessage
  BY <1>6, EndMessageStep
<1>7. CASE TranslateTool
  BY <1>7, ToolStep
<1> QED BY <1>1, <1>2, <1>3, <1>4, <1>5, <1>6, <1>7 DEF Next

\* Every variable of the translation keeps its type.
THEOREM TranslationTypeCorrect == Spec => []TypeOK
<1>1. TranslatorInvariant => TypeOK
  BY DEF TranslatorInvariant
<1> QED BY <1>1, InitTranslation, TranslationStep, PTL DEF Spec

\* For every request and every cap, translateRequest builds at most that many
\* items, none of them an empty message or a tool's text (flushText,
\* translateMessages).
THEOREM InputIsWellFormed == Spec => []WellFormedInput
<1>1. TranslatorInvariant => WellFormedInput
  BY DEF TranslatorInvariant, TypeOK, WellFormed, WellFormedInput
<1> QED BY <1>1, InitTranslation, TranslationStep, PTL DEF Spec

-----------------------------------------------------------------------------
(* What the operators that read a conversation off parts and items return. *)

\* The words of a conversation.
Word ==
       (Roles \X Byte)
  \cup ({"function_call", "function_call_output"} \X CallIDs)
  \cup {<<"extension">>}

LEMMA SaidNothing == ASSUME NEW role PROVE Said(role, << >>) = << >>
<1>1. DOMAIN << >> = {}
  OBVIOUS
<1> QED BY <1>1 DEF Said

LEMMA SaidFacts ==
  ASSUME NEW role \in Roles, NEW a \in Seq(Byte), NEW b \in Seq(Byte)
  PROVE  /\ Said(role, a) \in Seq(Word)
         /\ Said(role, a \o b) = Said(role, a) \o Said(role, b)
<1>1. ASSUME NEW bytes \in Seq(Byte)
      PROVE  /\ Said(role, bytes) \in Seq(Word) /\ Len(Said(role, bytes)) = Len(bytes)
             /\ \A i \in 1 .. Len(bytes) : Said(role, bytes)[i] = <<role, bytes[i]>>
  <2> DEFINE n == Len(bytes)
  <2>1. n \in Nat /\ DOMAIN bytes = 1 .. n
    BY LenProperties
  <2>2. \A i \in 1 .. n : <<role, bytes[i]>> \in Word
    BY ElementOfSeq DEF Word
  <2>3. Said(role, bytes) = [i \in 1 .. n |-> <<role, bytes[i]>>]
    BY <2>1 DEF Said
  <2> HIDE DEF n
  <2>4. [i \in 1 .. n |-> <<role, bytes[i]>>] \in Seq(Word) /\ Len([i \in 1 .. n |-> <<role, bytes[i]>>]) = n
    BY <2>1, <2>2
  <2> QED BY <2>3, <2>4 DEF n
<1> DEFINE c == a \o b
           sa == Said(role, a)
           sb == Said(role, b)
           sc == Said(role, c)
           d == sa \o sb
<1>2. /\ c \in Seq(Byte) /\ Len(a) \in Nat /\ Len(b) \in Nat
      /\ Len(c) = Len(a) + Len(b)
      /\ \A i \in 1 .. Len(a) + Len(b) : c[i] = IF i <= Len(a) THEN a[i] ELSE b[i - Len(a)]
  BY ConcatProperties, LenProperties
<1> HIDE DEF c
<1>3. /\ sa \in Seq(Word) /\ Len(sa) = Len(a) /\ \A i \in 1 .. Len(a) : sa[i] = <<role, a[i]>>
      /\ sb \in Seq(Word) /\ Len(sb) = Len(b) /\ \A i \in 1 .. Len(b) : sb[i] = <<role, b[i]>>
      /\ sc \in Seq(Word) /\ Len(sc) = Len(c) /\ \A i \in 1 .. Len(c) : sc[i] = <<role, c[i]>>
  BY <1>1, <1>2
<1> HIDE DEF sa, sb, sc
<1>4. /\ d \in Seq(Word) /\ Len(d) = Len(a) + Len(b)
      /\ \A i \in 1 .. Len(a) + Len(b) : d[i] = IF i <= Len(a) THEN sa[i] ELSE sb[i - Len(a)]
  <2>1. sa \in Seq(Word) /\ sb \in Seq(Word)
    BY <1>3
  <2>2. /\ d \in Seq(Word) /\ Len(d) = Len(sa) + Len(sb)
        /\ \A i \in 1 .. Len(sa) + Len(sb) : d[i] = IF i <= Len(sa) THEN sa[i] ELSE sb[i - Len(sa)]
    BY <2>1, ConcatProperties
  <2>3. Len(sa) = Len(a) /\ Len(sb) = Len(b)
    BY <1>3
  <2> HIDE DEF d
  <2> QED BY <2>2, <2>3
<1> HIDE DEF d
<1>5. ASSUME NEW i \in 1 .. Len(c) PROVE sc[i] = d[i]
  <2>1. CASE i <= Len(a)
    <3>1. i \in 1 .. Len(a)
      BY <1>2, <2>1
    <3> QED BY <1>2, <1>3, <1>4, <2>1, <3>1
  <2>2. CASE ~(i <= Len(a))
    <3>1. i - Len(a) \in 1 .. Len(b)
      BY <1>2, <2>2
    <3> QED BY <1>2, <1>3, <1>4, <2>2, <3>1
  <2> QED BY <2>1, <2>2
<1>6. sc = d
  BY <1>2, <1>3, <1>4, <1>5, SeqEqual
<1> QED BY <1>3, <1>6 DEF sa, sb, sc, c, d

LEMMA ContentTypes ==
  /\ \A role \in Roles, value \in Part : PartContent(role, value) \in Seq(Word)
  /\ \A item \in InputItem : ItemContent(item) \in Seq(Word)
<1>1. ASSUME NEW w \in Word PROVE <<w>> \in Seq(Word)
  OBVIOUS
<1>2. ASSUME NEW role \in Roles, NEW value \in Part PROVE PartContent(role, value) \in Seq(Word)
  <2>1. CASE value \in [kind : {"text"}, text : Seq(Byte) \ {<< >>}]
    <3>1. value.kind = "text" /\ value.text \in Seq(Byte)
      BY <2>1
    <3>2. PartContent(role, value) = Said(role, value.text)
      BY <3>1 DEF PartContent
    <3> QED BY <3>1, <3>2, SaidFacts
  <2>2. CASE value \in [kind : {"tool_call", "tool_result"}, id : CallIDs]
    <3>1. value.kind \in {"tool_call", "tool_result"} /\ value.id \in CallIDs
      BY <2>2
    <3>2. PartContent(role, value) \in {<< <<"function_call", value.id>> >>, << <<"function_call_output", value.id>> >>}
      BY <3>1 DEF PartContent
    <3>3. <<"function_call", value.id>> \in Word /\ <<"function_call_output", value.id>> \in Word
      BY <3>1 DEF Word
    <3> QED BY <1>1, <3>2, <3>3
  <2>3. CASE value \in [kind : {"extension"}]
    <3>1. value.kind = "extension"
      BY <2>3
    <3>2. PartContent(role, value) = << <<"extension">> >>
      BY <3>1 DEF PartContent
    <3>3. <<"extension">> \in Word
      BY DEF Word
    <3> QED BY <1>1, <3>2, <3>3
  <2> QED BY <2>1, <2>2, <2>3 DEF Part
<1>3. ASSUME NEW item \in InputItem PROVE ItemContent(item) \in Seq(Word)
  <2>1. CASE item \in [type : {"message"}, role : Roles, text : Seq(Byte)]
    <3>1. item.type = "message" /\ item.role \in Roles /\ item.text \in Seq(Byte)
      BY <2>1
    <3> QED BY <3>1, SaidFacts DEF ItemContent
  <2>2. CASE item \in [type : {"function_call", "function_call_output"}, id : CallIDs]
    <3>1. item.type \in {"function_call", "function_call_output"} /\ item.id \in CallIDs
      BY <2>2
    <3>2. <<item.type, item.id>> \in Word
      BY <3>1 DEF Word
    <3>3. ItemContent(item) = << <<item.type, item.id>> >>
      BY <3>1 DEF ItemContent
    <3> QED BY <1>1, <3>2, <3>3
  <2> QED BY <2>1, <2>2 DEF InputItem
<1> QED BY <1>2, <1>3

LEMMA PartsContentFacts ==
  ASSUME NEW value \in Message, NEW n \in 0 .. Len(value.parts) - 1
  PROVE  /\ PartsContent(value, n) \in Seq(Word)
         /\ PartContent(value.role, value.parts[n + 1]) \in Seq(Word)
         /\ PartsContent(value, n + 1) =
              PartsContent(value, n) \o PartContent(value.role, value.parts[n + 1])
<1> DEFINE N == Len(value.parts)
           f == [j \in 1 .. N |-> PartContent(value.role, value.parts[j])]
<1>1. value.role \in Roles /\ value.parts \in Seq(Part) /\ N \in Nat
  BY LenProperties DEF Message
<1>2. \A j \in 1 .. N : f[j] \in Seq(Word)
  BY <1>1, ContentTypes, ElementOfSeq
<1>3. n \in Nat /\ \A j \in 1 .. n + 1 : j \in 1 .. N
  BY <1>1
<1>4. PartsContent(value, n) = FlattenSeq([j \in 1 .. n |-> f[j]])
  <2>1. [j \in 1 .. n |-> f[j]] = [j \in 1 .. n |-> PartContent(value.role, value.parts[j])]
    BY <1>3
  <2> QED BY <2>1 DEF PartsContent
<1>5. PartsContent(value, n + 1) = FlattenSeq([j \in 1 .. n + 1 |-> f[j]])
  <2>1. [j \in 1 .. n + 1 |-> f[j]] = [j \in 1 .. n + 1 |-> PartContent(value.role, value.parts[j])]
    BY <1>3
  <2> QED BY <2>1 DEF PartsContent
<1>6. f[n + 1] = PartContent(value.role, value.parts[n + 1])
  BY <1>3
<1> HIDE DEF f, N
<1>7. \A j \in 1 .. n + 1 : f[j] \in Seq(Word)
  BY <1>2, <1>3
<1>8. n + 1 \in 1 .. n + 1
  BY <1>3
<1> QED BY <1>3, <1>4, <1>5, <1>6, <1>7, <1>8, FlattenGrows

LEMMA NoPartsContent == ASSUME NEW value PROVE PartsContent(value, 0) = << >>
<1> DEFINE q == [j \in 1 .. 0 |-> PartContent(value.role, value.parts[j])]
<1>1. q = << >> /\ Len(q) = 0
  OBVIOUS
<1> HIDE DEF q
<1>2. FlattenSeq(q) = << >>
  BY <1>1, FlattenEmpty
<1> QED BY <1>2 DEF PartsContent, q

LEMMA ItemsContentFacts ==
  ASSUME NEW list \in Seq(InputItem), NEW more \in Seq(InputItem)
  PROVE  /\ ItemsContent(list) \in Seq(Word)
         /\ ItemsContent(list \o more) = ItemsContent(list) \o ItemsContent(more)
<1> DEFINE T == Seq(Word)
           Contents(l) == [i \in 1 .. Len(l) |-> ItemContent(l[i])]
           a == Contents(list)
           b == Contents(more)
           both == list \o more
           c == Contents(both)
           d == a \o b
<1>1. ASSUME NEW l \in Seq(InputItem)
      PROVE  /\ Contents(l) \in Seq(T) /\ Len(Contents(l)) = Len(l)
             /\ \A i \in 1 .. Len(l) : Contents(l)[i] = ItemContent(l[i])
             /\ ItemsContent(l) = FlattenSeq(Contents(l))
  <2>1. Len(l) \in Nat /\ DOMAIN l = 1 .. Len(l)
    BY LenProperties
  <2>2. \A i \in 1 .. Len(l) : ItemContent(l[i]) \in T
    BY ElementOfSeq, ContentTypes
  <2>3. ItemsContent(l) = FlattenSeq(Contents(l))
    BY <2>1 DEF ItemsContent
  <2> DEFINE n == Len(l)
  <2> HIDE DEF T, n
  <2>4. [i \in 1 .. n |-> ItemContent(l[i])] \in Seq(T) /\ Len([i \in 1 .. n |-> ItemContent(l[i])]) = n
    BY <2>1, <2>2 DEF n
  <2> QED BY <2>3, <2>4 DEF n
<1>2. /\ both \in Seq(InputItem) /\ Len(list) \in Nat /\ Len(more) \in Nat
      /\ Len(both) = Len(list) + Len(more)
      /\ \A i \in 1 .. Len(list) + Len(more) :
           both[i] = IF i <= Len(list) THEN list[i] ELSE more[i - Len(list)]
  BY ConcatProperties, LenProperties
<1> HIDE DEF both, Contents, T
<1>3. /\ a \in Seq(T) /\ Len(a) = Len(list) /\ \A i \in 1 .. Len(list) : a[i] = ItemContent(list[i])
      /\ b \in Seq(T) /\ Len(b) = Len(more) /\ \A i \in 1 .. Len(more) : b[i] = ItemContent(more[i])
      /\ c \in Seq(T) /\ Len(c) = Len(both) /\ \A i \in 1 .. Len(both) : c[i] = ItemContent(both[i])
      /\ ItemsContent(list) = FlattenSeq(a) /\ ItemsContent(more) = FlattenSeq(b)
      /\ ItemsContent(both) = FlattenSeq(c)
  BY <1>1, <1>2
<1> HIDE DEF a, b, c
<1>4. /\ d \in Seq(T) /\ Len(d) = Len(list) + Len(more)
      /\ \A i \in 1 .. Len(list) + Len(more) : d[i] = IF i <= Len(list) THEN a[i] ELSE b[i - Len(list)]
  <2>1. /\ d \in Seq(T) /\ Len(d) = Len(a) + Len(b)
        /\ \A i \in 1 .. Len(a) + Len(b) : d[i] = IF i <= Len(a) THEN a[i] ELSE b[i - Len(a)]
    <3>1. a \in Seq(T) /\ b \in Seq(T)
      BY <1>3
    <3> QED BY <3>1, ConcatProperties
  <2>2. Len(a) = Len(list) /\ Len(b) = Len(more)
    BY <1>3
  <2> HIDE DEF d
  <2> QED BY <2>1, <2>2
<1> HIDE DEF d
<1>5. ASSUME NEW i \in 1 .. Len(both) PROVE c[i] = d[i]
  <2>1. CASE i <= Len(list)
    <3>1. i \in 1 .. Len(list)
      BY <1>2, <2>1
    <3> QED BY <1>2, <1>3, <1>4, <2>1, <3>1
  <2>2. CASE ~(i <= Len(list))
    <3>1. i - Len(list) \in 1 .. Len(more)
      BY <1>2, <2>2
    <3> QED BY <1>2, <1>3, <1>4, <2>2, <3>1
  <2> QED BY <2>1, <2>2
<1>6. c = d
  BY <1>2, <1>3, <1>4, <1>5, SeqEqual
<1>7. FlattenSeq(a) \in Seq(Word) /\ FlattenSeq(a \o b) = FlattenSeq(a) \o FlattenSeq(b)
  BY <1>3, FlattenConcat DEF T
<1> QED BY <1>3, <1>6, <1>7 DEF both, d

LEMMA OneItem ==
  ASSUME NEW item \in InputItem
  PROVE  ItemsContent(<<item>>) = ItemContent(item)
<1> DEFINE q == [i \in DOMAIN <<item>> |-> ItemContent(<<item>>[i])]
           x == ItemContent(item)
<1>1. x \in Seq(Word)
  BY ContentTypes
<1>2. q = <<x>>
  OBVIOUS
<1> HIDE DEF q, x
<1>3. FlattenSeq(q) = x
  BY <1>1, <1>2, FlattenOne
<1> QED BY <1>3 DEF ItemsContent, q, x

LEMMA NoItems == ItemsContent(<< >>) = << >>
<1> DEFINE q == [i \in DOMAIN << >> |-> ItemContent(<< >>[i])]
<1>1. q = << >> /\ Len(q) = 0
  OBVIOUS
<1> HIDE DEF q
<1>2. FlattenSeq(q) = << >>
  BY <1>1, FlattenEmpty
<1> QED BY <1>2 DEF ItemsContent, q

\* An item appended appends its content.
LEMMA ItemAppended ==
  ASSUME NEW list \in Seq(InputItem), NEW item \in InputItem
  PROVE  ItemsContent(Append(list, item)) = ItemsContent(list) \o ItemContent(item)
<1> DEFINE one == <<item>>
<1>1. one \in Seq(InputItem) /\ Append(list, item) = list \o one
  BY AppendIsConcat
<1> HIDE DEF one
<1>2. ItemsContent(list \o one) = ItemsContent(list) \o ItemsContent(one)
  BY <1>1, ItemsContentFacts
<1> QED BY <1>1, <1>2, OneItem DEF one

-----------------------------------------------------------------------------
(* The conversation is kept.                                               *)

Before ==
  FlattenSeq([i \in 1 .. at |-> PartsContent(request.messages[i], Len(request.messages[i].parts))])
Current  == IF InMessage THEN PartsContent(message, done) ELSE << >>
Buffered == IF InMessage THEN Said(message.role, text) ELSE << >>

\* What is kept besides the conversation: nothing is buffered between messages.
ConversationInvariant ==
  phase # "rejected" =>
    /\ Before \o Current = ItemsContent(items) \o ItemsContent(own) \o Buffered
    /\ InMessage => done <= Len(message.parts)
    /\ ~InMessage => own = << >> /\ text = << >>
    /\ phase = "start" => at = 0 /\ done = 0

\* Before a message, the next one is empty: a message, begun, adds nothing yet.
LEMMA NothingBegun ==
  ASSUME done = 0, text = << >>
  PROVE  Current = << >> /\ Buffered = << >>
<1>1. Current = << >>
  BY NoPartsContent DEF Current
<1>2. Buffered = << >>
  BY SaidNothing DEF Buffered
<1> QED BY <1>1, <1>2

LEMMA BeforeGrows ==
  ASSUME TypeOK, InMessage
  PROVE  LET M(i) == PartsContent(request.messages[i], Len(request.messages[i].parts))
         IN  /\ Before \in Seq(Word)
             /\ FlattenSeq([i \in 1 .. at + 1 |-> M(i)]) = Before \o M(at + 1)
<1> DEFINE M(i) == PartsContent(request.messages[i], Len(request.messages[i].parts))
           f == [i \in 1 .. at + 1 |-> M(i)]
<1>1. request.messages \in Seq(Message) /\ at \in Nat /\ at < Len(request.messages)
  BY DEF TypeOK, Request, InMessage
<1>2. ASSUME NEW value \in Message, NEW n \in Nat, n = Len(value.parts)
      PROVE  PartsContent(value, n) \in Seq(Word)
  <2>1. CASE n = 0
    <3>1. PartsContent(value, 0) = << >> /\ << >> \in Seq(Word)
      BY NoPartsContent, EmptySeq
    <3> QED BY <2>1, <3>1
  <2>2. CASE n # 0
    <3>1. n - 1 \in 0 .. Len(value.parts) - 1 /\ (n - 1) + 1 = n
      BY <1>2, <2>2
    <3> DEFINE k == n - 1
    <3>2. k \in 0 .. Len(value.parts) - 1 /\ k + 1 = n
      BY <3>1
    <3> HIDE DEF k
    <3>3. /\ PartsContent(value, k) \in Seq(Word)
          /\ PartContent(value.role, value.parts[k + 1]) \in Seq(Word)
          /\ PartsContent(value, k + 1) =
               PartsContent(value, k) \o PartContent(value.role, value.parts[k + 1])
      BY <3>2, PartsContentFacts
    <3> DEFINE x == PartsContent(value, k)
               y == PartContent(value.role, value.parts[k + 1])
    <3>4. x \in Seq(Word) /\ y \in Seq(Word) /\ PartsContent(value, n) = x \o y
      BY <3>2, <3>3
    <3> HIDE DEF x, y
    <3> QED BY <3>4, ConcatProperties
  <2> QED BY <2>1, <2>2
<1>3. ASSUME NEW i \in 1 .. at + 1 PROVE f[i] \in Seq(Word) /\ f[i] = M(i)
  <2>1. request.messages[i] \in Message
    BY <1>1
  <2> DEFINE value == request.messages[i]
             n == Len(value.parts)
  <2>2. value \in Message /\ n \in Nat
    BY <2>1, LenProperties DEF Message
  <2> HIDE DEF value, n
  <2>3. PartsContent(value, n) \in Seq(Word)
    BY <2>2, <1>2 DEF n
  <2> QED BY <2>3 DEF value, n
<1>4. Before = FlattenSeq([i \in 1 .. at |-> f[i]])
  <2>1. [i \in 1 .. at |-> f[i]] = [i \in 1 .. at |-> M(i)]
    BY <1>1
  <2> QED BY <2>1 DEF Before
<1>5. FlattenSeq([i \in 1 .. at + 1 |-> M(i)]) = FlattenSeq([i \in 1 .. at + 1 |-> f[i]])
  <2>1. [i \in 1 .. at + 1 |-> f[i]] = [i \in 1 .. at + 1 |-> M(i)]
    OBVIOUS
  <2> QED BY <2>1
<1>6. at + 1 \in 1 .. at + 1
  BY <1>1
<1>7. f[at + 1] = M(at + 1)
  BY <1>3, <1>6
<1>8. \A i \in 1 .. at + 1 : f[i] \in Seq(Word)
  BY <1>3
<1> HIDE DEF f
<1>9. /\ FlattenSeq([i \in 1 .. at |-> f[i]]) \in Seq(Word)
      /\ FlattenSeq([i \in 1 .. at + 1 |-> f[i]]) = FlattenSeq([i \in 1 .. at |-> f[i]]) \o f[at + 1]
  BY <1>1, <1>8, FlattenGrows
<1> HIDE DEF M
<1>10. FlattenSeq([i \in 1 .. at + 1 |-> M(i)]) = Before \o M(at + 1)
  BY <1>4, <1>5, <1>7, <1>9
<1>11. Before \in Seq(Word)
  BY <1>4, <1>9
<1> QED BY <1>10, <1>11 DEF M

\* Flushing turns the buffered text into items.
LEMMA FlushedContent ==
  ASSUME TranslatorInvariant, InMessage
  PROVE  /\ Flushed \in Seq(InputItem)
         /\ Said(message.role, text) \in Seq(Word)
         /\ ItemsContent(own) \in Seq(Word)
         /\ ItemsContent(Flushed) = ItemsContent(own) \o Said(message.role, text)
<1>1. message.role \in Roles /\ text \in Seq(Byte) /\ own \in Seq(InputItem)
  BY MessageType DEF TranslatorInvariant, TypeOK
<1>2. Said(message.role, text) \in Seq(Word)
  BY <1>1, SaidFacts
<1>3. ItemsContent(own) \in Seq(Word)
  BY <1>1, ItemsContentFacts
<1>4. CASE text = << >>
  <2>1. Flushed = own /\ Said(message.role, text) = << >>
    BY <1>4, SaidNothing DEF Flushed
  <2>2. ItemsContent(own) \o << >> = ItemsContent(own)
    BY <1>3, ConcatEmptySeq
  <2> QED BY <1>1, <1>2, <1>3, <2>1, <2>2
<1>5. CASE text # << >>
  <2> DEFINE item == [type |-> "message", role |-> message.role, text |-> text]
  <2>1. item \in InputItem
    BY <1>1 DEF InputItem
  <2>2. Flushed = Append(own, item)
    BY <1>5 DEF Flushed
  <2>3. ItemContent(item) = Said(message.role, text)
    BY DEF ItemContent
  <2> HIDE DEF item
  <2>4. ItemsContent(Append(own, item)) = ItemsContent(own) \o ItemContent(item)
    BY <1>1, <2>1, ItemAppended
  <2>5. Append(own, item) \in Seq(InputItem)
    BY <1>1, <2>1
  <2> QED BY <1>2, <1>3, <2>2, <2>3, <2>4, <2>5
<1> QED BY <1>4, <1>5

\* The words of the finished items, of the message's items, and of its text.
LEMMA WordTypes ==
  ASSUME TranslatorInvariant, InMessage, done < Len(message.parts)
  PROVE  /\ PartsContent(message, done) \in Seq(Word)
         /\ PartContent(message.role, part) \in Seq(Word)
         /\ PartsContent(message, done + 1) = PartsContent(message, done) \o PartContent(message.role, part)
<1>1. message \in Message /\ done \in 0 .. Len(message.parts) - 1
  <2>1. message \in Message /\ message.parts \in Seq(Part) /\ done \in Nat
    BY MessageType DEF TranslatorInvariant, TypeOK
  <2>2. Len(message.parts) \in Nat
    BY <2>1, LenProperties
  <2> QED BY <2>1, <2>2
<1> QED BY <1>1, PartsContentFacts DEF part

\* A part whose words are appended to what is buffered or built.
LEMMA PartKept ==
  ASSUME TranslatorInvariant, ConversationInvariant, InPart,
         UNCHANGED <<request, phase, at>>, done' = done + 1,
         ItemsContent(items') \o ItemsContent(own') \o Said(message.role, text')
           = (ItemsContent(items) \o ItemsContent(own) \o Said(message.role, text))
               \o PartContent(message.role, part)
  PROVE  ConversationInvariant'
<1> DEFINE P == Before
           C == PartsContent(message, done)
           W == PartContent(message.role, part)
<1>1. InMessage /\ done < Len(message.parts) /\ phase = "messages" /\ done \in Nat
  BY DEF InPart, InMessage, TranslatorInvariant, TypeOK
<1>2. message' = message /\ InMessage' /\ phase' = "messages"
  BY <1>1 DEF message, InMessage
<1>3. Before' = Before
  BY DEF Before
<1>4. Current = C /\ Buffered = Said(message.role, text)
  BY <1>1 DEF Current, Buffered
<1>5. Current' = PartsContent(message, done + 1) /\ Buffered' = Said(message.role, text')
  <2>1. Current' = PartsContent(message', done')
    BY <1>2 DEF Current, PartsContent, PartContent, Said
  <2>2. Buffered' = Said((message.role)', text')
    BY <1>2 DEF Buffered, Said
  <2>3. (message.role)' = message.role
    BY <1>2
  <2> QED BY <1>2, <2>1, <2>2, <2>3
<1>6. C \in Seq(Word) /\ W \in Seq(Word) /\ PartsContent(message, done + 1) = C \o W
  BY <1>1, WordTypes
<1>7. P \in Seq(Word)
  BY <1>1, BeforeGrows DEF TranslatorInvariant
<1>8. P \o C = ItemsContent(items) \o ItemsContent(own) \o Said(message.role, text)
  BY <1>1, <1>4 DEF ConversationInvariant
<1>9. (P \o C) \o W = P \o (C \o W)
  <2> HIDE DEF P, C, W
  <2> QED BY <1>6, <1>7, ConcatAssociative, SMTT(30)
<1>10. Before' \o Current' = P \o (C \o W)
  BY <1>3, <1>5, <1>6
<1>11. ItemsContent(items') = (ItemsContent(items))' /\ ItemsContent(own') = (ItemsContent(own))'
  BY DEF ItemsContent, ItemContent, Said
<1>12. (Before \o Current)' = (ItemsContent(items) \o ItemsContent(own) \o Buffered)'
  BY <1>5, <1>8, <1>9, <1>10, <1>11
<1>13. (done <= Len(message.parts))'
  <2>1. Len(message.parts) \in Nat
    BY MessageType, LenProperties DEF TranslatorInvariant, InPart
  <2> QED BY <1>1, <1>2, <2>1
<1> QED BY <1>2, <1>12, <1>13 DEF ConversationInvariant

LEMMA TextKept ==
  ASSUME TranslatorInvariant, ConversationInvariant, TextPart
  PROVE  ConversationInvariant'
<1> DEFINE I == ItemsContent(items)
           O == ItemsContent(own)
           X == Said(message.role, text)
           W == Said(message.role, part.text)
<1>1. /\ InPart /\ InMessage /\ part.kind = "text" /\ text' = text \o part.text /\ done' = done + 1
      /\ UNCHANGED <<request, phase, at, own, items, tools>>
  BY DEF TextPart, InPart
<1>2. message.role \in Roles /\ part.text \in Seq(Byte) /\ text \in Seq(Byte) /\ items \in Seq(InputItem)
  BY <1>1, MessageType, PartType DEF TranslatorInvariant, TypeOK
<1>3. Said(message.role, text') = X \o W /\ W \in Seq(Word)
  BY <1>1, <1>2, SaidFacts
<1>4. PartContent(message.role, part) = W
  BY <1>1 DEF PartContent
<1>5. I \in Seq(Word) /\ O \in Seq(Word) /\ X \in Seq(Word)
  BY <1>1, <1>2, FlushedContent, ItemsContentFacts
<1>6. ItemsContent(items') = I /\ ItemsContent(own') = O
  BY <1>1
<1> HIDE DEF I, O, X, W
<1>7. I \o O \in Seq(Word)
  BY <1>5, ConcatProperties
<1>8. (I \o O) \o (X \o W) = ((I \o O) \o X) \o W
  BY <1>3, <1>5, <1>7, ConcatAssociative, SMTT(30)
<1>9. ItemsContent(items') \o ItemsContent(own') \o Said(message.role, text')
           = (ItemsContent(items) \o ItemsContent(own) \o Said(message.role, text))
               \o PartContent(message.role, part)
  BY <1>3, <1>4, <1>6, <1>8 DEF I, O, X
<1> QED BY <1>1, <1>9, PartKept

LEMMA StructuredKept ==
  ASSUME TranslatorInvariant, ConversationInvariant,
         NEW kind \in {"tool_call", "tool_result"}, NEW role, NEW type,
         <<kind, type>> \in {<<"tool_call", "function_call">>, <<"tool_result", "function_call_output">>},
         Structured(kind, role, type)
  PROVE  ConversationInvariant'
<1>1. CASE Reject
  BY <1>1 DEF Reject, ConversationInvariant
<1>2. CASE ~Reject
  <2> DEFINE I == ItemsContent(items)
             O == ItemsContent(own)
             X == Said(message.role, text)
             item == [type |-> type, id |-> part.id]
             W == ItemContent(item)
             F == ItemsContent(Flushed)
  <2>1. /\ InPart /\ InMessage /\ part.kind = kind /\ own' = Append(Flushed, item)
        /\ text' = << >> /\ done' = done + 1
        /\ UNCHANGED <<request, phase, at, items, tools>>
    BY <1>2 DEF Structured, InPart
  <2>2. part.id \in CallIDs /\ items \in Seq(InputItem)
    BY <2>1, PartType DEF TranslatorInvariant, TypeOK
  <2>3. item \in InputItem /\ W = << <<type, part.id>> >>
    BY <2>2 DEF InputItem, ItemContent
  <2>4. PartContent(message.role, part) = W
    BY <2>1, <2>3 DEF PartContent
  <2>5. Flushed \in Seq(InputItem) /\ X \in Seq(Word) /\ O \in Seq(Word) /\ F = O \o X
    BY <2>1, FlushedContent
  <2> HIDE DEF item
  <2>6. ItemsContent(own') = F \o W
    BY <2>1, <2>3, <2>5, ItemAppended
  <2>7. I \in Seq(Word)
    BY <2>2, ItemsContentFacts
  <2>8. W \in Seq(Word)
    BY <2>3, ContentTypes
  <2>9. Said(message.role, text') = << >> /\ ItemsContent(items') = I
    BY <2>1, SaidNothing
  <2> HIDE DEF I, O, X, W, F
  <2>10. /\ (I \o O) \o X = I \o F
         /\ F \in Seq(Word)
    <3>1. O \o X \in Seq(Word)
      BY <2>5, ConcatProperties
    <3> QED BY <2>5, <2>7, <3>1, ConcatAssociative, SMTT(30)
  <2>11. (I \o F) \o W = I \o (F \o W)
    BY <2>7, <2>8, <2>10, ConcatAssociative, SMTT(30)
  <2>12. (I \o (F \o W)) \o << >> = I \o (F \o W)
    <3>1. F \o W \in Seq(Word)
      BY <2>8, <2>10, ConcatProperties
    <3> DEFINE y == F \o W
    <3>2. I \o y \in Seq(Word)
      <4>1. y \in Seq(Word)
        BY <3>1
      <4> HIDE DEF y
      <4> QED BY <4>1, <2>7, ConcatProperties
    <3> HIDE DEF y
    <3>3. (I \o y) \o << >> = I \o y
      BY <3>2, ConcatEmptySeq
    <3> QED BY <3>3 DEF y
  <2>13. ItemsContent(items') \o ItemsContent(own') \o Said(message.role, text')
           = (ItemsContent(items) \o ItemsContent(own) \o Said(message.role, text))
               \o PartContent(message.role, part)
    BY <2>4, <2>6, <2>9, <2>10, <2>11, <2>12 DEF I, O, X
  <2> QED BY <2>1, <2>13, PartKept
<1> QED BY <1>1, <1>2

LEMMA EndKept ==
  ASSUME TranslatorInvariant, ConversationInvariant, EndMessage
  PROVE  ConversationInvariant'
<1>1. CASE Reject
  BY <1>1 DEF Reject, ConversationInvariant
<1>2. CASE ~Reject
  <2> DEFINE P == Before
             C == PartsContent(message, done)
             I == ItemsContent(items)
             O == ItemsContent(own)
             X == Said(message.role, text)
             F == ItemsContent(Flushed)
             M(i) == PartsContent(request.messages[i], Len(request.messages[i].parts))
  <2>1. /\ InMessage /\ phase = "messages" /\ done = Len(message.parts)
        /\ items' = items \o Flushed
        /\ at' = at + 1 /\ done' = 0 /\ text' = << >> /\ own' = << >>
        /\ UNCHANGED <<request, phase, tools>>
    BY <1>2 DEF EndMessage, InMessage
  <2>2. items \in Seq(InputItem)
    BY DEF TranslatorInvariant, TypeOK
  <2>3. Flushed \in Seq(InputItem) /\ X \in Seq(Word) /\ O \in Seq(Word) /\ F = O \o X
    BY <2>1, FlushedContent
  <2>4. ItemsContent(items \o Flushed) = I \o F /\ I \in Seq(Word) /\ F \in Seq(Word)
    BY <2>2, <2>3, ItemsContentFacts
  <2>5. P \in Seq(Word) /\ FlattenSeq([i \in 1 .. at + 1 |-> M(i)]) = P \o M(at + 1)
    BY <2>1, BeforeGrows DEF TranslatorInvariant
  <2>6. M(at + 1) = C
    BY <2>1 DEF message
  <2>7. Before' = P \o C
    <3>1. Before' = FlattenSeq([i \in 1 .. at + 1 |-> M(i)])
      BY <2>1 DEF Before, PartsContent, PartContent, Said
    <3> QED BY <2>5, <2>6, <3>1
  <2>8. P \o C = (I \o O) \o X
    BY <2>1 DEF ConversationInvariant, Current, Buffered
  <2>9. Current' = << >> /\ Buffered' = << >>
    <3>1. PartsContent(message', 0) = << >> /\ Said((message.role)', << >>) = << >>
      BY NoPartsContent, SaidNothing
    <3> QED BY <2>1, <3>1 DEF Current, Buffered, PartsContent, PartContent, Said
  <2>10. (ItemsContent(items))' = I \o F /\ (ItemsContent(own))' = << >>
    <3>1. (ItemsContent(items))' = ItemsContent(items') /\ (ItemsContent(own))' = ItemsContent(own')
      BY DEF ItemsContent, ItemContent, Said
    <3> QED BY <2>1, <2>4, <3>1, NoItems
  <2>11. (I \o O) \o X = I \o F
    <3> HIDE DEF I, O, X, F
    <3> QED BY <2>3, <2>4, ConcatAssociative, SMTT(30)
  <2>12. I \o F \in Seq(Word)
    <3> HIDE DEF I, F
    <3> QED BY <2>4, ConcatProperties
  <2> DEFINE Y == I \o F
  <2>13. (Before \o Current)' = Y \o << >>
    BY <2>7, <2>8, <2>9, <2>11
  <2>14. (ItemsContent(items) \o ItemsContent(own) \o Buffered)' = (Y \o << >>) \o << >>
    BY <2>9, <2>10
  <2>15. Y \o << >> = Y
    <3>1. Y \in Seq(Word)
      BY <2>12
    <3> HIDE DEF Y
    <3> QED BY <3>1, ConcatEmptySeq
  <2>16. (Before \o Current)' = (ItemsContent(items) \o ItemsContent(own) \o Buffered)'
    BY <2>13, <2>14, <2>15
  <2>17. (InMessage => done <= Len(message.parts))'
    <3>1. ASSUME InMessage' PROVE (Len(message.parts))' \in Nat
      <4>1. /\ request'.messages \in Seq(Message) /\ at' \in Nat /\ at' < Len(request'.messages)
        BY <2>1, <3>1 DEF TranslatorInvariant, TypeOK, Request, InMessage
      <4>2. message' \in Message
        BY <4>1 DEF message
      <4> QED BY <4>2, LenProperties DEF Message
    <3> QED BY <2>1, <3>1
  <2> QED BY <2>1, <2>16, <2>17 DEF ConversationInvariant
<1> QED BY <1>1, <1>2

\* The steps outside of a message.
LEMMA BetweenKept ==
  ASSUME TranslatorInvariant, ConversationInvariant,
         phase \in {"start", "messages", "tools", "accepted"}, phase' \in {"messages", "tools", "accepted"},
         ~InMessage, phase = "start" \/ ~InMessage',
         UNCHANGED <<request, translator, items>>
  PROVE  ConversationInvariant'
<1>1. /\ own = << >> /\ text = << >> /\ UNCHANGED <<request, at, done, text, own, items>>
      /\ phase = "start" => done = 0
  BY DEF ConversationInvariant, translator
<1>2. Current = << >> /\ Buffered = << >>
  BY DEF Current, Buffered
<1>3. Current' = << >> /\ Buffered' = << >>
  <2>1. CASE phase = "start"
    <3>1. PartsContent(message', 0) = << >> /\ Said((message.role)', << >>) = << >>
      BY NoPartsContent, SaidNothing
    <3> QED BY <1>1, <2>1, <3>1 DEF Current, Buffered, PartsContent, PartContent, Said
  <2>2. CASE ~InMessage'
    BY <2>2 DEF Current, Buffered
  <2> QED BY <2>1, <2>2
<1>4. /\ Before' = Before /\ (ItemsContent(items))' = ItemsContent(items)
      /\ (ItemsContent(own))' = ItemsContent(own)
  BY <1>1 DEF Before, ItemsContent
<1>5. (Before \o Current)' = (ItemsContent(items) \o ItemsContent(own) \o Buffered)'
  BY <1>2, <1>3, <1>4 DEF ConversationInvariant
<1>6. (InMessage => done <= Len(message.parts))'
  <2>1. SUFFICES ASSUME InMessage' PROVE (done <= Len(message.parts))'
    OBVIOUS
  <2>2. phase = "start" /\ done' = 0
    BY <1>1, <2>1
  <2>3. request'.messages \in Seq(Message) /\ at' \in Nat /\ at' < Len(request'.messages)
    BY <1>1, <2>1 DEF TranslatorInvariant, TypeOK, Request, InMessage
  <2>4. message' \in Message
    BY <2>3 DEF message
  <2> QED BY <2>2, <2>4, LenProperties DEF Message
<1> QED BY <1>1, <1>5, <1>6 DEF ConversationInvariant

LEMMA InitConversation == Init => ConversationInvariant
<1> SUFFICES ASSUME Init PROVE ConversationInvariant
  OBVIOUS
<1>1. ~InMessage /\ at = 0 /\ done = 0 /\ items = << >> /\ own = << >> /\ text = << >>
  BY DEF Init, InMessage
<1>2. Current = << >> /\ Buffered = << >>
  BY <1>1 DEF Current, Buffered
<1>3. ItemsContent(items) = << >> /\ ItemsContent(own) = << >>
  BY <1>1, NoItems
<1>4. Before = << >>
  <2> DEFINE q == [i \in 1 .. 0 |-> PartsContent(request.messages[i], Len(request.messages[i].parts))]
  <2>1. q = << >> /\ Len(q) = 0
    OBVIOUS
  <2> HIDE DEF q
  <2>2. FlattenSeq(q) = << >>
    BY <2>1, FlattenEmpty
  <2> QED BY <1>1, <2>2 DEF Before, q
<1> QED BY <1>1, <1>2, <1>3, <1>4 DEF ConversationInvariant

LEMMA ConversationStep ==
  TranslatorInvariant /\ ConversationInvariant /\ [Next]_vars => ConversationInvariant'
<1> SUFFICES ASSUME TranslatorInvariant, ConversationInvariant, [Next]_vars PROVE ConversationInvariant'
  OBVIOUS
<1>0. CASE Reject
  BY <1>0 DEF Reject, ConversationInvariant
<1>1. CASE UNCHANGED vars
  <2>1. UNCHANGED <<request, phase, at, done, text, own, items>>
    BY <1>1 DEF vars, translator
  <2>2. InMessage' = InMessage /\ message' = message
    BY <2>1 DEF InMessage, message
  <2>3. Before' = Before
    BY <2>1 DEF Before
  <2>4. Current' = Current
    BY <2>1, <2>2 DEF Current, PartsContent, PartContent, Said
  <2>5. Buffered' = Buffered
    BY <2>1, <2>2 DEF Buffered, Said
  <2>6. (ItemsContent(items))' = ItemsContent(items) /\ (ItemsContent(own))' = ItemsContent(own)
    BY <2>1 DEF ItemsContent, ItemContent, Said
  <2>7. (message.parts)' = message.parts
    BY <2>2
  <2> QED BY <2>1, <2>2, <2>3, <2>4, <2>5, <2>6, <2>7 DEF ConversationInvariant
<1>2. CASE Begin
  BY <1>0, <1>2, BetweenKept DEF Begin, InMessage
<1>3. CASE ExtensionPart
  BY <1>0, <1>3 DEF ExtensionPart
<1>4. CASE EndMessages
  BY <1>4, BetweenKept DEF EndMessages, InMessage
<1>5. CASE TextPart
  BY <1>5, TextKept
<1>6. CASE CallPart
  BY <1>6, StructuredKept DEF CallPart
<1>7. CASE ResultPart
  BY <1>7, StructuredKept DEF ResultPart
<1>8. CASE EndMessage
  BY <1>8, EndKept
<1>9. CASE TranslateTool
  <2>1. CASE Reject
    BY <1>0, <2>1
  <2>2. CASE ~Reject
    <3>1. phase = "tools" /\ UNCHANGED <<request, phase, translator, items>>
      BY <1>9, <2>2 DEF TranslateTool
    <3> QED BY <3>1, BetweenKept DEF InMessage
  <2> QED BY <2>1, <2>2
<1>10. CASE Finish
  <2>1. CASE phase' = "rejected"
    BY <2>1 DEF ConversationInvariant
  <2>2. CASE phase' # "rejected"
    <3>1. phase = "tools" /\ phase' = "accepted" /\ UNCHANGED <<request, translator, items>>
      BY <1>10, <2>2 DEF Finish
    <3> QED BY <3>1, BetweenKept DEF InMessage
  <2> QED BY <2>1, <2>2
<1> QED BY <1>1, <1>2, <1>3, <1>4, <1>5, <1>6, <1>7, <1>8, <1>9, <1>10 DEF Next

\* For every request, whatever its messages, while it is translated what was said
\* is neither lost, repeated, reordered nor attributed to another role
\* (translatePart, flushText, translateMessages).
THEOREM ConversationIsPreserved == Spec => []ConversationPreserved
<1>1. ConversationInvariant => ConversationPreserved
  BY DEF ConversationInvariant, ConversationPreserved, Conversation, Before, Current, Buffered
<1> QED BY <1>1, InitTranslation, TranslationStep, InitConversation, ConversationStep, PTL DEF Spec

-----------------------------------------------------------------------------
(* The runs of texts, calls and results, counted.                          *)

\* The runs among the first n parts.
RunsOf(value, n) == {j \in Runs(value) : j <= n}

LEMMA RunsGrow ==
  ASSUME NEW value \in Message, NEW n \in Nat, n < Len(value.parts)
  PROVE  /\ Cardinality(RunsOf(value, n)) \in Nat
         /\ Cardinality(RunsOf(value, n + 1)) =
              Cardinality(RunsOf(value, n))
                + (IF value.parts[n + 1].kind = "text" /\ n > 0 /\ value.parts[n].kind = "text"
                   THEN 0 ELSE 1)
<1> DEFINE S == RunsOf(value, n)
           T == RunsOf(value, n + 1)
<1>1. value.parts \in Seq(Part) /\ Len(value.parts) \in Nat /\ DOMAIN value.parts = 1 .. Len(value.parts)
  BY LenProperties DEF Message
<1>2. Runs(value) \subseteq 1 .. Len(value.parts)
  BY <1>1 DEF Runs
<1>3. IsFiniteSet(S)
  <2>1. IsFiniteSet(1 .. n)
    BY FS_Interval
  <2>2. S \in SUBSET (1 .. n)
    BY <1>1, <1>2 DEF RunsOf
  <2> QED BY <2>1, <2>2, FS_Subset
<1>4. ~(n + 1 \in S)
  BY DEF RunsOf
<1>5. n + 1 \in Runs(value) <=> ~(value.parts[n + 1].kind = "text" /\ n > 0 /\ value.parts[n].kind = "text")
  <2>1. n + 1 \in DOMAIN value.parts /\ (n + 1) - 1 = n /\ (n + 1 > 1 <=> n > 0)
    BY <1>1
  <2> QED BY <2>1 DEF Runs
<1>6. CASE n + 1 \in Runs(value)
  <2>1. T = S \cup {n + 1}
    BY <1>1, <1>2, <1>6 DEF RunsOf
  <2> HIDE DEF S, T
  <2>2. Cardinality(T) = Cardinality(S) + 1
    BY <1>3, <1>4, <2>1, FS_AddElement
  <2>3. Cardinality(S) \in Nat
    BY <1>3, FS_CardinalityType
  <2> QED BY <1>5, <1>6, <2>2, <2>3 DEF S, T
<1>7. CASE ~(n + 1 \in Runs(value))
  <2>1. T = S
    BY <1>1, <1>2, <1>7 DEF RunsOf
  <2> HIDE DEF S, T
  <2>2. Cardinality(S) \in Nat
    BY <1>3, FS_CardinalityType
  <2> QED BY <1>5, <1>7, <2>1, <2>2 DEF S, T
<1> QED BY <1>6, <1>7

LEMMA NoRuns ==
  /\ \A value \in Message : Cardinality(RunsOf(value, 0)) = 0
  /\ \A values : RunsUpTo(values, 0) = {} /\ Cardinality(RunsUpTo(values, 0)) = 0
<1>1. ASSUME NEW value \in Message PROVE Cardinality(RunsOf(value, 0)) = 0
  <2>1. DOMAIN value.parts = 1 .. Len(value.parts) /\ Len(value.parts) \in Nat
    BY LenProperties DEF Message
  <2>2. RunsOf(value, 0) = {}
    BY <2>1 DEF RunsOf, Runs
  <2> QED BY <2>2, FS_EmptySet
<1>2. ASSUME NEW values PROVE RunsUpTo(values, 0) = {} /\ Cardinality(RunsUpTo(values, 0)) = 0
  <2>1. RunsUpTo(values, 0) = {}
    <3>1. 1 .. 0 = {}
      OBVIOUS
    <3> QED BY <3>1 DEF RunsUpTo
  <2> QED BY <2>1, FS_EmptySet
<1> QED BY <1>1, <1>2

LEMMA RunsFacts ==
  ASSUME NEW value \in Message
  PROVE  /\ IsFiniteSet(Runs(value)) /\ Cardinality(Runs(value)) \in Nat
         /\ RunsOf(value, Len(value.parts)) = Runs(value)
<1>1. Len(value.parts) \in Nat /\ DOMAIN value.parts = 1 .. Len(value.parts)
  BY LenProperties DEF Message
<1>2. IsFiniteSet(1 .. Len(value.parts))
  <2> DEFINE N == Len(value.parts)
  <2>1. 1 \in Int /\ N \in Int
    BY <1>1
  <2> HIDE DEF N
  <2>2. IsFiniteSet(1 .. N)
    BY <2>1, FS_Interval
  <2> QED BY <2>2 DEF N
<1>3. Runs(value) \in SUBSET (1 .. Len(value.parts))
  BY <1>1 DEF Runs
<1>4. IsFiniteSet(Runs(value))
  BY <1>2, <1>3, FS_Subset
<1>5. RunsOf(value, Len(value.parts)) = Runs(value)
  BY <1>1, <1>3 DEF RunsOf
<1> QED BY <1>4, <1>5, FS_CardinalityType

\* Each message adds its own runs.
LEMMA RunsUpToGrows ==
  ASSUME NEW values \in Seq(Message), NEW n \in Nat, n < Len(values),
         IsFiniteSet(RunsUpTo(values, n))
  PROVE  /\ IsFiniteSet(RunsUpTo(values, n + 1))
         /\ Cardinality(RunsUpTo(values, n)) \in Nat
         /\ Cardinality(RunsUpTo(values, n + 1)) =
              Cardinality(RunsUpTo(values, n)) + Cardinality(Runs(values[n + 1]))
<1> DEFINE S == RunsUpTo(values, n)
           R == Runs(values[n + 1])
           P == {n + 1} \X R
<1>1. values[n + 1] \in Message
  OBVIOUS
<1>2. IsFiniteSet(R) /\ Cardinality(R) \in Nat
  BY <1>1, RunsFacts
<1>3. RunsUpTo(values, n + 1) = S \cup P
  <2>1. ASSUME NEW x PROVE x \in RunsUpTo(values, n + 1) <=> x \in S \cup P
    <3>1. 1 .. n + 1 = (1 .. n) \cup {n + 1}
      OBVIOUS
    <3>2. x \in RunsUpTo(values, n + 1) <=> \E i \in 1 .. n + 1 : x \in {i} \X Runs(values[i])
      BY DEF RunsUpTo
    <3>3. x \in S <=> \E i \in 1 .. n : x \in {i} \X Runs(values[i])
      BY DEF RunsUpTo
    <3> QED BY <3>1, <3>2, <3>3
  <2> QED BY <2>1
<1>4. S \cap P = {}
  <2>1. SUFFICES ASSUME NEW x \in S, x \in P PROVE FALSE
    OBVIOUS
  <2>2. PICK i \in 1 .. n : x \in {i} \X Runs(values[i])
    BY DEF RunsUpTo
  <2>3. x[1] = i /\ x[1] = n + 1
    BY <2>1, <2>2
  <2> QED BY <2>3
<1> HIDE DEF S, R, P
<1>5. IsFiniteSet({n + 1} \X R) /\ Cardinality({n + 1} \X R) = Cardinality(R)
  <2> DEFINE one == {n + 1}
  <2>1. IsFiniteSet(one) /\ Cardinality(one) = 1
    BY FS_Singleton
  <2> HIDE DEF one
  <2>2. IsFiniteSet(one \X R) /\ Cardinality(one \X R) = Cardinality(one) * Cardinality(R)
    BY <1>2, <2>1, FS_Product
  <2> QED BY <1>2, <2>1, <2>2 DEF one
<1>6. IsFiniteSet(S) /\ IsFiniteSet(P)
  BY <1>5 DEF S, P
<1>7. /\ IsFiniteSet(S \cup P)
      /\ Cardinality(S \cup P) = Cardinality(S) + Cardinality(P) - Cardinality(S \cap P)
  BY <1>6, FS_Union
<1>8. Cardinality(S \cap P) = 0 /\ Cardinality(S) \in Nat
  BY <1>4, <1>6, FS_EmptySet, FS_CardinalityType
<1>9. Cardinality(P) = Cardinality(R)
  BY <1>5 DEF P
<1>10. Cardinality(S \cup P) = Cardinality(S) + Cardinality(R)
  BY <1>2, <1>7, <1>8, <1>9
<1> QED BY <1>3, <1>7, <1>8, <1>10 DEF S, R

LEMMA RunsUpToFinite ==
  ASSUME NEW values \in Seq(Message)
  PROVE  \A n \in 0 .. Len(values) :
           IsFiniteSet(RunsUpTo(values, n)) /\ Cardinality(RunsUpTo(values, n)) \in Nat
<1> DEFINE T == {n \in Nat : n <= Len(values) => IsFiniteSet(RunsUpTo(values, n))}
<1>1. Len(values) \in Nat
  BY LenProperties
<1>2. 0 \in T
  <2>1. RunsUpTo(values, 0) = {}
    BY NoRuns
  <2> QED BY <2>1, FS_EmptySet
<1>3. ASSUME NEW n \in T PROVE n + 1 \in T
  <2>1. CASE n < Len(values)
    <3>1. IsFiniteSet(RunsUpTo(values, n))
      BY <1>1, <2>1
    <3>2. IsFiniteSet(RunsUpTo(values, n + 1))
      BY <2>1, <3>1, RunsUpToGrows
    <3> QED BY <3>2
  <2>2. CASE ~(n < Len(values))
    <3>1. ~(n + 1 <= Len(values))
      BY <1>1, <2>2
    <3> QED BY <3>1
  <2> QED BY <2>1, <2>2
<1>4. T \in SUBSET Nat
  OBVIOUS
<1>5. T = Nat
  <2> HIDE DEF T
  <2> QED BY <1>2, <1>3, <1>4, SetInduction
<1> QED BY <1>1, <1>5, FS_CardinalityType

LEMMA RunsUpToBound ==
  ASSUME NEW values \in Seq(Message), NEW n \in 0 .. Len(values)
  PROVE  /\ Cardinality(RunsUpTo(values, n)) <= ItemCount(values)
         /\ ItemCount(values) \in Nat
<1>1. Len(values) \in 0 .. Len(values)
  BY LenProperties
<1>2. RunsUpTo(values, n) \subseteq RunsUpTo(values, Len(values))
  <2>1. 1 .. n \subseteq 1 .. Len(values)
    BY <1>1
  <2> QED BY <2>1 DEF RunsUpTo
<1>3. /\ IsFiniteSet(RunsUpTo(values, Len(values)))
      /\ Cardinality(RunsUpTo(values, Len(values))) \in Nat
  BY <1>1, RunsUpToFinite
<1> QED BY <1>2, <1>3, FS_Subset DEF ItemCount

-----------------------------------------------------------------------------
(* What is accepted.                                                       *)

\* What is known of the messages translated: every part was fit to be sent, and
\* there is an item per run.
MessagesChecked ==
  /\ \A i \in 1 .. at : \A j \in 1 .. Len(request.messages[i].parts) :
       Sends(request.messages[i].role, request.messages[i].parts[j].kind)
  /\ Len(items) = Cardinality(RunsUpTo(request.messages, at))

\* Of the message in progress: a tool's text stays buffered, where it is found
\* at the next flush; the buffer holds the run that is not yet an item.
PartsChecked ==
  /\ \A j \in 1 .. done :
       Sends(message.role, message.parts[j].kind) \/ (message.parts[j].kind = "text" /\ text # << >>)
  /\ text # << >> <=> done > 0 /\ message.parts[done].kind = "text"
  /\ Len(own) + (IF text = << >> THEN 0 ELSE 1) = Cardinality(RunsOf(message, done))

ToolsChecked ==
  \A k \in 1 .. Len(tools) : request.tools[k].schema /\ tools[k] = request.tools[k].name

PhaseChecked ==
  /\ phase = "start" => at = 0
  /\ phase # "start" => request.model
  /\ phase \in {"start", "messages"} => tools = << >>
  /\ phase \in {"tools", "accepted"} => at = Len(request.messages)
  /\ phase = "accepted" => Len(tools) = Len(request.tools) /\ ~request.large

AcceptanceInvariant ==
  /\ phase = "rejected" => ~Acceptable(request)
  /\ phase # "rejected" =>
       MessagesChecked /\ (InMessage => PartsChecked) /\ ToolsChecked /\ PhaseChecked

\* A part that does not fit its role makes the request unacceptable.
LEMMA UnfitPart ==
  ASSUME TypeOK, InMessage, NEW j \in 1 .. Len(message.parts),
         ~Sends(message.role, message.parts[j].kind)
  PROVE  ~Acceptable(request)
<1>1. request.messages \in Seq(Message) /\ at \in Nat /\ at < Len(request.messages)
  BY DEF TypeOK, Request, InMessage
<1>2. at + 1 \in DOMAIN request.messages /\ j \in DOMAIN request.messages[at + 1].parts
  <2>1. message.parts \in Seq(Part)
    BY MessageType
  <2>2. DOMAIN message.parts = 1 .. Len(message.parts)
    BY <2>1, LenProperties
  <2> QED BY <1>1, <2>2 DEF message
<1> QED BY <1>2 DEF Acceptable, message

\* So does a text that cannot be flushed.
LEMMA UnfitText ==
  ASSUME TypeOK, InMessage, PartsChecked, done <= Len(message.parts), ~CanFlush
  PROVE  ~Acceptable(request)
<1>1. done \in 1 .. Len(message.parts) /\ message.parts[done].kind = "text" /\ message.role = "tool"
  BY MessageType, LenProperties DEF CanFlush, PartsChecked, TypeOK
<1>2. ~Sends(message.role, message.parts[done].kind)
  BY <1>1 DEF Sends
<1> QED BY <1>1, <1>2, UnfitPart

LEMMA FlushedLength ==
  ASSUME TypeOK, InMessage
  PROVE  /\ Len(own) \in Nat
         /\ Len(Flushed) = Len(own) + (IF text = << >> THEN 0 ELSE 1)
BY DEF Flushed, TypeOK

\* The request does not change, and nor does what is asked of it.
LEMMA RunsKept ==
  ASSUME request' = request, at' = at
  PROVE  RunsUpTo(request.messages, at)' = RunsUpTo(request.messages, at)
BY DEF RunsUpTo, Runs

LEMMA MessagesKept ==
  ASSUME request' = request, at' = at, items' = items, MessagesChecked
  PROVE  MessagesChecked'
<1>1. RunsUpTo(request.messages, at)' = RunsUpTo(request.messages, at)
  BY RunsKept
<1>2. (Len(items) = Cardinality(RunsUpTo(request.messages, at)))'
  BY <1>1 DEF MessagesChecked
<1>3. (\A i \in 1 .. at : \A j \in 1 .. Len(request.messages[i].parts) :
         Sends(request.messages[i].role, request.messages[i].parts[j].kind))'
  BY DEF MessagesChecked, Sends
<1> QED BY <1>2, <1>3 DEF MessagesChecked

LEMMA AcceptableKept ==
  ASSUME request' = request
  PROVE  Acceptable(request)' <=> Acceptable(request)
<1>1. ItemCount(request.messages)' = ItemCount(request.messages)
  BY DEF ItemCount, RunsUpTo, Runs
<1> QED BY <1>1 DEF Acceptable, Sends

LEMMA InitAcceptance == Init => AcceptanceInvariant
<1> SUFFICES ASSUME Init PROVE AcceptanceInvariant
  OBVIOUS
<1>1. /\ phase = "start" /\ at = 0 /\ items = << >> /\ tools = << >> /\ ~InMessage
  BY DEF Init, InMessage
<1>2. MessagesChecked
  BY <1>1, NoRuns DEF MessagesChecked
<1>3. ToolsChecked /\ PhaseChecked
  BY <1>1 DEF ToolsChecked, PhaseChecked
<1> QED BY <1>1, <1>2, <1>3 DEF AcceptanceInvariant

LEMMA RejectAcceptance ==
  ASSUME Reject, ~Acceptable(request)
  PROVE  AcceptanceInvariant'
<1>1. phase' = "rejected" /\ request' = request
  BY DEF Reject
<1>2. ~Acceptable(request)'
  BY <1>1, AcceptableKept
<1> QED BY <1>1, <1>2 DEF AcceptanceInvariant

\* A part of the message in progress that is done.
LEMMA PartChecked ==
  ASSUME TranslatorInvariant, AcceptanceInvariant, InPart,
         UNCHANGED <<request, phase, at, items, tools>>, done' = done + 1,
         PartsChecked'
  PROVE  AcceptanceInvariant'
<1>1. phase = "messages" /\ InMessage
  BY DEF InPart, InMessage
<1>2. MessagesChecked /\ ToolsChecked /\ PhaseChecked
  BY <1>1 DEF AcceptanceInvariant
<1>3. MessagesChecked'
  BY <1>2, MessagesKept
<1>4. ToolsChecked' /\ PhaseChecked'
  BY <1>2 DEF ToolsChecked, PhaseChecked
<1> QED BY <1>1, <1>3, <1>4 DEF AcceptanceInvariant

LEMMA NextRun ==
  ASSUME TypeOK, InPart
  PROVE  /\ Cardinality(RunsOf(message, done)) \in Nat
         /\ Cardinality(RunsOf(message, done + 1)) =
              Cardinality(RunsOf(message, done))
                + (IF part.kind = "text" /\ done > 0 /\ message.parts[done].kind = "text"
                   THEN 0 ELSE 1)
<1>1. message \in Message /\ done \in Nat /\ done < Len(message.parts)
  BY MessageType DEF InPart, TypeOK
<1>2. part = message.parts[done + 1]
  BY DEF part
<1> QED BY <1>1, <1>2, RunsGrow

LEMMA TextAcceptance ==
  ASSUME TranslatorInvariant, AcceptanceInvariant, TextPart
  PROVE  AcceptanceInvariant'
<1>1. /\ InPart /\ InMessage /\ part.kind = "text" /\ text' = text \o part.text /\ done' = done + 1
      /\ UNCHANGED <<request, phase, at, own, items, tools>>
  BY DEF TextPart, InPart
<1>2. PartsChecked /\ TypeOK
  BY <1>1 DEF AcceptanceInvariant, InMessage, TranslatorInvariant
<1>3. message' = message /\ part = message.parts[done + 1]
  BY <1>1 DEF message, part
<1>4. text' # << >>
  <2>1. part.text \in Seq(Byte) /\ part.text # << >> /\ text \in Seq(Byte)
    <3>1. part \in Part
      BY <1>1, <1>2, PartType
    <3> QED BY <1>1, <1>2, <3>1 DEF Part, TypeOK
  <2>2. Len(text) \in Nat /\ Len(part.text) \in Nat \ {0}
    BY <2>1, LenProperties, EmptySeq
  <2> DEFINE p == part.text
  <2>3. p \in Seq(Byte) /\ Len(p) > 0 /\ text' = text \o p
    BY <1>1, <2>1, <2>2
  <2> HIDE DEF p
  <2>4. Len(text') = Len(text) + Len(p)
    BY <2>1, <2>3, ConcatProperties
  <2>5. Len(text') # 0
    BY <2>2, <2>3, <2>4
  <2> QED BY <2>5, EmptySeq
<1>5. done \in Nat /\ done + 1 > 0
  BY <1>2 DEF TypeOK
<1>6. Cardinality(RunsOf(message, done + 1)) = Len(own) + 1
  <2>1. Len(own) \in Nat
    BY <1>1, <1>2, FlushedLength
  <2>2. Cardinality(RunsOf(message, done)) = Len(own) + (IF text = << >> THEN 0 ELSE 1)
    BY <1>2 DEF PartsChecked
  <2>3. text = << >> <=> ~(done > 0 /\ message.parts[done].kind = "text")
    BY <1>2 DEF PartsChecked
  <2>4. Cardinality(RunsOf(message, done + 1)) =
              Cardinality(RunsOf(message, done))
                + (IF part.kind = "text" /\ done > 0 /\ message.parts[done].kind = "text"
                   THEN 0 ELSE 1)
    BY <1>1, <1>2, NextRun
  <2> DEFINE n == Cardinality(RunsOf(message, done))
             m == Cardinality(RunsOf(message, done + 1))
             k == Len(own)
  <2>5. CASE text = << >>
    <3>1. m = n + 1 /\ n = k + 0
      BY <2>2, <2>3, <2>4, <2>5
    <3> HIDE DEF n, m, k
    <3> QED BY <2>1, <3>1 DEF k, m
  <2>6. CASE text # << >>
    <3>1. m = n + 0 /\ n = k + 1
      BY <1>1, <2>2, <2>3, <2>4, <2>6
    <3> HIDE DEF n, m, k
    <3>2. k \in Nat
      BY <2>1 DEF k
    <3>3. m = k + 1
      BY <3>1, <3>2
    <3> QED BY <3>3 DEF k, m
  <2> QED BY <2>5, <2>6
<1>7. \A j \in 1 .. done + 1 :
        Sends(message.role, message.parts[j].kind) \/ message.parts[j].kind = "text"
  <2>1. SUFFICES ASSUME NEW j \in 1 .. done + 1
                 PROVE  Sends(message.role, message.parts[j].kind) \/ message.parts[j].kind = "text"
    OBVIOUS
  <2>2. j \in 1 .. done \/ j = done + 1
    BY <1>5
  <2> QED BY <1>1, <1>2, <1>3, <2>2 DEF PartsChecked
<1>8. (RunsOf(message, done))' = RunsOf(message, done + 1)
  BY <1>1, <1>3 DEF RunsOf, Runs
<1>9. PartsChecked'
  BY <1>1, <1>3, <1>4, <1>5, <1>6, <1>7, <1>8 DEF PartsChecked, Sends
<1> QED BY <1>1, <1>9, PartChecked

LEMMA StructuredAcceptance ==
  ASSUME TranslatorInvariant, ConversationInvariant, AcceptanceInvariant,
         NEW kind, NEW role, NEW type,
         <<kind, role>> \in {<<"tool_call", "assistant">>, <<"tool_result", "tool">>},
         Structured(kind, role, type)
  PROVE  AcceptanceInvariant'
<1>1. /\ InPart /\ InMessage /\ phase = "messages" /\ part.kind = kind /\ part = message.parts[done + 1]
      /\ done \in Nat /\ done + 1 \in 1 .. Len(message.parts) /\ done <= Len(message.parts)
  <2>1. InPart /\ InMessage /\ phase = "messages" /\ part.kind = kind
    BY DEF Structured, InPart, InMessage
  <2>2. Len(message.parts) \in Nat /\ done \in Nat /\ done < Len(message.parts)
    BY <2>1, MessageType, LenProperties DEF TranslatorInvariant, TypeOK, InPart
  <2> QED BY <2>1, <2>2 DEF part
<1>2. PartsChecked /\ TypeOK
  BY <1>1 DEF AcceptanceInvariant, TranslatorInvariant
<1>3. CASE ~(message.role = role /\ CanFlush)
  <2>1. Reject
    BY <1>3 DEF Structured
  <2>2. ~Acceptable(request)
    <3>1. CASE ~CanFlush
      BY <1>1, <1>2, <3>1, UnfitText
    <3>2. CASE message.role # role
      <4>1. ~Sends(message.role, message.parts[done + 1].kind)
        BY <1>1, <3>2 DEF Sends
      <4> QED BY <1>1, <1>2, <4>1, UnfitPart
    <3> QED BY <1>3, <3>1, <3>2
  <2> QED BY <2>1, <2>2, RejectAcceptance
<1>4. CASE message.role = role /\ CanFlush
  <2>1. /\ message.role = role /\ CanFlush /\ own' = Append(Flushed, [type |-> type, id |-> part.id])
        /\ text' = << >> /\ done' = done + 1
        /\ UNCHANGED <<request, phase, at, items, tools>>
    BY <1>4 DEF Structured
  <2>2. message' = message /\ (RunsOf(message, done))' = RunsOf(message, done + 1)
    BY <2>1 DEF message, RunsOf, Runs
  <2>3. \A j \in 1 .. done + 1 : Sends(message.role, message.parts[j].kind)
    <3>1. SUFFICES ASSUME NEW j \in 1 .. done + 1 PROVE Sends(message.role, message.parts[j].kind)
      OBVIOUS
    <3>2. CASE j = done + 1
      BY <1>1, <2>1, <3>2 DEF Sends
    <3>3. CASE j \in 1 .. done
      BY <1>2, <2>1, <3>3 DEF PartsChecked, CanFlush, Sends
    <3> QED BY <1>1, <3>2, <3>3
  <2>4. Len(own') = Len(Flushed) + 1
    <3>1. Flushed \in Seq(InputItem)
      BY <1>1, FlushedContent
    <3> QED BY <2>1, <3>1
  <2>5. Cardinality(RunsOf(message, done + 1)) = Len(own')
    <3>1. Cardinality(RunsOf(message, done + 1)) = Cardinality(RunsOf(message, done)) + 1
      BY <1>1, <1>2, NextRun
    <3>2. Len(Flushed) = Cardinality(RunsOf(message, done))
      BY <1>1, <1>2, FlushedLength DEF PartsChecked
    <3> QED BY <2>4, <3>1, <3>2
  <2>6. Len(own') + 0 = Len(own')
    <3>1. Len(Flushed) \in Nat
      BY <1>1, <1>2, FlushedLength
    <3> QED BY <2>4, <3>1
  <2>7. PartsChecked'
    <3>1. message.parts[done + 1].kind # "text"
      BY <1>1
    <3>2. (message.role)' = message.role /\ (message.parts)' = message.parts
      BY <2>2
    <3> QED BY <2>1, <2>2, <2>3, <2>5, <2>6, <3>1, <3>2 DEF PartsChecked, Sends
  <2> QED BY <1>1, <2>1, <2>7, PartChecked
<1> QED BY <1>3, <1>4

\* A message that has just begun.
LEMMA PartsBegin ==
  ASSUME TypeOK, InMessage, done = 0, text = << >>, own = << >>
  PROVE  PartsChecked
<1>1. message \in Message
  BY MessageType
<1>2. Cardinality(RunsOf(message, 0)) = 0
  BY <1>1, NoRuns
<1>3. Len(own) = 0
  OBVIOUS
<1> QED BY <1>2, <1>3 DEF PartsChecked

LEMMA EndAcceptance ==
  ASSUME TranslatorInvariant, TranslatorInvariant', ConversationInvariant, AcceptanceInvariant, EndMessage
  PROVE  AcceptanceInvariant'
<1>1. /\ InMessage /\ phase = "messages" /\ done = Len(message.parts) /\ TypeOK
      /\ MessagesChecked /\ PartsChecked /\ ToolsChecked /\ PhaseChecked
  BY DEF EndMessage, InMessage, AcceptanceInvariant, TranslatorInvariant
<1>2. /\ request.messages \in Seq(Message) /\ at \in Nat /\ at < Len(request.messages)
      /\ Len(request.messages) \in Nat
      /\ message \in Message /\ message = request.messages[at + 1] /\ Len(message.parts) \in Nat
  BY <1>1, MessageType, LenProperties DEF TypeOK, Request, InMessage, message, Message
<1> DEFINE values == request.messages
           n == Len(values)
           before == Cardinality(RunsUpTo(values, at))
           own_runs == Cardinality(Runs(message))
           after == Cardinality(RunsUpTo(values, at + 1))
<1>3. /\ before \in Nat /\ own_runs \in Nat /\ after = before + own_runs
      /\ after <= ItemCount(values) /\ ItemCount(values) \in Nat
  <2>1. IsFiniteSet(RunsUpTo(values, at)) /\ before \in Nat
    <3>1. at \in 0 .. Len(values)
      BY <1>2
    <3> QED BY <1>2, <3>1, RunsUpToFinite
  <2>2. after = before + Cardinality(Runs(values[at + 1]))
    BY <1>2, <2>1, RunsUpToGrows
  <2>3. own_runs \in Nat
    BY <1>2, RunsFacts
  <2>4. after <= ItemCount(values) /\ ItemCount(values) \in Nat
    <3> DEFINE k == at + 1
    <3>1. k \in 0 .. Len(values)
      BY <1>2
    <3> HIDE DEF k
    <3>2. Cardinality(RunsUpTo(values, k)) <= ItemCount(values) /\ ItemCount(values) \in Nat
      BY <1>2, <3>1, RunsUpToBound
    <3> QED BY <3>2 DEF k
  <2> QED BY <1>2, <2>1, <2>2, <2>3, <2>4
<1>4. Len(items) = before
  BY <1>1 DEF MessagesChecked
<1>5. Len(Flushed) = own_runs
  <2>1. RunsOf(message, done) = Runs(message)
    BY <1>1, <1>2, RunsFacts
  <2> QED BY <1>1, <2>1, FlushedLength DEF PartsChecked
<1>6. CASE ~(CanFlush /\ Fits)
  <2>1. Reject
    BY <1>6 DEF EndMessage
  <2>2. ~Acceptable(request)
    <3>1. CASE ~CanFlush
      <4>1. done <= Len(message.parts)
        BY <1>1, <1>2
      <4> QED BY <1>1, <3>1, <4>1, UnfitText
    <3>2. CASE ~Fits
      <4>1. ~(own_runs <= MaxInputItems - before)
        BY <1>4, <1>5, <3>2 DEF Fits
      <4> HIDE DEF own_runs, before, after
      <4>2. ~(ItemCount(values) <= MaxInputItems)
        BY <1>3, <4>1, RequestAssumption
      <4> QED BY <4>2 DEF Acceptable
    <3> QED BY <1>6, <3>1, <3>2
  <2> QED BY <2>1, <2>2, RejectAcceptance
<1>7. CASE CanFlush /\ Fits
  <2>1. /\ items' = items \o Flushed /\ at' = at + 1 /\ done' = 0 /\ text' = << >> /\ own' = << >>
        /\ UNCHANGED <<request, phase, tools>>
    BY <1>7 DEF EndMessage
  <2>2. Len(items') = after
    <3>1. items \in Seq(InputItem) /\ Flushed \in Seq(InputItem)
      BY <1>1, FlushedContent DEF TypeOK
    <3>2. Len(items') = Len(items) + Len(Flushed)
      BY <2>1, <3>1, ConcatProperties
    <3> QED BY <1>3, <1>4, <1>5, <3>2
  <2>3. \A j \in 1 .. Len(message.parts) : Sends(message.role, message.parts[j].kind)
    <3>1. SUFFICES ASSUME NEW j \in 1 .. Len(message.parts)
                   PROVE  Sends(message.role, message.parts[j].kind)
      OBVIOUS
    <3>2. j \in 1 .. done
      BY <1>1
    <3> QED BY <1>1, <1>7, <3>2 DEF PartsChecked, CanFlush, Sends
  <2>4. \A i \in 1 .. at + 1 : \A j \in 1 .. Len(values[i].parts) : Sends(values[i].role, values[i].parts[j].kind)
    <3>1. SUFFICES ASSUME NEW i \in 1 .. at + 1
                   PROVE  \A j \in 1 .. Len(values[i].parts) : Sends(values[i].role, values[i].parts[j].kind)
      OBVIOUS
    <3>2. i \in 1 .. at \/ i = at + 1
      BY <1>2
    <3> QED BY <1>1, <1>2, <2>3, <3>2 DEF MessagesChecked
  <2>5. (Cardinality(RunsUpTo(request.messages, at)))' = after
    BY <2>1 DEF RunsUpTo, Runs
  <2>6. MessagesChecked'
    <3>1. request' = request /\ at' = at + 1
      BY <2>1
    <3> QED BY <2>2, <2>4, <2>5, <3>1 DEF MessagesChecked, Sends
  <2>7. ToolsChecked' /\ PhaseChecked'
    BY <1>1, <2>1 DEF ToolsChecked, PhaseChecked
  <2>8. (InMessage => PartsChecked)'
    <3>1. (TypeOK /\ InMessage /\ done = 0 /\ text = << >> /\ own = << >> => PartsChecked)'
      BY PartsBegin, PTL
    <3> QED BY <2>1, <3>1 DEF TranslatorInvariant
  <2> QED BY <1>1, <2>1, <2>6, <2>7, <2>8 DEF AcceptanceInvariant
<1> QED BY <1>6, <1>7

\* Steps that leave the messages alone.
LEMMA OutsideAcceptance ==
  ASSUME TranslatorInvariant', AcceptanceInvariant, phase # "rejected", phase' # "rejected",
         UNCHANGED <<request, translator, items>>,
         InMessage' => PartsChecked \/ (done = 0 /\ text = << >> /\ own = << >>),
         ToolsChecked', PhaseChecked'
  PROVE  AcceptanceInvariant'
<1>1. UNCHANGED <<request, at, done, text, own, items>>
  BY DEF translator
<1>2. MessagesChecked
  BY DEF AcceptanceInvariant
<1>3. MessagesChecked'
  BY <1>1, <1>2, MessagesKept
<1>4. (InMessage => PartsChecked)'
  <2>1. SUFFICES ASSUME InMessage' PROVE PartsChecked'
    OBVIOUS
  <2>2. CASE PartsChecked
    <3>1. message' = message
      BY <1>1 DEF message
    <3>2. (Cardinality(RunsOf(message, done)))' = Cardinality(RunsOf(message, done))
      BY <1>1, <3>1 DEF RunsOf, Runs
    <3>3. (message.role)' = message.role /\ (message.parts)' = message.parts
      BY <3>1
    <3> QED BY <1>1, <2>2, <3>2, <3>3 DEF PartsChecked, Sends
  <2>3. CASE done = 0 /\ text = << >> /\ own = << >>
    <3>1. (TypeOK /\ InMessage /\ done = 0 /\ text = << >> /\ own = << >> => PartsChecked)'
      BY PartsBegin, PTL
    <3> QED BY <1>1, <2>1, <2>3, <3>1 DEF TranslatorInvariant
  <2> QED BY <2>1, <2>2, <2>3
<1> QED BY <1>3, <1>4 DEF AcceptanceInvariant

LEMMA ToolAcceptance ==
  ASSUME TranslatorInvariant, TranslatorInvariant', AcceptanceInvariant, TranslateTool
  PROVE  AcceptanceInvariant'
<1> DEFINE k == Len(tools) + 1
<1>1. /\ phase = "tools" /\ Len(tools) \in Nat /\ Len(tools) < Len(request.tools)
      /\ tools \in Seq(ToolNames) /\ request.tools \in Seq(Definition)
      /\ ToolsChecked /\ PhaseChecked
  BY LenProperties DEF TranslateTool, TranslatorInvariant, TypeOK, Request, AcceptanceInvariant
<1>2. k \in 1 .. Len(request.tools) /\ k \in DOMAIN request.tools
  BY <1>1
<1>3. CASE ~request.tools[k].schema
  <2>1. Reject
    BY <1>3 DEF TranslateTool
  <2>2. ~Acceptable(request)
    <3> HIDE DEF k
    <3> QED BY <1>2, <1>3 DEF Acceptable
  <2> QED BY <2>1, <2>2, RejectAcceptance
<1>4. CASE request.tools[k].schema
  <2>1. tools' = Append(tools, request.tools[k].name) /\ UNCHANGED <<request, phase, translator, items>>
    BY <1>4 DEF TranslateTool
  <2>2. request.tools[k].name \in ToolNames
    <3> HIDE DEF k
    <3>1. request.tools[k] \in Definition
      BY <1>1, <1>2
    <3> QED BY <3>1 DEF Definition
  <2>3. /\ Len(tools') = k /\ tools'[k] = request.tools[k].name
        /\ \A j \in 1 .. Len(tools) : tools'[j] = tools[j]
    <3> DEFINE name == request.tools[k].name
    <3>1. name \in ToolNames /\ tools' = Append(tools, name)
      BY <2>1, <2>2
    <3> HIDE DEF name
    <3> QED BY <1>1, <3>1 DEF name
  <2>4. ToolsChecked'
    <3>1. SUFFICES ASSUME NEW j \in 1 .. Len(tools')
                   PROVE  request.tools[j].schema /\ tools'[j] = request.tools[j].name
      BY <2>1 DEF ToolsChecked
    <3>2. j \in 1 .. Len(tools) \/ j = k
      BY <1>1, <2>3
    <3> QED BY <1>1, <1>4, <2>3, <3>2 DEF ToolsChecked
  <2>5. PhaseChecked' /\ ~InMessage' /\ phase' # "rejected"
    BY <1>1, <2>1 DEF PhaseChecked, InMessage, translator
  <2> QED BY <1>1, <2>1, <2>4, <2>5, OutsideAcceptance
<1> QED BY <1>3, <1>4

LEMMA FinishAcceptance ==
  ASSUME TranslatorInvariant, TranslatorInvariant', AcceptanceInvariant, Finish
  PROVE  AcceptanceInvariant'
<1>1. /\ phase = "tools" /\ Len(tools) = Len(request.tools) /\ ToolsChecked /\ PhaseChecked
      /\ UNCHANGED <<request, translator, items, tools>>
      /\ phase' = IF request.large THEN "rejected" ELSE "accepted"
  BY DEF Finish, AcceptanceInvariant
<1>2. CASE request.large
  <2>1. Reject /\ ~Acceptable(request)
    BY <1>1, <1>2 DEF Reject, Acceptable
  <2> QED BY <2>1, RejectAcceptance
<1>3. CASE ~request.large
  <2>1. phase' = "accepted" /\ ~InMessage'
    BY <1>1, <1>3 DEF InMessage
  <2>2. ToolsChecked' /\ PhaseChecked'
    BY <1>1, <1>3, <2>1 DEF ToolsChecked, PhaseChecked, translator
  <2> QED BY <1>1, <2>1, <2>2, OutsideAcceptance
<1> QED BY <1>2, <1>3

LEMMA BeginAcceptance ==
  ASSUME TranslatorInvariant, TranslatorInvariant', ConversationInvariant, AcceptanceInvariant, Begin
  PROVE  AcceptanceInvariant'
<1>1. /\ phase = "start" /\ ~InMessage /\ own = << >> /\ text = << >> /\ done = 0
      /\ ToolsChecked /\ PhaseChecked
  BY DEF Begin, ConversationInvariant, InMessage, AcceptanceInvariant
<1>2. CASE ~request.model
  <2>1. Reject /\ ~Acceptable(request)
    BY <1>2 DEF Begin, Acceptable
  <2> QED BY <2>1, RejectAcceptance
<1>3. CASE request.model
  <2>1. phase' = "messages" /\ UNCHANGED <<request, translator, items, tools>>
    BY <1>3 DEF Begin
  <2>2. ToolsChecked' /\ PhaseChecked'
    BY <1>1, <1>3, <2>1 DEF ToolsChecked, PhaseChecked, translator
  <2> QED BY <1>1, <2>1, <2>2, OutsideAcceptance
<1> QED BY <1>2, <1>3

LEMMA AcceptanceStep ==
  TranslatorInvariant /\ TranslatorInvariant' /\ ConversationInvariant /\ AcceptanceInvariant /\ [Next]_vars
    => AcceptanceInvariant'
<1> SUFFICES ASSUME TranslatorInvariant, TranslatorInvariant', ConversationInvariant, AcceptanceInvariant,
                    [Next]_vars
             PROVE  AcceptanceInvariant'
  OBVIOUS
<1>1. CASE UNCHANGED vars
  <2>1. UNCHANGED <<request, phase, translator, items, tools>>
    BY <1>1 DEF vars
  <2>2. CASE phase = "rejected"
    <3>1. ~Acceptable(request) /\ request' = request /\ phase' = "rejected"
      BY <2>1, <2>2 DEF AcceptanceInvariant
    <3>2. ~Acceptable(request')
      BY <3>1
    <3>3. ~Acceptable(request)'
      BY <3>1, <3>2, AcceptableKept
    <3> QED BY <3>1, <3>3 DEF AcceptanceInvariant
  <2>3. CASE phase # "rejected"
    <3>1. (InMessage => PartsChecked) /\ ToolsChecked /\ PhaseChecked
      BY <2>3 DEF AcceptanceInvariant
    <3>2. InMessage' = InMessage
      BY <2>1 DEF InMessage, translator
    <3>3. ToolsChecked' /\ PhaseChecked'
      BY <2>1, <3>1 DEF ToolsChecked, PhaseChecked, translator
    <3> QED BY <2>1, <2>3, <3>1, <3>2, <3>3, OutsideAcceptance
  <2> QED BY <2>2, <2>3
<1>2. CASE Begin
  BY <1>2, BeginAcceptance
<1>3. CASE TextPart
  BY <1>3, TextAcceptance
<1>4. CASE CallPart
  BY <1>4, StructuredAcceptance DEF CallPart
<1>5. CASE ResultPart
  BY <1>5, StructuredAcceptance DEF ResultPart
<1>6. CASE ExtensionPart
  <2>1. InMessage /\ done + 1 \in 1 .. Len(message.parts) /\ TypeOK
    BY <1>6, MessageType, LenProperties DEF ExtensionPart, InPart, TranslatorInvariant, TypeOK
  <2>2. ~Sends(message.role, message.parts[done + 1].kind)
    BY <1>6 DEF ExtensionPart, part, Sends
  <2>3. ~Acceptable(request)
    <3> DEFINE k == done + 1
    <3> HIDE DEF k
    <3> QED BY <2>1, <2>2, UnfitPart DEF k
  <2> QED BY <1>6, <2>3, RejectAcceptance DEF ExtensionPart
<1>7. CASE EndMessage
  BY <1>7, EndAcceptance
<1>8. CASE EndMessages
  <2>1. /\ phase = "messages" /\ phase' = "tools" /\ ~InMessage' /\ at = Len(request.messages)
        /\ UNCHANGED <<request, translator, items, tools>>
    BY <1>8 DEF EndMessages, InMessage
  <2>2. ToolsChecked /\ PhaseChecked
    BY <2>1 DEF AcceptanceInvariant
  <2>3. ToolsChecked' /\ PhaseChecked'
    BY <2>1, <2>2 DEF ToolsChecked, PhaseChecked, translator
  <2> QED BY <2>1, <2>3, OutsideAcceptance
<1>9. CASE TranslateTool
  BY <1>9, ToolAcceptance
<1>10. CASE Finish
  BY <1>10, FinishAcceptance
<1> QED BY <1>1, <1>2, <1>3, <1>4, <1>5, <1>6, <1>7, <1>8, <1>9, <1>10 DEF Next

LEMMA AcceptanceKnown ==
  TranslatorInvariant /\ AcceptanceInvariant => AcceptsExactly
<1> SUFFICES ASSUME TranslatorInvariant, AcceptanceInvariant PROVE AcceptsExactly
  OBVIOUS
<1>1. phase = "rejected" => ~Acceptable(request)
  BY DEF AcceptanceInvariant
<1>2. ASSUME phase = "accepted"
      PROVE  /\ Acceptable(request)
             /\ Len(items) = ItemCount(request.messages)
             /\ tools = [i \in DOMAIN request.tools |-> request.tools[i].name]
  <2>1. /\ MessagesChecked /\ ToolsChecked /\ request.model /\ ~request.large
        /\ at = Len(request.messages) /\ Len(tools) = Len(request.tools)
    BY <1>2 DEF AcceptanceInvariant, PhaseChecked
  <2>2. request.messages \in Seq(Message) /\ request.tools \in Seq(Definition) /\ tools \in Seq(ToolNames)
    BY DEF TranslatorInvariant, TypeOK, Request
  <2>3. DOMAIN request.messages = 1 .. at /\ DOMAIN request.tools = 1 .. Len(tools)
    BY <2>1, <2>2, LenProperties
  <2>4. \A i \in DOMAIN request.messages :
          DOMAIN request.messages[i].parts = 1 .. Len(request.messages[i].parts)
    BY <2>2, LenProperties DEF Message
  <2>5. Len(items) = ItemCount(request.messages) /\ Len(items) <= MaxInputItems
    BY <2>1 DEF MessagesChecked, ItemCount, TranslatorInvariant
  <2>6. \A i \in DOMAIN request.messages : \A j \in DOMAIN request.messages[i].parts :
          Sends(request.messages[i].role, request.messages[i].parts[j].kind)
    BY <2>1, <2>3, <2>4 DEF MessagesChecked
  <2>7. \A i \in DOMAIN request.tools : request.tools[i].schema
    BY <2>1, <2>3 DEF ToolsChecked
  <2>8. tools = [i \in DOMAIN request.tools |-> request.tools[i].name]
    <3>1. tools = [i \in 1 .. Len(tools) |-> tools[i]]
      BY <2>2, LenProperties
    <3> QED BY <2>1, <2>3, <3>1 DEF ToolsChecked
  <2>9. Acceptable(request)
    BY <2>1, <2>5, <2>6, <2>7 DEF Acceptable
  <2> QED BY <2>5, <2>8, <2>9
<1> QED BY <1>1, <1>2 DEF AcceptsExactly

\* For every request and every cap, translateRequest refuses exactly what it must,
\* and what it accepts has an item per call, per result and per run of texts, and
\* the declared tools.
THEOREM TranslationAcceptsExactly == Spec => []AcceptsExactly
<1> DEFINE All == TranslatorInvariant /\ ConversationInvariant /\ AcceptanceInvariant
<1>1. Init => All
  BY InitTranslation, InitConversation, InitAcceptance
<1>2. All /\ [Next]_vars => All'
  BY TranslationStep, ConversationStep, AcceptanceStep
<1>3. All => AcceptsExactly
  BY AcceptanceKnown
<1> QED BY <1>1, <1>2, <1>3, PTL DEF Spec

=============================================================================
