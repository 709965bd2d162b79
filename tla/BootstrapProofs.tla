--------------------------- MODULE BootstrapProofs ---------------------------
(***************************************************************************)
(* Safety of the dependency bootstrap for every number of module graphs,   *)
(* whichever steps fail.                                                   *)
(***************************************************************************)
EXTENDS Bootstrap, TLAPS

Working == {"module", "mkdir", "open", "write", "sum", "download"}

\* Until a step fails there are no errors; a failed one leaves the loop.
ErrorsFollow ==
  /\ step \in Working \cup {"snapshot"} => errors = {}
  /\ step = "snapshot" => before = None
  /\ before = None /\ step # "snapshot" => step = "returned" /\ errors # {}

\* What the deferred calls have still to clean up.
CleanupFollows ==
  /\ step \in {"snapshot", "module", "mkdir"} => temporary = {}
  /\ step \in {"open", "write", "sum", "download", "close", "remove"} => temporary = {graph}
  /\ step \in {"compare", "returned"} => temporary = {} \/ "remove" \in errors
  /\ opened <=> step \in {"write", "sum", "download", "close"}
  /\ step \in {"sum", "download"} => "graph.mod" \in copied

\* Which graphs were looked at.
ProgressFollows ==
  /\ absent \subseteq Optional
  /\ downloaded \cap absent = {}
  /\ step = "snapshot" => graph = 1
  /\ step \in Working \cup {"snapshot"} => downloaded \cup absent = 1 .. graph - 1
  /\ step \in {"close", "remove"} /\ errors = {} => downloaded \cup absent = 1 .. graph
  /\ step \in {"close", "remove"} => 1 .. graph - 1 \subseteq downloaded \cup absent
                                       /\ downloaded \cup absent \subseteq 1 .. graph
  /\ step = "close" /\ errors # {} => graph \notin downloaded \cup absent
  /\ step = "compare" /\ errors = {} => downloaded \cup absent = 1 .. Graphs

BootstrapInvariant ==
  /\ TypeOK
  /\ ErrorsFollow /\ CleanupFollows /\ ProgressFollows
  /\ ChangeReported /\ SuccessIsComplete /\ TemporariesRemoved

-----------------------------------------------------------------------------
LEMMA DigestFacts ==
  ASSUME NEW value \in Trees
  PROVE  Digests(value) # None /\ Digests(value) \in {Digests(other) : other \in Trees}
BY DEF Digests, None

LEMMA InitEstablishes == Init => BootstrapInvariant
<1> SUFFICES ASSUME Init PROVE BootstrapInvariant
  OBVIOUS
<1> USE BootstrapAssumption DEF Init
<1>1. TypeOK
  <2>1. graph \in 1 .. Graphs
    OBVIOUS
  <2>2. step \in Steps
    BY DEF Steps
  <2> QED BY <2>1, <2>2, Zenon DEF TypeOK
<1>2. ErrorsFollow /\ CleanupFollows
  BY DEF ErrorsFollow, CleanupFollows, Working
<1>3. ProgressFollows
  BY DEF ProgressFollows, Working
<1>4. ChangeReported /\ SuccessIsComplete /\ TemporariesRemoved
  BY DEF ChangeReported, SuccessIsComplete, TemporariesRemoved, Returned
<1> QED BY <1>1, <1>2, <1>3, <1>4 DEF BootstrapInvariant

LEMMA NextGraphFacts ==
  ASSUME TypeOK, NextGraph
  PROVE  /\ graph' \in 1 .. Graphs
         /\ step' = "module" => graph' = graph + 1
         /\ step' # "module" => step' = "compare" /\ graph' = graph /\ graph = Graphs
<1>1. graph \in Nat /\ 1 <= graph /\ graph <= Graphs /\ Graphs \in Nat
  BY BootstrapAssumption DEF TypeOK
<1> QED BY <1>1 DEF NextGraph

\* The graph at hand has not been looked at.
LEMMA CurrentGraph ==
  ASSUME TypeOK, downloaded \cup absent = 1 .. graph - 1
  PROVE  /\ graph \in Nat /\ 1 .. graph - 1 \subseteq 1 .. graph
         /\ graph \notin downloaded \cup absent
         /\ (1 .. graph - 1) \cup {graph} = 1 .. graph
<1>1. graph \in Nat /\ graph >= 1
  BY BootstrapAssumption DEF TypeOK
<1>2. graph \notin 1 .. graph - 1 /\ (1 .. graph - 1) \cup {graph} = 1 .. graph
  BY <1>1
<1> QED BY <1>1, <1>2

\* Before the bootstrap returns, only the strengthening has to be kept.
LEMMA StillRunning ==
  ASSUME TypeOK', ErrorsFollow', CleanupFollows', ProgressFollows', step' # "returned"
  PROVE  BootstrapInvariant'
BY DEF BootstrapInvariant, ChangeReported, SuccessIsComplete, TemporariesRemoved, Returned

LEMMA StepKeeps == BootstrapInvariant /\ [Next]_vars => BootstrapInvariant'
<1> SUFFICES ASSUME BootstrapInvariant, [Next]_vars PROVE BootstrapInvariant'
  OBVIOUS
<1> USE BootstrapAssumption DEF BootstrapInvariant, fileVars, historyVars, Fails, Continues, Working
<1>0. TypeOK /\ ErrorsFollow /\ CleanupFollows /\ ProgressFollows
  OBVIOUS
<1>1. CASE SnapshotBefore
  <2>1. CASE step' = "returned"
    <3>1. TypeOK'
      BY <1>0, <1>1, <2>1 DEF SnapshotBefore, TypeOK, Steps, Errors
    <3>2. errors' = {"snapshot before"} /\ before' = None /\ temporary' = {} /\ ~opened'
      <4>1. before = None
        BY <1>0, <1>1 DEF ErrorsFollow, SnapshotBefore, CleanupFollows, TypeOK
      <4> QED BY <1>0, <1>1, <2>1, <4>1 DEF SnapshotBefore, ErrorsFollow, CleanupFollows
    <3> QED BY <1>0, <1>1, <2>1, <3>1, <3>2
            DEF SnapshotBefore, ErrorsFollow, CleanupFollows, ProgressFollows,
                ChangeReported, SuccessIsComplete, TemporariesRemoved, Returned
  <2>2. CASE step' = "module"
    <3>1. before' = Digests(tree) /\ errors' = errors /\ tree \in Trees
      BY <1>0, <1>1, <2>2 DEF SnapshotBefore, TypeOK
    <3>2. TypeOK'
      BY <1>0, <1>1, <2>2, <3>1, DigestFacts DEF SnapshotBefore, TypeOK, Steps
    <3> QED BY <1>0, <1>1, <2>2, <3>1, <3>2, StillRunning, DigestFacts
            DEF SnapshotBefore, ErrorsFollow, CleanupFollows, ProgressFollows
  <2> QED BY <1>1, <2>1, <2>2 DEF SnapshotBefore
<1>2. CASE ReadModule
  <2>1. TypeOK'
    <3>1. graph' \in 1 .. Graphs /\ step' \in Steps
      BY <1>0, <1>2, NextGraphFacts DEF ReadModule, TypeOK, Steps
    <3>2. errors' \subseteq Errors /\ absent' \subseteq 1 .. Graphs
      BY <1>0, <1>2 DEF ReadModule, TypeOK, Errors
    <3> QED BY <1>0, <1>2, <3>1, <3>2 DEF ReadModule, TypeOK
  <2>2. ErrorsFollow' /\ CleanupFollows'
    BY <1>0, <1>2 DEF ReadModule, NextGraph, ErrorsFollow, CleanupFollows
  <2>3. ProgressFollows'
    <3>1. /\ graph \in 1 .. Graphs /\ downloaded' = downloaded /\ step = "module" /\ errors = {}
          /\ absent \subseteq Optional /\ downloaded \cap absent = {}
          /\ downloaded \cup absent = 1 .. graph - 1
      BY <1>0, <1>2 DEF ReadModule, TypeOK, ErrorsFollow, ProgressFollows
    <3>2. CASE step' = "mkdir" /\ UNCHANGED <<graph, absent>>
      BY <3>1, <3>2 DEF ProgressFollows
    <3>3. CASE step' = "compare" /\ errors' # {} /\ UNCHANGED <<graph, absent>>
      BY <3>1, <3>3 DEF ProgressFollows
    <3>4. CASE graph \in Optional /\ NextGraph /\ absent' = absent \cup {graph} /\ UNCHANGED errors
      <4>1. /\ downloaded' \cup absent' = 1 .. graph
            /\ absent' \subseteq Optional /\ downloaded' \cap absent' = {}
        BY <3>1, <3>4
      <4>2. CASE graph < Graphs
        <5>1. step' = "module" /\ graph' = graph + 1 /\ graph' - 1 = graph
          BY <3>1, <3>4, <4>2 DEF NextGraph
        <5> QED BY <4>1, <5>1 DEF ProgressFollows
      <4>3. CASE ~(graph < Graphs)
        <5>1. step' = "compare" /\ graph = Graphs
          BY <3>1, <3>4, <4>3 DEF NextGraph
        <5> QED BY <4>1, <5>1 DEF ProgressFollows
      <4> QED BY <4>2, <4>3
    <3>5. \/ step' = "mkdir" /\ UNCHANGED <<graph, absent>>
          \/ step' = "compare" /\ errors' # {} /\ UNCHANGED <<graph, absent>>
          \/ graph \in Optional /\ NextGraph /\ absent' = absent \cup {graph} /\ UNCHANGED errors
      BY <1>2 DEF ReadModule
    <3> QED BY <3>2, <3>3, <3>4, <3>5
  <2> QED BY <1>2, <2>1, <2>2, <2>3, StillRunning DEF ReadModule, NextGraph
<1>3. CASE MakeTemporary \/ OpenRoot \/ WriteModule \/ CopySum
  <2>1. TypeOK'
    BY <1>0, <1>3 DEF MakeTemporary, OpenRoot, WriteModule, CopySum, TypeOK, Steps, Errors
  <2>2. ErrorsFollow'
    BY <1>0, <1>3 DEF MakeTemporary, OpenRoot, WriteModule, CopySum, ErrorsFollow
  <2>4. CleanupFollows'
    <3>1. CASE MakeTemporary
      BY <1>0, <3>1 DEF MakeTemporary, CleanupFollows
    <3>2. CASE OpenRoot \/ WriteModule
      BY <1>0, <3>2 DEF OpenRoot, WriteModule, CleanupFollows
    <3>3. CASE CopySum
      BY <1>0, <3>3 DEF CopySum, CleanupFollows
    <3> QED BY <1>3, <3>1, <3>2, <3>3
  <2>3. ProgressFollows'
    <3>1. downloaded \cup absent = 1 .. graph - 1
      BY <1>0, <1>3 DEF MakeTemporary, OpenRoot, WriteModule, CopySum, ProgressFollows
    <3>2. CASE errors' = errors
      <4>1. step' \in {"open", "write", "sum", "download"}
        BY <1>0, <1>3, <3>2 DEF MakeTemporary, OpenRoot, WriteModule, CopySum, ErrorsFollow
      <4>2. UNCHANGED <<graph, downloaded, absent>>
        BY <1>3 DEF MakeTemporary, OpenRoot, WriteModule, CopySum
      <4> QED BY <1>0, <3>1, <4>1, <4>2 DEF ProgressFollows
    <3>3. CASE errors' # errors
      <4>1. errors' # {} /\ step' \in {"close", "remove", "compare"}
        BY <1>3, <3>3 DEF MakeTemporary, OpenRoot, WriteModule, CopySum
      <4>2. UNCHANGED <<graph, downloaded, absent>>
        BY <1>3 DEF MakeTemporary, OpenRoot, WriteModule, CopySum
      <4> QED BY <1>0, <3>1, <4>1, <4>2, CurrentGraph DEF ProgressFollows
    <3> QED BY <3>2, <3>3
  <2> QED BY <1>3, <2>1, <2>2, <2>3, <2>4, StillRunning DEF MakeTemporary, OpenRoot, WriteModule, CopySum
<1>4. CASE Download
  <2>1. TypeOK'
    BY <1>0, <1>4 DEF Download, TypeOK, Steps, Errors
  <2>2. ErrorsFollow' /\ CleanupFollows'
    BY <1>0, <1>4 DEF Download, ErrorsFollow, CleanupFollows
  <2>3. ProgressFollows'
    <3>1. downloaded \cup absent = 1 .. graph - 1
      BY <1>0, <1>4 DEF Download, ProgressFollows
    <3>2. (1 .. graph - 1) \cup {graph} = 1 .. graph
      BY <1>0, <3>1, CurrentGraph
    <3>3. graph \notin downloaded \cup absent /\ 1 .. graph - 1 \subseteq 1 .. graph
      BY <1>0, <3>1, CurrentGraph
    <3>4. CASE downloaded' = downloaded \cup {graph} /\ errors' = errors
      <4>1. downloaded' \cup absent = 1 .. graph
        BY <3>1, <3>2, <3>4
      <4>2. downloaded' \cap absent = {}
        BY <1>0, <3>3, <3>4 DEF ProgressFollows
      <4>3. errors' = {}
        BY <1>0, <1>4, <3>4 DEF Download, ErrorsFollow
      <4> QED BY <1>0, <1>4, <3>1, <3>2, <4>1, <4>2, <4>3 DEF Download, ProgressFollows
    <3>5. CASE downloaded' = downloaded /\ step' = "close" /\ errors' # {}
      BY <1>0, <1>4, <3>1, <3>2, <3>3, <3>5 DEF Download, ProgressFollows
    <3> QED BY <1>4, <3>4, <3>5 DEF Download
  <2> QED BY <1>4, <2>1, <2>2, <2>3, StillRunning DEF Download
<1>5. CASE CloseRoot
  <2>1. TypeOK'
    BY <1>0, <1>5 DEF CloseRoot, TypeOK, Steps, Errors
  <2>2. ErrorsFollow' /\ CleanupFollows'
    BY <1>0, <1>5 DEF CloseRoot, ErrorsFollow, CleanupFollows
  <2>3. ProgressFollows'
    BY <1>0, <1>5 DEF CloseRoot, ProgressFollows
  <2> QED BY <1>5, <2>1, <2>2, <2>3, StillRunning DEF CloseRoot
<1>6. CASE RemoveTemporary
  <2>1. TypeOK'
    <3>1. graph' \in 1 .. Graphs /\ step' \in Steps
      BY <1>0, <1>6, NextGraphFacts DEF RemoveTemporary, TypeOK, Steps
    <3>2. errors' \subseteq Errors /\ temporary' \subseteq 1 .. Graphs
      BY <1>0, <1>6 DEF RemoveTemporary, TypeOK, Errors
    <3> QED BY <1>0, <1>6, <3>1, <3>2 DEF RemoveTemporary, TypeOK
  <2>2. ErrorsFollow' /\ CleanupFollows'
    BY <1>0, <1>6 DEF RemoveTemporary, NextGraph, ErrorsFollow, CleanupFollows
  <2>3. ProgressFollows'
    BY <1>0, <1>6 DEF RemoveTemporary, NextGraph, ProgressFollows, TypeOK
  <2> QED BY <1>6, <2>1, <2>2, <2>3, StillRunning DEF RemoveTemporary, NextGraph
<1>7. CASE Compare
  <2>1. TypeOK'
    BY <1>0, <1>7 DEF Compare, TypeOK, Steps, Errors
  <2>2. ErrorsFollow' /\ CleanupFollows'
    BY <1>0, <1>7 DEF Compare, ErrorsFollow, CleanupFollows
  <2>3. ProgressFollows'
    BY <1>0, <1>7 DEF Compare, ProgressFollows
  <2>4. ChangeReported'
    BY <1>7 DEF Compare, ChangeReported, Returned, Digests
  <2>5. SuccessIsComplete'
    BY <1>0, <1>7 DEF Compare, SuccessIsComplete, Returned, ProgressFollows, CleanupFollows, Digests, TypeOK
  <2>6. TemporariesRemoved'
    BY <1>0, <1>7 DEF Compare, TemporariesRemoved, CleanupFollows
  <2> QED BY <2>1, <2>2, <2>3, <2>4, <2>5, <2>6
<1>8. CASE UNCHANGED vars
  BY <1>8 DEF vars, TypeOK, ErrorsFollow, CleanupFollows, ProgressFollows, ChangeReported,
              SuccessIsComplete, TemporariesRemoved, Returned, Digests
<1> QED BY <1>1, <1>2, <1>3, <1>4, <1>5, <1>6, <1>7, <1>8 DEF Next

LEMMA AlwaysInvariant == Spec => []BootstrapInvariant
BY InitEstablishes, StepKeeps, PTL DEF Spec

-----------------------------------------------------------------------------
\* Every variable keeps its type.
THEOREM BootstrapTypeCorrect == Spec => []TypeOK
<1>1. BootstrapInvariant => TypeOK
  BY DEF BootstrapInvariant
<1> QED BY <1>1, AlwaysInvariant, PTL

\* A repository that the bootstrap changed is reported, whatever else failed.
THEOREM ChangeIsReported == Spec => []ChangeReported
<1>1. BootstrapInvariant => ChangeReported
  BY DEF BootstrapInvariant
<1> QED BY <1>1, AlwaysInvariant, PTL

\* Success means that every graph was downloaded, and nothing changed or left.
THEOREM SuccessComplete == Spec => []SuccessIsComplete
<1>1. BootstrapInvariant => SuccessIsComplete
  BY DEF BootstrapInvariant
<1> QED BY <1>1, AlwaysInvariant, PTL

\* Temporary directories are removed on every path, or their removal has failed.
THEOREM TemporariesAreRemoved == Spec => []TemporariesRemoved
<1>1. BootstrapInvariant => TemporariesRemoved
  BY DEF BootstrapInvariant
<1> QED BY <1>1, AlwaysInvariant, PTL

\* The network is used for private copies only, and never after a failure.
THEOREM OnlyCopiesDownloaded == Spec => DownloadsOnlyCopies
<1>1. BootstrapInvariant /\ [Next]_vars =>
        [downloaded' # downloaded => errors = {} /\ opened /\ "graph.mod" \in copied]_vars
  <2> SUFFICES ASSUME BootstrapInvariant, [Next]_vars, downloaded' # downloaded
               PROVE  errors = {} /\ opened /\ "graph.mod" \in copied
    OBVIOUS
  <2>1. Download
    BY DEF Next, vars, historyVars, SnapshotBefore, ReadModule, MakeTemporary, OpenRoot,
           WriteModule, CopySum, CloseRoot, RemoveTemporary, Compare
  <2> QED BY <2>1 DEF Download, BootstrapInvariant, ErrorsFollow, CleanupFollows, Working
<1> QED BY <1>1, AlwaysInvariant, PTL DEF Spec, DownloadsOnlyCopies

=============================================================================
