------------------------------ MODULE Bootstrap ------------------------------
(***************************************************************************)
(* The dependency bootstrap of the quality gate                            *)
(* (src/internal/qualitygate/main.go, bootstrapDependencies): it downloads *)
(* the modules of each module graph from private copies of go.mod and      *)
(* go.sum, between two snapshots of the repository.  Every step may fail;  *)
(* the deferred calls of Go run all the same, and join their errors.       *)
(***************************************************************************)
EXTENDS Naturals, FiniteSets

CONSTANTS
  Graphs,      \* number of module graphs: the product's and the tools'
  Optional,    \* graphs whose go.mod may be absent
  Contents,    \* what the files of the repository may be
  GitContents  \* what its .git directory may be

ASSUME BootstrapAssumption ==
  /\ Graphs \in Nat \ {0}
  /\ Optional \subseteq 1 .. Graphs

VARIABLES
  step,        \* the next step
  graph,       \* the module graph at hand
  tree,        \* the repository on disk
  before,      \* the first snapshot, none as long as it was not taken
  temporary,   \* graphs whose temporary directory exists
  opened,      \* temporaryRoot is open
  copied,      \* files written to the temporary directory
  downloaded,  \* history: graphs downloaded
  absent,      \* history: graphs found absent
  errors       \* the errors joined into returnErr

fileVars == <<temporary, opened, copied>>
historyVars == <<downloaded, absent>>
vars == <<step, graph, tree, before, fileVars, historyVars, errors>>

-----------------------------------------------------------------------------
Steps == {"snapshot", "module", "mkdir", "open", "write", "sum", "download",
          "close", "remove", "compare", "returned"}

Errors == {"snapshot before", "read", "mkdir", "open", "write", "download",
           "close", "remove", "snapshot after", "modified"}

Trees == [files : Contents, git : GitContents]

\* sourceTreeDigests: every file but those of the .git directory.
Digests(value) == <<value.files>>
None == << >>

TypeOK ==
  /\ step \in Steps
  /\ graph \in 1 .. Graphs
  /\ tree \in Trees
  /\ before \in {None} \cup {Digests(value) : value \in Trees}
  /\ temporary \subseteq 1 .. Graphs
  /\ opened \in BOOLEAN
  /\ copied \subseteq {"graph.mod", "graph.sum"}
  /\ downloaded \subseteq 1 .. Graphs /\ absent \subseteq 1 .. Graphs
  /\ errors \subseteq Errors

Init ==
  /\ step = "snapshot" /\ graph = 1
  /\ tree \in Trees /\ before = None
  /\ temporary = {} /\ opened = FALSE /\ copied = {}
  /\ downloaded = {} /\ absent = {} /\ errors = {}

-----------------------------------------------------------------------------
\* A step that fails leaves its error and goes on with the deferred calls.
Fails(error, next) == step' = next /\ errors' = errors \cup {error}

\* A step that succeeds.
Continues(next) == step' = next /\ UNCHANGED errors

SnapshotBefore ==
  /\ step = "snapshot"
  /\ \/ Continues("module") /\ before' = Digests(tree)
     \/ Fails("snapshot before", "returned") /\ UNCHANGED before
  /\ UNCHANGED <<graph, tree, fileVars, historyVars>>

\* The loop of bootstrapDependencies: another graph, or the deferred comparison.
NextGraph ==
  /\ step' = IF graph < Graphs THEN "module" ELSE "compare"
  /\ graph' = IF graph < Graphs THEN graph + 1 ELSE graph

ReadModule ==
  /\ step = "module"
  /\ \/ Continues("mkdir") /\ UNCHANGED <<graph, absent>>
     \/ Fails("read", "compare") /\ UNCHANGED <<graph, absent>>
     \/ graph \in Optional /\ NextGraph /\ absent' = absent \cup {graph} /\ UNCHANGED errors
  /\ UNCHANGED <<tree, before, fileVars, downloaded>>

\* os.MkdirTemp; from here on the directory is removed whatever happens.
MakeTemporary ==
  /\ step = "mkdir"
  /\ \/ Continues("open") /\ temporary' = temporary \cup {graph}
     \/ Fails("mkdir", "compare") /\ UNCHANGED temporary
  /\ copied' = {}
  /\ UNCHANGED <<graph, tree, before, opened, historyVars>>

\* Wrong: the removal is deferred only once the directory was opened.
OpenRootDefersLate ==
  /\ step = "open"
  /\ \/ Continues("write") /\ opened' = TRUE
     \/ Fails("open", "compare") /\ UNCHANGED opened
  /\ UNCHANGED <<graph, tree, before, temporary, copied, historyVars>>

OpenRoot ==
  /\ step = "open"
  /\ \/ Continues("write") /\ opened' = TRUE
     \/ Fails("open", "remove") /\ UNCHANGED opened
  /\ UNCHANGED <<graph, tree, before, temporary, copied, historyVars>>

WriteModule ==
  /\ step = "write"
  /\ \/ Continues("sum") /\ copied' = {"graph.mod"}
     \/ Fails("write", "close") /\ UNCHANGED copied
  /\ UNCHANGED <<graph, tree, before, temporary, opened, historyVars>>

\* go.sum is read and written; a module graph may have none.
CopySum ==
  /\ step = "sum"
  /\ \/ Continues("download") /\ copied' \in {copied, copied \cup {"graph.sum"}}
     \/ \E error \in {"read", "write"} : Fails(error, "close") /\ UNCHANGED copied
  /\ UNCHANGED <<graph, tree, before, temporary, opened, historyVars>>

\* Wrong: what the command returned is forgotten.
DownloadUnchecked ==
  /\ step = "download"
  /\ tree' \in Trees
  /\ \E ok \in BOOLEAN : downloaded' = IF ok THEN downloaded \cup {graph} ELSE downloaded
  /\ Continues("close")
  /\ UNCHANGED <<graph, before, fileVars, absent>>

\* go mod download in the directory of the graph, which may change anything,
\* fail, or be killed when the context ends.
Download ==
  /\ step = "download"
  /\ tree' \in Trees
  /\ \/ Continues("close") /\ downloaded' = downloaded \cup {graph}
     \/ Fails("download", "close") /\ UNCHANGED downloaded
  /\ UNCHANGED <<graph, before, fileVars, absent>>

CloseRoot ==
  /\ step = "close"
  /\ opened' = FALSE
  /\ \/ Continues("remove")
     \/ Fails("close", "remove")
  /\ UNCHANGED <<graph, tree, before, temporary, copied, historyVars>>

\* Wrong: the loop looks only at the removal's own error.
RemoveForgetsFailure ==
  /\ step = "remove"
  /\ \/ temporary' = temporary \ {graph} /\ NextGraph /\ UNCHANGED errors
     \/ UNCHANGED <<temporary, graph>> /\ Fails("remove", "compare")
  /\ UNCHANGED <<tree, before, opened, copied, historyVars>>

\* os.RemoveAll, the last deferred call; any joined error ends the loop.
RemoveTemporary ==
  /\ step = "remove"
  /\ \/ temporary' = temporary \ {graph} /\ errors = {} /\ NextGraph /\ UNCHANGED errors
     \/ temporary' = temporary \ {graph} /\ errors # {} /\ Continues("compare") /\ UNCHANGED graph
     \/ UNCHANGED <<temporary, graph>> /\ Fails("remove", "compare")
  /\ UNCHANGED <<tree, before, opened, copied, historyVars>>

\* Wrong: the repository is compared only if nothing failed before.
CompareOnSuccess ==
  /\ step = "compare"
  /\ \/ Fails("snapshot after", "returned")
     \/ (errors # {} \/ Digests(tree) = before) /\ Continues("returned")
     \/ errors = {} /\ Digests(tree) # before /\ Fails("modified", "returned")
  /\ UNCHANGED <<graph, tree, before, fileVars, historyVars>>

\* The deferred second snapshot and its comparison with the first.
Compare ==
  /\ step = "compare"
  /\ \/ Fails("snapshot after", "returned")
     \/ Digests(tree) = before /\ Continues("returned")
     \/ Digests(tree) # before /\ Fails("modified", "returned")
  /\ UNCHANGED <<graph, tree, before, fileVars, historyVars>>

Next ==
  \/ SnapshotBefore \/ ReadModule \/ MakeTemporary \/ OpenRoot \/ WriteModule
  \/ CopySum \/ Download \/ CloseRoot \/ RemoveTemporary \/ Compare

Spec == Init /\ [][Next]_vars

-----------------------------------------------------------------------------
Returned == step = "returned"

\* verification.md: the repository is verified to be unchanged even when a
\* download fails.  Whatever else failed, a change is reported, or that it could
\* not be looked for.
ChangeReported ==
  Returned /\ before # None /\ Digests(tree) # before =>
    "modified" \in errors \/ "snapshot after" \in errors

\* A bootstrap without error downloaded every graph that exists, left the
\* repository as it was and nothing behind.
SuccessIsComplete ==
  Returned /\ errors = {} =>
    /\ downloaded = (1 .. Graphs) \ absent /\ absent \subseteq Optional
    /\ Digests(tree) = before
    /\ temporary = {} /\ ~opened

\* No temporary directory outlives the bootstrap, on no path, unless its removal
\* failed, which is reported; and no open directory does.
TemporariesRemoved ==
  Returned => (temporary # {} => "remove" \in errors) /\ ~opened

\* The network is used only while nothing has failed, and only for a private
\* copy of a go.mod (bootstrapDownloadArguments).
DownloadsOnlyCopies ==
  [][downloaded' # downloaded => errors = {} /\ opened /\ "graph.mod" \in copied]_vars

=============================================================================
