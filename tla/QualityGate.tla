----------------------------- MODULE QualityGate -----------------------------
(***************************************************************************)
(* The quality gate (src/internal/qualitygate/main.go): a mode runs gates  *)
(* one after the other, a gate runs steps, and the first step that fails   *)
(* ends the run after the deferred calls of its gate.  Steps read files or *)
(* run child processes, under one context with a deadline.                 *)
(*                                                                         *)
(* What may be wrong with the repository is a set of faults; the child     *)
(* processes are external, and each may fail for reasons of its own.       *)
(***************************************************************************)
EXTENDS Naturals, Sequences, FiniteSets

CONSTANTS
  Repositories,  \* the sets of faults a repository may have
  Directories,   \* go.mod files from the working directory upward
  Ambients,      \* the environments the gate may be started in
  Upper,         \* strings.ToUpper, on the names of variables
  Sensitive      \* the upper-case names sensitiveEnvironmentKey holds of

VARIABLES
  mode,         \* flag -mode
  toolchain,    \* runtime.Version() is requiredGo
  ancestors,    \* directories repositoryRoot has still to look at
  stage,        \* where execute is
  root,         \* the module repositoryRoot found
  gates,        \* gates still to run
  steps,        \* steps of the current gate still to run
  child,        \* the child process, if one is running
  faults,       \* what is wrong with the repository
  temporaries,  \* temporary files and directories on disk
  deferred,     \* those whose removal is deferred
  context,      \* the context of the run
  ambient,      \* os.Environ()
  errors        \* kinds of errors joined into the result

startVars == <<mode, toolchain, ambient>>
runVars == <<stage, gates, steps>>
diskVars == <<faults, temporaries, deferred>>
vars == <<startVars, ancestors, root, runVars, child, diskVars, context, errors>>

-----------------------------------------------------------------------------
(* Environments are sets of variables; an entry without "=" is none.        *)

\* maps.Copy
CopyInto(values, overrides) ==
  [key \in DOMAIN values \cup DOMAIN overrides |->
     IF key \in DOMAIN overrides THEN overrides[key] ELSE values[key]]

Common == [GOWORK |-> "off", GOFLAGS |-> "", GOTOOLCHAIN |-> "local"]
Online == [GOAUTH |-> "off", GONOPROXY |-> "", GONOSUMDB |-> "", GOPRIVATE |-> "",
           GOPROXY |-> "https://proxy.golang.org", GOSUMDB |-> "sum.golang.org"]
Offline == [GOPROXY |-> "off"]

\* The variables the gate may set itself; none of them is a secret.
Forced == DOMAIN Common \cup DOMAIN Online

ASSUME GateAssumption ==
  /\ Directories \subseteq Seq({"absent", "other", "tools", "product"})
  /\ \A key \in Forced : Upper[key] = key /\ key \notin Sensitive

Values(network, overrides) ==
  CopyInto(CopyInto(Common, IF network THEN Online ELSE Offline), overrides)

\* Wrong: a variable is replaced only if it is spelled the same way.
CommandEnvironmentExactCase(network, overrides) ==
  LET values == Values(network, overrides)
  IN  {entry \in ambient : Upper[entry.key] \notin Sensitive /\ entry.key \notin DOMAIN values}
        \cup {[key |-> key, value |-> values[key]] : key \in DOMAIN values}

CommandEnvironment(network, overrides) ==
  LET values == Values(network, overrides)
  IN  {entry \in ambient : Upper[entry.key] \notin Sensitive \cup DOMAIN values}
        \cup {[key |-> key, value |-> values[key]] : key \in DOMAIN values}

-----------------------------------------------------------------------------
(* The steps of every gate.  A step that checks something is named for it.  *)

Metadata == {"release", "dependencies", "portability", "workflow"}
Tools    == {"goimports", "gofumpt", "golangci-lint", "nilaway", "gosec", "govulncheck"}
Commands == {"tidy", "vet", "tests", "race tests", "benchmarks", "packages", "coverage tests",
             "coverage report", "fresh vendor", "offline tests", "offline build"}
Files    == {"go files", "profile", "coverage", "current digests", "fresh digests", "vendor"}
Graphs   == {"product graph", "tools graph"}

Step == [do : {"read", "tool", "run", "list", "write", "download", "mkdir", "create", "close"},
         what : Metadata \cup Tools \cup Commands \cup Files \cup Graphs]

Read(what)     == [do |-> "read", what |-> what]
Tool(what)     == [do |-> "tool", what |-> what]
Run(what)      == [do |-> "run", what |-> what]
Download(what) == [do |-> "download", what |-> what]

checkRepositoryMetadata ==
  <<Read("release"), Read("dependencies"), Read("portability"), Read("workflow")>>

format(option) ==
  <<Read("go files"),
    Tool("goimports"), [do |-> option, what |-> "goimports"],
    Tool("gofumpt"), [do |-> option, what |-> "gofumpt"]>>

\* Wrong: the check rewrites what it finds.
formatCheckWrites == format("write")
formatCheck == format("list")

moduleCheck == <<Run("tidy")>>
vet         == <<Run("vet")>>
tests       == <<Run("tests")>>
raceTests   == <<Run("race tests")>>
benchmarks  == <<Run("benchmarks")>>

lint ==
  <<Tool("golangci-lint"), Run("golangci-lint"), Tool("nilaway"), Run("nilaway")>>

security ==
  <<Tool("gosec"), Run("gosec"), Tool("govulncheck"), Run("govulncheck")>>

coverage ==
  <<Run("packages"), [do |-> "create", what |-> "profile"], [do |-> "close", what |-> "profile"],
    Run("coverage tests"), Run("coverage report"), Read("coverage")>>

vendor ==
  <<[do |-> "mkdir", what |-> "vendor"], Run("fresh vendor"),
    Read("current digests"), Read("fresh digests"), Read("vendor")>>

offline == <<Run("offline tests"), Run("offline build")>>

\* bootstrapDependencies, which Bootstrap models in full: the module graph of
\* the root, and of its tools directory if that has one.
bootstrapDependencies ==
  IF root = "tools" THEN <<Download("tools graph")>>
  ELSE <<Download("product graph"), Download("tools graph")>>

check == <<checkRepositoryMetadata, formatCheck, moduleCheck, vet, tests>>

Modes == {"tools-bootstrap", "fast", "fmt", "check", "benchmark", "verify"}

\* Wrong: the fast mode checks the metadata last.
RunModeUnchecked ==
  CASE mode = "tools-bootstrap" -> <<bootstrapDependencies>>
    [] mode = "fast"      -> <<tests, checkRepositoryMetadata>>
    [] mode = "fmt"       -> <<format("write")>>
    [] mode = "check"     -> check
    [] mode = "benchmark" -> <<checkRepositoryMetadata, benchmarks>>
    [] mode = "verify"    -> check \o <<lint, security, raceTests, coverage, vendor, offline>>

RunMode ==
  CASE mode = "tools-bootstrap" -> <<bootstrapDependencies>>
    [] mode = "fast"      -> <<checkRepositoryMetadata, tests>>
    [] mode = "fmt"       -> <<format("write")>>
    [] mode = "check"     -> check
    [] mode = "benchmark" -> <<checkRepositoryMetadata, benchmarks>>
    [] mode = "verify"    -> check \o <<lint, security, raceTests, coverage, vendor, offline>>

Overrides(what) ==
  IF what = "benchmarks"
  THEN [GOFLAGS |-> "-mod=vendor", GOPROXY |-> "off", GOSUMDB |-> "off",
        GOTOOLCHAIN |-> "local", GOWORK |-> "off"]
  ELSE IF what \in {"offline tests", "offline build"} THEN [GOFLAGS |-> "-mod=vendor"] ELSE << >>

-----------------------------------------------------------------------------
NoChild == [what |-> "none", environment |-> {}]
ErrorKinds == {"usage", "step", "close", "remove"}

TypeOK ==
  /\ mode \in Modes \cup {"unknown"} /\ toolchain \in BOOLEAN /\ ambient \in Ambients
  /\ ancestors \in Seq({"absent", "other", "tools", "product"})
  /\ stage \in {"root", "run", "exited"}
  /\ root \in {"none", "tools", "product"}
  /\ gates \in Seq(Seq(Step)) /\ steps \in Seq(Step)
  /\ \A entry \in child.environment : entry \in ambient \/ entry.key \in Forced
  /\ faults \in SUBSET UNION Repositories
  /\ temporaries \subseteq {"profile", "vendor"} /\ deferred \subseteq {"profile", "vendor"}
  /\ context \in {"live", "deadline"}
  /\ errors \subseteq ErrorKinds

Init ==
  /\ mode \in Modes \cup {"unknown"} /\ toolchain \in BOOLEAN /\ ambient \in Ambients
  /\ ancestors \in Directories /\ root = "none"
  /\ stage = "root" /\ gates = << >> /\ steps = << >> /\ child = NoChild
  /\ faults \in Repositories /\ temporaries = {} /\ deferred = {}
  /\ context = "live" /\ errors = {}

Exit(error) ==
  /\ stage' = "exited" /\ errors' = errors \cup error
  /\ UNCHANGED <<gates, steps>>

\* repositoryRoot, for one directory: any go.mod that holds the module's path
\* will do, also the one of tools, whose path begins with it.
FindRoot ==
  /\ stage = "root" /\ root = "none"
  /\ \/ /\ ancestors # << >> /\ Head(ancestors) \in {"tools", "product"}
        /\ root' = Head(ancestors) /\ UNCHANGED <<ancestors, runVars, errors>>
     \/ /\ ancestors # << >> /\ Head(ancestors) \in {"absent", "other"}
        /\ ancestors' = Tail(ancestors) /\ UNCHANGED <<root, runVars, errors>>
     \/ ancestors = << >> /\ Exit({"usage"}) /\ UNCHANGED <<ancestors, root>>
  /\ UNCHANGED <<startVars, child, diskVars, context>>

\* run, up to the first gate.
Start ==
  /\ stage = "root" /\ root # "none"
  /\ \/ /\ toolchain /\ mode \in Modes
        /\ stage' = "run" /\ gates' = Tail(RunMode) /\ steps' = Head(RunMode)
        /\ UNCHANGED errors
     \/ ~(toolchain /\ mode \in Modes) /\ Exit({"usage"})
  /\ UNCHANGED <<startVars, ancestors, root, child, diskVars, context>>

-----------------------------------------------------------------------------
Idle == stage = "run" /\ errors = {} /\ child = NoChild

Passes == steps' = Tail(steps) /\ UNCHANGED <<stage, gates, errors>>

\* The gate returns; what it deferred comes next.
Fails(error) == errors' = errors \cup {error} /\ steps' = << >> /\ UNCHANGED <<stage, gates>>

\* A check of files, digests or a report; tools has no repository metadata.
ReadStep ==
  /\ Idle /\ steps # << >> /\ Head(steps).do = "read"
  /\ \/ /\ Head(steps).what \notin faults
        /\ root = "tools" => Head(steps).what \notin Metadata
        /\ Passes
     \/ Fails("step")
  /\ UNCHANGED <<startVars, ancestors, root, child, diskVars, context>>

\* os.MkdirTemp, os.CreateTemp; the profile's removal is deferred once it is closed.
CreateStep ==
  /\ Idle /\ steps # << >> /\ Head(steps).do \in {"mkdir", "create"}
  /\ \/ /\ Passes
        /\ temporaries' = temporaries \cup {Head(steps).what}
        /\ deferred' = IF Head(steps).do = "mkdir" THEN deferred \cup {Head(steps).what} ELSE deferred
     \/ Fails("step") /\ UNCHANGED <<temporaries, deferred>>
  /\ UNCHANGED <<startVars, ancestors, root, child, faults, context>>

\* Wrong: the removal is not deferred.
CloseStepOnly ==
  /\ Idle /\ steps # << >> /\ Head(steps).do = "close"
  /\ \/ Passes
     \/ Fails("close")
  /\ UNCHANGED <<startVars, ancestors, root, child, diskVars, context>>

CloseStep ==
  /\ Idle /\ steps # << >> /\ Head(steps).do = "close"
  /\ \/ Passes /\ deferred' = deferred \cup {Head(steps).what}
     \/ Fails("close") /\ UNCHANGED deferred
  /\ UNCHANGED <<startVars, ancestors, root, child, faults, temporaries, context>>

\* command, capture, networkCommand: no process starts under a context that ended.
StartChild ==
  /\ Idle /\ steps # << >> /\ Head(steps).do \in {"tool", "run", "list", "write", "download"}
  /\ \/ /\ context = "live"
        /\ child' = [what |-> Head(steps).what,
                     environment |-> CommandEnvironment(Head(steps).do = "download",
                                                        Overrides(Head(steps).what))]
        /\ UNCHANGED <<runVars, errors>>
     \/ Fails("step") /\ UNCHANGED child
  /\ UNCHANGED <<startVars, ancestors, root, diskVars, context>>

\* capture reads what the child prints through pipes: it returns only when every
\* process that inherited them has ended, also one the killed child had started.
Captured ==
  child # NoChild /\ (\/ Head(steps).do \in {"tool", "list", "write"}
                      \/ Head(steps).what \in {"packages", "coverage report"})

\* A rewritten or downloaded thing is in order afterwards.
Repaired == IF Head(steps).do \in {"write", "download"} THEN {Head(steps).what} ELSE {}

\* Wrong: a tool that lists files is judged by its exit status only.
PassesExitStatus ==
  /\ Head(steps).do = "run" => Head(steps).what \notin faults
  /\ Head(steps).do = "tool" => root = "product"

\* A check passes only if it finds nothing; tools are found in the tools module.
PassesCheck ==
  /\ Head(steps).do \in {"run", "list"} => Head(steps).what \notin faults
  /\ Head(steps).do = "tool" => root = "product"

\* The child ends by itself, or is killed when the context ends; a captured one
\* has ended when its pipes are closed too.
ChildEnds ==
  /\ child # NoChild
  /\ child' = NoChild
  /\ \/ PassesCheck /\ Passes /\ faults' = faults \ Repaired
     \/ Fails("step") /\ faults' \in {faults, faults \ Repaired}
  /\ UNCHANGED <<startVars, ancestors, root, temporaries, deferred, context>>

-----------------------------------------------------------------------------
NextGate ==
  \/ /\ errors' = {} /\ gates # << >>
     /\ steps' = Head(gates) /\ gates' = Tail(gates) /\ UNCHANGED stage
  \/ /\ errors' # {} \/ gates = << >>
     /\ stage' = "exited" /\ UNCHANGED <<gates, steps>>

\* The gate has returned: its deferred removal, which may fail, and the next gate.
EndGate ==
  /\ stage = "run" /\ child = NoChild /\ steps = << >>
  /\ \/ UNCHANGED errors /\ temporaries' = temporaries \ deferred
     \/ deferred # {} /\ errors' = errors \cup {"remove"} /\ UNCHANGED temporaries
  /\ deferred' = {}
  /\ NextGate
  /\ UNCHANGED <<startVars, ancestors, root, child, faults, context>>

\* Wrong: the context has no deadline.
NoDeadline == FALSE

\* The deadline of twenty minutes.
Deadline ==
  /\ context = "live" /\ stage # "exited"
  /\ context' = "deadline"
  /\ UNCHANGED <<startVars, ancestors, root, runVars, child, diskVars, errors>>

GateStep ==
  FindRoot \/ Start \/ ReadStep \/ CreateStep \/ CloseStep \/ StartChild \/ EndGate

Next == GateStep \/ ChildEnds \/ Deadline

Spec == Init /\ [][Next]_vars

\* The gate runs, its deadline comes, and a child that is killed ends.  A child
\* left alone may run forever, and so may what a captured child leaves behind.
FairSpec ==
  /\ Spec
  /\ WF_vars(GateStep)
  /\ WF_vars(Deadline)
  /\ WF_vars(context = "deadline" /\ ~Captured /\ ChildEnds)

-----------------------------------------------------------------------------
Exited == stage = "exited"
Passed == Exited /\ errors = {}

Checked == Metadata \cup {"goimports", "gofumpt", "tidy", "vet", "tests"}

\* verification.md, mode by mode.
Promised ==
  [m \in Modes |->
     CASE m = "tools-bootstrap" -> {"product graph", "tools graph"}
       [] m = "fast"      -> Metadata \cup {"tests"}
       [] m = "fmt"       -> {"goimports", "gofumpt"}
       [] m = "check"     -> Checked
       [] m = "benchmark" -> Metadata \cup {"benchmarks"}
       [] m = "verify"    -> Checked \cup {"golangci-lint", "nilaway", "gosec", "govulncheck",
                              "race tests", "coverage", "vendor", "offline tests", "offline build"}]

\* A run that passes leaves nothing of what verification.md promises for its mode
\* wrong with the repository, whatever failed or timed out on the way.
PassIsSound ==
  Passed /\ (mode = "tools-bootstrap" => root = "product") =>
    toolchain /\ mode \in Modes /\ faults \cap Promised[mode] = {}

\* "Every verification mode first validates" the metadata: while anything is wrong
\* with it, no child process is started, but to format or to download.
MetadataComesFirst ==
  child # NoChild /\ mode \notin {"fmt", "tools-bootstrap"} => faults \cap Metadata = {}

Environment(key) == {entry \in child.environment : Upper[entry.key] = key}

\* Every child but the bootstrap's works offline, with the toolchain and the
\* workspace that were selected, whatever the gate was started with and however
\* it is spelled; no secret reaches a child, and nothing else is kept from it.
Hermetic ==
  child # NoChild =>
    /\ \A key \in DOMAIN Common \cup {"GOPROXY"} :
         \E entry \in child.environment : Environment(key) = {entry} /\ entry.key = key
    /\ \A entry \in Environment("GOPROXY") : entry.value = "off" <=> mode # "tools-bootstrap"
    /\ \A key \in Sensitive : Environment(key) = {}
    /\ \A entry \in ambient :
         Upper[entry.key] \notin Sensitive \cup Forced => entry \in child.environment

\* A temporary file outlives the gate only if it could not be closed or removed,
\* which fails the run.
TemporariesRemoved ==
  Exited => (temporaries # {} => errors \cap {"close", "remove"} # {}) /\ deferred = {}

\* verification.md: fmt is the only mode that rewrites source.
OnlyFmtRewrites ==
  [][faults' # faults => mode \in {"fmt", "tools-bootstrap"}]_vars

\* The gate ends, although a child may hang, or waits forever, past its deadline,
\* for the output of a command it captures; modes that capture none always end.
Terminates ==
  /\ <>Exited \/ <>[](Captured /\ context = "deadline")
  /\ mode \in {"tools-bootstrap", "fast", "benchmark"} => <>Exited

=============================================================================
