-------------------------- MODULE QualityGateProofs --------------------------
(***************************************************************************)
(* Safety of the quality gate for every repository and every environment   *)
(* it may be started in.                                                   *)
(***************************************************************************)
EXTENDS QualityGate, TLAPS

-----------------------------------------------------------------------------
(* What holds of every gate's steps, and of what is left of them.           *)

WellFormed(seq, m) ==
  /\ seq \in Seq(Step)
  /\ \A i \in DOMAIN seq : seq[i].do = "download" <=> m = "tools-bootstrap"
  /\ \A i \in DOMAIN seq : seq[i].do = "download" => seq[i].what \in Graphs
  /\ \A i \in DOMAIN seq : seq[i].do = "write" => m = "fmt"
  /\ \A i \in DOMAIN seq : seq[i].do \in {"mkdir", "create", "close"} => seq[i].what \in {"profile", "vendor"}
  /\ \A i \in DOMAIN seq : seq[i].do = "create" =>
       i + 1 \in DOMAIN seq /\ seq[i + 1].do = "close" /\ seq[i + 1].what = seq[i].what

\* What the steps of a gate leave in order if they pass.
Assures(seq) ==
  {seq[i].what : i \in {j \in DOMAIN seq : seq[j].do \in {"read", "run", "list", "write", "download"}}}

LEMMA TailFacts ==
  ASSUME NEW m, NEW seq, WellFormed(seq, m), seq # << >>
  PROVE  /\ WellFormed(Tail(seq), m)
         /\ Head(seq) \in Step
         /\ Assures(seq) \subseteq {Head(seq).what} \cup Assures(Tail(seq))
         /\ Head(seq).do \notin {"read", "run", "list", "write", "download"} =>
              Assures(seq) = Assures(Tail(seq))
         /\ Head(seq).do = "download" <=> m = "tools-bootstrap"
         /\ Head(seq).do = "download" => Head(seq).what \in Graphs
         /\ Head(seq).do = "write" => m = "fmt"
         /\ Head(seq).do \in {"mkdir", "create", "close"} => Head(seq).what \in {"profile", "vendor"}
         /\ Head(seq).do = "create" =>
              Tail(seq) # << >> /\ Head(Tail(seq)).do = "close" /\ Head(Tail(seq)).what = Head(seq).what
<1> DEFINE rest == Tail(seq)
<1>1. /\ seq \in Seq(Step) /\ Len(seq) \in Nat /\ Len(seq) >= 1 /\ DOMAIN seq = 1 .. Len(seq)
      /\ Head(seq) = seq[1] /\ 1 \in DOMAIN seq
  BY DEF WellFormed
<1>2. /\ rest \in Seq(Step) /\ DOMAIN rest = 1 .. Len(seq) - 1 /\ Len(rest) = Len(seq) - 1
      /\ \A i \in DOMAIN rest : rest[i] = seq[i + 1] /\ i + 1 \in DOMAIN seq
  BY <1>1
<1>3. \A i \in DOMAIN seq : i # 1 => i - 1 \in DOMAIN rest /\ seq[i] = rest[i - 1]
  BY <1>1, <1>2
<1>4. Head(seq) \in Step
  BY <1>1
<1>5. WellFormed(rest, m)
  <2>1. \A i \in DOMAIN rest : rest[i].do = "download" <=> m = "tools-bootstrap"
    BY <1>2 DEF WellFormed
  <2>4. /\ \A i \in DOMAIN rest : rest[i].do = "download" => rest[i].what \in Graphs
        /\ \A i \in DOMAIN rest : rest[i].do = "write" => m = "fmt"
    BY <1>2 DEF WellFormed
  <2>2. \A i \in DOMAIN rest : rest[i].do \in {"mkdir", "create", "close"} => rest[i].what \in {"profile", "vendor"}
    BY <1>2 DEF WellFormed
  <2>3. ASSUME NEW i \in DOMAIN rest, rest[i].do = "create"
        PROVE  i + 1 \in DOMAIN rest /\ rest[i + 1].do = "close" /\ rest[i + 1].what = rest[i].what
    <3>1. seq[i + 1].do = "create" /\ i + 1 \in DOMAIN seq
      BY <1>2, <2>3
    <3>2. i + 2 \in DOMAIN seq /\ seq[i + 2].do = "close" /\ seq[i + 2].what = seq[i + 1].what
      <4>1. (i + 1) + 1 = i + 2
        BY <1>2
      <4> QED BY <3>1, <4>1 DEF WellFormed
    <3>3. i + 1 \in DOMAIN rest
      BY <1>1, <1>2, <3>2
    <3> QED BY <1>2, <3>2, <3>3
  <2> QED BY <1>2, <2>1, <2>2, <2>3, <2>4 DEF WellFormed
<1>6. ASSUME NEW what \in Assures(seq), what # Head(seq).what
      PROVE  what \in Assures(rest)
  <2>1. PICK i \in DOMAIN seq :
          seq[i].do \in {"read", "run", "list", "write", "download"} /\ what = seq[i].what
    BY DEF Assures
  <2>2. i - 1 \in DOMAIN rest /\ seq[i] = rest[i - 1]
    BY <1>1, <1>3, <1>6, <2>1
  <2> QED BY <2>1, <2>2 DEF Assures
<1>7. Assures(rest) \subseteq Assures(seq)
  BY <1>1, <1>2 DEF Assures
<1>9. Head(seq).do \notin {"read", "run", "list", "write", "download"} => Assures(seq) \subseteq Assures(rest)
  <2> SUFFICES ASSUME Head(seq).do \notin {"read", "run", "list", "write", "download"},
                      NEW what \in Assures(seq)
               PROVE  what \in Assures(rest)
    OBVIOUS
  <2>1. PICK i \in DOMAIN seq :
          seq[i].do \in {"read", "run", "list", "write", "download"} /\ what = seq[i].what
    BY DEF Assures
  <2>2. i # 1
    BY <1>1, <2>1
  <2>3. i - 1 \in DOMAIN rest /\ seq[i] = rest[i - 1]
    BY <1>1, <1>3, <2>1, <2>2
  <2> QED BY <2>1, <2>3 DEF Assures
<1>8. Head(seq).do = "create" =>
        rest # << >> /\ Head(rest).do = "close" /\ Head(rest).what = Head(seq).what
  <2> SUFFICES ASSUME Head(seq).do = "create"
               PROVE  rest # << >> /\ Head(rest).do = "close" /\ Head(rest).what = Head(seq).what
    OBVIOUS
  <2>1. 2 \in DOMAIN seq /\ seq[2].do = "close" /\ seq[2].what = seq[1].what
    <3>1. 1 + 1 = 2
      OBVIOUS
    <3> QED BY <1>1, <3>1 DEF WellFormed
  <2>2. 1 \in DOMAIN rest /\ rest[1] = seq[2]
    BY <1>1, <1>2, <2>1
  <2> QED BY <1>1, <1>2, <2>1, <2>2
<1>10. /\ Head(seq).do = "download" <=> m = "tools-bootstrap"
       /\ Head(seq).do = "download" => Head(seq).what \in Graphs
       /\ Head(seq).do = "write" => m = "fmt"
       /\ Head(seq).do \in {"mkdir", "create", "close"} => Head(seq).what \in {"profile", "vendor"}
  BY <1>1 DEF WellFormed
<1> QED BY <1>4, <1>5, <1>6, <1>7, <1>8, <1>9, <1>10

\* A step that may stand anywhere in mode m.
Plain(step, m) ==
  /\ step \in Step
  /\ step.do = "download" <=> m = "tools-bootstrap"
  /\ step.do = "download" => step.what \in Graphs
  /\ step.do = "write" => m = "fmt"
  /\ step.do = "mkdir" => step.what = "vendor"
  /\ step.do = "close" => step.what = "profile"
  /\ step.do # "create"

LEMMA PlainSteps ==
  ASSUME NEW m \in Modes, m # "tools-bootstrap",
         NEW what \in Metadata \cup Tools \cup Commands \cup Files \cup Graphs
  PROVE  /\ Plain(Read(what), m) /\ Plain(Tool(what), m) /\ Plain(Run(what), m)
         /\ Plain([do |-> "list", what |-> what], m)
         /\ m = "fmt" => Plain([do |-> "write", what |-> what], m)
<1>1. ASSUME NEW action \in {"read", "tool", "run", "list", "write"}, action = "write" => m = "fmt"
      PROVE  Plain([do |-> action, what |-> what], m)
  BY <1>1 DEF Plain, Step
<1> QED BY <1>1 DEF Read, Tool, Run

LEMMA PlainGate ==
  ASSUME NEW m, NEW seq \in Seq(Step), \A i \in DOMAIN seq : Plain(seq[i], m)
  PROVE  WellFormed(seq, m)
BY DEF Plain, WellFormed

LEMMA OneStep == ASSUME NEW m, NEW a, Plain(a, m) PROVE WellFormed(<<a>>, m)
<1>1. <<a>> \in Seq(Step) /\ \A i \in DOMAIN <<a>> : Plain(<<a>>[i], m)
  BY DEF Plain
<1> QED BY <1>1, PlainGate

LEMMA TwoSteps ==
  ASSUME NEW m, NEW a, NEW b, Plain(a, m), Plain(b, m)
  PROVE  WellFormed(<<a, b>>, m)
<1>1. <<a, b>> \in Seq(Step) /\ \A i \in DOMAIN <<a, b>> : Plain(<<a, b>>[i], m)
  BY DEF Plain
<1> QED BY <1>1, PlainGate

LEMMA FourSteps ==
  ASSUME NEW m, NEW a, NEW b, NEW c, NEW d, Plain(a, m), Plain(b, m), Plain(c, m), Plain(d, m)
  PROVE  WellFormed(<<a, b, c, d>>, m)
<1>1. <<a, b, c, d>> \in Seq(Step) /\ \A i \in DOMAIN <<a, b, c, d>> : Plain(<<a, b, c, d>>[i], m)
  BY DEF Plain
<1> QED BY <1>1, PlainGate

LEMMA FiveSteps ==
  ASSUME NEW m, NEW a, NEW b, NEW c, NEW d, NEW e,
         Plain(a, m), Plain(b, m), Plain(c, m), Plain(d, m), Plain(e, m)
  PROVE  WellFormed(<<a, b, c, d, e>>, m)
<1>1. /\ <<a, b, c, d, e>> \in Seq(Step)
      /\ \A i \in DOMAIN <<a, b, c, d, e>> : Plain(<<a, b, c, d, e>>[i], m)
  BY DEF Plain
<1> QED BY <1>1, PlainGate

LEMMA CreatingGate ==
  ASSUME NEW m, m # "tools-bootstrap",
         NEW a, NEW b, NEW c, NEW d, NEW e, NEW f,
         Plain(a, m), Plain(c, m), Plain(d, m), Plain(e, m), Plain(f, m),
         b \in Step, b.do = "create", b.what = "profile", c.do = "close", c.what = "profile"
  PROVE  WellFormed(<<a, b, c, d, e, f>>, m)
<1> DEFINE seq == <<a, b, c, d, e, f>>
<1>1. seq \in Seq(Step)
  BY DEF Plain
<1>2. DOMAIN seq = 1 .. 6
  OBVIOUS
<1>3. \A i \in 1 .. 6 : i # 2 => Plain(seq[i], m)
  OBVIOUS
<1>4. seq[2] = b /\ seq[3] = c
  OBVIOUS
<1> HIDE DEF seq
<1>5. /\ \A i \in 1 .. 6 : seq[i].do = "download" <=> m = "tools-bootstrap"
      /\ \A i \in 1 .. 6 : seq[i].do = "download" => seq[i].what \in Graphs
      /\ \A i \in 1 .. 6 : seq[i].do = "write" => m = "fmt"
      /\ \A i \in 1 .. 6 : seq[i].do \in {"mkdir", "create", "close"} => seq[i].what \in {"profile", "vendor"}
      /\ \A i \in 1 .. 6 : seq[i].do = "create" => i = 2
  BY <1>3, <1>4 DEF Plain
<1>6. \A i \in 1 .. 6 : seq[i].do = "create" =>
        i + 1 \in 1 .. 6 /\ seq[i + 1].do = "close" /\ seq[i + 1].what = seq[i].what
  BY <1>4, <1>5
<1>7. WellFormed(seq, m)
  BY <1>1, <1>2, <1>5, <1>6 DEF WellFormed
<1> QED BY <1>7 DEF seq

LEMMA CoverageGate ==
  ASSUME NEW m \in Modes \ {"tools-bootstrap"}
  PROVE  WellFormed(coverage, m)
<1> DEFINE created == [do |-> "create", what |-> "profile"]
           closed  == [do |-> "close", what |-> "profile"]
<1>1. /\ Plain(Run("packages"), m) /\ Plain(Run("coverage tests"), m)
      /\ Plain(Run("coverage report"), m) /\ Plain(Read("coverage"), m) 
  BY PlainSteps DEF Commands, Files
<1>2. created \in Step /\ created.do = "create" /\ created.what = "profile"
  BY DEF Step, Files
<1>3. closed.do = "close" /\ closed.what = "profile" /\ Plain(closed, m)
  BY DEF Plain, Step, Files
<1> HIDE DEF created, closed
<1>4. WellFormed(<<Run("packages"), created, closed, Run("coverage tests"),
                   Run("coverage report"), Read("coverage")>>, m)
  BY <1>1, <1>2, <1>3, CreatingGate
<1> QED BY <1>4 DEF coverage, created, closed

\* Every gate a mode runs.
LEMMA GateFacts ==
  ASSUME NEW m \in Modes \ {"tools-bootstrap"}
  PROVE  /\ WellFormed(checkRepositoryMetadata, m)
         /\ WellFormed(format("list"), m) /\ (m = "fmt" => WellFormed(format("write"), m))
         /\ WellFormed(moduleCheck, m) /\ WellFormed(vet, m) /\ WellFormed(tests, m)
         /\ WellFormed(raceTests, m) /\ WellFormed(benchmarks, m) /\ WellFormed(lint, m)
         /\ WellFormed(security, m) /\ WellFormed(vendor, m) /\ WellFormed(offline, m)
<1>1. \A what \in Metadata \cup Files : Plain(Read(what), m)
  BY PlainSteps
<1>2. \A what \in Tools : /\ Plain(Tool(what), m) /\ Plain(Run(what), m)
                          /\ Plain([do |-> "list", what |-> what], m)
                          /\ m = "fmt" => Plain([do |-> "write", what |-> what], m)
  BY PlainSteps
<1>3. \A what \in Commands : Plain(Run(what), m)
  BY PlainSteps
<1>4. Plain([do |-> "mkdir", what |-> "vendor"], m)
  BY DEF Plain, Step, Files
<1>5. WellFormed(checkRepositoryMetadata, m)
  <2>1. /\ Plain(Read("release"), m) /\ Plain(Read("dependencies"), m)
        /\ Plain(Read("portability"), m) /\ Plain(Read("workflow"), m)
    BY <1>1 DEF Metadata
  <2> QED BY <2>1, FourSteps DEF checkRepositoryMetadata
<1>6. WellFormed(lint, m) /\ WellFormed(security, m)
  <2>1. /\ Plain(Tool("golangci-lint"), m) /\ Plain(Run("golangci-lint"), m)
        /\ Plain(Tool("nilaway"), m) /\ Plain(Run("nilaway"), m)
    BY <1>2 DEF Tools
  <2>2. /\ Plain(Tool("gosec"), m) /\ Plain(Run("gosec"), m)
        /\ Plain(Tool("govulncheck"), m) /\ Plain(Run("govulncheck"), m)
    BY <1>2 DEF Tools
  <2>3. WellFormed(lint, m)
    BY <2>1, FourSteps DEF lint
  <2>4. WellFormed(security, m)
    BY <2>2, FourSteps DEF security
  <2> QED BY <2>3, <2>4
<1>7. WellFormed(format("list"), m) /\ (m = "fmt" => WellFormed(format("write"), m))
  <2>1. Plain(Read("go files"), m) /\ Plain(Tool("goimports"), m) /\ Plain(Tool("gofumpt"), m)
    BY <1>1, <1>2 DEF Files, Tools
  <2>2. ASSUME NEW option,
               Plain([do |-> option, what |-> "goimports"], m),
               Plain([do |-> option, what |-> "gofumpt"], m)
        PROVE  WellFormed(format(option), m)
    BY <2>1, <2>2, FiveSteps DEF format
  <2>3. /\ Plain([do |-> "list", what |-> "goimports"], m)
        /\ Plain([do |-> "list", what |-> "gofumpt"], m)
    BY <1>2 DEF Tools
  <2>4. m = "fmt" => /\ Plain([do |-> "write", what |-> "goimports"], m)
                     /\ Plain([do |-> "write", what |-> "gofumpt"], m)
    BY <1>2 DEF Tools
  <2> QED BY <2>2, <2>3, <2>4
<1>8. /\ WellFormed(moduleCheck, m) /\ WellFormed(vet, m) /\ WellFormed(tests, m)
      /\ WellFormed(raceTests, m) /\ WellFormed(benchmarks, m) /\ WellFormed(offline, m)
  <2>1. ASSUME NEW what \in Commands
        PROVE  WellFormed(<<Run(what)>>, m)
    BY <1>3, OneStep
  <2>2. Plain(Run("offline tests"), m) /\ Plain(Run("offline build"), m)
    BY <1>3 DEF Commands
  <2>3. WellFormed(offline, m)
    BY <2>2, TwoSteps DEF offline
  <2>4. {"tidy", "vet", "tests", "race tests", "benchmarks"} \subseteq Commands
    BY DEF Commands
  <2>5. WellFormed(moduleCheck, m) /\ WellFormed(vet, m) /\ WellFormed(tests, m)
    BY <2>1, <2>4 DEF moduleCheck, vet, tests
  <2>6. WellFormed(raceTests, m) /\ WellFormed(benchmarks, m)
    BY <2>1, <2>4 DEF raceTests, benchmarks
  <2> QED BY <2>3, <2>5, <2>6
<1>9. WellFormed(vendor, m)
  <2>1. /\ Plain(Run("fresh vendor"), m) /\ Plain(Read("current digests"), m)
        /\ Plain(Read("fresh digests"), m) /\ Plain(Read("vendor"), m)
    BY <1>1, <1>3 DEF Commands, Files
  <2> QED BY <1>4, <2>1, FiveSteps DEF vendor
<1> QED BY <1>5, <1>6, <1>7, <1>8, <1>9

LEMMA BootstrapGate == WellFormed(bootstrapDependencies, "tools-bootstrap")
<1>1. \A what \in Graphs : Plain(Download(what), "tools-bootstrap")
  BY DEF Plain, Download, Step
<1>2. Plain(Download("product graph"), "tools-bootstrap") /\ Plain(Download("tools graph"), "tools-bootstrap")
  BY <1>1 DEF Graphs
<1>3. CASE root = "tools"
  BY <1>2, <1>3, OneStep DEF bootstrapDependencies
<1>4. CASE root # "tools"
  BY <1>2, <1>4, TwoSteps DEF bootstrapDependencies
<1> QED BY <1>3, <1>4

-----------------------------------------------------------------------------
(* What the gates of a mode assure.                                         *)

Assuring(step) == step.do \in {"read", "run", "list", "write", "download"}

LEMMA ShortGatesAssure ==
  /\ \A a : Assuring(a) => a.what \in Assures(<<a>>)
  /\ \A a, b : Assuring(a) /\ Assuring(b) => {a.what, b.what} \subseteq Assures(<<a, b>>)
  /\ \A a, b, c, d : Assuring(b) /\ Assuring(d) => {b.what, d.what} \subseteq Assures(<<a, b, c, d>>)
  /\ \A a, b, c, d : Assuring(a) /\ Assuring(c) => {a.what, c.what} \subseteq Assures(<<a, b, c, d>>)
  /\ \A a, b, c, d, e : Assuring(e) => e.what \in Assures(<<a, b, c, d, e>>)
  /\ \A a, b, c, d, e : Assuring(c) => c.what \in Assures(<<a, b, c, d, e>>)
  /\ \A a, b, c, d, e, f : Assuring(f) => f.what \in Assures(<<a, b, c, d, e, f>>)
<1>1. ASSUME NEW seq, NEW i \in DOMAIN seq, Assuring(seq[i])
      PROVE  seq[i].what \in Assures(seq)
  BY <1>1 DEF Assures, Assuring
<1>2. \A a, b : /\ 1 \in DOMAIN <<a>> /\ <<a>>[1] = a
                /\ 1 \in DOMAIN <<a, b>> /\ <<a, b>>[1] = a
                /\ 2 \in DOMAIN <<a, b>> /\ <<a, b>>[2] = b
  OBVIOUS
<1>3. \A a, b, c, d :
        /\ {1, 2, 3, 4} \subseteq DOMAIN <<a, b, c, d>> /\ <<a, b, c, d>>[1] = a
        /\ <<a, b, c, d>>[2] = b /\ <<a, b, c, d>>[3] = c /\ <<a, b, c, d>>[4] = d
  OBVIOUS
<1>4. \A a, b, c, d, e, f :
        /\ {3, 5} \subseteq DOMAIN <<a, b, c, d, e>>
        /\ <<a, b, c, d, e>>[3] = c /\ <<a, b, c, d, e>>[5] = e
        /\ 6 \in DOMAIN <<a, b, c, d, e, f>> /\ <<a, b, c, d, e, f>>[6] = f
  OBVIOUS
<1>5. \A a : Assuring(a) => a.what \in Assures(<<a>>)
  BY <1>1, <1>2
<1>6. \A a, b : Assuring(a) /\ Assuring(b) => {a.what, b.what} \subseteq Assures(<<a, b>>)
  BY <1>1, <1>2
<1>7. /\ \A a, b, c, d : Assuring(b) /\ Assuring(d) => {b.what, d.what} \subseteq Assures(<<a, b, c, d>>)
      /\ \A a, b, c, d : Assuring(a) /\ Assuring(c) => {a.what, c.what} \subseteq Assures(<<a, b, c, d>>)
  BY <1>1, <1>3
<1>8. /\ \A a, b, c, d, e : Assuring(e) => e.what \in Assures(<<a, b, c, d, e>>)
      /\ \A a, b, c, d, e : Assuring(c) => c.what \in Assures(<<a, b, c, d, e>>)
      /\ \A a, b, c, d, e, f : Assuring(f) => f.what \in Assures(<<a, b, c, d, e, f>>)
  BY <1>1, <1>4
<1> QED BY <1>5, <1>6, <1>7, <1>8

LEMMA GatesAssure ==
  /\ Metadata \subseteq Assures(checkRepositoryMetadata)
  /\ \A option \in {"list", "write"} : {"goimports", "gofumpt"} \subseteq Assures(format(option))
  /\ "tidy" \in Assures(moduleCheck) /\ "vet" \in Assures(vet) /\ "tests" \in Assures(tests)
  /\ "race tests" \in Assures(raceTests) /\ "benchmarks" \in Assures(benchmarks)
  /\ {"golangci-lint", "nilaway"} \subseteq Assures(lint)
  /\ {"gosec", "govulncheck"} \subseteq Assures(security)
  /\ "coverage" \in Assures(coverage) /\ "vendor" \in Assures(vendor)
  /\ {"offline tests", "offline build"} \subseteq Assures(offline)
  /\ root # "tools" => Graphs \subseteq Assures(bootstrapDependencies)
<1>1. \A what : /\ Assuring(Read(what)) /\ Read(what).what = what
                /\ Assuring(Run(what)) /\ Run(what).what = what
                /\ Assuring(Download(what)) /\ Download(what).what = what
  BY DEF Assuring, Read, Run, Download
<1>2. Metadata \subseteq Assures(checkRepositoryMetadata)
  BY <1>1, ShortGatesAssure DEF Metadata, checkRepositoryMetadata
<1>3. ASSUME NEW option \in {"list", "write"}
      PROVE  {"goimports", "gofumpt"} \subseteq Assures(format(option))
  <2>1. \A what : /\ Assuring([do |-> option, what |-> what])
                  /\ [do |-> option, what |-> what].what = what
    BY DEF Assuring
  <2> DEFINE imports == [do |-> option, what |-> "goimports"]
             strict  == [do |-> option, what |-> "gofumpt"]
  <2>2. /\ Assuring(imports) /\ imports.what = "goimports"
        /\ Assuring(strict) /\ strict.what = "gofumpt"
    BY <2>1
  <2>3. format(option) = <<Read("go files"), Tool("goimports"), imports, Tool("gofumpt"), strict>>
    BY DEF format
  <2> HIDE DEF imports, strict
  <2> QED BY <2>2, <2>3, ShortGatesAssure
<1>4. /\ "tidy" \in Assures(moduleCheck) /\ "vet" \in Assures(vet) /\ "tests" \in Assures(tests)
      /\ "race tests" \in Assures(raceTests) /\ "benchmarks" \in Assures(benchmarks)
  BY <1>1, ShortGatesAssure DEF moduleCheck, vet, tests, raceTests, benchmarks
<1>5. /\ {"golangci-lint", "nilaway"} \subseteq Assures(lint)
      /\ {"gosec", "govulncheck"} \subseteq Assures(security)
  BY <1>1, ShortGatesAssure DEF lint, security
<1>6. "coverage" \in Assures(coverage) /\ "vendor" \in Assures(vendor)
  <2> DEFINE created == [do |-> "create", what |-> "profile"]
             closed  == [do |-> "close", what |-> "profile"]
             made    == [do |-> "mkdir", what |-> "vendor"]
  <2>1. /\ coverage = <<Run("packages"), created, closed, Run("coverage tests"),
                         Run("coverage report"), Read("coverage")>>
        /\ vendor = <<made, Run("fresh vendor"), Read("current digests"),
                       Read("fresh digests"), Read("vendor")>>
    BY DEF coverage, vendor
  <2> HIDE DEF created, closed, made
  <2> QED BY <1>1, <2>1, ShortGatesAssure
<1>7. {"offline tests", "offline build"} \subseteq Assures(offline)
  BY <1>1, ShortGatesAssure DEF offline
<1>8. root # "tools" => Graphs \subseteq Assures(bootstrapDependencies)
  BY <1>1, ShortGatesAssure DEF bootstrapDependencies, Graphs
<1> QED BY <1>2, <1>3, <1>4, <1>5, <1>6, <1>7, <1>8

\* What a sequence of gates still assures.
AllAssure(seqs) == UNION {Assures(seqs[i]) : i \in DOMAIN seqs}

AllWellFormed(seqs, m) ==
  /\ seqs \in Seq(Seq(Step))
  /\ \A i \in DOMAIN seqs : WellFormed(seqs[i], m)

LEMMA ShortSequences ==
  ASSUME NEW m, NEW a, NEW b, NEW c, NEW d, NEW e, NEW f,
         WellFormed(a, m), WellFormed(b, m), WellFormed(c, m),
         WellFormed(d, m), WellFormed(e, m), WellFormed(f, m)
  PROVE  /\ AllWellFormed(<<a>>, m) /\ Assures(a) \subseteq AllAssure(<<a>>)
         /\ AllWellFormed(<<a, b, c, d, e>>, m)
         /\ Assures(a) \cup Assures(b) \cup Assures(c) \cup Assures(d) \cup Assures(e)
              \subseteq AllAssure(<<a, b, c, d, e>>)
         /\ AllWellFormed(<<a, b, c, d, e, f>>, m)
         /\ Assures(a) \cup Assures(b) \cup Assures(c) \cup Assures(d) \cup Assures(e) \cup Assures(f)
              \subseteq AllAssure(<<a, b, c, d, e, f>>)
<1>0. ASSUME NEW seqs, NEW i \in DOMAIN seqs
      PROVE  Assures(seqs[i]) \subseteq AllAssure(seqs)
  BY DEF AllAssure
<1>1. \A seq \in {a, b, c, d, e, f} : seq \in Seq(Step) /\ WellFormed(seq, m)
  <2>1. \A seq : WellFormed(seq, m) => seq \in Seq(Step)
    BY DEF WellFormed
  <2> QED BY <2>1
<1>2. AllWellFormed(<<a>>, m) /\ Assures(a) \subseteq AllAssure(<<a>>)
  <2>1. DOMAIN <<a>> = 1 .. 1 /\ <<a>>[1] = a
    OBVIOUS
  <2>2. AllWellFormed(<<a>>, m)
    BY <1>1 DEF AllWellFormed
  <2> QED BY <1>0, <2>1, <2>2
<1>4. /\ AllWellFormed(<<a, b, c, d, e>>, m)
      /\ Assures(a) \cup Assures(b) \cup Assures(c) \cup Assures(d) \cup Assures(e)
           \subseteq AllAssure(<<a, b, c, d, e>>)
  <2> DEFINE seqs == <<a, b, c, d, e>>
  <2>1. /\ DOMAIN seqs = 1 .. 5 /\ seqs[1] = a /\ seqs[2] = b /\ seqs[3] = c /\ seqs[4] = d
        /\ seqs[5] = e /\ \A i \in 1 .. 5 : seqs[i] \in {a, b, c, d, e, f}
    OBVIOUS
  <2>2. seqs \in Seq(Seq(Step))
    BY <1>1
  <2> HIDE DEF seqs
  <2>3. AllWellFormed(seqs, m)
    BY <1>1, <2>1, <2>2 DEF AllWellFormed
  <2>4. Assures(a) \cup Assures(b) \cup Assures(c) \cup Assures(d) \cup Assures(e) \subseteq AllAssure(seqs)
    BY <1>0, <2>1
  <2> QED BY <2>3, <2>4 DEF seqs
<1>5. /\ AllWellFormed(<<a, b, c, d, e, f>>, m)
      /\ Assures(a) \cup Assures(b) \cup Assures(c) \cup Assures(d) \cup Assures(e) \cup Assures(f)
           \subseteq AllAssure(<<a, b, c, d, e, f>>)
  <2> DEFINE seqs == <<a, b, c, d, e, f>>
  <2>1. /\ DOMAIN seqs = 1 .. 6 /\ seqs[1] = a /\ seqs[2] = b /\ seqs[3] = c /\ seqs[4] = d
        /\ seqs[5] = e /\ seqs[6] = f /\ \A i \in 1 .. 6 : seqs[i] \in {a, b, c, d, e, f}
    OBVIOUS
  <2>2. seqs \in Seq(Seq(Step))
    BY <1>1
  <2> HIDE DEF seqs
  <2>3. AllWellFormed(seqs, m)
    BY <1>1, <2>1, <2>2 DEF AllWellFormed
  <2>4. Assures(a) \cup Assures(b) \cup Assures(c) \cup Assures(d) \cup Assures(e) \cup Assures(f)
          \subseteq AllAssure(seqs)
    BY <1>0, <2>1
  <2> QED BY <2>3, <2>4 DEF seqs
<1> QED BY <1>2, <1>4, <1>5

LEMMA TwoGates ==
  ASSUME NEW m, NEW a, NEW b, WellFormed(a, m), WellFormed(b, m)
  PROVE  /\ AllWellFormed(<<a, b>>, m) /\ Assures(a) \cup Assures(b) \subseteq AllAssure(<<a, b>>)
         /\ <<a, b>> # << >> /\ Head(<<a, b>>) = a
<1>1. AllWellFormed(<<a, b>>, m) /\ Assures(a) \cup Assures(b) \subseteq AllAssure(<<a, b>>)
  <2>1. DOMAIN <<a, b>> = 1 .. 2 /\ <<a, b>>[1] = a /\ <<a, b>>[2] = b
    OBVIOUS
  <2>2. a \in Seq(Step) /\ b \in Seq(Step)
    BY DEF WellFormed
  <2>3. AllWellFormed(<<a, b>>, m)
    BY <2>2 DEF AllWellFormed
  <2>4. Assures(a) \subseteq AllAssure(<<a, b>>) /\ Assures(b) \subseteq AllAssure(<<a, b>>)
    BY <2>1 DEF AllAssure
  <2> QED BY <2>3, <2>4
<1> QED BY <1>1

LEMMA Concatenation ==
  ASSUME NEW m, NEW s, NEW t, AllWellFormed(s, m), AllWellFormed(t, m), s # << >>
  PROVE  /\ AllWellFormed(s \o t, m) /\ s \o t # << >> /\ Head(s \o t) = Head(s)
         /\ AllAssure(s) \cup AllAssure(t) \subseteq AllAssure(s \o t)
<1>1. /\ s \in Seq(Seq(Step)) /\ t \in Seq(Seq(Step)) /\ Len(s) \in Nat /\ Len(t) \in Nat /\ Len(s) > 0
      /\ DOMAIN s = 1 .. Len(s) /\ DOMAIN t = 1 .. Len(t)
  BY DEF AllWellFormed
<1>2. /\ s \o t \in Seq(Seq(Step)) /\ DOMAIN (s \o t) = 1 .. Len(s) + Len(t)
      /\ \A i \in 1 .. Len(s) : (s \o t)[i] = s[i]
      /\ \A i \in 1 .. Len(t) : (s \o t)[Len(s) + i] = t[i]
  BY <1>1
<1>3. \A i \in DOMAIN (s \o t) :
        i \notin DOMAIN s => i - Len(s) \in DOMAIN t /\ i = Len(s) + (i - Len(s))
  BY <1>1, <1>2
<1>4. \A i \in DOMAIN (s \o t) : WellFormed((s \o t)[i], m)
  BY <1>1, <1>2, <1>3 DEF AllWellFormed
<1>5. AllWellFormed(s \o t, m)
  BY <1>2, <1>4 DEF AllWellFormed
<1>6. AllAssure(s) \subseteq AllAssure(s \o t)
  <2>1. \A i \in DOMAIN s : i \in DOMAIN (s \o t) /\ (s \o t)[i] = s[i]
    BY <1>1, <1>2
  <2> QED BY <2>1 DEF AllAssure
<1>7. AllAssure(t) \subseteq AllAssure(s \o t)
  <2>1. \A i \in DOMAIN t : Len(s) + i \in DOMAIN (s \o t) /\ (s \o t)[Len(s) + i] = t[i]
    BY <1>1, <1>2
  <2> QED BY <2>1 DEF AllAssure
<1>8. s \o t # << >> /\ Head(s \o t) = Head(s)
  <2>1. 1 \in DOMAIN (s \o t) /\ (s \o t)[1] = s[1] /\ Head(s) = s[1]
    BY <1>1, <1>2
  <2> QED BY <1>2, <2>1
<1> QED BY <1>5, <1>6, <1>7, <1>8

\* Every mode runs well-formed gates, the metadata first, and they assure what
\* verification.md promises.
LEMMA ModesAssure ==
  ASSUME mode \in Modes
  PROVE  /\ RunMode # << >> /\ AllWellFormed(RunMode, mode)
         /\ (mode = "tools-bootstrap" => root # "tools") => Promised[mode] \subseteq AllAssure(RunMode)
         /\ mode \notin {"fmt", "tools-bootstrap"} => Head(RunMode) = checkRepositoryMetadata
<1>1. CASE mode = "tools-bootstrap"
  <2>1. RunMode = <<bootstrapDependencies>> /\ Promised[mode] = Graphs
    BY <1>1 DEF RunMode, Promised, Modes, Graphs
  <2> QED BY <1>1, <2>1, BootstrapGate, GatesAssure, ShortSequences
<1>2. CASE mode = "fast"
  <2>1. RunMode = <<checkRepositoryMetadata, tests>> /\ Promised[mode] = Metadata \cup {"tests"}
    BY <1>2 DEF RunMode, Promised, Modes
  <2>2. WellFormed(checkRepositoryMetadata, mode) /\ WellFormed(tests, mode)
    BY <1>2, GateFacts DEF Modes
  <2>3. Metadata \subseteq Assures(checkRepositoryMetadata) /\ "tests" \in Assures(tests)
    BY GatesAssure
  <2>4. /\ AllWellFormed(RunMode, mode) /\ RunMode # << >>
        /\ Head(RunMode) = checkRepositoryMetadata
        /\ Assures(checkRepositoryMetadata) \cup Assures(tests) \subseteq AllAssure(RunMode)
    BY <2>1, <2>2, TwoGates
  <2>5. Promised[mode] \subseteq AllAssure(RunMode)
    BY <2>1, <2>3, <2>4
  <2> QED BY <1>2, <2>4, <2>5
<1>3. CASE mode = "fmt"
  <2>1. RunMode = <<format("write")>> /\ Promised[mode] = {"goimports", "gofumpt"}
    BY <1>3 DEF RunMode, Promised, Modes
  <2>2. WellFormed(format("write"), mode)
    BY <1>3, GateFacts DEF Modes
  <2> QED BY <1>3, <2>1, <2>2, GatesAssure, ShortSequences
<1>4. CASE mode = "benchmark"
  <2>1. RunMode = <<checkRepositoryMetadata, benchmarks>> /\ Promised[mode] = Metadata \cup {"benchmarks"}
    BY <1>4 DEF RunMode, Promised, Modes
  <2>2. WellFormed(checkRepositoryMetadata, mode) /\ WellFormed(benchmarks, mode)
    BY <1>4, GateFacts DEF Modes
  <2>3. Metadata \subseteq Assures(checkRepositoryMetadata) /\ "benchmarks" \in Assures(benchmarks)
    BY GatesAssure
  <2>4. /\ AllWellFormed(RunMode, mode) /\ RunMode # << >>
        /\ Head(RunMode) = checkRepositoryMetadata
        /\ Assures(checkRepositoryMetadata) \cup Assures(benchmarks) \subseteq AllAssure(RunMode)
    BY <2>1, <2>2, TwoGates
  <2>5. Promised[mode] \subseteq AllAssure(RunMode)
    BY <2>1, <2>3, <2>4
  <2> QED BY <1>4, <2>4, <2>5
<1>5. ASSUME mode \in {"check", "verify"}
      PROVE  /\ check # << >> /\ AllWellFormed(check, mode) /\ Checked \subseteq AllAssure(check)
             /\ Head(check) = checkRepositoryMetadata
  <2>1. /\ WellFormed(checkRepositoryMetadata, mode) /\ WellFormed(formatCheck, mode)
        /\ WellFormed(moduleCheck, mode) /\ WellFormed(vet, mode) /\ WellFormed(tests, mode)
    BY <1>5, GateFacts DEF Modes, formatCheck
  <2>2. check = <<checkRepositoryMetadata, formatCheck, moduleCheck, vet, tests>>
    BY DEF check
  <2>3. AllWellFormed(check, mode)
    BY <2>1, <2>2, ShortSequences
  <2>4. Checked \subseteq AllAssure(check)
    <3>1. {"goimports", "gofumpt"} \subseteq Assures(formatCheck)
      BY GatesAssure DEF formatCheck
    <3> QED BY <2>1, <2>2, <3>1, GatesAssure, ShortSequences DEF Checked
  <2> QED BY <2>2, <2>3, <2>4
<1>6. CASE mode = "check"
  <2>1. RunMode = check /\ Promised[mode] = Checked
    BY <1>6 DEF RunMode, Promised, Modes
  <2> QED BY <1>5, <1>6, <2>1
<1>7. CASE mode = "verify"
  <2> DEFINE rest == <<lint, security, raceTests, coverage, vendor, offline>>
  <2>1. /\ RunMode = check \o rest
        /\ Promised[mode] = Checked \cup {"golangci-lint", "nilaway", "gosec", "govulncheck",
             "race tests", "coverage", "vendor", "offline tests", "offline build"}
    BY <1>7 DEF RunMode, Promised, Modes
  <2>2. /\ WellFormed(lint, mode) /\ WellFormed(security, mode) /\ WellFormed(raceTests, mode)
        /\ WellFormed(coverage, mode) /\ WellFormed(vendor, mode) /\ WellFormed(offline, mode)
    BY <1>7, GateFacts, CoverageGate DEF Modes
  <2>3. AllWellFormed(rest, mode)
    BY <2>2, ShortSequences
  <2>4. {"golangci-lint", "nilaway", "gosec", "govulncheck", "race tests", "coverage", "vendor",
         "offline tests", "offline build"} \subseteq AllAssure(rest)
    <3>1. /\ {"golangci-lint", "nilaway"} \subseteq Assures(lint)
          /\ {"gosec", "govulncheck"} \subseteq Assures(security)
          /\ "race tests" \in Assures(raceTests) /\ "coverage" \in Assures(coverage)
          /\ "vendor" \in Assures(vendor) /\ {"offline tests", "offline build"} \subseteq Assures(offline)
      BY GatesAssure
    <3>2. Assures(lint) \cup Assures(security) \cup Assures(raceTests) \cup Assures(coverage)
            \cup Assures(vendor) \cup Assures(offline) \subseteq AllAssure(rest)
      BY <2>2, ShortSequences
    <3> HIDE DEF rest
    <3> QED BY <3>1, <3>2
  <2> HIDE DEF rest
  <2> QED BY <1>5, <1>7, <2>1, <2>3, <2>4, Concatenation
<1> QED BY <1>1, <1>2, <1>3, <1>4, <1>6, <1>7 DEF Modes

-----------------------------------------------------------------------------
(* The environment of a child.                                              *)

LEMMA ValueFacts ==
  ASSUME NEW network \in BOOLEAN, NEW what
  PROVE  LET values == Values(network, Overrides(what))
         IN  /\ DOMAIN Common \cup {"GOPROXY"} \subseteq DOMAIN values
             /\ DOMAIN values \subseteq Forced
             /\ Overrides(what) = << >> => (values["GOPROXY"] = "off" <=> ~network)
             /\ ~network => values["GOPROXY"] = "off"
<1> DEFINE base == CopyInto(Common, IF network THEN Online ELSE Offline)
<1>1. /\ DOMAIN base = DOMAIN Common \cup (IF network THEN DOMAIN Online ELSE {"GOPROXY"})
      /\ base["GOPROXY"] = IF network THEN "https://proxy.golang.org" ELSE "off"
  BY DEF CopyInto, Common, Online, Offline
<1>2. /\ DOMAIN Overrides(what) \subseteq Forced
      /\ "GOPROXY" \in DOMAIN Overrides(what) => Overrides(what)["GOPROXY"] = "off"
  <2>0. /\ DOMAIN Common = {"GOWORK", "GOFLAGS", "GOTOOLCHAIN"}
        /\ {"GOPROXY", "GOSUMDB"} \subseteq DOMAIN Online
    BY DEF Common, Online
  <2>1. CASE what = "benchmarks"
    <3>1. Overrides(what) = [GOFLAGS |-> "-mod=vendor", GOPROXY |-> "off", GOSUMDB |-> "off",
                             GOTOOLCHAIN |-> "local", GOWORK |-> "off"]
      BY <2>1 DEF Overrides
    <3>2. /\ DOMAIN Overrides(what) = {"GOFLAGS", "GOPROXY", "GOSUMDB", "GOTOOLCHAIN", "GOWORK"}
          /\ Overrides(what)["GOPROXY"] = "off"
      BY <3>1
    <3> QED BY <2>0, <3>2 DEF Forced
  <2>2. CASE what \in {"offline tests", "offline build"}
    <3>0. what # "benchmarks"
      BY <2>2
    <3>1. Overrides(what) = [GOFLAGS |-> "-mod=vendor"]
      BY <2>2, <3>0 DEF Overrides
    <3>2. DOMAIN Overrides(what) = {"GOFLAGS"}
      BY <3>1
    <3> QED BY <2>0, <3>2 DEF Forced
  <2>3. CASE what \notin {"benchmarks", "offline tests", "offline build"}
    <3>1. Overrides(what) = << >>
      BY <2>3 DEF Overrides
    <3>2. DOMAIN Overrides(what) = {}
      BY <3>1
    <3> QED BY <3>2
  <2> QED BY <2>1, <2>2, <2>3
<1>3. "GOPROXY" \in DOMAIN Online /\ DOMAIN Online \subseteq Forced /\ DOMAIN Common \subseteq Forced
  BY DEF Online, Forced
<1> HIDE DEF base
<1>4. Values(network, Overrides(what)) = CopyInto(base, Overrides(what))
  BY DEF Values, base
<1> QED BY <1>1, <1>2, <1>3, <1>4 DEF CopyInto

\* Whatever the ambient environment, a child of a network step is online, every
\* other is not, and secrets and replaced variables are left out.
LEMMA EnvironmentFacts ==
  ASSUME NEW network \in BOOLEAN, NEW what,
         network => Overrides(what) = << >>,
         child.environment = CommandEnvironment(network, Overrides(what)),
         network <=> mode = "tools-bootstrap"
  PROVE  Hermetic /\ \A entry \in child.environment : entry \in ambient \/ entry.key \in Forced
<1> DEFINE values == Values(network, Overrides(what))
           forced == {[key |-> key, value |-> values[key]] : key \in DOMAIN values}
           kept   == {entry \in ambient : Upper[entry.key] \notin Sensitive \cup DOMAIN values}
<1>1. /\ DOMAIN Common \cup {"GOPROXY"} \subseteq DOMAIN values
      /\ DOMAIN values \subseteq Forced
      /\ values["GOPROXY"] = "off" <=> ~network
  BY ValueFacts
<1>2. child.environment = kept \cup forced
  BY DEF CommandEnvironment
<1>3. \A entry \in forced :
        entry.key \in DOMAIN values /\ entry.value = values[entry.key] /\ Upper[entry.key] = entry.key
  BY <1>1, GateAssumption
<1>4. ASSUME NEW key \in DOMAIN values
      PROVE  /\ [key |-> key, value |-> values[key]] \in forced
             /\ Environment(key) = {[key |-> key, value |-> values[key]]}
  <2>1. [key |-> key, value |-> values[key]] \in forced /\ Upper[key] = key
    BY <1>1, GateAssumption
  <2>2. \A entry \in forced : Upper[entry.key] = key => entry = [key |-> key, value |-> values[key]]
    BY <1>3
  <2>3. \A entry \in kept : Upper[entry.key] # key
    OBVIOUS
  <2>4. \A entry \in Environment(key) : entry = [key |-> key, value |-> values[key]]
    BY <1>2, <2>2, <2>3 DEF Environment
  <2>5. [key |-> key, value |-> values[key]] \in Environment(key)
    BY <1>2, <2>1 DEF Environment
  <2> QED BY <2>1, <2>4, <2>5
<1>5. \A key \in DOMAIN Common \cup {"GOPROXY"} :
        \E entry \in child.environment : Environment(key) = {entry} /\ entry.key = key
  <2> SUFFICES ASSUME NEW key \in DOMAIN Common \cup {"GOPROXY"}
               PROVE  \E entry \in child.environment : Environment(key) = {entry} /\ entry.key = key
    OBVIOUS
  <2> DEFINE only == [key |-> key, value |-> values[key]]
  <2>1. only \in child.environment /\ Environment(key) = {only} /\ only.key = key
    BY <1>1, <1>2, <1>4
  <2> QED BY <2>1
<1>6. \A entry \in Environment("GOPROXY") : entry.value = "off" <=> mode # "tools-bootstrap"
  <2>1. Environment("GOPROXY") = {[key |-> "GOPROXY", value |-> values["GOPROXY"]]}
    BY <1>1, <1>4
  <2>2. \A entry \in Environment("GOPROXY") : entry.value = values["GOPROXY"]
    BY <2>1
  <2> QED BY <1>1, <2>2
<1>7. \A key \in Sensitive : Environment(key) = {}
  <2> SUFFICES ASSUME NEW key \in Sensitive, NEW entry \in child.environment, Upper[entry.key] = key
               PROVE  FALSE
    BY DEF Environment
  <2>1. CASE entry \in forced
    BY <1>1, <1>3, <2>1, GateAssumption
  <2>2. CASE entry \in kept
    BY <2>2
  <2> QED BY <1>2, <2>1, <2>2
<1>8. \A entry \in ambient : Upper[entry.key] \notin Sensitive \cup Forced => entry \in child.environment
  BY <1>1, <1>2
<1>9. \A entry \in child.environment : entry \in ambient \/ entry.key \in Forced
  BY <1>1, <1>2, <1>3
<1> HIDE DEF values
<1> QED BY <1>5, <1>6, <1>7, <1>8, <1>9 DEF Hermetic

-----------------------------------------------------------------------------
(* The inductive invariant.                                                 *)

LEMMA EmptySteps == \A m : WellFormed(<< >>, m) /\ Assures(<< >>) = {}
BY DEF WellFormed, Assures

LEMMA GatesTail ==
  ASSUME NEW m, NEW seqs, AllWellFormed(seqs, m), seqs # << >>
  PROVE  /\ WellFormed(Head(seqs), m) /\ AllWellFormed(Tail(seqs), m)
         /\ AllAssure(seqs) \subseteq Assures(Head(seqs)) \cup AllAssure(Tail(seqs))
<1> DEFINE rest == Tail(seqs)
<1>1. /\ seqs \in Seq(Seq(Step)) /\ Len(seqs) \in Nat /\ Len(seqs) >= 1 /\ DOMAIN seqs = 1 .. Len(seqs)
      /\ Head(seqs) = seqs[1] /\ 1 \in DOMAIN seqs
  BY DEF AllWellFormed
<1>2. /\ rest \in Seq(Seq(Step)) /\ DOMAIN rest = 1 .. Len(seqs) - 1
      /\ \A i \in DOMAIN rest : rest[i] = seqs[i + 1] /\ i + 1 \in DOMAIN seqs
  BY <1>1
<1>3. \A i \in DOMAIN seqs : i # 1 => i - 1 \in DOMAIN rest /\ seqs[i] = rest[i - 1]
  BY <1>1, <1>2
<1>4. WellFormed(Head(seqs), m) /\ AllWellFormed(rest, m)
  BY <1>1, <1>2 DEF AllWellFormed
<1>5. AllAssure(seqs) \subseteq Assures(Head(seqs)) \cup AllAssure(rest)
  <2> SUFFICES ASSUME NEW i \in DOMAIN seqs, i # 1
               PROVE  Assures(seqs[i]) \subseteq AllAssure(rest)
    BY <1>1 DEF AllAssure
  <2> QED BY <1>3 DEF AllAssure
<1> QED BY <1>4, <1>5

Types ==
  /\ mode \in Modes \cup {"unknown"} /\ toolchain \in BOOLEAN /\ ambient \in Ambients
  /\ ancestors \in Seq({"absent", "other", "tools", "product"})
  /\ stage \in {"root", "run", "exited"}
  /\ root \in {"none", "tools", "product"}
  /\ gates \in Seq(Seq(Step)) /\ steps \in Seq(Step)
  /\ faults \in SUBSET UNION Repositories
  /\ temporaries \subseteq {"profile", "vendor"} /\ deferred \subseteq {"profile", "vendor"}
  /\ context \in {"live", "deadline"}
  /\ errors \subseteq ErrorKinds

RootFollows ==
  stage = "root" => /\ errors = {} /\ steps = << >> /\ gates = << >> /\ child = NoChild
                    /\ temporaries = {} /\ deferred = {}

ProgramFollows ==
  stage = "run" => /\ mode \in Modes /\ toolchain /\ root \in {"tools", "product"}
                   /\ WellFormed(steps, mode) /\ AllWellFormed(gates, mode)

\* A child is the one of the first step.
ChildFollows ==
  child # NoChild =>
    /\ stage = "run" /\ errors = {} /\ steps # << >>
    /\ Head(steps).do \in {"tool", "run", "list", "write", "download"}
    /\ child.environment = CommandEnvironment(Head(steps).do = "download", Overrides(Head(steps).what))

\* What is promised and not in order is assured by steps that are still to run.
AssureFollows ==
  stage = "run" /\ errors = {} /\ (mode = "tools-bootstrap" => root = "product") =>
    faults \cap Promised[mode] \subseteq Assures(steps) \cup AllAssure(gates)

\* Until the metadata has been read, nothing else is done.
MetadataFollows ==
  stage = "run" /\ errors = {} /\ mode \notin {"fmt", "tools-bootstrap"} =>
    \A fault \in faults \cap Metadata :
      \E i \in DOMAIN steps : steps[i].what = fault /\ \A j \in 1 .. i : steps[j].do = "read"

\* A temporary whose removal is not deferred is about to be closed.
TemporariesFollow ==
  /\ errors \cap {"close", "remove"} = {} =>
       \/ temporaries \subseteq deferred
       \/ /\ stage = "run" /\ errors = {} /\ steps # << >> /\ Head(steps).do = "close"
          /\ temporaries \subseteq deferred \cup {Head(steps).what}
  /\ Exited => deferred = {}

IInv ==
  /\ Types /\ RootFollows /\ ProgramFollows /\ ChildFollows
  /\ AssureFollows /\ MetadataFollows /\ TemporariesFollow /\ PassIsSound

LEMMA InitIInv == Init => IInv
<1> SUFFICES ASSUME Init PROVE IInv
  OBVIOUS
<1>1. Types
  BY GateAssumption DEF Init, Types, ErrorKinds
<1>2. RootFollows /\ ProgramFollows /\ ChildFollows /\ AssureFollows /\ MetadataFollows
  BY DEF Init, RootFollows, ProgramFollows, ChildFollows, AssureFollows, MetadataFollows
<1>3. TemporariesFollow /\ PassIsSound
  BY DEF Init, TemporariesFollow, PassIsSound, Passed, Exited
<1> QED BY <1>1, <1>2, <1>3 DEF IInv

\* What a step that fails leaves behind.
LEMMA FailureStep ==
  ASSUME IInv, stage = "run", NEW error \in ErrorKinds, Fails(error), NEW fixed, faults' = faults \ fixed,
         child' = NoChild, UNCHANGED <<startVars, ancestors, root, temporaries, deferred, context>>,
         error \notin {"close", "remove"} => (steps # << >> /\ Head(steps).do # "close")
  PROVE  IInv'
<1> USE DEF startVars, Fails
<1>1. Types'
  BY DEF IInv, Types
<1>2. RootFollows' /\ ChildFollows' /\ AssureFollows' /\ MetadataFollows'
  BY DEF IInv, Types, RootFollows, ChildFollows, AssureFollows, MetadataFollows
<1>3. ProgramFollows'
  BY EmptySteps DEF IInv, ProgramFollows
<1>4. TemporariesFollow' /\ PassIsSound'
  BY DEF IInv, TemporariesFollow, PassIsSound, Passed, Exited
<1> QED BY <1>1, <1>2, <1>3, <1>4 DEF IInv

\* What a step that passes must have settled.
LEMMA PassingStep ==
  ASSUME IInv, stage = "run", errors = {}, steps # << >>, Passes, faults' = faults \ Repaired \/ faults' = faults,
         child' = NoChild, UNCHANGED <<startVars, ancestors, root, context>>,
         Head(steps).do \in {"read", "run", "list", "write", "download"} => Head(steps).what \notin faults'
  PROVE  (Types /\ TemporariesFollow)' => IInv'
<1> USE DEF startVars, Passes
<1> SUFFICES ASSUME Types', TemporariesFollow' PROVE IInv'
  OBVIOUS
<1>1. WellFormed(steps, mode) /\ AllWellFormed(gates, mode) /\ faults' \subseteq faults
  BY DEF IInv, ProgramFollows
<1>2. RootFollows' /\ ChildFollows' /\ PassIsSound'
  BY DEF RootFollows, ChildFollows, PassIsSound, Passed, Exited
<1>3. ProgramFollows'
  BY <1>1, TailFacts DEF IInv, ProgramFollows
<1>4. AssureFollows'
  <2> SUFFICES ASSUME mode = "tools-bootstrap" => root = "product"
               PROVE  faults' \cap Promised[mode] \subseteq Assures(Tail(steps)) \cup AllAssure(gates)
    BY DEF AssureFollows
  <2>1. faults \cap Promised[mode] \subseteq Assures(steps) \cup AllAssure(gates)
    BY DEF IInv, AssureFollows
  <2>2. CASE Head(steps).do \in {"read", "run", "list", "write", "download"}
    <3>1. Assures(steps) \subseteq {Head(steps).what} \cup Assures(Tail(steps))
      BY <1>1, TailFacts
    <3> QED BY <1>1, <2>1, <2>2, <3>1
  <2>3. CASE Head(steps).do \notin {"read", "run", "list", "write", "download"}
    <3>1. Assures(steps) = Assures(Tail(steps))
      BY <1>1, <2>3, TailFacts
    <3> QED BY <1>1, <2>1, <3>1
  <2> QED BY <2>2, <2>3
<1>5. MetadataFollows'
  <2> SUFFICES ASSUME mode \notin {"fmt", "tools-bootstrap"}, NEW fault \in faults' \cap Metadata
               PROVE  \E i \in DOMAIN Tail(steps) :
                        /\ Tail(steps)[i].what = fault
                        /\ \A j \in 1 .. i : Tail(steps)[j].do = "read"
    BY DEF MetadataFollows
  <2>1. PICK i \in DOMAIN steps : steps[i].what = fault /\ \A j \in 1 .. i : steps[j].do = "read"
    BY <1>1 DEF IInv, MetadataFollows
  <2>2. /\ steps \in Seq(Step) /\ DOMAIN steps = 1 .. Len(steps) /\ Len(steps) \in Nat /\ Head(steps) = steps[1]
        /\ DOMAIN Tail(steps) = 1 .. Len(steps) - 1
        /\ \A j \in DOMAIN Tail(steps) : Tail(steps)[j] = steps[j + 1]
    BY DEF IInv, Types
  <2>3. Head(steps).do = "read" /\ Head(steps).what \notin faults'
    BY <2>1, <2>2
  <2>4. i # 1 /\ i - 1 \in DOMAIN Tail(steps)
    BY <2>1, <2>2, <2>3
  <2>5. Tail(steps)[i - 1].what = fault /\ \A j \in 1 .. i - 1 : Tail(steps)[j].do = "read"
    <3>1. Tail(steps)[i - 1] = steps[i]
      BY <2>2, <2>4
    <3>2. \A j \in 1 .. i - 1 : j \in DOMAIN Tail(steps) /\ j + 1 \in 1 .. i
      BY <2>1, <2>2
    <3> QED BY <2>1, <2>2, <3>1, <3>2
  <2> QED BY <2>4, <2>5
<1> QED BY <1>2, <1>3, <1>4, <1>5 DEF IInv

LEMMA RootStep == ASSUME IInv, FindRoot \/ Start PROVE IInv'
<1> USE DEF startVars, runVars, diskVars
<1>1. CASE FindRoot
  <2>1. /\ UNCHANGED <<mode, toolchain, ambient, child, faults, temporaries, deferred, context>>
        /\ stage = "root" /\ errors = {} /\ child = NoChild /\ temporaries = {} /\ deferred = {}
        /\ UNCHANGED <<stage, gates, steps, errors>> \/ Exit({"usage"})
    BY <1>1 DEF FindRoot, IInv, RootFollows
  <2>2. Types'
    <3>1. ancestors' \in Seq({"absent", "other", "tools", "product"}) /\ root' \in {"none", "tools", "product"}
      <4>1. \/ ancestors' = ancestors
            \/ ancestors # << >> /\ ancestors' = Tail(ancestors)
        BY <1>1 DEF FindRoot
      <4>2. root' = root \/ root' \in {"tools", "product"}
        BY <1>1 DEF FindRoot
      <4>3. ancestors \in Seq({"absent", "other", "tools", "product"}) /\ root \in {"none", "tools", "product"}
        BY DEF IInv, Types
      <4>4. ancestors' \in Seq({"absent", "other", "tools", "product"})
        BY <4>1, <4>3
      <4> QED BY <4>2, <4>3, <4>4
    <3> QED BY <2>1, <3>1 DEF IInv, Types, Exit, ErrorKinds
  <2>3. RootFollows' /\ ProgramFollows' /\ ChildFollows' /\ AssureFollows' /\ MetadataFollows'
    BY <2>1 DEF IInv, RootFollows, ProgramFollows, ChildFollows, AssureFollows, MetadataFollows, Exit
  <2>4. TemporariesFollow' /\ PassIsSound'
    BY <2>1 DEF TemporariesFollow, PassIsSound, Passed, Exited, Exit
  <2> QED BY <2>2, <2>3, <2>4 DEF IInv
<1>2. CASE Start /\ Exit({"usage"})
  <2>1. /\ UNCHANGED <<mode, toolchain, ambient, ancestors, root, child, faults, temporaries, deferred, context>>
        /\ child = NoChild /\ temporaries = {} /\ deferred = {}
    BY <1>2 DEF Start, IInv, RootFollows
  <2> QED BY <1>2, <2>1 DEF Exit, IInv, Types, ErrorKinds, RootFollows, ProgramFollows, ChildFollows,
             AssureFollows, MetadataFollows, TemporariesFollow, PassIsSound, Passed, Exited
<1>3. CASE Start /\ ~Exit({"usage"})
  <2>1. /\ UNCHANGED <<mode, toolchain, ambient, ancestors, root, child, faults, temporaries, deferred, context>>
        /\ child = NoChild /\ temporaries = {} /\ deferred = {} /\ errors = {} /\ errors' = {}
        /\ root \in {"tools", "product"} /\ toolchain /\ mode \in Modes
        /\ stage' = "run" /\ gates' = Tail(RunMode) /\ steps' = Head(RunMode)
    BY <1>3 DEF Start, IInv, RootFollows, Types
  <2>2. /\ WellFormed(steps', mode) /\ AllWellFormed(gates', mode)
        /\ (mode = "tools-bootstrap" => root # "tools") =>
             Promised[mode] \subseteq Assures(steps') \cup AllAssure(gates')
    BY <2>1, ModesAssure, GatesTail
  <2>3. Types'
    BY <2>1, <2>2 DEF IInv, Types, WellFormed, AllWellFormed
  <2>4. RootFollows' /\ ProgramFollows' /\ ChildFollows' /\ AssureFollows'
    BY <2>1, <2>2 DEF RootFollows, ProgramFollows, ChildFollows, AssureFollows
  <2>5. MetadataFollows'
    <3> SUFFICES ASSUME mode \notin {"fmt", "tools-bootstrap"}, NEW fault \in Metadata
                 PROVE  \E i \in DOMAIN steps' : steps'[i].what = fault /\ \A j \in 1 .. i : steps'[j].do = "read"
      BY <2>1 DEF MetadataFollows
    <3>1. steps' = <<Read("release"), Read("dependencies"), Read("portability"), Read("workflow")>>
      BY <2>1, ModesAssure DEF checkRepositoryMetadata
    <3>2. /\ DOMAIN steps' = 1 .. 4 /\ \A i \in 1 .. 4 : steps'[i].do = "read"
          /\ steps'[1].what = "release" /\ steps'[2].what = "dependencies"
          /\ steps'[3].what = "portability" /\ steps'[4].what = "workflow"
      BY <3>1 DEF Read
    <3>3. \E i \in 1 .. 4 : steps'[i].what = fault
      BY <3>2 DEF Metadata
    <3> QED BY <3>2, <3>3
  <2>6. TemporariesFollow' /\ PassIsSound'
    BY <2>1 DEF TemporariesFollow, PassIsSound, Passed, Exited
  <2> QED BY <2>3, <2>4, <2>5, <2>6 DEF IInv
<1> QED BY <1>1, <1>2, <1>3

LEMMA WorkStep == ASSUME IInv, ReadStep \/ CreateStep \/ CloseStep PROVE IInv'
<1> USE DEF diskVars, Idle
<1>1. CASE ReadStep
  <2>1. /\ stage = "run" /\ errors = {} /\ steps # << >> /\ Head(steps).do = "read" /\ child' = NoChild
        /\ UNCHANGED <<startVars, ancestors, root, faults, temporaries, deferred, context>>
    BY <1>1 DEF ReadStep
  <2>2. CASE Fails("step")
    <3>1. faults' = faults \ {}
      BY <2>1
    <3> QED BY <2>1, <2>2, <3>1, FailureStep DEF ErrorKinds
  <2>3. CASE Passes /\ Head(steps).what \notin faults
    <3>1. Types'
      BY <2>1, <2>3 DEF IInv, Types, Passes, startVars
    <3>2. TemporariesFollow'
      BY <2>1, <2>3 DEF IInv, TemporariesFollow, Passes, Exited
    <3> QED BY <2>1, <2>3, <3>1, <3>2, PassingStep
  <2> QED BY <1>1, <2>2, <2>3 DEF ReadStep
<1>2. CASE CreateStep
  <2>1. /\ stage = "run" /\ errors = {} /\ steps # << >> /\ Head(steps).do \in {"mkdir", "create"}
        /\ child' = NoChild /\ UNCHANGED <<startVars, ancestors, root, faults, context>>
    BY <1>2 DEF CreateStep
  <2>2. CASE Fails("step") /\ UNCHANGED <<temporaries, deferred>>
    <3>1. faults' = faults \ {}
      BY <2>1
    <3> QED BY <2>1, <2>2, <3>1, FailureStep DEF ErrorKinds
  <2>3. CASE /\ Passes
             /\ temporaries' = temporaries \cup {Head(steps).what}
             /\ deferred' = IF Head(steps).do = "mkdir" THEN deferred \cup {Head(steps).what} ELSE deferred
    <3>0. /\ Head(steps).what \in {"profile", "vendor"}
          /\ Head(steps).do = "create" =>
               /\ Tail(steps) # << >> /\ Head(Tail(steps)).do = "close"
               /\ Head(Tail(steps)).what = Head(steps).what
      BY <2>1, TailFacts DEF IInv, ProgramFollows
    <3>1. Types'
      <4>1. steps' \in Seq(Step) /\ UNCHANGED <<stage, gates, errors, mode, toolchain, ambient>>
        BY <2>1, <2>3 DEF IInv, Types, Passes, startVars
      <4>2. temporaries' \subseteq {"profile", "vendor"} /\ deferred' \subseteq {"profile", "vendor"}
        BY <2>1, <2>3, <3>0 DEF IInv, Types
      <4> QED BY <2>1, <4>1, <4>2 DEF IInv, Types
    <3>2. TemporariesFollow'
      BY <2>1, <2>3, <3>0 DEF IInv, TemporariesFollow, Passes, Exited
    <3> QED BY <2>1, <2>3, <3>1, <3>2, PassingStep
  <2> QED BY <1>2, <2>2, <2>3 DEF CreateStep
<1>3. CASE CloseStep
  <2>1. /\ stage = "run" /\ errors = {} /\ steps # << >> /\ Head(steps).do = "close" /\ child' = NoChild
        /\ UNCHANGED <<startVars, ancestors, root, faults, temporaries, context>>
    BY <1>3 DEF CloseStep
  <2>2. CASE Fails("close") /\ UNCHANGED deferred
    <3>1. faults' = faults \ {}
      BY <2>1
    <3> QED BY <2>1, <2>2, <3>1, FailureStep DEF ErrorKinds
  <2>3. CASE Passes /\ deferred' = deferred \cup {Head(steps).what}
    <3>0. Head(steps).what \in {"profile", "vendor"}
      BY <2>1, TailFacts DEF IInv, ProgramFollows
    <3>1. Types'
      <4>1. steps' \in Seq(Step) /\ UNCHANGED <<stage, gates, errors, mode, toolchain, ambient>>
        BY <2>1, <2>3 DEF IInv, Types, Passes, startVars
      <4>2. temporaries' \subseteq {"profile", "vendor"} /\ deferred' \subseteq {"profile", "vendor"}
        BY <2>1, <2>3, <3>0 DEF IInv, Types
      <4> QED BY <2>1, <4>1, <4>2 DEF IInv, Types
    <3>2. TemporariesFollow'
      BY <2>1, <2>3 DEF IInv, TemporariesFollow, Passes, Exited
    <3> QED BY <2>1, <2>3, <3>1, <3>2, PassingStep
  <2> QED BY <1>3, <2>2, <2>3 DEF CloseStep
<1> QED BY <1>1, <1>2, <1>3

LEMMA ChildStep == ASSUME IInv, StartChild \/ ChildEnds PROVE IInv'
<1> USE DEF diskVars, runVars, startVars
<1>1. CASE StartChild
  <2>1. /\ stage = "run" /\ errors = {} /\ steps # << >> /\ child = NoChild
        /\ Head(steps).do \in {"tool", "run", "list", "write", "download"}
        /\ UNCHANGED <<startVars, ancestors, root, diskVars, context>>
    BY <1>1 DEF StartChild, Idle
  <2>2. CASE Fails("step") /\ UNCHANGED child
    <3>1. faults' = faults \ {}
      BY <2>1
    <3> QED BY <2>1, <2>2, <3>1, FailureStep DEF ErrorKinds
  <2>3. CASE /\ child' = [what |-> Head(steps).what,
                          environment |-> CommandEnvironment(Head(steps).do = "download",
                                                             Overrides(Head(steps).what))]
             /\ UNCHANGED <<runVars, errors>>
    <3>1. child'.environment = CommandEnvironment(Head(steps).do = "download", Overrides(Head(steps).what))
      BY <2>3
    <3>2. CommandEnvironment(Head(steps).do = "download", Overrides(Head(steps).what))'
            = CommandEnvironment(Head(steps).do = "download", Overrides(Head(steps).what))
      BY <2>1, <2>3 DEF CommandEnvironment
    <3>3. ChildFollows'
      BY <2>1, <2>3, <3>1, <3>2 DEF ChildFollows
    <3>4. Types' /\ RootFollows' /\ ProgramFollows'
      BY <2>1, <2>3 DEF IInv, Types, RootFollows, ProgramFollows
    <3>5. AssureFollows' /\ MetadataFollows'
      BY <2>1, <2>3 DEF IInv, AssureFollows, MetadataFollows
    <3>6. TemporariesFollow' /\ PassIsSound'
      BY <2>1, <2>3 DEF IInv, TemporariesFollow, PassIsSound, Passed, Exited
    <3> QED BY <3>3, <3>4, <3>5, <3>6 DEF IInv
  <2> QED BY <1>1, <2>2, <2>3 DEF StartChild
<1>2. CASE ChildEnds
  <2>1. /\ stage = "run" /\ errors = {} /\ steps # << >> /\ child' = NoChild
        /\ Head(steps).do \in {"tool", "run", "list", "write", "download"}
        /\ UNCHANGED <<startVars, ancestors, root, temporaries, deferred, context>>
    BY <1>2 DEF ChildEnds, IInv, ChildFollows
  <2>2. CASE Fails("step") /\ faults' \in {faults, faults \ Repaired}
    <3>1. PICK fixed : faults' = faults \ fixed
      <4>1. faults = faults \ {}
        OBVIOUS
      <4> QED BY <2>2, <4>1
    <3> QED BY <2>1, <2>2, <3>1, FailureStep DEF ErrorKinds
  <2>3. CASE PassesCheck /\ Passes /\ faults' = faults \ Repaired
    <3>1. Types'
      BY <2>1, <2>3 DEF IInv, Types, Passes
    <3>2. TemporariesFollow'
      BY <2>1, <2>3 DEF IInv, TemporariesFollow, Passes, Exited
    <3>3. Head(steps).do \in {"read", "run", "list", "write", "download"} => Head(steps).what \notin faults'
      BY <2>1, <2>3 DEF PassesCheck, Repaired
    <3> QED BY <2>1, <2>3, <3>1, <3>2, <3>3, PassingStep
  <2> QED BY <1>2, <2>2, <2>3 DEF ChildEnds
<1> QED BY <1>1, <1>2

LEMMA EndStep == ASSUME IInv, EndGate PROVE IInv'
<1> USE DEF startVars
<1>1. /\ stage = "run" /\ child = NoChild /\ child' = NoChild /\ steps = << >> /\ deferred' = {}
      /\ UNCHANGED <<mode, toolchain, ambient, ancestors, root, faults, context>>
      /\ WellFormed(steps, mode) /\ AllWellFormed(gates, mode) /\ mode \in Modes /\ toolchain
      /\ root \in {"tools", "product"}
      /\ errors' = errors \/ errors' = errors \cup {"remove"}
      /\ errors' \cap {"close", "remove"} = {} =>
           errors' = errors /\ temporaries' = temporaries \ deferred
      /\ temporaries' \subseteq temporaries
  <2>1. \/ UNCHANGED errors /\ temporaries' = temporaries \ deferred
        \/ errors' = errors \cup {"remove"} /\ UNCHANGED temporaries
    BY DEF EndGate
  <2>3. CASE UNCHANGED errors /\ temporaries' = temporaries \ deferred
    BY <2>3 DEF EndGate, IInv, ProgramFollows
  <2>4. CASE errors' = errors \cup {"remove"} /\ UNCHANGED temporaries
    <3>1. errors' \cap {"close", "remove"} # {}
      BY <2>4
    <3> QED BY <2>4, <3>1 DEF EndGate, IInv, ProgramFollows
  <2> QED BY <2>1, <2>3, <2>4
<1>2. /\ (mode = "tools-bootstrap" => root = "product") /\ errors = {} =>
           faults \cap Promised[mode] \subseteq AllAssure(gates)
      /\ errors = {} /\ mode \notin {"fmt", "tools-bootstrap"} => faults \cap Metadata = {}
  <2>1. Assures(steps) = {} /\ DOMAIN steps = {}
    BY <1>1, EmptySteps
  <2> QED BY <1>1, <2>1 DEF IInv, AssureFollows, MetadataFollows
<1>3. temporaries' \subseteq {} \/ errors' \cap {"close", "remove"} # {}
  BY <1>1 DEF IInv, TemporariesFollow
<1>4. CASE /\ errors' = {} /\ gates # << >>
           /\ steps' = Head(gates) /\ gates' = Tail(gates) /\ UNCHANGED stage
  <2>1. /\ WellFormed(steps', mode) /\ AllWellFormed(gates', mode)
        /\ AllAssure(gates) \subseteq Assures(steps') \cup AllAssure(gates')
    BY <1>1, <1>4, GatesTail
  <2>2. Types'
    BY <1>1, <1>4, <2>1 DEF IInv, Types, ErrorKinds, WellFormed, AllWellFormed
  <2>3. RootFollows' /\ ProgramFollows' /\ ChildFollows'
    BY <1>1, <1>4, <2>1 DEF RootFollows, ProgramFollows, ChildFollows
  <2>4. errors = {}
    BY <1>1, <1>4
  <2>5. AssureFollows'
    BY <1>1, <1>2, <1>4, <2>1, <2>4 DEF AssureFollows
  <2>6. MetadataFollows'
    BY <1>1, <1>2, <1>4, <2>4 DEF MetadataFollows
  <2>7. TemporariesFollow' /\ PassIsSound'
    BY <1>1, <1>3, <1>4 DEF TemporariesFollow, PassIsSound, Passed, Exited
  <2> QED BY <2>2, <2>3, <2>5, <2>6, <2>7 DEF IInv
<1>5. CASE /\ errors' # {} \/ gates = << >>
           /\ stage' = "exited" /\ UNCHANGED <<gates, steps>>
  <2>1. Types'
    BY <1>1, <1>5 DEF IInv, Types, ErrorKinds
  <2>2. RootFollows' /\ ProgramFollows' /\ ChildFollows' /\ AssureFollows' /\ MetadataFollows'
    BY <1>1, <1>5 DEF RootFollows, ProgramFollows, ChildFollows, AssureFollows, MetadataFollows
  <2>3. TemporariesFollow'
    BY <1>1, <1>3, <1>5 DEF TemporariesFollow, Exited
  <2>4. PassIsSound'
    <3> SUFFICES ASSUME errors' = {}, mode = "tools-bootstrap" => root = "product"
                 PROVE  faults \cap Promised[mode] = {}
      BY <1>1 DEF PassIsSound, Passed
    <3>1. errors = {} /\ gates = << >>
      BY <1>1, <1>5
    <3>2. AllAssure(gates) = {}
      BY <3>1 DEF AllAssure
    <3> QED BY <1>2, <3>1, <3>2
  <2> QED BY <2>1, <2>2, <2>3, <2>4 DEF IInv
<1> QED BY <1>4, <1>5 DEF EndGate, NextGate

LEMMA InductiveIInv == IInv /\ [Next]_vars => IInv'
<1> SUFFICES ASSUME IInv, [Next]_vars PROVE IInv'
  OBVIOUS
<1>1. ASSUME UNCHANGED <<startVars, ancestors, root, runVars, child, diskVars, errors>>, context' \in {"live", "deadline"}
      PROVE  IInv'
  <2> USE <1>1 DEF startVars, runVars, diskVars
  <2>1. Types' /\ RootFollows' /\ ProgramFollows' /\ AssureFollows' /\ MetadataFollows'
    BY DEF IInv, Types, RootFollows, ProgramFollows, AssureFollows, MetadataFollows
  <2>2. ChildFollows'
    BY DEF IInv, ChildFollows, CommandEnvironment
  <2>3. TemporariesFollow' /\ PassIsSound'
    BY DEF IInv, TemporariesFollow, PassIsSound, Passed, Exited
  <2> QED BY <2>1, <2>2, <2>3 DEF IInv
<1>2. CASE Deadline
  BY <1>1, <1>2 DEF Deadline
<1>3. CASE UNCHANGED vars
  BY <1>1, <1>3 DEF vars, IInv, Types
<1>4. CASE FindRoot \/ Start
  BY <1>4, RootStep
<1>5. CASE ReadStep \/ CreateStep \/ CloseStep
  BY <1>5, WorkStep
<1>6. CASE StartChild \/ ChildEnds
  BY <1>6, ChildStep
<1>7. CASE EndGate
  BY <1>7, EndStep
<1> QED BY <1>2, <1>3, <1>4, <1>5, <1>6, <1>7 DEF Next, GateStep

LEMMA AlwaysIInv == Spec => []IInv
BY InitIInv, InductiveIInv, PTL DEF Spec

\* A child is online exactly if it downloads.
LEMMA ChildEnvironment ==
  ASSUME IInv
  PROVE  Hermetic /\ \A entry \in child.environment : entry \in ambient \/ entry.key \in Forced
<1>1. CASE child = NoChild
  BY <1>1 DEF NoChild, Hermetic
<1>2. CASE child # NoChild
  <2> DEFINE network == Head(steps).do = "download"
             what    == Head(steps).what
  <2>1. /\ child.environment = CommandEnvironment(network, Overrides(what))
        /\ steps # << >> /\ WellFormed(steps, mode)
    BY <1>2 DEF IInv, ChildFollows, ProgramFollows
  <2>2. (network <=> mode = "tools-bootstrap") /\ (network => what \in Graphs)
    BY <2>1, TailFacts
  <2>3. network => Overrides(what) = << >>
    BY <2>2 DEF Overrides, Graphs
  <2> HIDE DEF network, what
  <2>4. network \in BOOLEAN
    BY DEF network
  <2> QED BY <2>1, <2>2, <2>3, <2>4, EnvironmentFacts
<1> QED BY <1>1, <1>2

\* Every state is of the declared type, and a child knows only variables of the
\* gate's environment and those the gate sets (main.go:579-614).
THEOREM GateTypeCorrect == Spec => []TypeOK
<1>1. IInv => TypeOK
  BY ChildEnvironment DEF IInv, Types, TypeOK
<1> QED BY <1>1, AlwaysIInv, PTL

\* A run that passes leaves nothing wrong that verification.md promises its mode
\* checks, for every repository and every failure (main.go:50-89).
THEOREM PassesAreSound == Spec => []PassIsSound
BY AlwaysIInv, PTL DEF IInv

\* No child is started while the repository's metadata is wrong (main.go:50-67).
THEOREM MetadataFirst == Spec => []MetadataComesFirst
<1>1. IInv => MetadataComesFirst
  <2> SUFFICES ASSUME IInv, child # NoChild, mode \notin {"fmt", "tools-bootstrap"}
               PROVE  faults \cap Metadata = {}
    BY DEF MetadataComesFirst
  <2>1. /\ stage = "run" /\ errors = {} /\ steps # << >> /\ steps \in Seq(Step)
        /\ Head(steps).do \in {"tool", "run", "list", "write", "download"}
    BY DEF IInv, ChildFollows, Types
  <2>2. Head(steps) = steps[1] /\ DOMAIN steps = 1 .. Len(steps) /\ Len(steps) \in Nat
    BY <2>1
  <2>3. ASSUME NEW fault \in faults \cap Metadata PROVE FALSE
    <3>1. PICK i \in DOMAIN steps : \A j \in 1 .. i : steps[j].do = "read"
      BY <2>1, <2>3 DEF IInv, MetadataFollows
    <3> QED BY <2>1, <2>2, <3>1
  <2> QED BY <2>3
<1> QED BY <1>1, AlwaysIInv, PTL

\* Whatever the environment the gate is started in, its children get the
\* variables it selects and no secret (main.go:579-620).
THEOREM ChildrenAreHermetic == Spec => []Hermetic
<1>1. IInv => Hermetic
  BY ChildEnvironment
<1> QED BY <1>1, AlwaysIInv, PTL

\* A temporary that is left behind is reported (main.go:337-425).
THEOREM TemporariesAreRemoved == Spec => []TemporariesRemoved
<1>1. IInv => TemporariesRemoved
  BY DEF IInv, TemporariesFollow, TemporariesRemoved, Exited
<1> QED BY <1>1, AlwaysIInv, PTL

\* Only fmt and the bootstrap change what they work on (main.go:264-289).
THEOREM OnlyFmtWrites == Spec => OnlyFmtRewrites
<1>1. IInv /\ [Next]_vars => [faults' # faults => mode \in {"fmt", "tools-bootstrap"}]_vars
  <2> SUFFICES ASSUME IInv, Next, faults' # faults
               PROVE  mode \in {"fmt", "tools-bootstrap"}
    BY DEF vars, diskVars
  <2>1. ChildEnds
    BY DEF Next, GateStep, FindRoot, Start, ReadStep, CreateStep, CloseStep, StartChild, EndGate, Deadline, diskVars
  <2>2. child # NoChild /\ faults' \in {faults, faults \ Repaired}
    BY <2>1 DEF ChildEnds
  <2>3. Head(steps).do \in {"write", "download"}
    BY <2>2 DEF Repaired
  <2>4. steps # << >> /\ WellFormed(steps, mode)
    BY <2>2 DEF IInv, ChildFollows, ProgramFollows
  <2> QED BY <2>3, <2>4, TailFacts
<1> QED BY <1>1, AlwaysIInv, PTL DEF Spec, OnlyFmtRewrites

=============================================================================
