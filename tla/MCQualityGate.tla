---------------------------- MODULE MCQualityGate ----------------------------
(***************************************************************************)
(* A small instance of QualityGate: repositories with nothing, one thing   *)
(* or everything wrong, and an environment that is spelled both ways.      *)
(***************************************************************************)
EXTENDS QualityGate

Everything ==
  {"goimports", "gofumpt", "tidy", "vet", "tests", "golangci-lint", "nilaway", "gosec",
   "govulncheck", "race tests", "coverage", "vendor", "offline tests", "offline build",
   "benchmarks", "product graph", "tools graph",
   "release", "dependencies", "portability", "workflow"}

MCRepositories == {{}, Everything} \cup {{fault} : fault \in Everything}

\* In the repository, below it, in its tools module, and outside.
MCDirectories == {<<"product">>, <<"absent", "other", "product">>, <<"tools", "product">>, <<"absent">>}

MCUpper ==
  [key \in {"PATH", "GOPROXY", "goproxy", "GOFLAGS", "GOWORK", "GOTOOLCHAIN", "GOSUMDB",
            "OPENAI_API_KEY", "github_token", "GOAUTH", "GONOPROXY", "GONOSUMDB", "GOPRIVATE"} |->
     CASE key = "goproxy" -> "GOPROXY"
       [] key = "github_token" -> "GITHUB_TOKEN"
       [] OTHER -> key]

MCSensitive == {"OPENAI_API_KEY", "GITHUB_TOKEN"}

Variable(key, value) == [key |-> key, value |-> value]

MCAmbients ==
  {{Variable("PATH", "/bin"), Variable("GOPROXY", "direct"), Variable("goproxy", "direct"),
    Variable("GOFLAGS", "-mod=mod"), Variable("GOSUMDB", "off"),
    Variable("OPENAI_API_KEY", "key"), Variable("github_token", "token")}}

=============================================================================
