-------------------------- MODULE ConsensusSuites --------------------------
(***************************************************************************)
(* The seven consensus scripts as data: what each run_lang probes for      *)
(* before it starts a runner, and what its KAT gate needs.  A tool is a    *)
(* command, a directory, a jar set or a library the script tests for; a    *)
(* probe for a file of the repository itself (runners/...) always succeeds *)
(* in a checkout and is left out.                                          *)
(***************************************************************************)
EXTENDS Integers, Sequences

LangOrder ==
  <<"python", "typescript", "go", "rust", "c", "java", "kotlin", "scala",
    "dotnet", "ruby", "php", "elixir">>

ToolNames ==
  {"python3", "python", "node", "npm", "ts_modules", "noble_pq", "go",
   "vgo", "cargo", "vrs", "cc", "jansson", "liboqs_local", "liboqs_usr",
   "javac", "java", "java_jars", "kotlinc", "kotlin_jars", "scala-cli",
   "dotnet", "ruby", "starry", "php", "composer", "elixir"}

\* Every one of these tools is needed.
AllOf(tools) == {{t} : t \in tools}

\* PY="$(command -v python3 || command -v python || true)"
AnyPython == {{"python3", "python"}}

Positions(names) == {i \in 1 .. Len(LangOrder) : LangOrder[i] \in names}

ByPosition(f) == [i \in 1 .. Len(LangOrder) |-> f[LangOrder[i]]]

\* What every script probes for, except where it says otherwise.
CommonNeeds ==
  [python     |-> AnyPython,
   typescript |-> AllOf({"node"}),
   go         |-> AllOf({"go"}),
   rust       |-> AllOf({"cargo"}),
   c          |-> AllOf({"cc", "jansson"}),
   java       |-> AllOf({"javac", "java", "java_jars"}),
   kotlin     |-> AllOf({"kotlinc", "java", "kotlin_jars"}),
   scala      |-> AllOf({"scala-cli"}),
   dotnet     |-> AllOf({"dotnet"}),
   ruby       |-> AllOf({"ruby"}),
   php        |-> AllOf({"php"}),
   elixir     |-> AllOf({"elixir"})]

\* json_decode(file_get_contents($path), true) is null when the corpus cannot
\* be read; foreach over null only warns, and 0 of 0 cases match.  Every
\* other runner of these six suites ends with an error.
ExitsZeroUnread == {"php"}

SelfContained(needs, chdir) ==
  [langs |-> LangOrder, needs |-> ByPosition(needs), gate |-> AnyPython,
   chdir |-> Positions(chdir), vacuous |-> Positions(ExitsZeroUnread),
   memo |-> {}, require |-> 12]

InRunnerDirectory == {"go", "rust", "c", "java", "kotlin", "scala", "dotnet"}

WebBotAuth == SelfContained(CommonNeeds, InRunnerDirectory)

Fapi == SelfContained(CommonNeeds, InRunnerDirectory)

Jws == SelfContained(CommonNeeds, InRunnerDirectory)

Cose == SelfContained(CommonNeeds, InRunnerDirectory)

\* typescript, go and php build in a scratch directory; ruby and php probe
\* for their library manager.
Sfv ==
  SelfContained(
    [CommonNeeds EXCEPT !.typescript = AllOf({"node", "npm"}),
                        !.ruby = AllOf({"ruby", "starry"}),
                        !.php = AllOf({"php", "composer"})],
    InRunnerDirectory \cup {"typescript", "php"})

PqcMldsa ==
  SelfContained(
    [CommonNeeds EXCEPT !.typescript = AllOf({"node", "noble_pq"}),
                        !.c = AllOf({"cc", "jansson"})
                                \cup {{"liboqs_local", "liboqs_usr"}}],
    InRunnerDirectory \cup {"elixir"})

\* The core battery: go and rust run inside sibling checkouts of the
\* verifier repositories, through "go test" and "cargo test".  Both skip
\* (and exit 0, like php) when the corpus cannot be opened, and "go test"
\* replays a cached success while the files that changed lie outside its
\* module.
Negative ==
  [langs   |-> LangOrder,
   needs   |-> ByPosition(
                 [CommonNeeds EXCEPT
                    !.python = AllOf({"python3"}),
                    !.typescript = AllOf({"node", "ts_modules"}),
                    !.go = AllOf({"go", "vgo"}),
                    !.rust = AllOf({"cargo", "vrs"})]),
   gate    |-> AllOf({"python3"}),
   chdir   |-> Positions(InRunnerDirectory),
   vacuous |-> Positions(ExitsZeroUnread \cup {"go", "rust"}),
   memo    |-> Positions({"go"}),
   require |-> 10]

AllSuites == {Negative, WebBotAuth, Fapi, Sfv, Jws, Cose, PqcMldsa}
=============================================================================
