----------------------------- MODULE Consensus -----------------------------
(***************************************************************************)
(* The N-way consensus driver, tools/run_consensus.sh and its six          *)
(* per-suite variants.  One invocation runs the KAT gate, then every       *)
(* language runner in the fixed order of LANGS, counts the verdicts, and   *)
(* prints GREEN or NOT GREEN.                                              *)
(*                                                                         *)
(* What differs between the seven scripts is data: a suite record gives    *)
(*   langs      the LANGS array,                                           *)
(*   needs      per language, what run_lang probes before it runs: a set   *)
(*              of clauses, each a set of alternative tools,               *)
(*   gate       the clauses the KAT gate needs (its Python interpreter),   *)
(*   chdir      the languages whose runner is started in a subshell that   *)
(*              has changed directory,                                     *)
(*   vacuous    the languages whose runner exits 0 when it cannot open     *)
(*              the corpus,                                                *)
(*   memo       the languages whose test tool replays an earlier success,  *)
(*   require    the default of --require.                                  *)
(* Languages are the positions 1 .. Len(langs) of the array.               *)
(*                                                                         *)
(* The driver may be invoked again and again on the same checkout          *)
(* (MaxRuns bounds it); between two invocations the corpus file may be     *)
(* replaced by another content, as the generators do.                      *)
(***************************************************************************)
EXTENDS Integers, Sequences, FiniteSets

CONSTANTS
  Suites,         \* the suite records
  Tools,          \* every tool, directory or library a script probes for
  Contents,       \* contents of the corpus file a run may meet
  Missing,        \* "no readable file", distinct from every content
  KatPasses,      \* the contents the suite's check_kat_*.py accepts
  Installations,  \* the sets of installed tools considered
  Behaviours(_),  \* per suite, the functions from its languages to the
                  \* contents the runner reproduces case by case
  RequireArgs,    \* arguments of --require; Default when it is not given
  Default,
  NotANumber,     \* an argument that is not an integer
  SkipKats,       \* the values of SKIP_KAT considered
  PathForms,      \* "absolute" or "relative": how the corpus is named
  MaxRuns         \* bound: invocations of the driver

Runners(s) == 1 .. Len(s.langs)

ASSUME SuiteAssumption ==
  \A s \in Suites :
    /\ s.langs \in Seq(STRING)
    /\ s.needs \in [Runners(s) -> SUBSET SUBSET Tools]
    /\ s.gate \in SUBSET SUBSET Tools
    /\ s.chdir \subseteq Runners(s)
    /\ s.vacuous \subseteq Runners(s)
    /\ s.memo \subseteq Runners(s)
    /\ s.require \in Nat

ASSUME EnvironmentAssumption ==
  /\ Missing \notin Contents
  /\ KatPasses \subseteq Contents
  /\ Installations \subseteq SUBSET Tools
  /\ \A s \in Suites : Behaviours(s) \subseteq [Runners(s) -> SUBSET Contents]
  /\ RequireArgs \subseteq Nat \cup {Default, NotANumber}
  /\ Default \notin Nat /\ NotANumber \notin Nat /\ Default # NotANumber
  /\ SkipKats \subseteq BOOLEAN
  /\ PathForms \subseteq {"absolute", "relative"}
  /\ MaxRuns \in Nat

\* The gate's interpreter is also a language's own toolchain.
ASSUME GateAssumption ==
  \A s \in Suites : \E i \in Runners(s) : s.gate \subseteq s.needs[i]

VARIABLES
  suite,       \* which of the seven scripts is invoked
  installed,   \* tools on this host
  reproduces,  \* [runner -> contents it computes the frozen verdicts of]
  arg,         \* the --require argument
  skipKat,     \* SKIP_KAT=1 in the environment
  path,        \* form of the corpus path
  corpus,      \* content of the corpus file on disk
  memo,        \* runners whose success is in the test tool's result cache
  runs,        \* invocations started
  pc,          \* "kat", "loop", "report" or "done"
  next,        \* position of the for loop over LANGS
  verdict,     \* what run_lang echoed for each language
  present, passed, failed_langs,
  result       \* "none", "GREEN" or "NOT GREEN"

env == <<suite, installed, reproduces, arg, skipKat, path>>
vars == <<env, corpus, memo, runs, pc, next, verdict,
          present, passed, failed_langs, result>>

-----------------------------------------------------------------------------
(* What the environment decides.                                           *)

\* command -v, pkg-config --exists, [ -d ... ], ls libs/*.jar ...
Available(clauses) == \A c \in clauses : c \cap installed # {}

Present == {i \in Runners(suite) : Available(suite.needs[i])}

\* The content runner i finds at the path it is given.  A relative path does
\* not resolve once the subshell has changed directory.
Seen(i) ==
  IF path = "relative" /\ i \in suite.chdir THEN Missing ELSE corpus

\* Runner i's process exits 0: it matched every case; or its test tool
\* replayed a cached success; or it could not open the corpus and is one of
\* those that skip instead of failing.
ExitsZero(i) ==
  \/ i \in memo
  \/ Seen(i) \in reproduces[i]
  \/ Seen(i) = Missing /\ i \in suite.vacuous

\* Mutant: a runner that fails to build or to match is taken for a missing
\* toolchain.
RunLang_FailIsAbsent(i) ==
  IF i \in Present /\ ExitsZero(i) THEN "PASS" ELSE "ABSENT"

RunLang(i) ==
  CASE i \notin Present -> "ABSENT"
    [] i \in Present /\ ExitsZero(i) -> "PASS"
    [] OTHER -> "FAIL"

REQUIRE == IF arg = Default THEN suite.require ELSE arg

\* Mutant: the comparison is off by one.
TooFewPresent_OffByOne == REQUIRE # NotANumber /\ present + 1 < REQUIRE

\* [ "$present" -lt "$REQUIRE" ]: an operand that is no integer makes the
\* test itself fail, and the if takes that for "not less".
TooFewPresent == REQUIRE # NotANumber /\ present < REQUIRE

KatAccepts == corpus \in KatPasses

-----------------------------------------------------------------------------
Init ==
  /\ suite \in Suites
  /\ installed \in Installations
  /\ reproduces \in Behaviours(suite)
  /\ arg \in RequireArgs
  /\ skipKat \in SkipKats
  /\ path \in PathForms
  /\ corpus \in Contents \cup {Missing}
  /\ memo = {}
  /\ runs = 1
  /\ pc = "kat"
  /\ next = 1
  /\ verdict = [i \in Runners(suite) |-> "none"]
  /\ present = 0 /\ passed = 0 /\ failed_langs = {}
  /\ result = "none"

\* The gate is entered only if an interpreter is found; a failing gate ends
\* the script.
KatGate ==
  /\ pc = "kat"
  /\ IF ~skipKat /\ Available(suite.gate) /\ ~KatAccepts
       THEN pc' = "done" /\ result' = "NOT GREEN"
       ELSE pc' = "loop" /\ UNCHANGED result
  /\ UNCHANGED <<env, corpus, memo, runs, next, verdict,
                 present, passed, failed_langs>>

\* Mutant: the case statement counts an absent language as present.
RunNextLang_CountsAbsent ==
  /\ pc = "loop"
  /\ next <= Len(suite.langs)
  /\ LET v == RunLang(next) IN
       /\ verdict' = [verdict EXCEPT ![next] = v]
       /\ passed' = IF v = "PASS" THEN passed + 1 ELSE passed
       /\ failed_langs' =
            IF v = "FAIL" THEN failed_langs \cup {next} ELSE failed_langs
       /\ memo' = IF v = "PASS" /\ next \in suite.memo
                    THEN memo \cup {next} ELSE memo
  /\ present' = present + 1
  /\ next' = next + 1
  /\ UNCHANGED <<env, corpus, runs, pc, result>>

\* One iteration of the for loop: run the language, count its verdict.
RunNextLang ==
  /\ pc = "loop"
  /\ next <= Len(suite.langs)
  /\ LET v == RunLang(next) IN
       /\ verdict' = [verdict EXCEPT ![next] = v]
       /\ present' = IF v \in {"PASS", "FAIL"} THEN present + 1 ELSE present
       /\ passed' = IF v = "PASS" THEN passed + 1 ELSE passed
       /\ failed_langs' =
            IF v = "FAIL" THEN failed_langs \cup {next} ELSE failed_langs
       /\ memo' = IF v = "PASS" /\ next \in suite.memo
                    THEN memo \cup {next} ELSE memo
  /\ next' = next + 1
  /\ UNCHANGED <<env, corpus, runs, pc, result>>

LoopDone ==
  /\ pc = "loop"
  /\ next > Len(suite.langs)
  /\ pc' = "report"
  /\ UNCHANGED <<env, corpus, memo, runs, next, verdict,
                 present, passed, failed_langs, result>>

Report ==
  /\ pc = "report"
  /\ pc' = "done"
  /\ result' = IF failed_langs # {} \/ TooFewPresent
                 THEN "NOT GREEN" ELSE "GREEN"
  /\ UNCHANGED <<env, corpus, memo, runs, next, verdict,
                 present, passed, failed_langs>>

\* A later invocation, on whatever corpus the checkout then holds.
InvokeAgain ==
  /\ pc = "done"
  /\ runs < MaxRuns
  /\ runs' = runs + 1
  /\ corpus' \in Contents \cup {Missing}
  /\ pc' = "kat"
  /\ next' = 1
  /\ verdict' = [i \in Runners(suite) |-> "none"]
  /\ present' = 0 /\ passed' = 0 /\ failed_langs' = {}
  /\ result' = "none"
  /\ UNCHANGED <<env, memo>>

Next == KatGate \/ RunNextLang \/ LoopDone \/ Report \/ InvokeAgain

Spec == Init /\ [][Next]_vars

-----------------------------------------------------------------------------
(* Properties.                                                             *)

TypeOK ==
  /\ suite \in Suites
  /\ installed \in SUBSET Tools
  /\ reproduces \in [Runners(suite) -> SUBSET Contents]
  /\ arg \in Nat \cup {Default, NotANumber}
  /\ skipKat \in BOOLEAN
  /\ path \in {"absolute", "relative"}
  /\ corpus \in Contents \cup {Missing}
  /\ memo \in SUBSET Runners(suite)
  /\ runs \in 1 .. MaxRuns + 1
  /\ pc \in {"kat", "loop", "report", "done"}
  /\ next \in 1 .. Len(suite.langs) + 1
  /\ verdict \in [Runners(suite) -> {"none", "PASS", "FAIL", "ABSENT"}]
  /\ present \in Nat /\ passed \in Nat
  /\ failed_langs \in SUBSET Runners(suite)
  /\ result \in {"none", "GREEN", "NOT GREEN"}

\* The runners whose exit status always comes from computing the cases.
Computing == Runners(suite) \ (suite.memo \cup suite.vacuous)

\* The inductive strengthening of the invariants below: what the loop has
\* established for the languages it has passed, and what the gate has
\* established once it is behind.
LoopInv ==
  /\ present = Cardinality(Present \cap 1 .. next - 1)
  /\ failed_langs = {i \in 1 .. next - 1 : verdict[i] = "FAIL"}
  /\ \A i \in 1 .. next - 1 : verdict[i] = RunLang(i)

GateInv ==
  pc \in {"loop", "report"} \/ result = "GREEN" =>
    skipKat \/ ~Available(suite.gate) \/ KatAccepts

ResultInv ==
  /\ pc # "done" <=> result = "none"
  /\ pc = "report" \/ result = "GREEN" => next = Len(suite.langs) + 1
  /\ result = "GREEN" => failed_langs = {} /\ ~TooFewPresent

MemoInv == memo \subseteq suite.memo

IInv == TypeOK /\ LoopInv /\ GateInv /\ ResultInv /\ MemoInv

\* A GREEN is never printed over a shrunken or disagreeing field: at least
\* REQUIRE languages had their toolchain, and every one of those that
\* computes its exit status reproduced the corpus now on disk (the counters
\* of lines 126-134 never lose a failing or an absent runner).
GreenIsEarned ==
  result = "GREEN" =>
    /\ REQUIRE # NotANumber => Cardinality(Present) >= REQUIRE
    /\ \A i \in Present \cap Computing : Seen(i) \in reproduces[i]

\* When --require demands the whole field, the KAT gate cannot be bypassed by
\* losing its interpreter: the interpreter is also a language's toolchain, so
\* a skipped gate leaves the field one short.  (SKIP_KAT=1 is the mutation
\* test's own bypass.)
FullFieldImpliesKat ==
  result = "GREEN" /\ ~skipKat /\ REQUIRE = Len(suite.langs) => KatAccepts

\* Disagreement, shown by a run.  The last line the driver prints for a GREEN:
\* "every implementation reproduces every case in the corpus", that is, in the
\* corpus this invocation was given.
GreenMeansReproduced ==
  result = "GREEN" => \A i \in Present : corpus \in reproduces[i]

-----------------------------------------------------------------------------
(* The driver implements the atomic decision of ConsensusAbs.              *)

KatStatus ==
  IF skipKat \/ ~Available(suite.gate) THEN "bypassed"
  ELSE IF KatAccepts THEN "pass" ELSE "fail"

EnoughPresent == REQUIRE # NotANumber => Cardinality(Present) >= REQUIRE

Abs == INSTANCE ConsensusAbs WITH
         field <- Present,
         agreeing <- {i \in Runners(suite) : ExitsZero(i)},
         enough <- EnoughPresent,
         kat <- KatStatus,
         outcome <- result

\* The script, one language at a time, decides what the whole field decides
\* at once: no order of LANGS, no replayed result and no gate outcome makes
\* the loop's answer differ from the field's.
Implements == Abs!AbsSpec
=============================================================================
