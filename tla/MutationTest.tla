---------------------------- MODULE MutationTest ---------------------------
(***************************************************************************)
(* tools/mutation_test.sh: for each section of the core battery, write a   *)
(* copy of the corpus with one expectation flipped, run the consensus      *)
(* driver on the copy with SKIP_KAT=1 and --require 1, and look for        *)
(* "NOT GREEN" in what it prints.  The test passes when every one of the   *)
(* runs was NOT GREEN.                                                     *)
(*                                                                         *)
(* The driver is the atomic decision of ConsensusAbs, which module         *)
(* Consensus is shown to implement.  A runner is described by the sections *)
(* it does not compute: it echoes their expectations, so a flip there goes *)
(* unnoticed.                                                              *)
(***************************************************************************)
EXTENDS Integers, Sequences

CONSTANTS
  Sections,      \* the sections MUTATIONS may name
  MUTATIONS,     \* the sequence of sections flipped, one per iteration
  Runners,       \* the language runners
  Vacuous,       \* the runners that exit 0 when the corpus cannot be opened
  Replaying,     \* the runners whose test tool replays a cached success
  Corpora,       \* per corpus file considered, the sections it has
  NoFile         \* mut.json has not been written

ASSUME MutationAssumption ==
  /\ MUTATIONS \in Seq(Sections)
  /\ Vacuous \subseteq Runners /\ Replaying \subseteq Runners
  /\ Corpora \subseteq SUBSET Sections
  /\ NoFile \notin Sections

VARIABLES
  present,   \* runners whose toolchain is installed
  echoes,    \* [Runners -> sections the runner does not compute]
  broken,    \* runners that fail on every corpus
  has,       \* the sections of the corpus under test
  python,    \* the mutate function's interpreter is installed
  mut,       \* the section flipped in mut.json, or NoFile
  cached,    \* runners whose success on mut.json's path is cached
  spec,      \* position in MUTATIONS
  pc,        \* "mutate", "battery", "count" or "done"
  out,       \* what the driver's last run printed
  wrote,     \* history: iterations in which mutate wrote mut.json
  overall    \* 0, or 1 after a MISSED

env == <<present, echoes, broken, has, python>>
vars == <<env, mut, cached, spec, pc, out, wrote, overall>>

-----------------------------------------------------------------------------
\* Runner i exits 0 on mut.json.  A runner that is not broken reproduces every
\* case of the corpus, hence every case but the flipped one.
Agrees(i) ==
  \/ i \in cached
  \/ mut = NoFile /\ i \in Vacuous
  \/ mut # NoFile /\ i \notin broken /\ mut \in echoes[i]

Agreeing == {i \in Runners : Agrees(i)}

\* SKIP_KAT=1 bypasses the gate; --require 1 asks for one runner.
Driver == INSTANCE ConsensusAbs WITH
            field <- present, agreeing <- Agreeing, enough <- present # {},
            kat <- "bypassed", outcome <- out

Init ==
  /\ present \in SUBSET Runners
  /\ echoes \in [Runners -> SUBSET Sections]
  /\ broken \in SUBSET Runners
  /\ has \in Corpora
  /\ python \in BOOLEAN
  /\ mut = NoFile
  /\ cached = {}
  /\ spec = 1
  /\ pc = "mutate"
  /\ out = "none"
  /\ wrote = {}
  /\ overall = 0

\* Mutant: mut.json is kept when it exists.
Mutate_KeepsFile ==
  /\ pc = "mutate"
  /\ spec <= Len(MUTATIONS)
  /\ IF python /\ MUTATIONS[spec] \in has /\ mut = NoFile
       THEN mut' = MUTATIONS[spec] /\ wrote' = wrote \cup {spec}
       ELSE UNCHANGED <<mut, wrote>>
  /\ pc' = "battery"
  /\ out' = "none"
  /\ UNCHANGED <<env, cached, spec, overall>>

\* Mutant: mut.json is opened, hence emptied, before the corpus is read.
Mutate_OpensFirst ==
  /\ pc = "mutate"
  /\ spec <= Len(MUTATIONS)
  /\ IF python /\ MUTATIONS[spec] \in has
       THEN mut' = MUTATIONS[spec] /\ wrote' = wrote \cup {spec}
       ELSE mut' = NoFile /\ UNCHANGED wrote
  /\ pc' = "battery"
  /\ out' = "none"
  /\ UNCHANGED <<env, cached, spec, overall>>

\* mutate: without an interpreter, without a readable corpus or without the
\* section, the heredoc fails before it opens mut.json, and the script goes on
\* with the mut.json it has.
Mutate ==
  /\ pc = "mutate"
  /\ spec <= Len(MUTATIONS)
  /\ IF python /\ MUTATIONS[spec] \in has
       THEN mut' = MUTATIONS[spec] /\ wrote' = wrote \cup {spec}
       ELSE UNCHANGED <<mut, wrote>>
  /\ pc' = "battery"
  /\ out' = "none"
  /\ UNCHANGED <<env, cached, spec, overall>>

\* The driver's run on mut.json, its output captured.
RunBattery ==
  /\ pc = "battery"
  /\ cached' = cached \cup (present \cap Agreeing \cap Replaying)
  /\ pc' = "count"
  /\ UNCHANGED <<env, mut, spec, wrote, overall>>
  /\ Driver!Decide

\* Mutant: overall keeps only the last iteration's answer.
Count_LastWins ==
  /\ pc = "count"
  /\ overall' = IF out = "NOT GREEN" THEN 0 ELSE 1
  /\ spec' = spec + 1
  /\ pc' = "mutate"
  /\ UNCHANGED <<env, mut, cached, out, wrote>>

\* CAUGHT when the output has "NOT GREEN", whatever the reason; else MISSED.
Count ==
  /\ pc = "count"
  /\ overall' = IF out = "NOT GREEN" THEN overall ELSE 1
  /\ spec' = spec + 1
  /\ pc' = "mutate"
  /\ UNCHANGED <<env, mut, cached, out, wrote>>

Result ==
  /\ pc = "mutate"
  /\ spec > Len(MUTATIONS)
  /\ pc' = "done"
  /\ UNCHANGED <<env, mut, cached, spec, out, wrote, overall>>

Next == Mutate \/ RunBattery \/ Count \/ Result

Spec == Init /\ [][Next]_vars

-----------------------------------------------------------------------------
(* Properties.                                                             *)

TypeOK ==
  /\ present \in SUBSET Runners
  /\ echoes \in [Runners -> SUBSET Sections]
  /\ broken \in SUBSET Runners
  /\ has \in SUBSET Sections
  /\ python \in BOOLEAN
  /\ mut \in Sections \cup {NoFile}
  /\ cached \in SUBSET Replaying
  /\ spec \in 1 .. Len(MUTATIONS) + 1
  /\ pc \in {"mutate", "battery", "count", "done"}
  /\ out \in {"none", "GREEN", "NOT GREEN"}
  /\ wrote \in SUBSET (1 .. Len(MUTATIONS))
  /\ overall \in {0, 1}

Pass == pc = "done" /\ overall = 0

\* The runners that would notice a flip in section s.
Computes(s) == {i \in present : i \in broken \/ s \notin echoes[i]}

\* The test's purpose (mutation_test.sh, header): where the interpreter and at
\* least one runner are installed, a PASS shows that every section of the
\* corpus that was flipped has a runner that noticed: a field that echoes a
\* whole section is reported.  It relates the runs over one rewritten file,
\* with the successes replayed between them, to the final exit status.
EchoedSectionIsReported ==
  Pass /\ python /\ present # {} =>
    \A k \in 1 .. Len(MUTATIONS) :
      MUTATIONS[k] \in has => Computes(MUTATIONS[k]) # {}

\* Runners that compute every section and so fail on every flipped corpus.
Honest == {i \in present : echoes[i] = {}}

\* No false alarm: where the first section can be flipped, one honest runner
\* makes the test pass, even in the iterations whose own flip fails and which
\* meet the previous iteration's file.
HonestRunnerSuffices ==
  pc = "done" /\ python /\ Honest # {} /\ MUTATIONS # <<>> /\ MUTATIONS[1] \in has =>
    overall = 0

\* What the loop has established for the sections behind it, and what the
\* iteration at hand knows of the file and of the driver's answer.  Inductive.
FileInv ==
  pc \in {"battery", "count"} /\ python /\ MUTATIONS[spec] \in has =>
    mut = MUTATIONS[spec]

OutInv ==
  /\ pc = "battery" => out = "none"
  /\ pc = "count" =>
       (out = "NOT GREEN" <=> present = {} \/ ~(present \subseteq Agreeing))

PositionInv ==
  /\ pc \in {"battery", "count"} => spec <= Len(MUTATIONS)
  /\ pc = "done" => spec = Len(MUTATIONS) + 1

LoopInv ==
  overall = 0 /\ python /\ present # {} =>
    \A k \in 1 .. spec - 1 :
      MUTATIONS[k] \in has => Computes(MUTATIONS[k]) # {}

HonestInv ==
  python /\ Honest # {} /\ MUTATIONS # <<>> /\ MUTATIONS[1] \in has =>
    /\ overall = 0
    /\ spec > 1 \/ pc # "mutate" => mut # NoFile
    /\ Honest \cap cached = {}

IInv == TypeOK /\ FileInv /\ OutInv /\ PositionInv /\ LoopInv /\ HonestInv

\* Disagreement, shown by a run.  The RESULT line: "every mutation was
\* caught", so that every mutation was made.  Stated for a host in order: the
\* interpreter and a runner are there, and no runner fails for its own reasons.
PassMeansAllMutated ==
  Pass /\ python /\ present # {} /\ present \cap broken = {} =>
    wrote = 1 .. Len(MUTATIONS)
=============================================================================
