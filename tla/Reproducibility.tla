-------------------------- MODULE Reproducibility --------------------------
(***************************************************************************)
(* tools/check_reproducibility.py.  For each corpus in turn: check that    *)
(* the committed file is the one its signed manifest head commits to, back *)
(* it up, run the generator, which overwrites it in place, compare, and    *)
(* restore the backup in a finally clause.                                 *)
(*                                                                         *)
(* A file is its content.  Torn stands for a file cut short by the death   *)
(* of the process writing it; it does not parse.  The process may be       *)
(* killed at any step, and the check started again (MaxChecks bounds it).  *)
(***************************************************************************)
EXTENDS Integers, Sequences

CONSTANTS
  CORPORA,     \* the sequence of corpora checked
  Contents,    \* contents of a corpus file
  Text,        \* [Contents -> content with line endings normalized]
  Missing,     \* no such file
  Torn,        \* a file cut short
  Nothing,     \* the generator stopped before it opened its output
  MaxChecks    \* bound: runs of the check

Listed == {CORPORA[i] : i \in 1 .. Len(CORPORA)}

ASSUME ReproAssumption ==
  /\ Len(CORPORA) \in Nat
  /\ DOMAIN CORPORA = 1 .. Len(CORPORA)
  /\ {Missing, Torn, Nothing} \cap Contents = {}
  /\ Missing # Torn /\ Missing # Nothing /\ Torn # Nothing
  /\ MaxChecks \in Nat

\* What a generator does here: the file it leaves, and whether it exits 0.
\* It exits 0 only after it wrote the whole file.
Outcomes ==
  {o \in [wrote : Contents \cup {Torn, Nothing}, ok : BOOLEAN] :
     o.ok => o.wrote \in Contents}

VARIABLES
  corpus,     \* [Listed -> content of the corpus file]
  manifest,   \* [Listed -> content the signed manifest head commits to]
  emits,      \* [Listed -> what the generator does on this host]
  rpc,        \* "idle", "digest", "backup", "generate", "compare", "restore"
  at,         \* position in CORPORA
  committed,  \* committed_sha: the content digested first
  signed,     \* signed_sha: the content the manifest head commits to
  backup,     \* the backup file; Missing once it is unlinked
  exited0,    \* proc.returncode = 0
  found,      \* [Listed -> "none", "byte-identical", "digest-asserted", "failed"]
  answer,     \* "none", "PASS", "FAIL" or "ERROR"
  checks,     \* checks started
  orig        \* history: the corpora when the check started

reproVars == <<rpc, at, committed, signed, backup, exited0, found,
               answer, checks, orig>>
vars == <<corpus, manifest, emits, reproVars>>

This == CORPORA[at]

\* Two files with the same bytes up to line endings.
SameText(x, y) ==
  x = y \/ (x \in Contents /\ y \in Contents /\ Text[x] = Text[y])

-----------------------------------------------------------------------------
ReproInit ==
  /\ rpc = "idle"
  /\ at = 1
  /\ committed = Missing
  /\ signed = Missing
  /\ backup = Missing
  /\ exited0 = FALSE
  /\ found = [c \in Listed |-> "none"]
  /\ answer = "none"
  /\ checks = 0
  /\ orig = corpus

Init ==
  /\ corpus \in [Listed -> Contents \cup {Missing}]
  /\ manifest \in [Listed -> Contents \cup {Missing, Torn}]
  /\ emits \in [Listed -> Outcomes]
  /\ ReproInit

StartCheck ==
  /\ rpc = "idle"
  /\ checks < MaxChecks
  /\ checks' = checks + 1
  /\ rpc' = "digest"
  /\ at' = 1
  /\ found' = [c \in Listed |-> "none"]
  /\ answer' = "none"
  /\ orig' = corpus
  /\ UNCHANGED <<corpus, manifest, emits, committed, signed, backup, exited0>>

\* Mutant: the signed head is read but not compared.
CheckDigest_NoHead ==
  /\ rpc = "digest"
  /\ at <= Len(CORPORA)
  /\ committed' = corpus[This]
  /\ signed' = manifest[This]
  /\ IF corpus[This] = Missing
       THEN /\ found' = [found EXCEPT ![This] = "failed"]
            /\ at' = at + 1
            /\ UNCHANGED rpc
       ELSE rpc' = "backup" /\ UNCHANGED <<at, found>>
  /\ UNCHANGED <<corpus, manifest, emits, backup, exited0, answer, checks, orig>>

\* The committed file must exist and match its signed head; a manifest that
\* does not parse ends the check with a traceback.
CheckDigest ==
  /\ rpc = "digest"
  /\ at <= Len(CORPORA)
  /\ committed' = corpus[This]
  /\ signed' = manifest[This]
  /\ CASE corpus[This] = Missing \/ manifest[This] \notin {Missing, Torn, corpus[This]} ->
            /\ found' = [found EXCEPT ![This] = "failed"]
            /\ at' = at + 1
            /\ UNCHANGED <<rpc, answer>>
       [] corpus[This] # Missing /\ manifest[This] = Torn ->
            /\ rpc' = "idle" /\ answer' = "ERROR"
            /\ UNCHANGED <<at, found>>
       [] OTHER ->
            /\ rpc' = "backup"
            /\ UNCHANGED <<at, found, answer>>
  /\ UNCHANGED <<corpus, manifest, emits, backup, exited0, checks, orig>>

\* shutil.copyfile to a temporary file; it raises if the corpus is gone.
Backup ==
  /\ rpc = "backup"
  /\ IF corpus[This] = Missing
       THEN rpc' = "idle" /\ answer' = "ERROR" /\ UNCHANGED backup
       ELSE rpc' = "generate" /\ backup' = corpus[This] /\ UNCHANGED answer
  /\ UNCHANGED <<corpus, manifest, emits, at, committed, signed, exited0, found,
                 checks, orig>>

\* Mutant: a generator that stopped early is taken to have left something.
Generate_Always ==
  /\ rpc = "generate"
  /\ corpus' = [corpus EXCEPT ![This] = emits[This].wrote]
  /\ exited0' = emits[This].ok
  /\ rpc' = "compare"
  /\ UNCHANGED <<manifest, emits, at, committed, signed, backup, found, answer,
                 checks, orig>>

\* The generator, run on the corpus in place.
Generate ==
  /\ rpc = "generate"
  /\ corpus' = IF emits[This].wrote = Nothing THEN corpus
               ELSE [corpus EXCEPT ![This] = emits[This].wrote]
  /\ exited0' = emits[This].ok
  /\ rpc' = "compare"
  /\ UNCHANGED <<manifest, emits, at, committed, signed, backup, found, answer,
                 checks, orig>>

\* Mutant: the regenerated file is compared with itself.
Compare_WithItself ==
  /\ rpc = "compare"
  /\ found' = [found EXCEPT ![This] =
       IF ~exited0 THEN "digest-asserted" ELSE "byte-identical"]
  /\ rpc' = "restore"
  /\ UNCHANGED <<corpus, manifest, emits, at, committed, signed, backup,
                 exited0, answer, checks, orig>>

\* A generator that fails is taken for frozen material when there is a signed
\* head; signed_sha was found equal to the committed digest.
Compare ==
  /\ rpc = "compare"
  /\ found' = [found EXCEPT ![This] =
       CASE ~exited0 /\ signed = Missing -> "failed"
         [] ~exited0 /\ signed # Missing -> "digest-asserted"
         [] exited0 /\ corpus[This] = committed -> "byte-identical"
         [] OTHER -> IF SameText(backup, corpus[This])
                       THEN "digest-asserted" ELSE "failed"]
  /\ rpc' = "restore"
  /\ UNCHANGED <<corpus, manifest, emits, at, committed, signed, backup,
                 exited0, answer, checks, orig>>

\* Mutant: only a successful comparison restores the committed file.
Restore_OnSuccess ==
  /\ rpc = "restore"
  /\ corpus' = IF found[This] = "failed" THEN corpus
               ELSE [corpus EXCEPT ![This] = backup]
  /\ backup' = Missing
  /\ rpc' = "digest"
  /\ at' = at + 1
  /\ UNCHANGED <<manifest, emits, committed, signed, exited0, found, answer,
                 checks, orig>>

\* The finally clause.
Restore ==
  /\ rpc = "restore"
  /\ corpus' = [corpus EXCEPT ![This] = backup]
  /\ backup' = Missing
  /\ rpc' = "digest"
  /\ at' = at + 1
  /\ UNCHANGED <<manifest, emits, committed, signed, exited0, found, answer,
                 checks, orig>>

Conclude ==
  /\ rpc = "digest"
  /\ at > Len(CORPORA)
  /\ rpc' = "idle"
  /\ answer' = IF \E c \in Listed : found[c] = "failed" THEN "FAIL" ELSE "PASS"
  /\ UNCHANGED <<corpus, manifest, emits, at, committed, signed, backup,
                 exited0, found, checks, orig>>

\* Mutant: the temporary file is deleted with the process (delete=True).
Killed_BackupGone ==
  /\ rpc # "idle"
  /\ rpc' = "idle"
  /\ answer' = "none"
  /\ backup' = Missing
  /\ UNCHANGED <<corpus, manifest, emits, at, committed, signed, exited0, found,
                 checks, orig>>

\* SIGKILL, power: the finally clause does not run, and the file being written
\* may be cut short.
Killed ==
  /\ rpc # "idle"
  /\ rpc' = "idle"
  /\ answer' = "none"
  /\ \/ UNCHANGED corpus
     \/ /\ rpc \in {"generate", "restore"}
        /\ corpus' = [corpus EXCEPT ![This] = Torn]
  /\ UNCHANGED <<manifest, emits, at, committed, signed, backup, exited0,
                 found, checks, orig>>

Next ==
  \/ StartCheck \/ CheckDigest \/ Backup \/ Generate \/ Compare \/ Restore
  \/ Conclude \/ Killed

Spec == Init /\ [][Next]_vars

-----------------------------------------------------------------------------
(* Properties.                                                             *)

TypeOK ==
  /\ corpus \in [Listed -> Contents \cup {Missing, Torn}]
  /\ manifest \in [Listed -> Contents \cup {Missing, Torn}]
  /\ emits \in [Listed -> Outcomes]
  /\ rpc \in {"idle", "digest", "backup", "generate", "compare", "restore"}
  /\ at \in 1 .. Len(CORPORA) + 1
  /\ rpc \in {"backup", "generate", "compare", "restore"} => at <= Len(CORPORA)
  /\ committed \in Contents \cup {Missing, Torn}
  /\ signed \in Contents \cup {Missing, Torn}
  /\ backup \in Contents \cup {Missing, Torn}
  /\ exited0 \in BOOLEAN
  /\ found \in [Listed -> {"none", "byte-identical", "digest-asserted", "failed"}]
  /\ answer \in {"none", "PASS", "FAIL", "ERROR"}
  /\ checks \in 0 .. MaxChecks
  /\ orig \in [Listed -> Contents \cup {Missing, Torn}]

\* Alone in the checkout, a check that ends leaves every corpus as it was
\* when it started, whatever the generators wrote and however the comparisons
\* went (the finally clause).
LeavesCorporaAlone == rpc = "idle" /\ answer # "none" => corpus = orig

\* At every instant, and wherever the process is killed, the committed content
\* of every corpus is in its file or in the backup.
NothingLost == \A c \in Listed : orig[c] \in {corpus[c], backup}

\* A PASS vouches for the signed heads even after a check was killed half way
\* and left a regenerated or torn file behind: every corpus that has a signed
\* head is the file that head commits to.
PassMatchesHead ==
  answer = "PASS" =>
    \A c \in Listed : manifest[c] \in {Missing, corpus[c]}

\* A PASS vouches for the generators that ran to the end: their output has the
\* text of the corpus on disk.
PassIsRegenerated ==
  answer = "PASS" =>
    \A c \in Listed : emits[c].ok => SameText(emits[c].wrote, corpus[c])

\* What each phase knows of the files; inductive together with HeadInv.
ContentInv ==
  /\ rpc \in {"digest", "backup", "generate"} => corpus = orig
  /\ rpc = "idle" /\ answer # "none" => corpus = orig
  /\ rpc \in {"generate", "compare", "restore"} => backup = orig[This]
  /\ rpc \in {"compare", "restore"} =>
       \A c \in Listed \ {This} : corpus[c] = orig[c]

HeadKnown(c) == manifest[c] \in {Missing, orig[c]}

HeadInv ==
  /\ rpc # "idle" =>
       /\ answer = "none"
       /\ \A i \in 1 .. at - 1 :
            found[CORPORA[i]] = "failed" \/ HeadKnown(CORPORA[i])
  /\ rpc \in {"backup", "generate", "compare", "restore"} => HeadKnown(This)
  /\ answer = "PASS" => \A c \in Listed : HeadKnown(c)

\* A generator that runs to the end reproduces the corpus, up to line endings.
RegenKnown(c) == emits[c].ok => SameText(emits[c].wrote, orig[c])

\* What a comparison is about to tell, and what the earlier ones told.  The
\* second clause dates the digest that is compared with; it is taken before the
\* generator runs.
RegenInv ==
  /\ rpc # "idle" =>
       \A i \in 1 .. at - 1 :
         found[CORPORA[i]] = "failed" \/ RegenKnown(CORPORA[i])
  /\ rpc \in {"backup", "generate", "compare"} => committed = orig[This]
  /\ rpc = "compare" =>
       /\ exited0 = emits[This].ok
       /\ exited0 => corpus[This] = emits[This].wrote
  /\ rpc = "restore" => found[This] = "failed" \/ RegenKnown(This)
  /\ answer = "PASS" => \A c \in Listed : RegenKnown(c)

IInv == TypeOK /\ NothingLost /\ ContentInv /\ HeadInv /\ RegenInv

\* Disagreement, shown by a run.  check_reproducibility.py: "This gate proves
\* each one is exactly what its generator emits, so a hand-edited or drifted
\* corpus cannot pass."
PassIsGenerated ==
  answer = "PASS" =>
    \A c \in Listed : SameText(emits[c].wrote, corpus[c])
=============================================================================
