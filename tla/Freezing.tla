------------------------------ MODULE Freezing -----------------------------
(***************************************************************************)
(* Where the corpora of signatures come from, before the field judges them. *)
(* gen_*_material_v0.py creates private keys outside the checkout once,     *)
(* signs with them and freezes public keys and signatures in vectors/;      *)
(* gen_*_v0.py makes the corpus of that file.  All three files are written  *)
(* in place, so a tool that is killed leaves a torn one behind; what is     *)
(* torn is only ever removed by hand.                                       *)
(*                                                                         *)
(* Key sets and freezings are numbered: every freezing signs anew, with     *)
(* random nonces, and makes new "wrong" keys for the rejected cases.        *)
(***************************************************************************)
EXTENDS VerdictField

CONSTANTS
  Frozen,           \* the suites that are made of frozen material
  Augmented,        \* those among them whose material an earlier tool may have
                    \* frozen without its domain separation
  Builds(_, _),     \* suite, material: the cases written of it, with the
                    \* expectations that were meant, or Refused
  Nothing,          \* no file
  Torn,
  Refused,          \* the generator stops on this material
  Rules(_),         \* the rules that the corpus' policy names
  Probed(_),        \* those that a case of the corpus turns on
  Without(_, _),    \* suite, rule: a port that does not enforce the rule
  MaxKeys,          \* bound: key sets created on this host
  MaxFreezings,     \* bound: materials frozen
  MaxKills          \* bound: tools killed

KeySets == 1 .. MaxKeys

FrozenWith(k, n, separated) == [key |-> k, freezing |-> n, separated |-> separated]

Materials == [key : KeySets, freezing : 1 .. MaxFreezings, separated : BOOLEAN]

ASSUME FreezingAssumption ==
  /\ MaxKeys \in Nat \ {0} /\ MaxFreezings \in Nat \ {0} /\ MaxKills \in Nat
  /\ Nothing # Torn /\ {Nothing, Torn} \cap KeySets = {}
  /\ Augmented \subseteq Frozen
  /\ \A s \in Frozen : \A m \in Materials :
       /\ Unreadable \in Files(s)
       /\ Builds(s, m) \in Files(s) \cup {Refused}
       /\ s \in Augmented /\ ~m.separated => Builds(s, m) = Refused

VARIABLES
  keyfile,   \* ~/.algovoi/keys: Nothing, Torn or the number of a key set
  material,  \* vectors/*_material_v0.json: Nothing, Torn or a record
  created,   \* key sets created so far
  frozen,    \* materials frozen so far
  tool,      \* what the tool under way does next; "idle" between tools, "field"
             \* when the runners have taken over
  inHand,       \* the key set in the material tool's memory
  kills

freezeVars == <<keyfile, material, created, frozen, tool, inHand, kills>>
fieldVars == <<suite, port, pc, sec, pos, fails, exits>>
pipelineVars == <<vars, freezeVars>>

\* Whole material, which the tools can read.
IsMaterial(m) == m \notin {Nothing, Torn}

FreezeInit ==
  /\ kills = 0 /\ inHand = 0
  /\ \/ /\ suite \in Frozen /\ file = Unreadable /\ tool = "idle"
        /\ keyfile = Nothing /\ material = Nothing /\ created = 0 /\ frozen = 0
     \/ /\ suite \in Augmented /\ file = Unreadable /\ tool = "idle"
        /\ keyfile = 1 /\ material = FrozenWith(1, 1, FALSE)
        /\ created = 1 /\ frozen = 1
     \/ /\ suite \notin Frozen \/ file # Unreadable
        /\ tool = "field" /\ created = 0 /\ frozen = 0
        /\ keyfile = Nothing /\ material = Nothing

-----------------------------------------------------------------------------
(* gen_*_material_v0.py.                                                    *)

\* Mutant: the new keys are signed with before they are saved.
CreateKeys_Later ==
  /\ tool = "idle" /\ material = Nothing /\ keyfile = Nothing
  /\ created < MaxKeys
  /\ created' = created + 1 /\ inHand' = created + 1
  /\ tool' = "sign"
  /\ UNCHANGED <<fieldVars, file, keyfile, material, frozen, kills>>

\* Nothing frozen yet, and no keys: they are created, and their file opened.
CreateKeys ==
  /\ tool = "idle" /\ material = Nothing /\ keyfile = Nothing
  /\ created < MaxKeys
  /\ created' = created + 1 /\ inHand' = created + 1
  /\ keyfile' = Torn /\ tool' = "save keys"
  /\ UNCHANGED <<fieldVars, file, material, frozen, kills>>

SaveKeys ==
  /\ tool = "save keys"
  /\ keyfile' = inHand /\ tool' = "sign"
  /\ UNCHANGED <<fieldVars, file, material, created, frozen, inHand, kills>>

\* The keys of an earlier run.  Torn ones end the tool.
LoadKeys ==
  /\ tool = "idle" /\ material = Nothing /\ keyfile \notin {Nothing, Torn}
  /\ inHand' = keyfile /\ tool' = "sign"
  /\ UNCHANGED <<fieldVars, file, keyfile, material, created, frozen, kills>>

\* Everything is signed in memory; the file is opened for writing.
OpenMaterial ==
  /\ tool = "sign" /\ frozen < MaxFreezings
  /\ frozen' = frozen + 1
  /\ material' = Torn /\ tool' = "write material"
  /\ UNCHANGED <<fieldVars, file, keyfile, created, inHand, kills>>

\* Material that is there is left alone, torn or not, but for a missing domain
\* separation, whose key comes from a fixed seed.
OpenToAugment ==
  /\ tool = "idle" /\ IsMaterial(material) /\ ~material.separated
  /\ inHand' = material.key
  /\ material' = Torn /\ tool' = "write material"
  /\ UNCHANGED <<fieldVars, file, keyfile, created, frozen, kills>>

WriteMaterial ==
  /\ tool = "write material"
  /\ material' = FrozenWith(inHand, frozen, TRUE) /\ tool' = "idle"
  /\ UNCHANGED <<fieldVars, file, keyfile, created, frozen, inHand, kills>>

-----------------------------------------------------------------------------
(* gen_*_v0.py.                                                             *)

\* The corpus of the material.  Material that lacks an entry, or that makes a
\* case the oracle decides otherwise than was meant, ends the generator.
Makes(m) ==
  LET corpus == Builds(suite, m)
      sound == \A k \in DOMAIN Sections :
                 corpus[Sections[k]] # Missing =>
                   \A n \in DOMAIN corpus[Sections[k]] :
                     Correct(suite, Sections[k], corpus[Sections[k]][n])
  IN  IF corpus # Refused /\ sound THEN corpus ELSE Refused

\* All cases are held against the oracle before the file is opened.
OpenCorpus ==
  /\ tool = "idle" /\ IsMaterial(material)
  /\ Makes(material) # Refused
  /\ file' = Unreadable /\ tool' = "write corpus"
  /\ UNCHANGED <<fieldVars, keyfile, material, created, frozen, inHand, kills>>

WriteCorpus ==
  /\ tool = "write corpus"
  /\ file' = Makes(material) /\ tool' = "idle"
  /\ UNCHANGED <<fieldVars, keyfile, material, created, frozen, inHand, kills>>

-----------------------------------------------------------------------------
(* What happens to the tools, and who uses them.                            *)

Kill ==
  /\ tool \notin {"idle", "field"} /\ kills < MaxKills
  /\ kills' = kills + 1 /\ tool' = "idle"
  /\ UNCHANGED <<fieldVars, file, keyfile, material, created, frozen, inHand>>

\* "Delete a file only to intentionally re-freeze": material, of any kind, and
\* torn keys.  Keys that were saved are kept.
Delete ==
  /\ tool = "idle"
  /\ \/ material # Nothing /\ material' = Nothing /\ UNCHANGED keyfile
     \/ keyfile = Torn /\ keyfile' = Nothing /\ UNCHANGED material
  /\ UNCHANGED <<fieldVars, file, created, frozen, tool, inHand, kills>>

\* The runners are started on whatever is at the corpus path.  What the tools had
\* in hand, and how often they were killed, matters no more.
StartField ==
  /\ tool = "idle"
  /\ tool' = "field" /\ inHand' = 0 /\ kills' = 0
  /\ UNCHANGED <<fieldVars, file, keyfile, material, created, frozen>>

Freeze ==
  \/ CreateKeys \/ SaveKeys \/ LoadKeys \/ OpenMaterial \/ OpenToAugment
  \/ WriteMaterial \/ OpenCorpus \/ WriteCorpus \/ Kill \/ Delete \/ StartField

Field == tool = "field" /\ Next /\ UNCHANGED freezeVars

PipelineInit == Init /\ FreezeInit

PipelineNext == Freeze \/ Field

\* The steps of a runner that judge a case, and the ones between the cases.
Judging == tool = "field" /\ JudgeCase /\ UNCHANGED freezeVars
Between ==
  /\ tool = "field"
  /\ Open \/ EnterSection \/ EndSection \/ Finish \/ StartNext
  /\ UNCHANGED freezeVars

CaseLeft == tool = "field" /\ pc = "case" /\ pos <= Len(CasesAt(sec))

\* A runner that is started runs to its end: it waits for nothing.  The tools
\* are started by hand, and nothing is assumed of them.  (The second conjunct is
\* WF_pipelineVars(Judging), with CaseLeft for ENABLED: any outcome is a step, and TLC
\* need not judge the case to tell.)
Fairness ==
  /\ WF_pipelineVars(Between)
  /\ []<>~CaseLeft \/ []<><<Judging>>_pipelineVars

PipelineSpec == PipelineInit /\ [][PipelineNext]_pipelineVars /\ Fairness

-----------------------------------------------------------------------------
(* Properties.                                                              *)

\* The type invariant of the tools.
FreezeTypeOK ==
  /\ keyfile \in {Nothing, Torn} \cup KeySets
  /\ material \in {Nothing, Torn} \cup Materials
  /\ created \in 0 .. MaxKeys /\ frozen \in 0 .. MaxFreezings
  /\ kills \in 0 .. MaxKills
  /\ tool \in {"idle", "save keys", "sign", "write material", "write corpus", "field"}
  /\ tool \in {"save keys", "sign", "write material"} => inHand \in KeySets

\* The corpora a suite's generator makes of material signed with key set k.
CorporaOf(k) == {Makes(FrozenWith(k, n, TRUE)) : n \in 1 .. MaxFreezings}

\* Wherever the tools are killed and whatever is deleted to freeze again, the
\* private keys that the material and the corpus on disk were signed with are
\* the ones that are saved: a key pair in a corpus is never orphaned
\* (load_or_create_keys: "the keys are never regenerated").
KeysOutliveWhatTheySigned ==
  /\ IsMaterial(material) => keyfile = material.key
  /\ tool # "field" /\ file # Unreadable =>
       keyfile \in KeySets /\ file \in CorporaOf(keyfile)

\* No runner has been started.
NotStarted ==
  /\ port = 1 /\ pc = "open" /\ sec = 1 /\ pos = 1 /\ fails = 0
  /\ exits = [i \in DOMAIN Ports |-> "none"]

\* The keys a tool holds, and the ones the files on disk were signed with, are
\* the saved ones; what is about to be written has them too.
KeysInv ==
  /\ FreezeTypeOK
  /\ tool # "field" => suite \in Frozen /\ NotStarted
  /\ material # Nothing => keyfile \in KeySets /\ frozen \in 1 .. MaxFreezings
  /\ IsMaterial(material) =>
       keyfile = material.key /\ (material.separated \/ suite \in Augmented)
  /\ tool = "save keys" => keyfile = Torn
  /\ tool \in {"sign", "write material"} => keyfile = inHand
  /\ tool = "write material" => frozen \in 1 .. MaxFreezings
  /\ tool = "write corpus" => IsMaterial(material) /\ Makes(material) # Refused
  /\ tool # "field" /\ file # Unreadable =>
       keyfile \in KeySets /\ file \in CorporaOf(keyfile)

\* Material as the tool freezes it makes a corpus: none of the verdicts that
\* the generator expects is another than the oracle's, so it does not stop.
FrozenIsUsable ==
  tool # "field" /\ IsMaterial(material) /\ material.separated =>
    Makes(material) # Refused

Caught(rule) ==
  \E k \in DOMAIN Sections :
    CasesAt(k) # Missing /\
      \E n \in DOMAIN CasesAt(k) :
        Judge(suite, Without(suite, rule), Sections[k], CasesAt(k)[n]) # "match"

Made == tool = "idle" /\ file # Unreadable

\* The corpus tells a verifier that lacks one of these rules from the oracle: its
\* reject cases are refused because of the rule and nothing else
\* ("the JOSE security rejections that lenient verifiers get wrong",
\* gen_jws_v0.py; "proves FIPS-204 domain separation", gen_pqc_mldsa_material_v0.py).
ProbedRulesAreCaught == Made => \A rule \in Probed(suite) : Caught(rule)

\* The same of every rule in the corpus' policy.
EveryRuleIsProbed == Made => \A rule \in Rules(suite) : Caught(rule)

\* Every runner of the field ends, on whatever file it was started.
FieldEnds ==
  tool = "field" ~> (port = Len(Ports) /\ pc = "exited")
=============================================================================
