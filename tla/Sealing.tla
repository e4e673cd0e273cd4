------------------------------ MODULE Sealing ------------------------------
(***************************************************************************)
(* From a corpus file to a sealed receipt and its two verifiers:           *)
(*   tools/sign_negative_v1.py   signs the head of a corpus and writes its *)
(*                               manifest and provenance files,            *)
(*   kaf/run_cells.sh            runs the runners in their containers and  *)
(*                               writes cells.results.json,                *)
(*   kaf/seal_receipt.py         binds corpus, manifest and cells into a   *)
(*                               receipt, after the KAT gate,              *)
(*   kaf/kaf_verify.py, tools/stack_verify.py   judge what is on disk.     *)
(*                                                                         *)
(* The tools share nothing but files.  A file is its content; a file cut   *)
(* short by the death of its writer is Torn and does not parse.  Digests   *)
(* and signatures are ideal: a digest is the content it was taken of, and  *)
(* a manifest head or a receipt exists only if its tool wrote it.  Each    *)
(* tool reads and writes its files one at a time and may be killed between *)
(* any two.  Interleaved says whether two tools may be at work in the      *)
(* checkout at once.  cells.results.json is one file for all corpora; a     *)
(* receipt is the file of one corpus and one --seq, sealed anew in place.  *)
(***************************************************************************)
EXTENDS Integers, Sequences, FiniteSets

CONSTANTS
  Ids,          \* the corpora (rfc9421_negative_v1, _v2, ...)
  Contents,     \* contents of a corpus file
  Canon,        \* [Contents -> the JSON value, what corpus_digest is taken of]
  Anchored,     \* the contents that match the KAT anchors
  Cells,        \* ALL_CELLS, one per language
  Keys,         \* the seal secrets
  KAF_KID,      \* the one stack_verify.py names
  Behaviours,   \* the functions from cells to contents the runner reproduces
  Missing, Torn,
  Interleaved,
  MaxStarts     \* bound: [tool -> how often it is started]; edits too

\* What a cell's record holds; "ran" is a history field: the content the
\* container found at the corpus path.
CellRecord == [verdict : {"PASS", "FAIL"},
               ran : Contents \cup {Missing, Torn}]
CellFunctions == UNION {[D -> CellRecord] : D \in SUBSET Cells}

ReceiptType ==
  [file : Contents \cup {Missing}, head : Contents \cup {Missing},
   cells : CellFunctions, key : Keys \cup {Missing}]

ASSUME SealingAssumption ==
  /\ {Missing, Torn} \cap Contents = {} /\ Missing # Torn
  /\ Missing \notin ReceiptType /\ Torn \notin ReceiptType
  /\ DOMAIN Canon = Contents
  /\ Anchored \subseteq Contents
  /\ KAF_KID \in Keys /\ Missing \notin Keys /\ Torn \notin Keys
  /\ Behaviours \subseteq [Cells -> SUBSET Contents]
  /\ Interleaved \in BOOLEAN
  /\ MaxStarts \in [{"edit", "sign", "cells", "seal"} -> Nat]

VARIABLES
  corpus,       \* [Ids -> the corpus file]
  manifest,     \* [Ids -> the content its head commits to]
  provenance,   \* [Ids -> the sequence of contents its records name]
  results,      \* cells.results.json: per cell that ran, its verdict
  receipt,      \* [Ids -> the receipt file]
  pub,          \* kaf-seal.pub.json
  reproduces,   \* [Cells -> contents]
  signer,       \* sign_*: its pc and locals
  driver,       \* run_cells.sh
  sealer,       \* seal_receipt.py
  starts,       \* starts left to each
  signedEver    \* history: contents whose head was ever written

files == <<corpus, manifest, provenance, results, receipt, pub>>
sealingVars == <<provenance, results, receipt, pub, reproduces, signer, driver,
                 sealer, starts, signedEver>>
vars == <<corpus, manifest, sealingVars>>

Readable(f) == f # Missing /\ f # Torn

NoCells == [x \in {} |-> Missing]
NoReceipt == [file |-> Missing, head |-> Missing, cells |-> NoCells, key |-> Missing]

\* The tools when they are not running.
NoSigner == [pc |-> "idle", id |-> Missing, raw |-> Missing]
NoDriver == [pc |-> "idle", id |-> Missing, todo |-> {}, acc |-> NoCells]
NoSealer == [pc |-> "idle", id |-> Missing, r |-> NoReceipt, kat |-> Missing]

Idle(t) == t.pc = "idle"
Quiet(others) == Interleaved \/ \A t \in others : Idle(t)

-----------------------------------------------------------------------------
Init ==
  /\ corpus \in [Ids -> Contents]
  /\ manifest = [c \in Ids |-> Missing]
  /\ provenance = [c \in Ids |-> Missing]
  /\ results = Missing
  /\ receipt = [c \in Ids |-> Missing]
  /\ pub = KAF_KID
  /\ reproduces \in Behaviours
  /\ signer = NoSigner /\ driver = NoDriver /\ sealer = NoSealer
  /\ starts = MaxStarts
  /\ signedEver = [c \in Ids |-> {}]

\* t is started once more.
Starts(t) == starts[t] > 0 /\ starts' = [starts EXCEPT ![t] = @ - 1]

\* A generator, an editor or git replaces or removes the corpus file.
EditCorpus(c, x) ==
  /\ Starts("edit")
  /\ Quiet({signer, driver, sealer})
  /\ corpus' = [corpus EXCEPT ![c] = x]
  /\ UNCHANGED <<manifest, provenance, results, receipt, pub, reproduces,
                 signer, driver, sealer, signedEver>>

-----------------------------------------------------------------------------
(* sign_negative_v1.py                                                     *)

SignRead(c) ==
  /\ Idle(signer) /\ Quiet({driver, sealer})
  /\ Starts("sign")
  /\ Readable(corpus[c])
  /\ signer' = [pc |-> "check", id |-> c, raw |-> corpus[c]]
  /\ UNCHANGED <<corpus, manifest, provenance, results, receipt, pub,
                 reproduces, driver, sealer, signedEver>>

\* The corpus is read again: its JSON value must not have changed.
SignCheck ==
  /\ signer.pc = "check"
  /\ signer' =
       IF Readable(corpus[signer.id]) /\ Canon[corpus[signer.id]] = Canon[signer.raw]
         THEN [signer EXCEPT !.pc = "manifest"]
         ELSE NoSigner
  /\ UNCHANGED <<corpus, manifest, provenance, results, receipt, pub,
                 reproduces, driver, sealer, starts, signedEver>>

WriteManifest ==
  /\ signer.pc = "manifest"
  /\ manifest' = [manifest EXCEPT ![signer.id] = signer.raw]
  /\ signedEver' = [signedEver EXCEPT ![signer.id] = @ \cup {signer.raw}]
  /\ signer' = [signer EXCEPT !.pc = "provenance"]
  /\ UNCHANGED <<corpus, provenance, results, receipt, pub, reproduces, driver,
                 sealer, starts>>

\* A new ProvenanceLog with the one record replaces the file.
WriteProvenance ==
  /\ signer.pc = "provenance"
  /\ provenance' = [provenance EXCEPT ![signer.id] = <<signer.raw>>]
  /\ signer' = NoSigner
  /\ UNCHANGED <<corpus, manifest, results, receipt, pub, reproduces, driver,
                 sealer, starts, signedEver>>

SignKilled ==
  /\ ~Idle(signer)
  /\ signer' = NoSigner
  /\ \/ UNCHANGED <<manifest, provenance>>
     \/ /\ signer.pc = "manifest"
        /\ manifest' = [manifest EXCEPT ![signer.id] = Torn]
        /\ UNCHANGED provenance
     \/ /\ signer.pc = "provenance"
        /\ provenance' = [provenance EXCEPT ![signer.id] = Torn]
        /\ UNCHANGED manifest
  /\ UNCHANGED <<corpus, results, receipt, pub, reproduces, driver, sealer,
                 starts, signedEver>>

-----------------------------------------------------------------------------
(* run_cells.sh: CORPUS and CELLS come from the environment.               *)

StartCells(c, sel) ==
  /\ Idle(driver) /\ Quiet({signer, sealer})
  /\ Starts("cells")
  /\ driver' = [pc |-> "run", id |-> c, todo |-> sel, acc |-> NoCells]
  /\ UNCHANGED <<corpus, manifest, provenance, results, receipt, pub,
                 reproduces, signer, sealer, signedEver>>

\* docker run: the checkout is mounted, so the runner reads the corpus as it
\* is now.
RunCell(x) ==
  /\ driver.pc = "run" /\ x \in driver.todo
  /\ LET seen == corpus[driver.id]
         rec == [verdict |-> IF seen \in reproduces[x] THEN "PASS" ELSE "FAIL",
                 ran |-> seen]
     IN  driver' = [driver EXCEPT
           !.todo = @ \ {x},
           !.acc = [y \in DOMAIN @ \cup {x} |-> IF y = x THEN rec ELSE @[y]]]
  /\ UNCHANGED <<corpus, manifest, provenance, results, receipt, pub,
                 reproduces, signer, sealer, starts, signedEver>>

\* The results are written whatever the verdicts.
WriteResults ==
  /\ driver.pc = "run" /\ driver.todo = {}
  /\ results' = driver.acc
  /\ driver' = NoDriver
  /\ UNCHANGED <<corpus, manifest, provenance, receipt, pub, reproduces,
                 signer, sealer, starts, signedEver>>

CellsKilled ==
  /\ ~Idle(driver)
  /\ driver' = NoDriver
  /\ results' \in {results} \cup (IF driver.todo = {} THEN {Torn} ELSE {})
  /\ UNCHANGED <<corpus, manifest, provenance, receipt, pub, reproduces,
                 signer, sealer, starts, signedEver>>

-----------------------------------------------------------------------------
(* seal_receipt.py                                                         *)

SealRead(c, k) ==
  /\ Idle(sealer) /\ Quiet({signer, driver})
  /\ Starts("seal")
  /\ Readable(corpus[c])
  /\ sealer' = [pc |-> "manifest", id |-> c, kat |-> Missing,
                r |-> [NoReceipt EXCEPT !.file = corpus[c], !.key = k]]
  /\ UNCHANGED <<corpus, manifest, provenance, results, receipt, pub,
                 reproduces, signer, driver, signedEver>>

\* Mutant: a manifest that does not parse is taken as it is.
SealReadManifest_Unparsed ==
  /\ sealer.pc = "manifest"
  /\ sealer' = [sealer EXCEPT !.pc = "cells", !.r.head = manifest[sealer.id]]
  /\ UNCHANGED <<corpus, manifest, provenance, results, receipt, pub,
                 reproduces, signer, driver, starts, signedEver>>

\* An unreadable manifest or results file ends the script.
SealReadManifest ==
  /\ sealer.pc = "manifest"
  /\ sealer' = IF Readable(manifest[sealer.id])
                 THEN [sealer EXCEPT !.pc = "cells", !.r.head = manifest[sealer.id]]
                 ELSE NoSealer
  /\ UNCHANGED <<corpus, manifest, provenance, results, receipt, pub,
                 reproduces, signer, driver, starts, signedEver>>

SealReadCells ==
  /\ sealer.pc = "cells"
  /\ sealer' = IF Readable(results)
                 THEN [sealer EXCEPT !.pc = "kat", !.r.cells = results]
                 ELSE NoSealer
  /\ UNCHANGED <<corpus, manifest, provenance, results, receipt, pub,
                 reproduces, signer, driver, starts, signedEver>>

\* check_kat.py, a process of its own, reads the corpus anew ...
KatRead ==
  /\ sealer.pc = "kat"
  /\ sealer' = [sealer EXCEPT !.pc = "katHead", !.kat = corpus[sealer.id]]
  /\ UNCHANGED <<corpus, manifest, provenance, results, receipt, pub,
                 reproduces, signer, driver, starts, signedEver>>

AllPass(cells) ==
  /\ DOMAIN cells # {}
  /\ \A x \in DOMAIN cells : cells[x].verdict = "PASS"

\* Mutant: the KAT gate is not asked.
KatDecide_NoKat ==
  /\ sealer.pc = "katHead"
  /\ sealer' =
       IF AllPass(sealer.r.cells)
         THEN [sealer EXCEPT !.pc = "receipt"]
         ELSE NoSealer
  /\ UNCHANGED <<corpus, manifest, provenance, results, receipt, pub,
                 reproduces, signer, driver, starts, signedEver>>

\* Mutant: one passing cell is enough.
KatDecide_SomePass ==
  /\ sealer.pc = "katHead"
  /\ sealer' =
       IF /\ sealer.kat \in Anchored
          /\ manifest[sealer.id] = sealer.kat
          /\ \E x \in DOMAIN sealer.r.cells : sealer.r.cells[x].verdict = "PASS"
         THEN [sealer EXCEPT !.pc = "receipt"]
         ELSE NoSealer
  /\ UNCHANGED <<corpus, manifest, provenance, results, receipt, pub,
                 reproduces, signer, driver, starts, signedEver>>

\* ... and its manifest and anchors.  Sealing is refused unless the gate
\* passes and every cell in the results passed.
KatDecide ==
  /\ sealer.pc = "katHead"
  /\ sealer' =
       IF /\ sealer.kat \in Anchored
          /\ manifest[sealer.id] = sealer.kat
          /\ AllPass(sealer.r.cells)
         THEN [sealer EXCEPT !.pc = "receipt"]
         ELSE NoSealer
  /\ UNCHANGED <<corpus, manifest, provenance, results, receipt, pub,
                 reproduces, signer, driver, starts, signedEver>>

WriteReceipt ==
  /\ sealer.pc = "receipt"
  /\ receipt' = [receipt EXCEPT ![sealer.id] = sealer.r]
  /\ sealer' = [sealer EXCEPT !.pc = "key"]
  /\ UNCHANGED <<corpus, manifest, provenance, results, pub, reproduces,
                 signer, driver, starts, signedEver>>

\* Mutant: a published key is left alone.
WriteKey_Once ==
  /\ sealer.pc = "key"
  /\ pub' = IF pub = Missing THEN sealer.r.key ELSE pub
  /\ sealer' = NoSealer
  /\ UNCHANGED <<corpus, manifest, provenance, results, receipt, reproduces,
                 signer, driver, starts, signedEver>>

\* The public key is written anew at every seal.
WriteKey ==
  /\ sealer.pc = "key"
  /\ pub' = sealer.r.key
  /\ sealer' = NoSealer
  /\ UNCHANGED <<corpus, manifest, provenance, results, receipt, reproduces,
                 signer, driver, starts, signedEver>>

SealKilled ==
  /\ ~Idle(sealer)
  /\ sealer' = NoSealer
  /\ \/ UNCHANGED <<receipt, pub>>
     \/ /\ sealer.pc = "receipt"
        /\ receipt' = [receipt EXCEPT ![sealer.id] = Torn]
        /\ UNCHANGED pub
     \/ sealer.pc = "key" /\ pub' = Torn /\ UNCHANGED receipt
  /\ UNCHANGED <<corpus, manifest, provenance, results, reproduces, signer,
                 driver, starts, signedEver>>

-----------------------------------------------------------------------------
Sign == (\E c \in Ids : SignRead(c)) \/ SignCheck \/ WriteManifest
          \/ WriteProvenance \/ SignKilled

RunCells ==
  \/ \E c \in Ids, sel \in SUBSET Cells \ {{}} : StartCells(c, sel)
  \/ \E x \in Cells : RunCell(x)
  \/ WriteResults \/ CellsKilled

Seal ==
  \/ \E c \in Ids, k \in Keys : SealRead(c, k)
  \/ SealReadManifest \/ SealReadCells \/ KatRead \/ KatDecide
  \/ WriteReceipt \/ WriteKey \/ SealKilled

Next ==
  \/ \E c \in Ids, x \in Contents \cup {Missing} : EditCorpus(c, x)
  \/ Sign \/ RunCells \/ Seal

Spec == Init /\ [][Next]_vars

-----------------------------------------------------------------------------
(* The verifiers, on the files as they are.                                *)

PinnedKey(k) == pub \in {Missing, k}

\* Mutant: the digest of the manifest head is not compared.
KafValid_NoHead(c) ==
  /\ Readable(receipt[c])
  /\ PinnedKey(receipt[c].key)
  /\ corpus[c] # Missing => corpus[c] = receipt[c].file
  /\ AllPass(receipt[c].cells)

\* kaf_verify.py prints VALID for the receipt of corpus c.
KafValid(c) ==
  /\ Readable(receipt[c])
  /\ PinnedKey(receipt[c].key)
  /\ corpus[c] # Missing =>
       corpus[c] = receipt[c].file /\ receipt[c].file = receipt[c].head
  /\ AllPass(receipt[c].cells)

\* verify_corpus_heads: a corpus with a manifest beside it.
HeadVerifies(c) ==
  corpus[c] # Missing /\ manifest[c] # Missing =>
    manifest[c] = corpus[c] /\ provenance[c] # Torn

\* verify_receipt
ReceiptVerifies(c) ==
  /\ Readable(receipt[c])
  /\ PinnedKey(receipt[c].key) /\ receipt[c].key = KAF_KID
  /\ corpus[c] = receipt[c].file

\* stack_verify.py prints PASS.
StackPass ==
  /\ \A c \in Ids : HeadVerifies(c)
  /\ \E c \in Ids : receipt[c] # Missing
  /\ \A c \in Ids : receipt[c] # Missing => ReceiptVerifies(c)

-----------------------------------------------------------------------------
(* Properties.                                                             *)

SignerType ==
  [pc : {"idle", "check", "manifest", "provenance"},
   id : Ids \cup {Missing}, raw : Contents \cup {Missing}]

DriverType ==
  [pc : {"idle", "run"}, id : Ids \cup {Missing}, todo : SUBSET Cells,
   acc : CellFunctions]

SealerType ==
  [pc : {"idle", "manifest", "cells", "kat", "katHead", "receipt", "key"},
   id : Ids \cup {Missing}, r : ReceiptType,
   kat : Contents \cup {Missing, Torn}]

\* Whatever the corpus files are.
ToolsTypeOK ==
  /\ manifest \in [Ids -> Contents \cup {Missing, Torn}]
  /\ provenance \in [Ids -> {Missing, Torn} \cup {<<x>> : x \in Contents}]
  /\ results \in CellFunctions \cup {Missing, Torn}
  /\ receipt \in [Ids -> ReceiptType \cup {Missing, Torn}]
  /\ pub \in Keys \cup {Torn}
  /\ signer \in SignerType
  /\ Idle(signer) \/ (signer.id \in Ids /\ signer.raw \in Contents)
  /\ driver \in DriverType
  /\ Idle(driver) \/ driver.id \in Ids
  /\ sealer \in SealerType
  /\ Idle(sealer) \/ 
       (sealer.id \in Ids /\ sealer.r.file \in Contents /\ sealer.r.key \in Keys)
  /\ signedEver \in [Ids -> SUBSET Contents]

TypeOK == corpus \in [Ids -> Contents \cup {Missing}] /\ ToolsTypeOK

\* What the manifests, the seal under way and the receipts know of the signed
\* heads, however the tools interleave.
HeadInv ==
  /\ \A c \in Ids : Readable(manifest[c]) => manifest[c] \in signedEver[c]
  /\ sealer.pc \in {"cells", "kat", "katHead", "receipt", "key"} =>
       sealer.r.head \in signedEver[sealer.id]
  /\ \A c \in Ids : Readable(receipt[c]) =>
       /\ receipt[c].head \in signedEver[c]
       /\ AllPass(receipt[c].cells)
  /\ sealer.pc \in {"receipt", "key"} => AllPass(sealer.r.cells)

\* Tools that do not interleave: one at most is at work, and what a seal under
\* way has read is what is still on disk.
SerialInv ==
  ~Interleaved =>
    /\ Idle(signer) \/ Idle(driver)
    /\ Idle(signer) \/ Idle(sealer)
    /\ Idle(driver) \/ Idle(sealer)
    /\ ~Idle(sealer) => sealer.r.file = corpus[sealer.id]
    /\ sealer.pc \in {"cells", "kat", "katHead", "receipt", "key"} =>
         sealer.r.head = manifest[sealer.id]
    /\ sealer.pc = "katHead" => sealer.kat = corpus[sealer.id]
    /\ sealer.pc \in {"receipt", "key"} =>
         sealer.r.file = sealer.r.head /\ sealer.r.file \in Anchored
    /\ sealer.pc = "key" => receipt[sealer.id] = sealer.r

\* One tool at a time: a receipt that is sealed, or about to be, names a file
\* that is the exact signed artifact and matches the anchors, although the
\* script and its KAT subprocess read corpus and manifest separately and any
\* tool may have been killed before.
SealedIsSignedArtifact ==
  \A c \in Ids : Readable(receipt[c]) =>
    /\ receipt[c].file = receipt[c].head
    /\ receipt[c].file \in signedEver[c] \cap Anchored

\* One tool at a time: the two verifiers agree.  What stack_verify.py passes,
\* kaf_verify.py calls valid, though it checks the head and the cells of a
\* receipt and stack_verify.py does not.
StackImpliesKaf ==
  StackPass => \A c \in Ids : receipt[c] # Missing => KafValid(c)

\* However the tools interleave and wherever they are killed, a VALID receipt
\* over a corpus that is there names a content that was signed.
ValidWasSigned ==
  \A c \in Ids : KafValid(c) /\ corpus[c] # Missing =>
    corpus[c] \in signedEver[c]

\* One tool at a time: the receipt a finished seal leaves behind is VALID: the
\* script, its KAT subprocess and kaf_verify.py, which share no code, agree on
\* corpus, head, cells and key.
SealEndsValid ==
  [][\A c \in Ids : WriteKey /\ sealer.id = c => KafValid(c)']_vars

\* The invariant of both.
IInv ==
  /\ TypeOK
  /\ HeadInv
  /\ SerialInv
  /\ ~Interleaved => SealedIsSignedArtifact

\* Disagreement, shown by a run.  kaf/README.md: a receipt attests that the
\* runners ran "against the one frozen, signed corpus".
CellsRanOnSealed ==
  \A c \in Ids : KafValid(c) =>
    \A x \in DOMAIN receipt[c].cells : receipt[c].cells[x].ran = receipt[c].file
=============================================================================
