--------------------------- MODULE SealingProofs ---------------------------
(***************************************************************************)
(* What a receipt vouches for, for any corpora, contents, cells, keys and  *)
(* numbers of runs.  IInv is inductive: HeadInv carries the signed heads   *)
(* from the manifest through the seal under way into the receipt and holds *)
(* under any interleaving; SerialInv says that, one tool at a time, what a *)
(* seal has read is still on disk.                                         *)
(***************************************************************************)
EXTENDS Checkout, TLAPS

\* The tools at rest are well typed.
LEMMA NoneTyped ==
  /\ NoCells \in CellFunctions /\ NoReceipt \in ReceiptType
  /\ NoSigner \in SignerType /\ NoDriver \in DriverType /\ NoSealer \in SealerType
  /\ NoSigner.pc = "idle" /\ NoDriver.pc = "idle" /\ NoSealer.pc = "idle"
<1>1. NoCells \in CellFunctions
  <2>1. NoCells \in [{} -> CellRecord]
    BY DEF NoCells
  <2> QED
    BY <2>1 DEF CellFunctions
<1>2. NoReceipt \in ReceiptType
  BY <1>1 DEF NoReceipt, ReceiptType
<1> QED
  BY <1>1, <1>2 DEF NoSigner, NoDriver, NoSealer, SignerType, DriverType, SealerType

LEMMA InvInit == Init => IInv
<1> SUFFICES ASSUME Init PROVE IInv
  OBVIOUS
<1>1. Idle(signer) /\ Idle(driver) /\ Idle(sealer)
  BY NoneTyped DEF Init, Idle
<1>2. TypeOK
  BY <1>1, NoneTyped, SealingAssumption DEF Init, TypeOK, ToolsTypeOK
<1>3. HeadInv /\ SerialInv /\ SealedIsSignedArtifact
  BY <1>1 DEF Init, HeadInv, SerialInv, SealedIsSignedArtifact, Readable, Idle
<1> QED
  BY <1>2, <1>3 DEF IInv

-----------------------------------------------------------------------------
(* Types.                                                                  *)

\* Whoever writes the corpus files, every step of a tool keeps the types of the
\* tools' files and of the tools.
LEMMA ToolsTypeNext ==
  ASSUME corpus \in [Ids -> Contents \cup {Missing, Torn}], ToolsTypeOK, [Next]_vars
  PROVE  ToolsTypeOK'
<1> USE DEF Idle
<1>0. /\ Missing \notin Contents /\ Torn \notin Contents
      /\ NoSigner \in SignerType /\ NoDriver \in DriverType
      /\ NoSealer \in SealerType /\ NoReceipt \in ReceiptType
      /\ NoCells \in CellFunctions
      /\ NoSigner.pc = "idle" /\ NoDriver.pc = "idle" /\ NoSealer.pc = "idle"
  BY NoneTyped, SealingAssumption
<1>1. ASSUME NEW c \in Ids, NEW x \in Contents \cup {Missing}, EditCorpus(c, x)
      PROVE  ToolsTypeOK'
  BY <1>1 DEF EditCorpus, ToolsTypeOK
<1>2. ASSUME NEW c \in Ids, SignRead(c) PROVE ToolsTypeOK'
  <2>1. signer' \in SignerType /\ signer'.id \in Ids /\ signer'.raw \in Contents
    BY <1>2 DEF SignRead, ToolsTypeOK, SignerType, Readable
  <2> QED
    BY <1>2, <2>1 DEF SignRead, ToolsTypeOK
<1>3. CASE SignCheck
  <2>1. /\ signer' \in SignerType
        /\ Idle(signer)' \/ (signer'.id \in Ids /\ signer'.raw \in Contents)
    BY <1>3, <1>0 DEF SignCheck, ToolsTypeOK, SignerType
  <2> QED
    BY <1>3, <2>1 DEF SignCheck, ToolsTypeOK
<1>4. CASE WriteManifest
  <2>1. /\ signer' \in SignerType /\ signer.id \in Ids /\ signer.raw \in Contents
        /\ signer'.id \in Ids /\ signer'.raw \in Contents
    BY <1>4 DEF WriteManifest, ToolsTypeOK, SignerType
  <2> QED
    BY <1>4, <2>1 DEF WriteManifest, ToolsTypeOK
<1>5. CASE WriteProvenance
  <2>1. signer.id \in Ids /\ signer.raw \in Contents
    BY <1>5 DEF WriteProvenance, ToolsTypeOK
  <2> QED
    BY <1>5, <1>0, <2>1 DEF WriteProvenance, ToolsTypeOK
<1>6. CASE SignKilled
  BY <1>6, <1>0 DEF SignKilled, ToolsTypeOK
<1>7. ASSUME NEW c \in Ids, NEW sel \in SUBSET Cells, StartCells(c, sel)
      PROVE  ToolsTypeOK'
  <2>1. driver' \in DriverType /\ driver'.id \in Ids
    BY <1>7, <1>0 DEF StartCells, DriverType
  <2> QED
    BY <1>7, <2>1 DEF StartCells, ToolsTypeOK
<1>8. ASSUME NEW x \in Cells, RunCell(x) PROVE ToolsTypeOK'
  <2> DEFINE seen == corpus[driver.id]
             rec == [verdict |-> IF seen \in reproduces[x] THEN "PASS" ELSE "FAIL",
                     ran |-> seen]
             acc == [y \in DOMAIN driver.acc \cup {x} |->
                       IF y = x THEN rec ELSE driver.acc[y]]
  <2>1. driver \in DriverType /\ driver.id \in Ids /\ driver.pc = "run"
    BY <1>8 DEF RunCell, ToolsTypeOK
  <2>2. rec \in CellRecord
    BY <2>1 DEF ToolsTypeOK, CellRecord
  <2>3. acc \in CellFunctions
    <3>1. PICK D \in SUBSET Cells : driver.acc \in [D -> CellRecord]
      BY <2>1 DEF DriverType, CellFunctions
    <3>2. acc \in [D \cup {x} -> CellRecord]
      BY <2>2, <3>1
    <3>3. D \cup {x} \in SUBSET Cells
      OBVIOUS
    <3> QED
      BY <3>2, <3>3 DEF CellFunctions
  <2>4. driver' = [driver EXCEPT !.todo = @ \ {x}, !.acc = acc]
    BY <1>8 DEF RunCell
  <2>5. driver' \in DriverType /\ driver'.id = driver.id
    BY <2>1, <2>3, <2>4 DEF DriverType
  <2> QED
    BY <1>8, <2>1, <2>5 DEF RunCell, ToolsTypeOK
<1>9. CASE WriteResults
  BY <1>9, <1>0 DEF WriteResults, ToolsTypeOK, DriverType
<1>10. CASE CellsKilled
  BY <1>10, <1>0 DEF CellsKilled, ToolsTypeOK
<1>11. ASSUME NEW c \in Ids, NEW k \in Keys, SealRead(c, k) PROVE ToolsTypeOK'
  <2>1. corpus[c] \in Contents
    BY <1>11 DEF SealRead, ToolsTypeOK, Readable
  <2>2. [NoReceipt EXCEPT !.file = corpus[c], !.key = k] \in ReceiptType
    BY <1>0, <2>1 DEF ReceiptType
  <2>3. /\ sealer' \in SealerType /\ sealer'.id \in Ids
        /\ sealer'.r.file \in Contents /\ sealer'.r.key \in Keys
    BY <1>11, <1>0, <2>1, <2>2 DEF SealRead, SealerType, ReceiptType
  <2> QED
    BY <1>11, <2>3 DEF SealRead, ToolsTypeOK
<1>12. CASE SealReadManifest
  <2>1. CASE Readable(manifest[sealer.id])
    <3> DEFINE r == [sealer.r EXCEPT !.head = manifest[sealer.id]]
    <3>1. /\ sealer \in SealerType /\ sealer.id \in Ids
          /\ sealer.r.file \in Contents /\ sealer.r.key \in Keys
      BY <1>12 DEF SealReadManifest, ToolsTypeOK
    <3>2. manifest[sealer.id] \in Contents
      BY <2>1, <3>1 DEF ToolsTypeOK, Readable
    <3>3. r \in ReceiptType /\ r.file \in Contents /\ r.key \in Keys
      BY <3>1, <3>2 DEF SealerType, ReceiptType
    <3>4. sealer' = [sealer EXCEPT !.pc = "cells", !.r = r]
      BY <1>12, <2>1, <3>1 DEF SealReadManifest, SealerType
    <3>5. sealer' \in SealerType /\ sealer'.id = sealer.id /\ sealer'.r = r
      BY <3>1, <3>3, <3>4 DEF SealerType
    <3> QED
      BY <1>12, <3>1, <3>3, <3>5 DEF SealReadManifest, ToolsTypeOK
  <2>2. CASE ~Readable(manifest[sealer.id])
    BY <1>12, <1>0, <2>2 DEF SealReadManifest, ToolsTypeOK
  <2> QED
    BY <2>1, <2>2
<1>13. CASE SealReadCells
  <2>1. CASE Readable(results)
    <3> DEFINE r == [sealer.r EXCEPT !.cells = results]
    <3>1. /\ sealer \in SealerType /\ sealer.id \in Ids
          /\ sealer.r.file \in Contents /\ sealer.r.key \in Keys
      BY <1>13 DEF SealReadCells, ToolsTypeOK
    <3>2. results \in CellFunctions
      BY <2>1 DEF ToolsTypeOK, Readable
    <3>3. r \in ReceiptType /\ r.file \in Contents /\ r.key \in Keys
      BY <3>1, <3>2 DEF SealerType, ReceiptType
    <3>4. sealer' = [sealer EXCEPT !.pc = "kat", !.r = r]
      BY <1>13, <2>1, <3>1 DEF SealReadCells, SealerType
    <3>5. sealer' \in SealerType /\ sealer'.id = sealer.id /\ sealer'.r = r
      BY <3>1, <3>3, <3>4 DEF SealerType
    <3> QED
      BY <1>13, <3>1, <3>3, <3>5 DEF SealReadCells, ToolsTypeOK
  <2>2. CASE ~Readable(results)
    BY <1>13, <1>0, <2>2 DEF SealReadCells, ToolsTypeOK
  <2> QED
    BY <2>1, <2>2
<1>14. CASE KatRead
  <2>1. sealer \in SealerType /\ sealer.id \in Ids /\ sealer.r.file \in Contents
    BY <1>14 DEF KatRead, ToolsTypeOK
  <2>2. /\ sealer' \in SealerType /\ sealer'.id = sealer.id
        /\ sealer'.r = sealer.r
    BY <1>14, <2>1 DEF KatRead, SealerType, ToolsTypeOK
  <2> QED
    BY <1>14, <2>1, <2>2 DEF KatRead, ToolsTypeOK
<1>15. CASE KatDecide
  <2>1. sealer \in SealerType /\ sealer.id \in Ids /\ sealer.r.file \in Contents
    BY <1>15 DEF KatDecide, ToolsTypeOK
  <2>2. \/ sealer' = NoSealer
        \/ /\ sealer' \in SealerType /\ sealer'.id = sealer.id
           /\ sealer'.r = sealer.r
    BY <1>15, <2>1 DEF KatDecide, SealerType
  <2> QED
    BY <1>15, <1>0, <2>1, <2>2 DEF KatDecide, ToolsTypeOK
<1>16. CASE WriteReceipt
  <2>1. /\ sealer \in SealerType /\ sealer.id \in Ids /\ sealer.r.file \in Contents
        /\ sealer.r \in ReceiptType
    BY <1>16 DEF WriteReceipt, ToolsTypeOK, SealerType
  <2>2. /\ sealer' \in SealerType /\ sealer'.id = sealer.id
        /\ sealer'.r = sealer.r
    BY <1>16, <2>1 DEF WriteReceipt, SealerType
  <2> QED
    BY <1>16, <2>1, <2>2 DEF WriteReceipt, ToolsTypeOK
<1>17. CASE WriteKey
  BY <1>17, <1>0 DEF WriteKey, ToolsTypeOK
<1>18. CASE SealKilled
  BY <1>18, <1>0 DEF SealKilled, ToolsTypeOK
<1>19. CASE UNCHANGED vars
  BY <1>19 DEF vars, sealingVars, ToolsTypeOK
<1> QED
  BY <1>1, <1>2, <1>3, <1>4, <1>5, <1>6, <1>7, <1>8, <1>9, <1>10, <1>11, <1>12,
     <1>13, <1>14, <1>15, <1>16, <1>17, <1>18, <1>19
     DEF Next, Sign, RunCells, Seal

\* And alone in the checkout they keep the types of the corpus files too.
LEMMA TypeNext == TypeOK /\ [Next]_vars => TypeOK'
<1> SUFFICES ASSUME TypeOK, [Next]_vars PROVE TypeOK'
  OBVIOUS
<1>1. ToolsTypeOK'
  BY ToolsTypeNext DEF TypeOK
<1>2. ASSUME NEW c \in Ids, NEW x \in Contents \cup {Missing}, EditCorpus(c, x)
      PROVE  corpus' \in [Ids -> Contents \cup {Missing}]
  BY <1>2 DEF EditCorpus, TypeOK
<1>3. CASE UNCHANGED corpus
  BY <1>1, <1>3 DEF TypeOK
<1>4. Sign => UNCHANGED corpus
  BY DEF Sign, SignRead, SignCheck, WriteManifest, WriteProvenance, SignKilled
<1>5. RunCells => UNCHANGED corpus
  BY DEF RunCells, StartCells, RunCell, WriteResults, CellsKilled
<1>6. Seal => UNCHANGED corpus
  BY DEF Seal, SealRead, SealReadManifest, SealReadCells, KatRead, KatDecide,
         WriteReceipt, WriteKey, SealKilled
<1>7. UNCHANGED vars => UNCHANGED corpus
  BY DEF vars
<1> QED
  BY <1>1, <1>2, <1>3, <1>4, <1>5, <1>6, <1>7 DEF Next, TypeOK

-----------------------------------------------------------------------------
(* Heads, under any interleaving.                                          *)

LEMMA HeadNext == ToolsTypeOK /\ HeadInv /\ [Next]_vars => HeadInv'
<1> SUFFICES ASSUME ToolsTypeOK, HeadInv, [Next]_vars PROVE HeadInv'
  OBVIOUS
<1>0. NoSealer.pc = "idle"
  BY NoneTyped
<1>1. CASE UNCHANGED <<manifest, receipt, sealer, signedEver>>
  BY <1>1 DEF HeadInv
<1>2. CASE WriteManifest
  <2>1. signer.id \in Ids /\ UNCHANGED <<receipt, sealer>>
    BY <1>2 DEF WriteManifest, ToolsTypeOK, Idle
  <2>2. \A c \in Ids : signedEver[c] \subseteq signedEver'[c]
    BY <1>2, <2>1 DEF WriteManifest, ToolsTypeOK
  <2>3. \A c \in Ids : Readable(manifest[c])' => manifest'[c] \in signedEver'[c]
    BY <1>2, <2>1, <2>2 DEF WriteManifest, ToolsTypeOK, HeadInv, Readable
  <2>4. sealer.pc # "idle" => sealer.id \in Ids
    BY DEF ToolsTypeOK, Idle
  <2> QED
    BY <2>1, <2>2, <2>3, <2>4 DEF HeadInv
<1>3. CASE SignKilled
  <2>1. UNCHANGED <<receipt, sealer, signedEver>>
    BY <1>3 DEF SignKilled
  <2>2. \A c \in Ids : Readable(manifest[c])' => manifest'[c] = manifest[c]
    BY <1>3 DEF SignKilled, ToolsTypeOK, Readable
  <2> QED
    BY <2>1, <2>2 DEF HeadInv, Readable
<1>4. ASSUME NEW c \in Ids, NEW k \in Keys, SealRead(c, k) PROVE HeadInv'
  <2>1. sealer'.pc = "manifest" /\ UNCHANGED <<manifest, receipt, signedEver>>
    BY <1>4 DEF SealRead
  <2> QED
    BY <2>1 DEF HeadInv
<1>5. CASE SealReadManifest
  <2>1. UNCHANGED <<manifest, receipt, signedEver>> /\ sealer.id \in Ids
    BY <1>5 DEF SealReadManifest, ToolsTypeOK, Idle
  <2>2. CASE Readable(manifest[sealer.id])
    <3>1. /\ sealer'.pc = "cells" /\ sealer'.id = sealer.id
          /\ sealer'.r.head = manifest[sealer.id]
      BY <1>5, <2>2 DEF SealReadManifest, ToolsTypeOK, SealerType, ReceiptType
    <3> QED
      BY <2>1, <2>2, <3>1 DEF HeadInv
  <2>3. CASE ~Readable(manifest[sealer.id])
    BY <1>5, <1>0, <2>1, <2>3 DEF SealReadManifest, HeadInv
  <2> QED
    BY <2>2, <2>3
<1>6. CASE SealReadCells
  <2>1. UNCHANGED <<manifest, receipt, signedEver>> /\ sealer.pc = "cells"
    BY <1>6 DEF SealReadCells
  <2>2. CASE Readable(results)
    <3>1. /\ sealer'.pc = "kat" /\ sealer'.id = sealer.id
          /\ sealer'.r.head = sealer.r.head
      BY <1>6, <2>2 DEF SealReadCells, ToolsTypeOK, SealerType, ReceiptType
    <3> QED
      BY <2>1, <3>1 DEF HeadInv
  <2>3. CASE ~Readable(results)
    BY <1>6, <1>0, <2>1, <2>3 DEF SealReadCells, HeadInv
  <2> QED
    BY <2>2, <2>3
<1>7. CASE KatRead
  <2>1. /\ UNCHANGED <<manifest, receipt, signedEver>> /\ sealer.pc = "kat"
        /\ sealer'.pc = "katHead" /\ sealer'.id = sealer.id /\ sealer'.r = sealer.r
    BY <1>7 DEF KatRead, ToolsTypeOK, SealerType
  <2> QED
    BY <2>1 DEF HeadInv
<1>8. CASE KatDecide
  <2>1. /\ UNCHANGED <<manifest, receipt, signedEver>> /\ sealer.pc = "katHead"
        /\ \/ sealer' = NoSealer
           \/ /\ AllPass(sealer.r.cells)
              /\ sealer'.pc = "receipt" /\ sealer'.id = sealer.id
              /\ sealer'.r = sealer.r
    BY <1>8 DEF KatDecide, ToolsTypeOK, SealerType
  <2> QED
    BY <1>0, <2>1 DEF HeadInv
<1>9. CASE WriteReceipt
  <2>1. /\ UNCHANGED <<manifest, signedEver>> /\ sealer.pc = "receipt"
        /\ sealer'.pc = "key" /\ sealer'.id = sealer.id /\ sealer'.r = sealer.r
        /\ sealer.id \in Ids
    BY <1>9 DEF WriteReceipt, ToolsTypeOK, SealerType, Idle
  <2>2. \A c \in Ids : receipt'[c] = IF c = sealer.id THEN sealer.r ELSE receipt[c]
    BY <1>9, <2>1 DEF WriteReceipt, ToolsTypeOK
  <2>3. \A c \in Ids : Readable(receipt[c])' =>
          receipt'[c].head \in signedEver[c] /\ AllPass(receipt'[c].cells)
    BY <2>1, <2>2 DEF HeadInv, Readable
  <2> QED
    BY <2>1, <2>3 DEF HeadInv
<1>10. CASE WriteKey
  BY <1>10, <1>0 DEF WriteKey, HeadInv
<1>11. CASE SealKilled
  <2>1. UNCHANGED <<manifest, signedEver>> /\ sealer'.pc = "idle"
    BY <1>11, <1>0 DEF SealKilled
  <2>2. \A c \in Ids : Readable(receipt[c])' => receipt'[c] = receipt[c]
    BY <1>11 DEF SealKilled, ToolsTypeOK, Readable
  <2> QED
    BY <2>1, <2>2 DEF HeadInv, Readable
<1>12. ASSUME NEW c \in Ids, NEW x \in Contents \cup {Missing}, EditCorpus(c, x)
       PROVE  HeadInv'
  BY <1>1, <1>12 DEF EditCorpus
<1>13. CASE (\E c \in Ids : SignRead(c)) \/ SignCheck \/ WriteProvenance
  BY <1>1, <1>13 DEF SignRead, SignCheck, WriteProvenance
<1>14. CASE RunCells
  BY <1>1, <1>14 DEF RunCells, StartCells, RunCell, WriteResults, CellsKilled
<1>15. CASE UNCHANGED vars
  BY <1>1, <1>15 DEF vars, sealingVars
<1> QED
  BY <1>2, <1>3, <1>4, <1>5, <1>6, <1>7, <1>8, <1>9, <1>10, <1>11, <1>12, <1>13,
     <1>14, <1>15 DEF Next, Sign, Seal

-----------------------------------------------------------------------------
(* One tool at a time.                                                     *)

LEMMA SerialNext ==
  ASSUME TypeOK, HeadInv, SerialInv, ~Interleaved, [Next]_vars
  PROVE  SerialInv'
<1>0. NoSigner.pc = "idle" /\ NoDriver.pc = "idle" /\ NoSealer.pc = "idle"
  BY NoneTyped
<1> USE DEF Idle
<1>1. ASSUME NEW c \in Ids, NEW x \in Contents \cup {Missing}, EditCorpus(c, x)
      PROVE  SerialInv'
  BY <1>1 DEF EditCorpus, Quiet, SerialInv
<1>2. ASSUME NEW c \in Ids, SignRead(c) PROVE SerialInv'
  BY <1>2 DEF SignRead, Quiet, SerialInv
<1>3. CASE SignCheck \/ WriteManifest \/ WriteProvenance \/ SignKilled
  <2>1. /\ signer.pc # "idle" /\ UNCHANGED <<driver, sealer>>
    BY <1>3 DEF SignCheck, WriteManifest, WriteProvenance, SignKilled
  <2> QED
    BY <2>1 DEF SerialInv
<1>4. ASSUME NEW c \in Ids, NEW sel \in SUBSET Cells, StartCells(c, sel)
      PROVE  SerialInv'
  BY <1>4 DEF StartCells, Quiet, SerialInv
<1>5. ASSUME NEW x \in Cells, RunCell(x) PROVE SerialInv'
  <2>1. driver.pc = "run" /\ UNCHANGED <<signer, sealer>>
    BY <1>5 DEF RunCell
  <2> QED
    BY <2>1 DEF SerialInv
<1>6. CASE WriteResults \/ CellsKilled
  <2>1. driver.pc # "idle" /\ UNCHANGED <<signer, sealer>>
    BY <1>6 DEF WriteResults, CellsKilled
  <2> QED
    BY <2>1 DEF SerialInv
<1>7. ASSUME NEW c \in Ids, NEW k \in Keys, SealRead(c, k) PROVE SerialInv'
  <2>1. /\ sealer'.pc = "manifest" /\ sealer'.id = c
        /\ sealer'.r.file = corpus[c]
        /\ UNCHANGED <<corpus, signer, driver>> /\ Idle(signer) /\ Idle(driver)
    BY <1>7 DEF SealRead, Quiet, NoReceipt
  <2> QED
    BY <2>1 DEF SerialInv
<1>8. ASSUME sealer.pc # "idle", UNCHANGED <<corpus, manifest, signer, driver>>,
             sealer'.pc = "idle"
      PROVE  SerialInv'
  BY <1>8 DEF SerialInv
<1>9. CASE SealReadManifest
  <2>1. /\ UNCHANGED <<corpus, manifest, signer, driver>>
        /\ sealer.pc = "manifest" /\ sealer.id \in Ids
    BY <1>9 DEF SealReadManifest, TypeOK, ToolsTypeOK
  <2>2. CASE Readable(manifest[sealer.id])
    <3>1. /\ sealer'.pc = "cells" /\ sealer'.id = sealer.id
          /\ sealer'.r.head = manifest[sealer.id]
          /\ sealer'.r.file = sealer.r.file
      BY <1>9, <2>2 DEF SealReadManifest, TypeOK, ToolsTypeOK, SealerType, ReceiptType
    <3> QED
      BY <2>1, <3>1 DEF SerialInv
  <2>3. CASE ~Readable(manifest[sealer.id])
    BY <1>9, <1>0, <1>8, <2>1, <2>3 DEF SealReadManifest
  <2> QED
    BY <2>2, <2>3
<1>10. CASE SealReadCells
  <2>1. UNCHANGED <<corpus, manifest, signer, driver>> /\ sealer.pc = "cells"
    BY <1>10 DEF SealReadCells
  <2>2. CASE Readable(results)
    <3>1. /\ sealer'.pc = "kat" /\ sealer'.id = sealer.id
          /\ sealer'.r.head = sealer.r.head /\ sealer'.r.file = sealer.r.file
      BY <1>10, <2>2 DEF SealReadCells, TypeOK, ToolsTypeOK, SealerType, ReceiptType
    <3> QED
      BY <2>1, <3>1 DEF SerialInv
  <2>3. CASE ~Readable(results)
    BY <1>10, <1>0, <1>8, <2>1, <2>3 DEF SealReadCells
  <2> QED
    BY <2>2, <2>3
<1>11. CASE KatRead
  <2>1. /\ UNCHANGED <<corpus, manifest, signer, driver>> /\ sealer.pc = "kat"
        /\ sealer'.pc = "katHead" /\ sealer'.id = sealer.id
        /\ sealer'.r = sealer.r /\ sealer'.kat = corpus[sealer.id]
    BY <1>11 DEF KatRead, TypeOK, ToolsTypeOK, SealerType
  <2> QED
    BY <2>1 DEF SerialInv
<1>12. CASE KatDecide
  <2>1. UNCHANGED <<corpus, manifest, signer, driver>> /\ sealer.pc = "katHead"
    BY <1>12 DEF KatDecide
  <2>2. \/ sealer' = NoSealer
        \/ /\ sealer.kat \in Anchored /\ manifest[sealer.id] = sealer.kat
           /\ sealer'.pc = "receipt" /\ sealer'.id = sealer.id
           /\ sealer'.r = sealer.r
    BY <1>12 DEF KatDecide, TypeOK, ToolsTypeOK, SealerType
  <2>3. CASE sealer' = NoSealer
    BY <1>0, <1>8, <2>1, <2>3
  <2>4. CASE /\ sealer.kat \in Anchored /\ manifest[sealer.id] = sealer.kat
             /\ sealer'.pc = "receipt" /\ sealer'.id = sealer.id
             /\ sealer'.r = sealer.r
    BY <2>1, <2>4 DEF SerialInv
  <2> QED
    BY <2>2, <2>3, <2>4
<1>13. CASE WriteReceipt
  <2>1. /\ UNCHANGED <<corpus, manifest, signer, driver>> /\ sealer.pc = "receipt"
        /\ sealer'.pc = "key" /\ sealer'.id = sealer.id /\ sealer'.r = sealer.r
        /\ sealer.id \in Ids
    BY <1>13 DEF WriteReceipt, TypeOK, ToolsTypeOK, SealerType
  <2>2. receipt'[sealer.id] = sealer.r
    BY <1>13, <2>1 DEF WriteReceipt, TypeOK, ToolsTypeOK
  <2> QED
    BY <2>1, <2>2 DEF SerialInv
<1>14. CASE WriteKey \/ SealKilled
  <2>1. /\ UNCHANGED <<corpus, manifest, signer, driver>> /\ sealer.pc # "idle"
        /\ sealer'.pc = "idle"
    BY <1>14, <1>0 DEF WriteKey, SealKilled
  <2> QED
    BY <1>8, <2>1
<1>15. CASE UNCHANGED vars
  BY <1>15 DEF vars, sealingVars, SerialInv
<1> QED
  BY <1>1, <1>2, <1>3, <1>4, <1>5, <1>6, <1>7, <1>9, <1>10, <1>11, <1>12, <1>13,
     <1>14, <1>15 DEF Next, Sign, RunCells, Seal

LEMMA SealedNext ==
  ASSUME TypeOK, HeadInv, SerialInv, ~Interleaved, SealedIsSignedArtifact,
         [Next]_vars
  PROVE  SealedIsSignedArtifact'
<1>1. \A c \in Ids : signedEver[c] \subseteq signedEver'[c]
  <2>1. CASE WriteManifest
    BY <2>1 DEF WriteManifest, TypeOK, ToolsTypeOK, Idle
  <2>2. CASE UNCHANGED signedEver
    BY <2>2
  <2> QED
    BY <2>1, <2>2 DEF Next, Sign, RunCells, Seal, EditCorpus, SignRead, SignCheck,
       WriteProvenance, SignKilled, StartCells, RunCell, WriteResults, CellsKilled,
       SealRead, SealReadManifest, SealReadCells, KatRead, KatDecide, WriteReceipt,
       WriteKey, SealKilled, vars, sealingVars
<1>2. ASSUME NEW c \in Ids, Readable(receipt[c])'
      PROVE  \/ receipt'[c] = receipt[c]
             \/ receipt'[c] = sealer.r /\ sealer.pc = "receipt" /\ sealer.id = c
  <2>1. CASE WriteReceipt
    BY <2>1 DEF WriteReceipt, TypeOK, ToolsTypeOK
  <2>2. CASE SealKilled
    BY <1>2, <2>2 DEF SealKilled, TypeOK, ToolsTypeOK, Readable
  <2>3. CASE UNCHANGED receipt
    BY <2>3
  <2> QED
    BY <2>1, <2>2, <2>3 DEF Next, Sign, RunCells, Seal, EditCorpus, SignRead,
       SignCheck, WriteManifest, WriteProvenance, SignKilled, StartCells, RunCell,
       WriteResults, CellsKilled, SealRead, SealReadManifest, SealReadCells,
       KatRead, KatDecide, WriteKey, vars, sealingVars
<1>3. ASSUME NEW c \in Ids, Readable(receipt[c])'
      PROVE  /\ receipt'[c].file = receipt'[c].head
             /\ receipt'[c].file \in signedEver[c] \cap Anchored
  <2>1. CASE receipt'[c] = receipt[c]
    BY <1>3, <2>1 DEF SealedIsSignedArtifact, Readable
  <2>2. CASE receipt'[c] = sealer.r /\ sealer.pc = "receipt" /\ sealer.id = c
    BY <2>2 DEF SerialInv, HeadInv
  <2> QED
    BY <1>2, <1>3, <2>1, <2>2
<1> QED
  BY <1>1, <1>3 DEF SealedIsSignedArtifact

\* The invariant holds throughout.
THEOREM Inductive == Spec => []IInv
<1>1. IInv /\ [Next]_vars => IInv'
  <2> SUFFICES ASSUME IInv, [Next]_vars PROVE IInv'
    OBVIOUS
  <2>1. TypeOK' /\ HeadInv'
    BY TypeNext, HeadNext DEF IInv, TypeOK
  <2>2. CASE Interleaved
    BY <2>1, <2>2 DEF IInv, SerialInv
  <2>3. CASE ~Interleaved
    BY <2>1, <2>3, SerialNext, SealedNext DEF IInv
  <2> QED
    BY <2>2, <2>3
<1> QED
  BY <1>1, InvInit, PTL DEF Spec

-----------------------------------------------------------------------------
(* What follows.                                                           *)

\* However sign_*, run_cells.sh and seal_receipt.py interleave and wherever
\* they are killed, a VALID receipt over a corpus that is there names a
\* content whose head was signed.
THEOREM ValidSigned == Spec => []ValidWasSigned
<1>1. IInv => ValidWasSigned
  BY DEF IInv, HeadInv, ValidWasSigned, KafValid
<1> QED
  BY <1>1, Inductive, PTL

\* One tool at a time, every receipt names the exact signed artifact.
THEOREM SealedProperly == Spec => [](~Interleaved => SealedIsSignedArtifact)
<1>1. IInv => (~Interleaved => SealedIsSignedArtifact)
  BY DEF IInv
<1> QED
  BY <1>1, Inductive, PTL

\* One tool at a time, what stack_verify.py passes kaf_verify.py calls valid.
THEOREM VerifiersAgree == Spec => [](~Interleaved => StackImpliesKaf)
<1>1. IInv => (~Interleaved => StackImpliesKaf)
  <2> SUFFICES ASSUME IInv, ~Interleaved, StackPass, NEW c \in Ids,
                      receipt[c] # Missing
               PROVE  KafValid(c)
    BY DEF StackImpliesKaf
  <2>1. ReceiptVerifies(c)
    BY DEF StackPass
  <2>2. receipt[c].file = receipt[c].head /\ AllPass(receipt[c].cells)
    BY <2>1 DEF ReceiptVerifies, IInv, SealedIsSignedArtifact, HeadInv
  <2> QED
    BY <2>1, <2>2 DEF ReceiptVerifies, KafValid
<1> QED
  BY <1>1, Inductive, PTL

\* One tool at a time, a seal that runs to its end leaves a VALID receipt.
THEOREM SealsVerify == ~Interleaved => (Spec => SealEndsValid)
<1> SUFFICES ASSUME ~Interleaved PROVE Spec => SealEndsValid
  OBVIOUS
<1>1. ASSUME IInv, [Next]_vars, NEW c \in Ids, WriteKey, sealer.id = c
      PROVE  KafValid(c)'
  <2>1. /\ sealer.pc = "key" /\ receipt[c] = sealer.r /\ pub' = sealer.r.key
        /\ UNCHANGED <<receipt, corpus>>
    BY <1>1 DEF WriteKey, IInv, SerialInv
  <2>2. /\ sealer.r.file = corpus[c] /\ sealer.r.file = sealer.r.head
        /\ AllPass(sealer.r.cells)
    BY <1>1, <2>1 DEF IInv, SerialInv, HeadInv, Idle
  <2>3. sealer.r \in ReceiptType
    BY <1>1 DEF IInv, TypeOK, ToolsTypeOK, SealerType
  <2>4. Readable(sealer.r)
    BY <2>3, SealingAssumption DEF Readable
  <2> QED
    BY <2>1, <2>2, <2>4 DEF KafValid, Readable, PinnedKey
<1>2. IInv /\ [Next]_vars =>
        [\A c \in Ids : WriteKey /\ sealer.id = c => KafValid(c)']_vars
  BY <1>1
<1> QED
  BY <1>2, Inductive, PTL DEF Spec, SealEndsValid

-----------------------------------------------------------------------------
(* The tools and the reproducibility check in one checkout.                 *)

Check == INSTANCE ReproducibilityProofs

\* What the check assumes of its corpora.
LEMMA CheckAssumed == Check!ReproAssumption
BY CheckoutAssumption, SealingAssumption DEF Check!ReproAssumption

\* Reproducibility is one module, instantiated twice.
LEMMA SameCheck ==
  /\ Repro!Listed = Check!Listed
  /\ Repro!TypeOK <=> Check!TypeOK
  /\ Repro!NothingLost <=> Check!NothingLost
  /\ Repro!ContentInv <=> Check!ContentInv
  /\ Repro!RegenInv <=> Check!RegenInv
BY DEF Repro!Listed, Check!Listed, Repro!TypeOK, Check!TypeOK, Repro!Outcomes, Check!Outcomes,
       Repro!NothingLost, Check!NothingLost, Repro!ContentInv, Check!ContentInv,
       Repro!RegenInv, Check!RegenInv, Repro!RegenKnown, Check!RegenKnown,
       Repro!SameText, Check!SameText, Repro!This, Check!This

LEMMA SameSteps == Repro!Next <=> Check!Next
BY DEF Repro!Next, Check!Next, Repro!StartCheck, Check!StartCheck,
       Repro!CheckDigest, Check!CheckDigest, Repro!Backup, Check!Backup,
       Repro!Generate, Check!Generate, Repro!Compare, Check!Compare,
       Repro!Restore, Check!Restore, Repro!Conclude, Check!Conclude,
       Repro!Killed, Check!Killed, Repro!SameText, Check!SameText,
       Repro!Listed, Check!Listed, Repro!This, Check!This

\* And so it is in the next state.
LEMMA SameCheckNext ==
  /\ Repro!Listed' = Check!Listed'
  /\ Repro!TypeOK' <=> Check!TypeOK'
  /\ Repro!NothingLost' <=> Check!NothingLost'
  /\ Repro!ContentInv' <=> Check!ContentInv'
  /\ Repro!RegenInv' <=> Check!RegenInv'
BY DEF Repro!Listed, Check!Listed, Repro!TypeOK, Check!TypeOK, Repro!Outcomes, Check!Outcomes,
       Repro!NothingLost, Check!NothingLost, Repro!ContentInv, Check!ContentInv,
       Repro!RegenInv, Check!RegenInv, Repro!RegenKnown, Check!RegenKnown,
       Repro!SameText, Check!SameText, Repro!This, Check!This

\* Nothing is lost before anything was started.
LEMMA CheckoutStarts == CheckoutInit => CheckoutInv
<1> SUFFICES ASSUME CheckoutInit PROVE CheckoutInv
  OBVIOUS
<1>1. Ids = Repro!Listed /\ Emits \subseteq [Ids -> Repro!Outcomes]
      /\ Len(CORPORA) \in Nat /\ MaxChecks \in Nat
  BY CheckoutAssumption
<1>2. IInv
  BY InvInit DEF CheckoutInit
<1>3. 1 \in 1 .. Len(CORPORA) + 1 /\ 0 \in 0 .. MaxChecks
  BY <1>1
<1>4. Repro!TypeOK
  BY <1>1, <1>2, <1>3 DEF CheckoutInit, Repro!ReproInit, Repro!TypeOK, IInv, TypeOK, ToolsTypeOK
<1>5. starts \in [{"edit", "sign", "cells", "seal"} -> Nat] /\ starts["edit"] <= MaxStarts["edit"]
  BY SealingAssumption DEF CheckoutInit, Init
<1>6. Repro!NothingLost /\ Repro!ContentInv /\ Repro!RegenInv
  BY DEF CheckoutInit, Repro!ReproInit, Repro!NothingLost, Repro!ContentInv, Repro!RegenInv
<1> QED
  BY <1>2, <1>4, <1>5, <1>6
     DEF CheckoutInv, CheckoutInit, Repro!ReproInit, IInv, TypeOK

\* No tool but an editor writes a corpus.
LEMMA ToolsSpareCorpora ==
  ASSUME [Next]_vars
  PROVE  \/ UNCHANGED <<corpus, starts>>
         \/ UNCHANGED corpus /\ \E t \in {"sign", "cells", "seal"} : Starts(t)
         \/ \E c \in Ids, x \in Contents \cup {Missing} : EditCorpus(c, x)
<1>1. Sign => UNCHANGED corpus /\ (UNCHANGED starts \/ Starts("sign"))
  BY DEF Sign, SignRead, SignCheck, WriteManifest, WriteProvenance, SignKilled
<1>2. RunCells => UNCHANGED corpus /\ (UNCHANGED starts \/ Starts("cells"))
  BY DEF RunCells, StartCells, RunCell, WriteResults, CellsKilled
<1>3. Seal => UNCHANGED corpus /\ (UNCHANGED starts \/ Starts("seal"))
  BY DEF Seal, SealRead, SealReadManifest, SealReadCells, KatRead, KatDecide,
         WriteReceipt, WriteKey, SealKilled
<1>4. UNCHANGED vars => UNCHANGED <<corpus, starts>>
  BY DEF vars, sealingVars
<1> QED
  BY <1>1, <1>2, <1>3, <1>4 DEF Next

\* A step of a tool: what the check knows of the corpora is still so, until one
\* is edited.
LEMMA ToolsKeepCheckout ==
  ASSUME CheckoutInv, [Next]_vars, UNCHANGED checkVars
  PROVE  CheckoutInv'
<1>1. Ids = Repro!Listed /\ Repro!Listed' = Repro!Listed
  BY CheckoutAssumption DEF Repro!Listed
<1>2. corpus \in [Ids -> Contents \cup {Missing, Torn}]
  BY <1>1 DEF CheckoutInv, Repro!TypeOK
<1>3. ToolsTypeOK'
  BY <1>2, ToolsTypeNext DEF CheckoutInv
<1>4. HeadInv'
  BY HeadNext DEF CheckoutInv
<1>5. corpus' \in [Ids -> Contents \cup {Missing, Torn}]
  BY <1>2, ToolsSpareCorpora DEF EditCorpus
<1>6. manifest' \in [Ids -> Contents \cup {Missing, Torn}]
  BY <1>3 DEF ToolsTypeOK
<1>7. Repro!TypeOK'
  BY <1>1, <1>5, <1>6 DEF CheckoutInv, Repro!TypeOK, checkVars, Repro!Outcomes
<1>8. /\ starts \in [{"edit", "sign", "cells", "seal"} -> Nat]
      /\ starts["edit"] <= MaxStarts["edit"] /\ MaxStarts["edit"] \in Nat
  BY SealingAssumption DEF CheckoutInv
<1> DEFINE Counted ==
             /\ starts' \in [{"edit", "sign", "cells", "seal"} -> Nat]
             /\ starts'["edit"] <= MaxStarts["edit"]
             /\ Unedited' => Unedited /\ UNCHANGED corpus
<1>9. Counted
  <2>1. CASE UNCHANGED <<corpus, starts>>
    BY <1>8, <2>1 DEF Unedited
  <2>2. ASSUME UNCHANGED corpus, NEW t \in {"sign", "cells", "seal"}, Starts(t)
        PROVE  Counted
    BY <1>8, <2>2 DEF Unedited, Starts
  <2>3. ASSUME NEW c \in Ids, NEW x \in Contents \cup {Missing}, EditCorpus(c, x)
        PROVE  Counted
    BY <1>8, <2>3 DEF Unedited, EditCorpus, Starts
  <2> QED BY <2>1, <2>2, <2>3, ToolsSpareCorpora
<1>10. Unedited' => Repro!NothingLost' /\ Repro!ContentInv' /\ Repro!RegenInv'
  <2> SUFFICES ASSUME Unedited'
               PROVE  Repro!NothingLost' /\ Repro!ContentInv' /\ Repro!RegenInv'
    OBVIOUS
  <2>1. UNCHANGED <<corpus, checkVars>>
    BY <1>9
  <2>2. Repro!NothingLost /\ Repro!ContentInv /\ Repro!RegenInv
    BY <1>9 DEF CheckoutInv
  <2> QED
    BY <1>1, <2>1, <2>2
       DEF checkVars, Repro!NothingLost, Repro!ContentInv, Repro!RegenInv, Repro!RegenKnown,
           Repro!SameText, Repro!This
<1> QED
  BY <1>3, <1>4, <1>7, <1>9, <1>10 DEF CheckoutInv, checkVars

\* A step of the check keeps what it promises, and does not touch the heads.
LEMMA CheckKeepsCheckout ==
  ASSUME CheckoutInv, Repro!Next, UNCHANGED sealingVars
  PROVE  CheckoutInv'
<1>1. Check!TypeOK /\ Check!Next
  BY SameCheck, SameSteps DEF CheckoutInv
<1>2. Repro!TypeOK'
  BY <1>1, CheckAssumed, Check!TypeNext, SameCheckNext
<1>3. (rpc # "idle" => answer = "none")'
  BY <1>1, CheckAssumed, Check!AnswerNext DEF CheckoutInv
<1>4. UNCHANGED manifest
  BY DEF Repro!Next, Repro!StartCheck, Repro!CheckDigest, Repro!Backup, Repro!Generate,
         Repro!Compare, Repro!Restore, Repro!Conclude, Repro!Killed
<1>5. ToolsTypeOK' /\ HeadInv'
  BY <1>4 DEF CheckoutInv, ToolsTypeOK, HeadInv, sealingVars
<1>6. Unedited' => Unedited
  BY DEF Unedited, sealingVars
<1>7. ASSUME Unedited
      PROVE  Repro!NothingLost' /\ Repro!ContentInv' /\ Repro!RegenInv'
  <2>1. Check!NothingLost /\ Check!ContentInv /\ Check!RegenInv
    BY <1>7, SameCheck DEF CheckoutInv
  <2>2. rpc # "idle" => answer = "none"
    BY DEF CheckoutInv
  <2>3. Check!NothingLost' /\ Check!ContentInv'
    BY <1>1, <2>1, CheckAssumed, Check!ContentNext
  <2>4. Check!RegenInv'
    BY <1>1, <2>1, <2>2, CheckAssumed, Check!RegenNext
  <2> QED BY <2>3, <2>4, SameCheckNext
<1> QED
  BY <1>2, <1>3, <1>5, <1>6, <1>7 DEF CheckoutInv, sealingVars

\* The invariant of the checkout holds throughout.
THEOREM CheckoutInductive == CheckoutSpec => []CheckoutInv
<1>1. CheckoutInv /\ [CheckoutNext]_checkoutVars => CheckoutInv'
  <2> SUFFICES ASSUME CheckoutInv, [CheckoutNext]_checkoutVars PROVE CheckoutInv'
    OBVIOUS
  <2>1. CASE Next /\ UNCHANGED checkVars
    BY <2>1, ToolsKeepCheckout
  <2>2. CASE Repro!Next /\ UNCHANGED sealingVars
    BY <2>2, CheckKeepsCheckout
  <2>3. CASE UNCHANGED checkoutVars
    <3>1. [Next]_vars /\ UNCHANGED checkVars
      BY <2>3 DEF checkoutVars
    <3> QED BY <3>1, ToolsKeepCheckout
  <2> QED BY <2>1, <2>2, <2>3 DEF CheckoutNext
<1> QED
  BY <1>1, CheckoutStarts, PTL DEF CheckoutSpec

\* However the sealing tools, editors and the reproducibility check interleave in
\* one checkout, and wherever each is killed, what kaf_verify.py calls VALID over
\* a corpus that is there was signed.
THEOREM CheckoutSigned == CheckoutSpec => []ValidWasSigned
<1>1. CheckoutInv => ValidWasSigned
  BY DEF CheckoutInv, ToolsTypeOK, HeadInv, ValidWasSigned, KafValid
<1> QED
  BY <1>1, CheckoutInductive, PTL

\* And until a corpus is edited, no tool takes anything from what the check
\* promises of the corpora: nothing is lost, all is put back, and a PASS vouches
\* for the generators.
THEOREM CheckSurvives == CheckoutSpec => []CheckSurvivesTools
<1>1. CheckoutInv => CheckSurvivesTools
  <2> SUFFICES ASSUME CheckoutInv, Unedited
               PROVE  Repro!NothingLost /\ Repro!LeavesCorporaAlone /\ Repro!PassIsRegenerated
    BY DEF CheckSurvivesTools
  <2>1. Repro!NothingLost /\ Repro!ContentInv /\ Repro!RegenInv /\ (rpc # "idle" => answer = "none")
    BY DEF CheckoutInv
  <2>2. Repro!LeavesCorporaAlone
    BY <2>1 DEF Repro!ContentInv, Repro!LeavesCorporaAlone
  <2>3. Repro!PassIsRegenerated
    <3> SUFFICES ASSUME answer = "PASS", NEW c \in Repro!Listed, emits[c].ok
                 PROVE  Repro!SameText(emits[c].wrote, corpus[c])
      BY DEF Repro!PassIsRegenerated
    <3>1. corpus = orig
      BY <2>1 DEF Repro!ContentInv
    <3>2. Repro!RegenKnown(c)
      BY <2>1 DEF Repro!RegenInv
    <3> QED BY <3>1, <3>2 DEF Repro!RegenKnown
  <2> QED BY <2>1, <2>2, <2>3
<1> QED
  BY <1>1, CheckoutInductive, PTL
=============================================================================
