------------------------------ MODULE Checkout -----------------------------
(***************************************************************************)
(* One checkout in which the sealing tools and the reproducibility check   *)
(* are at work together.  They have no lock and share the corpus files:    *)
(* check_reproducibility.py overwrites each corpus with its generator's    *)
(* output and puts the committed bytes back, while run_cells.sh and        *)
(* seal_receipt.py read it.                                                *)
(***************************************************************************)
EXTENDS Sealing

CONSTANTS
  CORPORA,    \* the corpora in the check's order
  Text,       \* [Contents -> content with line endings normalized]
  Nothing,
  MaxChecks,
  Emits       \* the functions from corpora to generator outcomes considered

VARIABLES emits, rpc, at, committed, signed, backup, exited0, found, answer,
          checks, orig

Repro == INSTANCE Reproducibility

\* Each signed corpus is checked.
ASSUME CheckoutAssumption ==
  /\ Len(CORPORA) \in Nat /\ DOMAIN CORPORA = 1 .. Len(CORPORA)
  /\ Ids = Repro!Listed
  /\ Nothing \notin Contents /\ Nothing # Missing /\ Nothing # Torn
  /\ MaxChecks \in Nat
  /\ Emits \subseteq [Ids -> Repro!Outcomes]

checkVars == <<emits, rpc, at, committed, signed, backup, exited0, found,
               answer, checks, orig>>
checkoutVars == <<vars, checkVars>>

CheckoutInit ==
  /\ Init
  /\ emits \in Emits
  /\ Repro!ReproInit

CheckoutNext ==
  \/ Next /\ UNCHANGED checkVars
  \/ Repro!Next /\ UNCHANGED sealingVars

CheckoutSpec == CheckoutInit /\ [][CheckoutNext]_checkoutVars

-----------------------------------------------------------------------------
(* Properties.                                                             *)

\* No generator, editor or git has changed a corpus but under the check.
Unedited == starts["edit"] = MaxStarts["edit"]

\* "manifests/provenance are signed separately and are never touched here"
\* (check_reproducibility.py:49), and the other way round: signing, running the
\* cells and sealing while the check is at work, each killed anywhere, takes
\* nothing from what the check promises of the corpus files.
CheckSurvivesTools ==
  Unedited => Repro!NothingLost /\ Repro!LeavesCorporaAlone /\ Repro!PassIsRegenerated

\* The invariant of the two properties.  What the check knows of the signed heads
\* is not in it: they may be signed anew at any time.
CheckoutInv ==
  /\ Repro!TypeOK /\ ToolsTypeOK
  /\ starts \in [{"edit", "sign", "cells", "seal"} -> Nat]
  /\ starts["edit"] <= MaxStarts["edit"]
  /\ HeadInv
  /\ rpc # "idle" => answer = "none"
  /\ Unedited => Repro!NothingLost /\ Repro!ContentInv /\ Repro!RegenInv
=============================================================================
