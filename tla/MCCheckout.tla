----------------------------- MODULE MCCheckout ----------------------------
(***************************************************************************)
(* One corpus, committed with CRLF line endings, whose generator writes    *)
(* LF (check_reproducibility.py, case (b)) or stops half way.              *)
(***************************************************************************)
EXTENDS Checkout

MCContents == {"crlf", "lf"}
MCCanon == [x \in MCContents |-> "a"]
MCCORPORA == <<"v1">>
MCBehaviours == {[x \in Cells |-> MCContents]}
MCEmits ==
  [Ids -> {[wrote |-> "lf", ok |-> TRUE], [wrote |-> Torn, ok |-> FALSE]}]
MCStarts == [edit |-> 1, sign |-> 1, cells |-> 1, seal |-> 1]
=============================================================================
