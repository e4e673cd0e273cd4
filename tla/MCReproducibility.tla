-------------------------- MODULE MCReproducibility ------------------------
(***************************************************************************)
(* Two corpora, a content in two line-ending forms and one that differs,   *)
(* every generator, two checks of which either may be killed.              *)
(***************************************************************************)
EXTENDS Reproducibility

MCCORPORA == <<"negative_v1", "sfv_v0">>
MCContents == {"lf", "crlf", "drifted"}
MCText == [x \in MCContents |-> IF x = "drifted" THEN "b" ELSE "a"]
=============================================================================
