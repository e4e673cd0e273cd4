----------------------------- MODULE MCSealing -----------------------------
(***************************************************************************)
(* One or two corpora, two contents, two cells, two seal keys.             *)
(***************************************************************************)
EXTENDS Sealing

MCContents == {"good", "drifted"}
MCCanon == [x \in MCContents |-> x]

\* Every runner reproduces the good content; one or both may also have been
\* taken in by the drifted one.
MCBehaviours == [Cells -> {{"good"}, {"good", "drifted"}}]

\* Enough to sign and to seal each of two corpora, with an edit in between.
SerialStarts == [edit |-> 1, sign |-> 2, cells |-> 1, seal |-> 2]
=============================================================================
