--------------------------- MODULE MCMutationTest --------------------------
(***************************************************************************)
(* Three sections, the last of which older corpora lack; a go-like runner  *)
(* (skips and replays) and two plain ones.                                 *)
(***************************************************************************)
EXTENDS MutationTest

MCSections == {"signing_base", "ecdsa_verify", "rsa_verify"}
MCMutations == <<"signing_base", "ecdsa_verify", "rsa_verify">>
\* An unreadable corpus, a v1/v2 corpus and a v3 corpus.
MCCorpora == {{}, {"signing_base", "ecdsa_verify"}, MCSections}
\* Only a v1/v2 corpus: no rsa_verify section.
MCOldCorpora == {{"signing_base", "ecdsa_verify"}}
=============================================================================
