---------------------------- MODULE ConsensusAbs ---------------------------
(***************************************************************************)
(* What one invocation of a consensus script promises, as one atomic       *)
(* decision: the result is a function of the field of runners on this      *)
(* host, of which of them exit 0 on the corpus at hand, of whether they    *)
(* are enough and of the KAT gate.  tools/run_consensus.sh reaches it one  *)
(* language at a time; module Consensus is shown to implement this one.    *)
(***************************************************************************)
VARIABLES
  field,     \* the runners whose toolchain is present
  agreeing,  \* the runners whose process exits 0 on this corpus
  enough,    \* at least the required number of runners is present
  kat,       \* "pass", "fail" or "bypassed"
  outcome    \* "none", "GREEN" or "NOT GREEN"

inputs == <<field, agreeing, enough, kat>>

Consensual(runners, agree, many, gate) ==
  gate # "fail" /\ runners \subseteq agree /\ many

AbsInit == outcome = "none"

Decide ==
  /\ outcome = "none"
  /\ outcome' = IF Consensual(field, agreeing, enough, kat)
                  THEN "GREEN" ELSE "NOT GREEN"
  /\ UNCHANGED inputs

\* A later invocation starts on whatever corpus is there; the host and the
\* number required are the same.
StartOver ==
  /\ outcome # "none"
  /\ outcome' = "none"
  /\ UNCHANGED <<field, enough>>

AbsNext == Decide \/ StartOver

AbsSpec == AbsInit /\ [][AbsNext]_<<inputs, outcome>>
=============================================================================
