--------------------------- MODULE MutationProofs --------------------------
(***************************************************************************)
(* Proofs about the mutation test, for every set of sections and runners.  *)
(***************************************************************************)
EXTENDS MutationTest, TLAPS

\* The type invariant and the loop's invariants hold initially.
LEMMA InvInit == Init => IInv
<1> SUFFICES ASSUME Init PROVE IInv
  OBVIOUS
<1>1. Len(MUTATIONS) \in Nat
  BY MutationAssumption
<1>2. TypeOK
  BY <1>1, MutationAssumption DEF Init, TypeOK
<1>3. FileInv /\ OutInv /\ PositionInv /\ LoopInv
  BY DEF Init, FileInv, OutInv, PositionInv, LoopInv
<1>4. HonestInv
  BY DEF Init, HonestInv
<1> QED
  BY <1>2, <1>3, <1>4 DEF IInv

\* What each runner does on the file does not depend on the position in the
\* loop, and a success that is cached is one the runner has anyway.
LEMMA AgreeingStable ==
  ASSUME UNCHANGED <<env, mut>>,
         cached' = cached \cup (present \cap Agreeing \cap Replaying)
  PROVE  Agreeing' = Agreeing
<1>1. ASSUME NEW i \in Runners PROVE Agrees(i)' <=> Agrees(i)
  BY <1>1 DEF Agreeing, Agrees, env
<1> QED
  BY <1>1 DEF Agreeing

\* A runner that agrees with a file flipped in section s, and whose success
\* was not replayed, does not compute s.
LEMMA DisagreeingComputes ==
  ASSUME TypeOK, NEW s \in Sections, mut = s,
         ~(present \subseteq Agreeing)
  PROVE  Computes(s) # {}
<1>1. PICK i \in present : i \notin Agreeing
  OBVIOUS
<1>2. i \in Runners /\ mut # NoFile
  BY <1>1, MutationAssumption DEF TypeOK
<1>3. ~Agrees(i)
  BY <1>1, <1>2 DEF Agreeing
<1>4. i \in broken \/ s \notin echoes[i]
  BY <1>2, <1>3 DEF Agrees
<1> QED
  BY <1>1, <1>4 DEF Computes

\* An honest runner fails on every flipped file.
LEMMA HonestDisagrees ==
  ASSUME TypeOK, NEW i \in Honest, mut # NoFile, i \notin cached
  PROVE  i \in present /\ i \notin Agreeing
BY DEF Honest, Agreeing, Agrees

\* Every step preserves the type invariant and the loop's invariants.
LEMMA InvNext == IInv /\ [Next]_vars => IInv'
<1> SUFFICES ASSUME IInv, [Next]_vars PROVE IInv'
  OBVIOUS
<1> USE DEF IInv
<1>0. Len(MUTATIONS) \in Nat /\ MUTATIONS \in Seq(Sections)
  BY MutationAssumption
<1>1. CASE Mutate
  <2>1. spec \in 1 .. Len(MUTATIONS) /\ MUTATIONS[spec] \in Sections
    <3>1. spec \in 1 .. Len(MUTATIONS) + 1 /\ spec <= Len(MUTATIONS)
      BY <1>1 DEF Mutate, TypeOK
    <3>2. spec \in 1 .. Len(MUTATIONS)
      BY <1>0, <3>1
    <3> QED
      BY <1>0, <3>2
  <2>2. TypeOK'
    BY <1>0, <1>1, <2>1 DEF Mutate, TypeOK, env
  <2>3. FileInv' /\ OutInv' /\ PositionInv'
    BY <1>0, <1>1, <2>1 DEF Mutate, TypeOK, env, FileInv, OutInv, PositionInv
  <2>4. LoopInv'
    BY <1>1 DEF Mutate, env, LoopInv, Computes
  <2>5. HonestInv'
    <3>1. Honest' = Honest
      BY <1>1 DEF Mutate, env, Honest
    <3>3. ASSUME spec = 1, python, MUTATIONS[1] \in has
          PROVE  mut' # NoFile
      <4>1. mut' = MUTATIONS[spec]
        BY <1>1, <3>3 DEF Mutate
      <4> QED
        BY <2>1, <4>1, MutationAssumption
    <3>4. mut # NoFile => mut' # NoFile
      BY <1>1, <2>1, MutationAssumption DEF Mutate
    <3>5. spec > 1 \/ spec = 1
      BY <2>1
    <3>6. /\ overall' = overall /\ cached' = cached
          /\ python' = python /\ has' = has
      BY <1>1 DEF Mutate, env
    <3> SUFFICES ASSUME python, Honest # {}, MUTATIONS # <<>>,
                        MUTATIONS[1] \in has
                 PROVE  overall = 0 /\ mut' # NoFile /\ Honest \cap cached = {}
      BY <3>1, <3>6 DEF HonestInv
    <3>7. overall = 0 /\ Honest \cap cached = {} /\ (spec > 1 => mut # NoFile)
      BY DEF HonestInv
    <3> QED
      BY <3>3, <3>4, <3>5, <3>7
  <2> QED
    BY <2>2, <2>3, <2>4, <2>5
<1>2. CASE RunBattery
  <2>0. Agreeing' = Agreeing
    BY <1>2, AgreeingStable DEF RunBattery
  <2>1. /\ out' = IF present = {} \/ ~(present \subseteq Agreeing)
                    THEN "NOT GREEN" ELSE "GREEN"
    BY <1>2 DEF RunBattery, Driver!Decide, Driver!Consensual
  <2>2. TypeOK'
    BY <1>2, <2>1 DEF RunBattery, TypeOK, env
  <2>3. FileInv' /\ PositionInv'
    BY <1>2 DEF RunBattery, env, FileInv, PositionInv
  <2>4. OutInv'
    BY <1>2, <2>0, <2>1 DEF RunBattery, env, OutInv
  <2>5. LoopInv'
    BY <1>2 DEF RunBattery, env, LoopInv, Computes
  <2>6. HonestInv'
    <3>1. Honest' = Honest
      BY <1>2 DEF RunBattery, env, Honest
    <3>2. ASSUME mut # NoFile, Honest \cap cached = {}
          PROVE  Honest \cap cached' = {}
      BY <1>2, <3>2, HonestDisagrees DEF RunBattery
    <3> QED
      BY <1>2, <3>1, <3>2 DEF RunBattery, env, HonestInv
  <2> QED
    BY <2>2, <2>3, <2>4, <2>5, <2>6
<1>3. CASE Count
  <2>1. spec \in 1 .. Len(MUTATIONS) /\ spec' = spec + 1
    <3>1. spec \in 1 .. Len(MUTATIONS) + 1 /\ spec <= Len(MUTATIONS)
      BY <1>3 DEF Count, TypeOK, PositionInv
    <3>2. spec' = spec + 1
      BY <1>3 DEF Count
    <3> QED
      BY <1>0, <3>1, <3>2
  <2>2. TypeOK'
    <3>1. spec' \in 1 .. Len(MUTATIONS) + 1
      BY <1>0, <2>1
    <3> QED
      BY <1>3, <3>1 DEF Count, TypeOK, env
  <2>3. FileInv' /\ OutInv' /\ PositionInv'
    BY <1>3 DEF Count, env, FileInv, OutInv, PositionInv
  <2>4. LoopInv'
    <3> SUFFICES ASSUME overall' = 0, python, present # {},
                        NEW k \in 1 .. spec, MUTATIONS[k] \in has
                 PROVE  Computes(MUTATIONS[k]) # {}
      <4>1. spec' - 1 = spec
        BY <2>1
      <4>2. python' = python /\ present' = present /\ has' = has
        BY <1>3 DEF Count, env
      <4>3. ASSUME NEW s PROVE Computes(s)' = Computes(s)
        BY <1>3 DEF Count, env, Computes
      <4> QED
        BY <4>1, <4>2, <4>3 DEF LoopInv
    <3>1. overall = 0 /\ out = "NOT GREEN"
      <4>1. CASE out = "NOT GREEN"
        BY <1>3, <4>1 DEF Count
      <4>2. CASE out # "NOT GREEN"
        <5>1. overall' = 1 /\ overall' = 0
          BY <1>3, <4>2 DEF Count
        <5>2. 1 # 0
          OBVIOUS
        <5> QED
          BY <5>1, <5>2
      <4> QED
        BY <4>1, <4>2
    <3>2. CASE k = spec
      <4>1. mut = MUTATIONS[spec] /\ MUTATIONS[spec] \in Sections
        <5>1. MUTATIONS[spec] \in Sections
          BY <1>0, <2>1
        <5>2. python /\ MUTATIONS[spec] \in has
          BY <3>2
        <5> QED
          BY <1>3, <5>1, <5>2 DEF Count, FileInv
      <4>2. ~(present \subseteq Agreeing)
        BY <1>3, <3>1 DEF Count, OutInv
      <4> QED
        BY <3>2, <4>1, <4>2, DisagreeingComputes
    <3>3. CASE k # spec
      <4>1. k \in 1 .. spec - 1
        BY <2>1, <3>3
      <4> QED
        BY <3>1, <4>1 DEF LoopInv
    <3> QED
      BY <3>2, <3>3
  <2>5. HonestInv'
    <3>1. Honest' = Honest
      BY <1>3 DEF Count, env, Honest
    <3>2. ASSUME mut # NoFile, Honest \cap cached = {}, Honest # {}
          PROVE  out = "NOT GREEN"
      BY <1>3, <3>2, HonestDisagrees DEF Count, OutInv
    <3> QED
      BY <1>3, <3>1, <3>2 DEF Count, env, HonestInv
  <2> QED
    BY <2>2, <2>3, <2>4, <2>5
<1>4. CASE Result
  <2>1. spec = Len(MUTATIONS) + 1
    <3>1. spec \in 1 .. Len(MUTATIONS) + 1 /\ spec > Len(MUTATIONS)
      BY <1>4 DEF Result, TypeOK
    <3> QED
      BY <1>0, <3>1
  <2>2. TypeOK' /\ FileInv' /\ OutInv' /\ PositionInv'
    BY <1>4, <2>1 DEF Result, TypeOK, env, FileInv, OutInv, PositionInv
  <2>3. LoopInv' 
    BY <1>4 DEF Result, env, LoopInv, Computes
  <2>4. HonestInv'
    <3>1. Honest' = Honest
      BY <1>4 DEF Result, env, Honest
    <3>2. MUTATIONS # <<>> => spec > 1
      BY <1>0, <2>1
    <3> QED
      BY <1>4, <3>1, <3>2 DEF Result, env, HonestInv
  <2> QED
    BY <2>2, <2>3, <2>4
<1>5. CASE UNCHANGED vars
  <2>1. TypeOK' /\ FileInv' /\ PositionInv'
    BY <1>5 DEF vars, env, TypeOK, FileInv, PositionInv
  <2>2. OutInv'
    BY <1>5 DEF vars, env, OutInv, Agreeing, Agrees
  <2>3. LoopInv' /\ HonestInv'
    BY <1>5 DEF vars, env, LoopInv, Computes, HonestInv, Honest
  <2> QED
    BY <2>1, <2>2, <2>3
<1> QED
  BY <1>1, <1>2, <1>3, <1>4, <1>5 DEF Next

\* The invariant of the mutation test holds throughout, for every field of
\* runners and every corpus.
THEOREM Inductive == Spec => []IInv
<1> QED
  BY InvInit, InvNext, PTL DEF Spec

\* A PASS shows that every flipped section has a runner that computes it.
THEOREM EchoReported == Spec => []EchoedSectionIsReported
<1>1. IInv => EchoedSectionIsReported
  BY MutationAssumption
  DEF IInv, PositionInv, LoopInv, EchoedSectionIsReported, Pass
<1> QED
  BY <1>1, Inductive, PTL

\* One honest runner is enough for a PASS.
THEOREM HonestSuffices == Spec => []HonestRunnerSuffices
<1>1. IInv => HonestRunnerSuffices
  BY DEF IInv, HonestInv, HonestRunnerSuffices
<1> QED
  BY <1>1, Inductive, PTL
=============================================================================
