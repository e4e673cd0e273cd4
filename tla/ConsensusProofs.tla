-------------------------- MODULE ConsensusProofs --------------------------
(***************************************************************************)
(* Proofs about the consensus driver, for every set of suites, tools and   *)
(* runner behaviours that satisfies the assumptions of Consensus.          *)
(***************************************************************************)
EXTENDS Consensus, FiniteSetTheorems, TLAPS

(* The suite in force is one of Suites, and its fields have their types.   *)
LEMMA SuiteFields ==
  ASSUME TypeOK
  PROVE  /\ Len(suite.langs) \in Nat
         /\ suite.needs \in [Runners(suite) -> SUBSET SUBSET Tools]
         /\ suite.memo \subseteq Runners(suite)
         /\ suite.require \in Nat
         /\ \E i \in Runners(suite) : suite.gate \subseteq suite.needs[i]
<1>1. suite \in Suites
  BY DEF TypeOK
<1>2. suite.langs \in Seq(STRING)
  BY <1>1, SuiteAssumption
<1>3. Len(suite.langs) \in Nat
  BY <1>2
<1>4. suite.needs \in [Runners(suite) -> SUBSET SUBSET Tools]
  BY <1>1, SuiteAssumption
<1>5. suite.memo \subseteq Runners(suite) /\ suite.require \in Nat
  BY <1>1, SuiteAssumption
<1>6. \E i \in Runners(suite) : suite.gate \subseteq suite.needs[i]
  BY <1>1, GateAssumption
<1> QED
  BY <1>3, <1>4, <1>5, <1>6

LEMMA TypeInit == Init => TypeOK
<1> SUFFICES ASSUME Init PROVE TypeOK
  OBVIOUS
<1>1. /\ suite \in Suites
      /\ Len(suite.langs) \in Nat
  BY SuiteAssumption DEF Init
<1> QED
  BY <1>1, SuiteAssumption, EnvironmentAssumption DEF Init, TypeOK, Runners

LEMMA TypeNext == TypeOK /\ [Next]_vars => TypeOK'
<1> SUFFICES ASSUME TypeOK, [Next]_vars PROVE TypeOK'
  OBVIOUS
<1>0. Len(suite.langs) \in Nat
  BY SuiteFields
<1>1. CASE KatGate
  BY <1>0, <1>1 DEF TypeOK, KatGate, env, Runners
<1>2. CASE RunNextLang
  <2>1. /\ next \in 1 .. Len(suite.langs)
        /\ next' \in 1 .. Len(suite.langs) + 1
    <3>1. /\ next \in 1 .. Len(suite.langs) + 1
          /\ next <= Len(suite.langs)
          /\ next' = next + 1
      BY <1>2 DEF RunNextLang, TypeOK
    <3> QED
      BY <1>0, <3>1
  <2>2. RunLang(next) \in {"PASS", "FAIL", "ABSENT"}
    BY DEF RunLang
  <2>3. /\ verdict' \in [Runners(suite) -> {"none", "PASS", "FAIL", "ABSENT"}]
        /\ failed_langs' \in SUBSET Runners(suite)
        /\ memo' \in SUBSET Runners(suite)
    BY <1>2, <2>1, <2>2 DEF RunNextLang, TypeOK, Runners
  <2>4. present' \in Nat /\ passed' \in Nat
    <3>1. /\ present \in Nat /\ passed \in Nat
          /\ present' \in {present, present + 1}
          /\ passed' \in {passed, passed + 1}
      BY <1>2 DEF RunNextLang, TypeOK
    <3> QED
      BY <3>1
  <2> QED
    BY <1>2, <2>1, <2>3, <2>4 DEF RunNextLang, TypeOK, env
<1>3. CASE LoopDone
  BY <1>3 DEF TypeOK, LoopDone, env, Runners
<1>4. CASE Report
  BY <1>4 DEF TypeOK, Report, env, Runners
<1>5. CASE InvokeAgain
  <2>1. runs' \in 1 .. MaxRuns + 1
    <3>1. /\ MaxRuns \in Nat
          /\ runs \in 1 .. MaxRuns + 1
          /\ runs < MaxRuns
          /\ runs' = runs + 1
      BY <1>5, EnvironmentAssumption DEF TypeOK, InvokeAgain
    <3> QED
      BY <3>1
  <2>2. next' \in 1 .. Len(suite.langs) + 1
    BY <1>0, <1>5 DEF InvokeAgain
  <2>3. verdict' \in [Runners(suite) -> {"none", "PASS", "FAIL", "ABSENT"}]
    BY <1>5 DEF InvokeAgain
  <2> QED
    BY <1>5, <2>1, <2>2, <2>3 DEF TypeOK, InvokeAgain, env
<1>6. CASE UNCHANGED vars
  BY <1>6 DEF TypeOK, vars, env, Runners
<1> QED
  BY <1>1, <1>2, <1>3, <1>4, <1>5, <1>6 DEF Next

(* Every reachable state has the types the script's variables have.        *)
THEOREM TypeCorrect == Spec => []TypeOK
  BY TypeInit, TypeNext, PTL DEF Spec

(* The languages counted so far grow by the current one exactly when its
   toolchain is present.                                                   *)
LEMMA CountOne ==
  ASSUME NEW S, NEW n \in Nat \ {0}
  PROVE  /\ S \cap 1 .. n = IF n \in S THEN (S \cap 1 .. n - 1) \cup {n}
                                       ELSE S \cap 1 .. n - 1
         /\ Cardinality(S \cap 1 .. n) =
              IF n \in S THEN Cardinality(S \cap 1 .. n - 1) + 1
                         ELSE Cardinality(S \cap 1 .. n - 1)
<1>1. S \cap 1 .. n = IF n \in S THEN (S \cap 1 .. n - 1) \cup {n}
                                 ELSE S \cap 1 .. n - 1
  OBVIOUS
<1>2. IsFiniteSet(1 .. n - 1)
  BY FS_Interval
<1>3. IsFiniteSet(S \cap 1 .. n - 1)
  BY <1>2, FS_Subset
<1>4. n \notin S \cap 1 .. n - 1
  OBVIOUS
<1> QED
  BY <1>1, <1>3, <1>4, FS_AddElement

(* A runner's exit status is not changed by recording another success in
   the result cache.                                                       *)
LEMMA ExitStable ==
  ASSUME TypeOK, RunNextLang, NEW i \in Runners(suite)
  PROVE  ExitsZero(i)' <=> ExitsZero(i)
<1>1. /\ memo' \in {memo, memo \cup {next}}
      /\ memo' # memo => RunLang(next) = "PASS"
  BY DEF RunNextLang
<1>2. RunLang(next) = "PASS" => ExitsZero(next)
  BY DEF RunLang
<1>3. UNCHANGED <<suite, reproduces, corpus, path>>
  BY DEF RunNextLang, env
<1> QED
  BY <1>1, <1>2, <1>3 DEF ExitsZero, Seen

LEMMA InvInit == Init => IInv
<1> SUFFICES ASSUME Init PROVE IInv
  OBVIOUS
<1>1. TypeOK
  BY TypeInit
<1>2. 1 .. 0 = {} /\ next - 1 = 0
  BY DEF Init
<1>3. LoopInv
  BY <1>2, FS_EmptySet DEF Init, LoopInv
<1> QED
  BY <1>1, <1>3 DEF Init, IInv, GateInv, ResultInv, MemoInv

(* One iteration of the loop keeps the counters, the failed languages and
   what is known of each verdict in step with the languages passed.        *)
LEMMA LoopStep == IInv /\ RunNextLang => LoopInv'
<1> SUFFICES ASSUME IInv, RunNextLang PROVE LoopInv'
  OBVIOUS
<1>0. TypeOK /\ LoopInv /\ MemoInv
  BY DEF IInv
<1>1. Len(suite.langs) \in Nat
  BY <1>0, SuiteFields
<1>2. /\ next \in 1 .. Len(suite.langs) + 1
      /\ next <= Len(suite.langs)
      /\ next' = next + 1
  BY <1>0 DEF RunNextLang, TypeOK
<1>3. /\ next \in Nat \ {0} /\ next' - 1 = next
      /\ next \in Runners(suite)
      /\ 1 .. next = (1 .. next - 1) \cup {next}
      /\ 1 .. next \subseteq Runners(suite)
  BY <1>1, <1>2 DEF Runners
<1>4. UNCHANGED <<suite, installed, reproduces, corpus, path>>
  BY DEF RunNextLang, env
<1>5. Present' = Present
  BY <1>4 DEF Present, Available, Runners
<1>6. \A i \in Runners(suite) : RunLang(i)' = RunLang(i)
  BY <1>0, <1>5, ExitStable DEF RunLang
<1>7. /\ verdict'[next] = RunLang(next)
      /\ \A i \in 1 .. next - 1 : verdict'[i] = verdict[i]
  <2>1. verdict' = [verdict EXCEPT ![next] = RunLang(next)]
    BY DEF RunNextLang
  <2>2. DOMAIN verdict = Runners(suite)
    BY <1>0 DEF TypeOK
  <2>3. /\ next \notin 1 .. next - 1
        /\ 1 .. next - 1 \subseteq Runners(suite)
    BY <1>3
  <2> QED
    BY <1>3, <2>1, <2>2, <2>3
<1>8. RunLang(next) \in {"PASS", "FAIL"} <=> next \in Present
  BY DEF RunLang
<1>9. present' = Cardinality(Present' \cap 1 .. next' - 1)
  <2>1. present' = IF next \in Present THEN present + 1 ELSE present
    BY <1>8 DEF RunNextLang
  <2>2. present = Cardinality(Present \cap 1 .. next - 1)
    BY <1>0 DEF LoopInv
  <2> QED
    BY <1>3, <1>5, <2>1, <2>2, CountOne
<1>10. failed_langs' = {i \in 1 .. next' - 1 : verdict'[i] = "FAIL"}
  <2>1. failed_langs' = IF RunLang(next) = "FAIL"
                          THEN failed_langs \cup {next} ELSE failed_langs
    BY DEF RunNextLang
  <2>2. failed_langs = {i \in 1 .. next - 1 : verdict[i] = "FAIL"}
    BY <1>0 DEF LoopInv
  <2> QED
    BY <1>3, <1>7, <2>1, <2>2
<1>11. ASSUME NEW i \in 1 .. next' - 1
       PROVE  verdict'[i] = RunLang(i)'
  <2>1. i \in Runners(suite) /\ (i \in 1 .. next - 1 \/ i = next)
    BY <1>3
  <2> QED
    BY <1>0, <1>6, <1>7, <2>1 DEF LoopInv
<1> QED
  BY <1>9, <1>10, <1>11 DEF LoopInv

LEMMA InvNext == IInv /\ [Next]_vars => IInv'
<1> SUFFICES ASSUME IInv, [Next]_vars PROVE IInv'
  OBVIOUS
<1>0. TypeOK /\ LoopInv /\ GateInv /\ ResultInv /\ MemoInv
  BY DEF IInv
<1>1. TypeOK'
  BY <1>0, TypeNext
<1>2. CASE KatGate
  <2>1. UNCHANGED <<env, corpus, memo, next, verdict, present, failed_langs>>
    BY <1>2 DEF KatGate
  <2>2. LoopInv'
    BY <1>0, <2>1 DEF LoopInv, RunLang, ExitsZero, Present, Available, Seen, Runners, env
  <2>3. GateInv'
    BY <1>0, <1>2 DEF KatGate, GateInv, ResultInv, Available, KatAccepts, env
  <2>4. ResultInv' /\ MemoInv'
    BY <1>0, <1>2 DEF KatGate, ResultInv, MemoInv, env
  <2> QED
    BY <1>1, <2>2, <2>3, <2>4 DEF IInv
<1>3. CASE RunNextLang
  <2>1. LoopInv'
    BY <1>3, LoopStep
  <2>2. GateInv' /\ ResultInv'
    BY <1>0, <1>3
    DEF RunNextLang, GateInv, ResultInv, Available, KatAccepts, env
  <2>3. MemoInv'
    BY <1>0, <1>3 DEF RunNextLang, MemoInv, env
  <2> QED
    BY <1>1, <2>1, <2>2, <2>3 DEF IInv
<1>4. CASE LoopDone
  <2>1. LoopInv'
    BY <1>0, <1>4
    DEF LoopDone, LoopInv, RunLang, ExitsZero, Present, Available, Seen,
        Runners, env
  <2>2. GateInv' /\ MemoInv'
    BY <1>0, <1>4 DEF LoopDone, GateInv, MemoInv, Available, KatAccepts, env
  <2>3. ResultInv'
    <3>1. next = Len(suite.langs) + 1
      <4>1. /\ next \in 1 .. Len(suite.langs) + 1
            /\ next > Len(suite.langs)
            /\ Len(suite.langs) \in Nat
        BY <1>0, <1>4, SuiteFields DEF LoopDone, TypeOK
      <4> QED
        BY <4>1
    <3> QED
      BY <1>0, <1>4, <3>1 DEF LoopDone, ResultInv, env
  <2> QED
    BY <1>1, <2>1, <2>2, <2>3 DEF IInv
<1>5. CASE Report
  <2>1. LoopInv'
    BY <1>0, <1>5
    DEF Report, LoopInv, RunLang, ExitsZero, Present, Available, Seen,
        Runners, env
  <2>2. GateInv' /\ MemoInv'
    BY <1>0, <1>5 DEF Report, GateInv, MemoInv, Available, KatAccepts, env
  <2>3. ResultInv'
    BY <1>0, <1>5 DEF Report, ResultInv, TooFewPresent, REQUIRE, env
  <2> QED
    BY <1>1, <2>1, <2>2, <2>3 DEF IInv
<1>6. CASE InvokeAgain
  <2>1. next' - 1 = 0 /\ 1 .. 0 = {}
    BY <1>6 DEF InvokeAgain
  <2>2. LoopInv'
    BY <1>6, <2>1, FS_EmptySet DEF InvokeAgain, LoopInv
  <2> QED
    BY <1>0, <1>1, <1>6, <2>2
    DEF InvokeAgain, IInv, GateInv, ResultInv, MemoInv, env
<1>7. CASE UNCHANGED vars
  BY <1>0, <1>1, <1>7
  DEF vars, env, IInv, LoopInv, GateInv, ResultInv, MemoInv, Present,
      Available, RunLang, ExitsZero, Seen, Runners, TooFewPresent, REQUIRE,
      KatAccepts
<1> QED
  BY <1>2, <1>3, <1>4, <1>5, <1>6, <1>7 DEF Next

(* The strengthened invariant: the counters and the failed languages are
   those of the languages passed, and the gate was passed or bypassed.     *)
THEOREM Inductive == Spec => []IInv
  BY InvInit, InvNext, PTL DEF Spec

(* GREEN is never printed over a shrunken or disagreeing field.            *)
THEOREM GreenEarned == Spec => []GreenIsEarned
<1>1. IInv => GreenIsEarned
  <2> SUFFICES ASSUME IInv, result = "GREEN" PROVE GreenIsEarned
    BY DEF GreenIsEarned
  <2>1. /\ TypeOK /\ LoopInv /\ MemoInv
        /\ failed_langs = {} /\ ~TooFewPresent
        /\ next = Len(suite.langs) + 1
    BY DEF IInv, ResultInv
  <2>2. Len(suite.langs) \in Nat /\ suite.require \in Nat
    BY <2>1, SuiteFields
  <2>3. 1 .. next - 1 = Runners(suite)
    BY <2>1, <2>2 DEF Runners
  <2>4. Present \cap 1 .. next - 1 = Present
    BY <2>3 DEF Present
  <2>5. REQUIRE # NotANumber => Cardinality(Present) >= REQUIRE
    <3>1. present = Cardinality(Present) /\ present \in Nat
      BY <2>1, <2>4 DEF LoopInv, TypeOK
    <3>2. REQUIRE \in Nat \cup {NotANumber}
      BY <2>1, <2>2 DEF REQUIRE, TypeOK
    <3>3. REQUIRE # NotANumber => ~(present < REQUIRE)
      BY <2>1 DEF TooFewPresent
    <3> QED
      BY <3>1, <3>2, <3>3
  <2>6. ASSUME NEW i \in Present \cap Computing
        PROVE  Seen(i) \in reproduces[i]
    <3>1. i \in 1 .. next - 1 /\ i \in Runners(suite)
      BY <2>3 DEF Present
    <3>2. verdict[i] # "FAIL" /\ verdict[i] = RunLang(i)
      BY <2>1, <3>1 DEF LoopInv
    <3>3. ExitsZero(i)
      BY <3>2 DEF RunLang
    <3> QED
      BY <2>1, <3>3 DEF ExitsZero, Computing, MemoInv
  <2> QED
    BY <2>5, <2>6 DEF GreenIsEarned
<1> QED
  BY <1>1, Inductive, PTL

(* With --require the whole field, losing the KAT gate's interpreter cannot
   turn an unverified corpus GREEN.                                        *)
THEOREM FullFieldKat == Spec => []FullFieldImpliesKat
<1>1. IInv => FullFieldImpliesKat
  <2> SUFFICES ASSUME IInv, result = "GREEN", ~skipKat,
                      REQUIRE = Len(suite.langs)
               PROVE  KatAccepts
    BY DEF FullFieldImpliesKat
  <2>1. /\ TypeOK /\ LoopInv /\ GateInv /\ ~TooFewPresent
        /\ next = Len(suite.langs) + 1
    BY DEF IInv, ResultInv
  <2>2. Len(suite.langs) \in Nat
    BY <2>1, SuiteFields
  <2>3. IsFiniteSet(Runners(suite)) /\ Cardinality(Runners(suite)) = Len(suite.langs)
    <3>1. \A n \in Int : /\ IsFiniteSet(1 .. n)
                         /\ Cardinality(1 .. n) = IF 1 > n THEN 0 ELSE n - 1 + 1
      BY FS_Interval
    <3> QED
      BY <2>2, <3>1 DEF Runners
  <2>4. Present \in SUBSET Runners(suite)
    BY DEF Present
  <2>5. Cardinality(Present) >= Len(suite.langs)
    <3>1. Present \cap 1 .. next - 1 = Present
      <4>1. 1 .. next - 1 = Runners(suite)
        BY <2>1, <2>2 DEF Runners
      <4> QED
        BY <2>4, <4>1
    <3>2. present = Cardinality(Present) /\ present \in Nat
      BY <2>1, <3>1 DEF LoopInv, TypeOK
    <3>3. NotANumber \notin Nat
      BY EnvironmentAssumption
    <3>4. ~(present < Len(suite.langs))
      BY <2>1, <2>2, <3>3 DEF TooFewPresent
    <3> QED
      BY <2>2, <3>2, <3>4
  <2>6. Present = Runners(suite)
    <3>1. Cardinality(Present) <= Cardinality(Runners(suite))
      BY <2>3, <2>4, FS_Subset
    <3>2. Cardinality(Present) \in Nat
      BY <2>3, <2>4, FS_Subset, FS_CardinalityType
    <3>3. Cardinality(Runners(suite)) = Cardinality(Present)
      BY <2>2, <2>3, <2>5, <3>1, <3>2
    <3> QED
      BY <2>3, <2>4, <3>3, FS_Subset
  <2>7. PICK i \in Runners(suite) : suite.gate \subseteq suite.needs[i]
    BY <2>1, SuiteFields
  <2>8. Available(suite.needs[i])
    BY <2>6 DEF Present
  <2>9. Available(suite.gate)
    BY <2>7, <2>8 DEF Available
  <2> QED
    BY <2>1, <2>9 DEF GateInv
<1> QED
  BY <1>1, Inductive, PTL

(* What the abstract decision reads is not touched by any step of an
   invocation in progress.                                                 *)
LEMMA InputsStable ==
  ASSUME TypeOK, [Next]_vars, ~InvokeAgain
  PROVE  UNCHANGED <<Present, {i \in Runners(suite) : ExitsZero(i)},
                     EnoughPresent, KatStatus>>
<1>1. UNCHANGED <<env, corpus>>
  BY DEF Next, KatGate, RunNextLang, LoopDone, Report, vars
<1>2. UNCHANGED <<Present, EnoughPresent, KatStatus>>
  BY <1>1 DEF env, Present, Available, EnoughPresent, REQUIRE, KatStatus,
              KatAccepts, Runners
<1>3. ASSUME NEW i \in Runners(suite) PROVE ExitsZero(i)' <=> ExitsZero(i)
  <2>1. CASE RunNextLang
    BY <2>1, ExitStable
  <2>2. CASE ~RunNextLang
    <3>1. UNCHANGED memo
      BY <2>2 DEF Next, KatGate, LoopDone, Report, vars
    <3> QED
      BY <1>1, <3>1 DEF ExitsZero, Seen, env
  <2> QED
    BY <2>1, <2>2
<1>4. Runners(suite)' = Runners(suite)
  BY <1>1 DEF env, Runners
<1>5. {i \in Runners(suite) : ExitsZero(i)}' = {i \in Runners(suite) : ExitsZero(i)}
  BY <1>3, <1>4
<1> QED
  BY <1>2, <1>5

(* At the report, the counters decide what the whole field decides.        *)
LEMMA ReportDecides ==
  ASSUME IInv, Report
  PROVE  result' = IF Abs!Consensual(Present, {i \in Runners(suite) : ExitsZero(i)},
                                     EnoughPresent, KatStatus)
                     THEN "GREEN" ELSE "NOT GREEN"
<1>1. /\ TypeOK /\ LoopInv /\ GateInv
      /\ next = Len(suite.langs) + 1
      /\ pc = "report"
  BY DEF IInv, ResultInv, Report
<1>2. Len(suite.langs) \in Nat /\ suite.require \in Nat
  BY <1>1, SuiteFields
<1>3. 1 .. next - 1 = Runners(suite)
  BY <1>1, <1>2 DEF Runners
<1>4. KatStatus # "fail"
  BY <1>1 DEF GateInv, KatStatus
<1>5. failed_langs = {} <=> Present \subseteq {i \in Runners(suite) : ExitsZero(i)}
  <2>1. failed_langs = {i \in Runners(suite) : RunLang(i) = "FAIL"}
    BY <1>1, <1>3 DEF LoopInv
  <2>2. \A i \in Runners(suite) :
          RunLang(i) = "FAIL" <=> i \in Present /\ ~ExitsZero(i)
    BY DEF RunLang
  <2> QED
    BY <2>1, <2>2 DEF Present
<1>6. TooFewPresent <=> ~EnoughPresent
  <2>1. Present \cap 1 .. next - 1 = Present
    BY <1>3 DEF Present
  <2>2. present = Cardinality(Present) /\ present \in Nat
    BY <1>1, <2>1 DEF LoopInv, TypeOK
  <2>3. REQUIRE \in Nat \cup {NotANumber}
    BY <1>1, <1>2 DEF REQUIRE, TypeOK
  <2> QED
    BY <2>2, <2>3 DEF TooFewPresent, EnoughPresent
<1> QED
  BY <1>4, <1>5, <1>6 DEF Report, Abs!Consensual

(* The script implements the atomic decision of ConsensusAbs.              *)
THEOREM Refinement == Spec => Implements
<1>1. Init => Abs!AbsInit
  BY DEF Init, Abs!AbsInit
<1>2. IInv /\ [Next]_vars => [Abs!AbsNext]_<<Abs!inputs, result>>
  <2> SUFFICES ASSUME IInv, [Next]_vars
               PROVE  [Abs!AbsNext]_<<Abs!inputs, result>>
    OBVIOUS
  <2>0. TypeOK /\ ResultInv
    BY DEF IInv
  <2>1. ~InvokeAgain => UNCHANGED Abs!inputs
    BY <2>0, InputsStable DEF Abs!inputs
  <2>2. CASE KatGate
    <3>1. pc = "kat" /\ result = "none" /\ ~InvokeAgain
      BY <2>0, <2>2 DEF KatGate, ResultInv, InvokeAgain
    <3>2. CASE KatStatus = "fail"
      <4>1. result' = "NOT GREEN"
        BY <2>2, <3>2 DEF KatGate, KatStatus
      <4> QED
        BY <2>1, <3>1, <3>2, <4>1
        DEF Abs!AbsNext, Abs!Decide, Abs!Consensual, Abs!inputs
    <3>3. CASE KatStatus # "fail"
      <4>1. UNCHANGED result
        BY <2>2, <3>3 DEF KatGate, KatStatus
      <4> QED
        BY <2>1, <3>1, <4>1
    <3> QED
      BY <3>2, <3>3
  <2>3. CASE RunNextLang \/ LoopDone \/ UNCHANGED vars
    <3>1. UNCHANGED result
      BY <2>3 DEF RunNextLang, LoopDone, vars
    <3>2. CASE InvokeAgain
      BY <2>0, <2>3, <3>2
      DEF InvokeAgain, RunNextLang, LoopDone, ResultInv, vars
    <3> QED
      BY <2>1, <3>1, <3>2
  <2>4. CASE Report
    <3>1. pc = "report" /\ result = "none" /\ ~InvokeAgain
      BY <2>0, <2>4 DEF Report, ResultInv, InvokeAgain
    <3> QED
      BY <2>1, <2>4, <3>1, ReportDecides
      DEF Abs!AbsNext, Abs!Decide, Abs!inputs
  <2>5. CASE InvokeAgain
    <3>1. result # "none" /\ result' = "none"
      BY <2>0, <2>5 DEF InvokeAgain, ResultInv
    <3>2. UNCHANGED <<Present, EnoughPresent>>
      BY <2>5 DEF InvokeAgain, env, Present, EnoughPresent, Available, REQUIRE, Runners
    <3> QED
      BY <3>1, <3>2 DEF Abs!AbsNext, Abs!StartOver
  <2> QED
    BY <2>2, <2>3, <2>4, <2>5 DEF Next
<1> QED
  BY <1>1, <1>2, Inductive, PTL DEF Spec, Implements, Abs!AbsSpec
=============================================================================
