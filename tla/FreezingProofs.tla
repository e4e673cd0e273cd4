--------------------------- MODULE FreezingProofs --------------------------
(***************************************************************************)
(* Proofs about the field of runners; about the tools that freeze material  *)
(* and make corpora of it before the field judges them, for any suites,     *)
(* corpora, bounds and numbers of kills; about the three suites made so:    *)
(* that their runners agree, that their gates derive what their oracles do, *)
(* and that their generators write what the oracles decide; and about the   *)
(* field of all six suites.                                                 *)
(***************************************************************************)
EXTENDS Freezing, TLAPS, SequenceTheorems, WellFoundedInduction

CONSTANTS
  Absent,    \* as in the modules of the suites
  NotAList,
  Null,
  Undecodable,
  \* of the core battery
  Lower(_), Sextet, Letters,
  \* of Web Bot Auth
  WbaLower(_), Required, Skew, Denied, Width,
  \* of FAPI
  FapiLower(_), RequiredRequest, RequiredResponse, DigestAlgorithms, AllowedAlgs, Order

Mldsa == INSTANCE MldsaSuite

Jws == INSTANCE JwsSuite

Cose == INSTANCE CoseSuite

Neg == INSTANCE NegativeProofs WITH Gone <- Missing

Wba == INSTANCE WebBotAuthProofs WITH Lower <- WbaLower

Fapi == INSTANCE FapiProofs WITH Lower <- FapiLower

-----------------------------------------------------------------------------
(* What the modules of the suites establish about their ports, and the      *)
(* theorems about the field take as hypotheses.                             *)

FilesRead(s) == Files(s) \ {Unreadable}

\* On a case as the generator writes it, every port decides as the oracle.
PortsFaithful ==
  \A s \in Suites : \A f \in FilesRead(s) : \A k \in DOMAIN SectionsOf(s) :
    LET section == SectionsOf(s)[k] IN
      f[section] # Missing =>
        \A n \in DOMAIN f[section] : \A i \in DOMAIN PortsOf(s) :
          Emitted(s, section, f[section][n]) =>
            Judge(s, PortsOf(s)[i], section, f[section][n]) =
              IF Correct(s, section, f[section][n]) THEN "match" ELSE "mismatch"

\* One port, a strict one where the suite has any, matches no case, of whatever
\* kind, that is not correct.
OracleTwin ==
  \A s \in Suites : \E i \in DOMAIN PortsOf(s) :
    /\ (\E j \in DOMAIN PortsOf(s) : Strict(PortsOf(s)[j])) => Strict(PortsOf(s)[i])
    /\ \A f \in FilesRead(s) : \A k \in DOMAIN SectionsOf(s) :
         LET section == SectionsOf(s)[k] IN
           f[section] # Missing =>
             \A n \in DOMAIN f[section] :
               Judge(s, PortsOf(s)[i], section, f[section][n]) = "match"
                 => Correct(s, section, f[section][n])

\* Of the sections it reads the gate leaves out none that a port needs, and of what
\* it recomputes and the generator writes it passes only what is correct.
GateFaithful ==
  \A s \in Suites : \A f \in FilesRead(s) :
    KatRederives(s, f) =>
      \A k \in DOMAIN SectionsOf(s) :
        LET section == SectionsOf(s)[k] IN
          /\ f[section] = Missing /\ KatReads(s, section) =>
               \A i \in DOMAIN PortsOf(s) : PortsOf(s)[i].missing = "empty"
          /\ f[section] # Missing =>
               \A n \in DOMAIN f[section] :
                 Emitted(s, section, f[section][n]) /\ KatChecks(s, section, f[section][n])
                   => Correct(s, section, f[section][n])

\* And it passes a file with all its sections whose every case each port matches.
GateComplete ==
  \A s \in Suites : \A f \in FilesRead(s) :
    (\A k \in DOMAIN SectionsOf(s) :
       LET section == SectionsOf(s)[k] IN
         /\ f[section] # Missing
         /\ \A n \in DOMAIN f[section] : \A i \in DOMAIN PortsOf(s) :
              Judge(s, PortsOf(s)[i], section, f[section][n]) = "match")
      => KatRederives(s, f)

-----------------------------------------------------------------------------
\* Sections and ports are sequences.
LEMMA Shapes ==
  ASSUME suite \in Suites
  PROVE  /\ Len(Sections) \in Nat /\ DOMAIN Sections = 1 .. Len(Sections)
         /\ Len(Ports) \in Nat \ {0} /\ DOMAIN Ports = 1 .. Len(Ports)
BY VerdictAssumption DEF Sections, Ports

\* A section that is there is a sequence of cases.
LEMMA CaseLists ==
  ASSUME suite \in Suites, file \in Files(suite),
         NEW k \in 1 .. Len(Sections), CasesAt(k) # Missing
  PROVE  /\ file # Unreadable
         /\ Len(CasesAt(k)) \in Nat
         /\ DOMAIN CasesAt(k) = 1 .. Len(CasesAt(k))
<1>1. k \in DOMAIN SectionsOf(suite)
  BY Shapes DEF Sections
<1>2. file # Unreadable /\ CasesAt(k) = file[SectionsOf(suite)[k]]
  BY DEF CasesAt, Sections
<1> QED BY <1>1, <1>2, VerdictAssumption

\* All sections judged without a mismatch: the runner reproduces the file.
LEMMA AllJudged ==
  ASSUME suite \in Suites, file \in Files(suite),
         file = Unreadable => Ports[port].unread = "empty"
  PROVE  JudgedSoFar(Len(Sections) + 1, 1) <=> Reproduces(port)
<1>1. DOMAIN Sections = 1 .. (Len(Sections) + 1) - 1
  BY Shapes
<1> QED BY <1>1 DEF JudgedSoFar, Reproduces

-----------------------------------------------------------------------------
THEOREM InitIInv == Init => IInv
<1> SUFFICES ASSUME Init PROVE IInv
  OBVIOUS
<1>1. suite \in Suites
  BY DEF Init
<1>2. TypeOK
  BY <1>1, Shapes DEF Init, TypeOK
<1>3. \A i \in DOMAIN Ports : ~(i < port) /\ exits[i] = "none"
  BY <1>1, Shapes DEF Init
<1> QED BY <1>2, <1>3 DEF Init, IInv

\* Nothing a runner does changes what the file is worth.
LEMMA Same ==
  ASSUME UNCHANGED given
  PROVE  /\ suite' = suite /\ file' = file
         /\ Ports' = Ports /\ Sections' = Sections
         /\ \A k : CasesAt(k)' = CasesAt(k)
         /\ \A i : Reproduces(i)' <=> Reproduces(i)
         /\ port' = port =>
              \A k, n : JudgedSoFar(k, n)' <=> JudgedSoFar(k, n)
<1>1. suite' = suite /\ file' = file
  BY DEF given
<1>2. Ports' = Ports /\ Sections' = Sections
  BY <1>1 DEF Ports, Sections
<1>3. \A k : CasesAt(k)' = CasesAt(k)
  BY <1>1, <1>2 DEF CasesAt
<1>4. \A i, k, n : Outcome(i, k, n)' = Outcome(i, k, n)
  BY <1>1, <1>2, <1>3 DEF Outcome
<1>5. \A i : Reproduces(i)' <=> Reproduces(i)
  BY <1>1, <1>2, <1>3, <1>4 DEF Reproduces
<1>6. port' = port => \A k, n : JudgedSoFar(k, n)' <=> JudgedSoFar(k, n)
  BY <1>2, <1>3, <1>4 DEF JudgedSoFar
<1> QED BY <1>1, <1>2, <1>3, <1>5, <1>6

\* A runner may exit with a status that tells whether it reproduces the file.
LEMMA ExitStep ==
  ASSUME IInv, pc # "exited", NEW status \in {"zero", "nonzero"}, Exit(status),
         status = "zero" <=> Reproduces(port)
  PROVE  IInv'
<1>1. UNCHANGED given /\ port' = port /\ pc' = "exited" /\ sec' = 1 /\ pos' = 1
      /\ fails' = 0 /\ exits' = [exits EXCEPT ![port] = status]
  BY DEF Exit
<1>2. suite \in Suites /\ port \in DOMAIN Ports
      /\ exits \in [DOMAIN Ports -> {"none", "zero", "nonzero"}]
  BY Shapes DEF IInv, TypeOK
<1>3. TypeOK'
  BY <1>1, <1>2, Same, Shapes DEF IInv, TypeOK
<1>4. ASSUME NEW i \in DOMAIN Ports
      PROVE  /\ i < port' \/ (i = port' /\ pc' = "exited") <=> exits'[i] # "none"
             /\ exits'[i] = "zero" => Reproduces(i)'
             /\ exits'[i] = "nonzero" => ~Reproduces(i)'
  <2>1. i < port \/ (i = port /\ pc = "exited") <=> exits[i] # "none"
    BY DEF IInv
  <2>2. exits[i] = "zero" => Reproduces(i)
    BY DEF IInv
  <2>3. exits[i] = "nonzero" => ~Reproduces(i)
    BY DEF IInv
  <2>4. Reproduces(i)' <=> Reproduces(i)
    BY <1>1, Same
  <2>5. CASE i = port
    BY <1>1, <1>2, <2>4, <2>5
  <2>6. CASE i # port
    <3>1. exits'[i] = exits[i]
      BY <1>1, <1>2, <2>6
    <3> QED BY <1>1, <2>1, <2>2, <2>3, <2>4, <2>6, <3>1
  <2> QED BY <2>5, <2>6
<1>5. Ports' = Ports
  BY <1>1, Same
<1> QED BY <1>1, <1>3, <1>4, <1>5 DEF IInv

\* The exits are not touched by the other steps.
LEMMA ExitsKept ==
  ASSUME IInv, UNCHANGED <<given, port, exits>>, pc # "exited", pc' # "exited"
  PROVE  \A i \in DOMAIN Ports' :
           /\ i < port' \/ (i = port' /\ pc' = "exited") <=> exits'[i] # "none"
           /\ exits'[i] = "zero" => Reproduces(i)'
           /\ exits'[i] = "nonzero" => ~Reproduces(i)'
<1>1. Ports' = Ports /\ \A i : Reproduces(i)' <=> Reproduces(i)
  BY Same
<1> SUFFICES ASSUME NEW i \in DOMAIN Ports
             PROVE  /\ i < port' \/ (i = port' /\ pc' = "exited") <=> exits'[i] # "none"
                    /\ exits'[i] = "zero" => Reproduces(i)'
                    /\ exits'[i] = "nonzero" => ~Reproduces(i)'
  BY <1>1
<1>2. i < port \/ (i = port /\ pc = "exited") <=> exits[i] # "none"
  BY DEF IInv
<1>3. exits[i] = "zero" => Reproduces(i)
  BY DEF IInv
<1>4. exits[i] = "nonzero" => ~Reproduces(i)
  BY DEF IInv
<1> QED BY <1>1, <1>2, <1>3, <1>4

\* The parts of IInv that a step of the runner under way must establish.
LEMMA RunnerStep ==
  ASSUME IInv, UNCHANGED <<given, port, exits>>, pc # "exited",
         pc' \in {"section", "case"},
         sec' \in 1 .. Len(Sections) + 1, pos' \in Nat \ {0}, fails' \in Nat,
         file = Unreadable => Ports[port].unread = "empty",
         pc' = "case" => /\ sec' <= Len(Sections) /\ CasesAt(sec') # Missing
                         /\ pos' <= Len(CasesAt(sec')) + 1,
         pc' # "case" => pos' = 1,
         fails' = 0 <=> JudgedSoFar(sec', pos')
  PROVE  IInv'
<1>1. UNCHANGED given /\ port' = port /\ exits' = exits
  OBVIOUS
<1>2. /\ suite' = suite /\ file' = file /\ Ports' = Ports /\ Sections' = Sections
      /\ \A k : CasesAt(k)' = CasesAt(k)
      /\ \A k, n : JudgedSoFar(k, n)' <=> JudgedSoFar(k, n)
  BY <1>1, Same
<1>3. pc' # "exited"
  OBVIOUS
<1>4. TypeOK'
  BY <1>1, <1>2 DEF IInv, TypeOK
<1>5. pc' = "case" => /\ sec' <= Len(Sections') /\ CasesAt(sec)' # Missing
                      /\ pos' <= Len(CasesAt(sec)') + 1
  BY <1>2 DEF CasesAt
<1>6. fails' = 0 <=> JudgedSoFar(sec, pos)'
  BY <1>2 DEF JudgedSoFar
<1> QED BY <1>1, <1>2, <1>3, <1>4, <1>5, <1>6, ExitsKept DEF IInv

THEOREM StepIInv == IInv /\ [Next]_vars => IInv'
<1> SUFFICES ASSUME IInv, [Next]_vars PROVE IInv'
  OBVIOUS
<1>1. suite \in Suites /\ file \in Files(suite) /\ port \in DOMAIN Ports
  BY Shapes DEF IInv, TypeOK
<1>2. Len(Sections) \in Nat /\ DOMAIN Sections = 1 .. Len(Sections)
  BY <1>1, Shapes
<1>3. /\ sec \in 1 .. Len(Sections) + 1 /\ pos \in Nat \ {0} /\ fails \in Nat
      /\ pc \in {"open", "section", "case", "exited"}
  BY DEF IInv, TypeOK
<1>4. pc \in {"section", "case"} =>
        /\ file = Unreadable => Ports[port].unread = "empty"
        /\ fails = 0 <=> JudgedSoFar(sec, pos)
  BY DEF IInv
<1>5. CASE Open
  <2>1. CASE file = Unreadable /\ Ports[port].unread = "fail"
    <3>1. ~Reproduces(port)
      BY <2>1 DEF Reproduces
    <3>2. pc = "open" /\ Exit("nonzero")
      BY <1>5, <2>1 DEF Open
    <3> QED BY <3>1, <3>2, ExitStep
  <2>2. CASE ~(file = Unreadable /\ Ports[port].unread = "fail")
    <3>1. pc = "open" /\ pc' = "section" /\ UNCHANGED <<given, port, sec, pos, fails, exits>>
      BY <1>5, <2>2 DEF Open
    <3>2. file = Unreadable => Ports[port].unread = "empty"
      BY <1>1, <2>2, VerdictAssumption DEF Ports
    <3>3. sec = 1 /\ pos = 1 /\ fails = 0
      BY <3>1 DEF IInv
    <3>4. JudgedSoFar(1, 1)
      BY DEF JudgedSoFar
    <3> QED BY <1>3, <3>1, <3>2, <3>3, <3>4, RunnerStep
  <2> QED BY <2>1, <2>2
<1>6. CASE EnterSection
  <2>1. pc = "section" /\ sec <= Len(Sections) /\ pos = 1
    BY <1>6 DEF EnterSection, IInv
  <2>2. sec \in DOMAIN Sections
    BY <1>2, <1>3, <2>1
  <2>3. Ports[port].missing \in {"raise", "empty"}
    BY <1>1, VerdictAssumption DEF Ports
  <2>4. CASE CasesAt(sec) # Missing
    <3>1. pc' = "case" /\ UNCHANGED <<given, port, sec, pos, fails, exits>>
      BY <1>6, <2>4 DEF EnterSection
    <3>2. pos' <= Len(CasesAt(sec')) + 1
      BY <1>1, <1>2, <2>1, <2>2, <2>4, <3>1, CaseLists
    <3> QED BY <1>3, <1>4, <2>1, <2>4, <3>1, <3>2, RunnerStep
  <2>5. CASE CasesAt(sec) = Missing /\ Ports[port].missing = "raise"
    <3>1. Exit("nonzero")
      BY <1>6, <2>5 DEF EnterSection
    <3>2. ~Reproduces(port)
      BY <2>2, <2>5 DEF Reproduces
    <3> QED BY <2>1, <3>1, <3>2, ExitStep
  <2>6. CASE CasesAt(sec) = Missing /\ Ports[port].missing = "empty"
    <3>1. sec' = sec + 1 /\ UNCHANGED <<given, port, pc, pos, fails, exits>>
      BY <1>6, <2>6 DEF EnterSection
    <3>2. 1 .. (sec + 1) - 1 = (1 .. sec - 1) \cup {sec}
      BY <1>3
    <3>3. JudgedSoFar(sec + 1, 1) <=> JudgedSoFar(sec, 1)
      BY <2>6, <3>2 DEF JudgedSoFar
    <3> QED BY <1>2, <1>3, <1>4, <2>1, <3>1, <3>3, RunnerStep
  <2> QED BY <2>3, <2>4, <2>5, <2>6
<1>7. CASE JudgeCase
  <2>1. /\ pc = "case" /\ pos <= Len(CasesAt(sec))
        /\ sec <= Len(Sections) /\ CasesAt(sec) # Missing
    BY <1>7 DEF JudgeCase, IInv
  <2>2. sec \in 1 .. Len(Sections) /\ sec \in DOMAIN Sections
    BY <1>2, <1>3, <2>1
  <2>3. Len(CasesAt(sec)) \in Nat /\ DOMAIN CasesAt(sec) = 1 .. Len(CasesAt(sec))
    BY <1>1, <2>1, <2>2, CaseLists
  <2>4. pos \in DOMAIN CasesAt(sec)
    BY <1>3, <2>1, <2>3
  <2>5. CASE Outcome(port, sec, pos) = "raise"
    <3>1. Exit("nonzero")
      BY <1>7, <2>5 DEF JudgeCase
    <3>2. ~Reproduces(port)
      BY <2>1, <2>2, <2>4, <2>5 DEF Reproduces
    <3> QED BY <2>1, <3>1, <3>2, ExitStep
  <2>6. CASE Outcome(port, sec, pos) # "raise"
    <3>1. /\ pos' = pos + 1
          /\ fails' = IF Outcome(port, sec, pos) = "match" THEN fails ELSE fails + 1
          /\ UNCHANGED <<given, port, pc, sec, exits>>
      BY <1>7, <2>6 DEF JudgeCase
    <3>2. 1 .. (pos + 1) - 1 = (1 .. pos - 1) \cup {pos}
      BY <1>3
    <3>3. JudgedSoFar(sec, pos + 1) <=>
            JudgedSoFar(sec, pos) /\ Outcome(port, sec, pos) = "match"
      BY <3>2 DEF JudgedSoFar
    <3>4. fails' = 0 <=> JudgedSoFar(sec, pos + 1)
      BY <1>3, <1>4, <2>1, <3>1, <3>3
    <3> QED BY <1>3, <1>4, <2>1, <2>3, <3>1, <3>4, RunnerStep
  <2> QED BY <2>5, <2>6
<1>8. CASE EndSection
  <2>1. /\ pc = "case" /\ pos > Len(CasesAt(sec))
        /\ sec <= Len(Sections) /\ CasesAt(sec) # Missing
        /\ pos <= Len(CasesAt(sec)) + 1
    BY <1>8 DEF EndSection, IInv
  <2>2. pc' = "section" /\ sec' = sec + 1 /\ pos' = 1 /\ UNCHANGED <<given, port, fails, exits>>
    BY <1>8 DEF EndSection
  <2>3. sec \in 1 .. Len(Sections)
    BY <1>2, <1>3, <2>1
  <2>4. Len(CasesAt(sec)) \in Nat /\ DOMAIN CasesAt(sec) = 1 .. Len(CasesAt(sec))
    BY <1>1, <2>1, <2>3, CaseLists
  <2>5. DOMAIN CasesAt(sec) = 1 .. pos - 1
    BY <1>3, <2>1, <2>4
  <2>6. 1 .. (sec + 1) - 1 = (1 .. sec - 1) \cup {sec}
    BY <1>3
  <2>7. JudgedSoFar(sec + 1, 1) <=>
          /\ \A j \in 1 .. sec - 1 :
               IF CasesAt(j) = Missing
                 THEN Ports[port].missing = "empty"
                 ELSE \A m \in DOMAIN CasesAt(j) : Outcome(port, j, m) = "match"
          /\ \A m \in DOMAIN CasesAt(sec) : Outcome(port, sec, m) = "match"
    <3>1. 1 .. 1 - 1 = {}
      OBVIOUS
    <3> QED BY <2>1, <2>6, <3>1 DEF JudgedSoFar
  <2>8. JudgedSoFar(sec + 1, 1) <=> JudgedSoFar(sec, pos)
    BY <2>5, <2>7 DEF JudgedSoFar
  <2> QED BY <1>2, <1>3, <1>4, <2>1, <2>2, <2>3, <2>8, RunnerStep
<1>9. CASE Finish
  <2>1. /\ pc = "section" /\ sec > Len(Sections) /\ pos = 1
        /\ Exit(IF fails = 0 THEN "zero" ELSE "nonzero")
    BY <1>9 DEF Finish, IInv
  <2>2. sec = Len(Sections) + 1
    BY <1>2, <1>3, <2>1
  <2>3. fails = 0 <=> Reproduces(port)
    BY <1>1, <1>4, <2>1, <2>2, AllJudged
  <2> QED BY <2>1, <2>3, ExitStep
<1>10. CASE StartNext
  <2>1. /\ pc = "exited" /\ port < Len(Ports) /\ port' = port + 1 /\ pc' = "open"
        /\ UNCHANGED <<given, sec, pos, fails, exits>>
    BY <1>10 DEF StartNext
  <2>2. sec = 1 /\ pos = 1 /\ fails = 0
    BY <2>1 DEF IInv
  <2>3. /\ Ports' = Ports /\ Sections' = Sections
        /\ suite' = suite /\ file' = file /\ \A i : Reproduces(i)' <=> Reproduces(i)
    BY <2>1, Same
  <2>4. DOMAIN Ports = 1 .. Len(Ports) /\ Len(Ports) \in Nat
    BY <1>1, Shapes
  <2>5. TypeOK'
    BY <2>1, <2>3, <2>4 DEF IInv, TypeOK
  <2>6. ASSUME NEW i \in DOMAIN Ports
        PROVE  /\ i < port' \/ (i = port' /\ pc' = "exited") <=> exits'[i] # "none"
               /\ exits'[i] = "zero" => Reproduces(i)'
               /\ exits'[i] = "nonzero" => ~Reproduces(i)'
    <3>1. i < port \/ (i = port /\ pc = "exited") <=> exits[i] # "none"
      BY DEF IInv
    <3>2. i < port + 1 <=> i < port \/ i = port
      BY <1>1, <2>4
    <3>3. exits[i] = "zero" => Reproduces(i)
      BY DEF IInv
    <3>4. exits[i] = "nonzero" => ~Reproduces(i)
      BY DEF IInv
    <3> QED BY <2>1, <2>3, <3>1, <3>2, <3>3, <3>4
  <2> QED BY <2>1, <2>2, <2>3, <2>5, <2>6 DEF IInv
<1>11. CASE UNCHANGED vars
  <2>1. UNCHANGED given /\ UNCHANGED <<port, pc, sec, pos, fails, exits>>
    BY <1>11 DEF vars
  <2>2. /\ Ports' = Ports /\ Sections' = Sections /\ suite' = suite /\ file' = file
        /\ \A k : CasesAt(k)' = CasesAt(k)
        /\ \A i : Reproduces(i)' <=> Reproduces(i)
        /\ \A k, n : JudgedSoFar(k, n)' <=> JudgedSoFar(k, n)
    BY <2>1, Same
  <2>3. CasesAt(sec)' = CasesAt(sec) /\ (JudgedSoFar(sec, pos)' <=> JudgedSoFar(sec, pos))
    BY <2>1, <2>2 DEF CasesAt, JudgedSoFar
  <2>4. TypeOK'
    BY <2>1, <2>2 DEF IInv, TypeOK
  <2> QED BY <2>1, <2>2, <2>3, <2>4 DEF IInv
<1> QED BY <1>5, <1>6, <1>7, <1>8, <1>9, <1>10, <1>11 DEF Next

\* Whatever the suites, ports and corpora: a runner's exit status tells
\* whether the runner reproduces the corpus (the main loops of the runners).
THEOREM Inductive == Spec => []IInv
BY InitIInv, StepIInv, PTL DEF Spec

\* In particular of the runner that has just exited.
LEMMA ExitsTellHolds == IInv => ExitsTell
<1> SUFFICES ASSUME IInv, pc = "exited" PROVE exits[port] = "zero" <=> Reproduces(port)
  BY DEF ExitsTell
<1>1. suite \in Suites /\ port \in DOMAIN Ports /\ port \in Nat
  BY Shapes DEF IInv, TypeOK
<1>2. exits[port] \in {"none", "zero", "nonzero"} /\ exits[port] # "none"
  BY <1>1 DEF IInv, TypeOK
<1> QED BY <1>1, <1>2 DEF IInv

\* A runner's exit status is 0 iff it matched every case of the file and could do
\* without what is not there.
THEOREM ExitTells == Spec => []ExitsTell
BY Inductive, ExitsTellHolds, PTL

-----------------------------------------------------------------------------
(* What the exits of the field are worth, given what the ports are.         *)

\* A section that is there is one of a file that was read.
LEMMA SectionRead ==
  ASSUME TypeOK, NEW k \in DOMAIN Sections, CasesAt(k) # Missing
  PROVE  /\ file \in FilesRead(suite)
         /\ k \in DOMAIN SectionsOf(suite)
         /\ CasesAt(k) = file[Sections[k]]
         /\ Sections[k] = SectionsOf(suite)[k]
BY DEF CasesAt, FilesRead, Sections, TypeOK

\* A port that is faithful decides a case as generated as the oracle does.
LEMMA FaithfulOutcome ==
  ASSUME PortsFaithful, TypeOK,
         NEW i \in DOMAIN Ports, NEW k \in DOMAIN Sections, CasesAt(k) # Missing,
         NEW n \in DOMAIN CasesAt(k), Emitted(suite, Sections[k], CasesAt(k)[n])
  PROVE  Outcome(i, k, n) =
           IF Correct(suite, Sections[k], CasesAt(k)[n]) THEN "match" ELSE "mismatch"
<1>1. /\ file \in FilesRead(suite) /\ k \in DOMAIN SectionsOf(suite)
      /\ CasesAt(k) = file[Sections[k]] /\ Sections[k] = SectionsOf(suite)[k]
  BY SectionRead
<1>2. suite \in Suites /\ i \in DOMAIN PortsOf(suite) /\ Ports[i] = PortsOf(suite)[i]
  BY DEF TypeOK, Ports
<1> QED BY <1>1, <1>2 DEF PortsFaithful, Outcome

\* A runner that exits 0 and fails on what it cannot find found everything.
LEMMA StrictIsComplete ==
  ASSUME IInv, NEW i \in DOMAIN Ports, exits[i] = "zero", Strict(Ports[i])
  PROVE  Complete /\ \A k \in DOMAIN Sections : \A n \in DOMAIN CasesAt(k) :
                       Outcome(i, k, n) = "match"
<1>1. Reproduces(i)
  BY DEF IInv
<1> QED BY <1>1 DEF Reproduces, Complete, Strict

\* What IInv says of strict ports.
LEMMA EarnedZero ==
  ASSUME PortsFaithful, IInv
  PROVE  StrictZeroIsEarned
  <1> SUFFICES ASSUME IInv, NEW i \in DOMAIN Ports,
                      exits[i] = "zero", Strict(Ports[i]), AsGenerated
               PROVE  Complete /\ Stamped
    BY DEF StrictZeroIsEarned
  <1>1. TypeOK
    BY DEF IInv
  <1>2. Complete /\ \A k \in DOMAIN Sections : \A n \in DOMAIN CasesAt(k) :
                      Outcome(i, k, n) = "match"
    BY StrictIsComplete
  <1>3. ASSUME NEW k \in DOMAIN Sections, CasesAt(k) # Missing,
               NEW n \in DOMAIN CasesAt(k)
        PROVE  Correct(suite, Sections[k], CasesAt(k)[n])
    <2>1. Emitted(suite, Sections[k], CasesAt(k)[n])
      BY <1>3 DEF AsGenerated
    <2> QED BY <1>1, <1>2, <1>3, <2>1, FaithfulOutcome
  <1> QED BY <1>2, <1>3 DEF Stamped

\* With faithful ports, a strict port's exit 0 on cases of the generator's
\* kinds says that no section is missing and no expectation is wrong
\* ("exits 0 iff it matched every case", run_consensus_*.sh).
THEOREM StrictZero ==
  ASSUME PortsFaithful
  PROVE  Spec => []StrictZeroIsEarned
BY EarnedZero, Inductive, PTL

\* What IInv says of a corpus as generated.
LEMMA NoFaithfulPortFails ==
  ASSUME PortsFaithful, IInv
  PROVE  StampedFailsNoPort
  <1> SUFFICES ASSUME IInv, file # Unreadable, AsGenerated, Stamped,
                      NEW i \in DOMAIN Ports, Complete \/ Ports[i].missing = "empty"
               PROVE  exits[i] # "nonzero"
    BY DEF StampedFailsNoPort
  <1>1. TypeOK
    BY DEF IInv
  <1>2. ASSUME NEW k \in DOMAIN Sections
        PROVE  IF CasesAt(k) = Missing
                 THEN Ports[i].missing = "empty"
                 ELSE \A n \in DOMAIN CasesAt(k) : Outcome(i, k, n) = "match"
    <2>1. CasesAt(k) = Missing => Ports[i].missing = "empty"
      BY DEF Complete
    <2>2. ASSUME CasesAt(k) # Missing, NEW n \in DOMAIN CasesAt(k)
          PROVE  Outcome(i, k, n) = "match"
      <3>1. /\ Emitted(suite, Sections[k], CasesAt(k)[n])
            /\ Correct(suite, Sections[k], CasesAt(k)[n])
        BY <2>2 DEF AsGenerated, Stamped
      <3> QED BY <1>1, <2>2, <3>1, FaithfulOutcome
    <2> QED BY <2>1, <2>2
  <1>3. Reproduces(i)
    BY <1>2 DEF Reproduces
  <1> QED BY <1>3 DEF IInv

\* With faithful ports, a corpus as the generator writes it fails none of them.
THEOREM StampedPasses ==
  ASSUME PortsFaithful
  PROVE  Spec => []StampedFailsNoPort
BY NoFaithfulPortFails, Inductive, PTL

\* What IInv says of the whole field.
LEMMA TwinDecides ==
  ASSUME OracleTwin, IInv
  PROVE  FullFieldIsOracle
  <1> SUFFICES ASSUME IInv, \A i \in DOMAIN Ports : exits[i] = "zero"
               PROVE  Stamped /\ ((\E i \in DOMAIN Ports : Strict(Ports[i])) => Complete)
    BY DEF FullFieldIsOracle
  <1>1. TypeOK /\ suite \in Suites
    BY DEF IInv, TypeOK
  <1>2. PICK i \in DOMAIN PortsOf(suite) :
          \A f \in FilesRead(suite) : \A k \in DOMAIN SectionsOf(suite) :
            LET section == SectionsOf(suite)[k] IN
              f[section] # Missing =>
                \A n \in DOMAIN f[section] :
                  Judge(suite, PortsOf(suite)[i], section, f[section][n]) = "match"
                    => Correct(suite, section, f[section][n])
    BY <1>1 DEF OracleTwin
  <1>3. i \in DOMAIN Ports /\ Ports[i] = PortsOf(suite)[i] /\ exits[i] = "zero"
    BY DEF Ports
  <1>4. Reproduces(i)
    BY <1>3 DEF IInv
  <1>5. ASSUME NEW k \in DOMAIN Sections, CasesAt(k) # Missing,
               NEW n \in DOMAIN CasesAt(k)
        PROVE  Correct(suite, Sections[k], CasesAt(k)[n])
    <2>1. /\ file \in FilesRead(suite) /\ k \in DOMAIN SectionsOf(suite)
          /\ CasesAt(k) = file[Sections[k]] /\ Sections[k] = SectionsOf(suite)[k]
      BY <1>1, <1>5, SectionRead
    <2>2. Outcome(i, k, n) = "match"
      BY <1>4, <1>5 DEF Reproduces
    <2>3. Judge(suite, PortsOf(suite)[i], Sections[k], CasesAt(k)[n]) = "match"
      BY <1>3, <2>2 DEF Outcome
    <2> QED BY <1>2, <1>5, <2>1, <2>3
  <1>6. ASSUME NEW j \in DOMAIN Ports, Strict(Ports[j])
        PROVE  Complete
    BY <1>6, StrictIsComplete
  <1> QED BY <1>5, <1>6 DEF Stamped

\* With a twin of the oracle among the ports, when the whole field exits 0 every
\* expectation is the oracle's, whatever the cases; and with a strict port no
\* section is missing.
THEOREM FullField ==
  ASSUME OracleTwin
  PROVE  Spec => []FullFieldIsOracle
BY TwinDecides, Inductive, PTL

\* What IInv says of the gate.
LEMMA GateDecides ==
  ASSUME PortsFaithful, GateFaithful, IInv
  PROVE  GateImpliesField
  <1> SUFFICES ASSUME IInv, file # Unreadable, KatRederives(suite, file), AsGenerated,
                      \A k \in DOMAIN Sections :
                        /\ KatReads(suite, Sections[k])
                        /\ CasesAt(k) # Missing =>
                             \A n \in DOMAIN CasesAt(k) :
                               KatChecks(suite, Sections[k], CasesAt(k)[n]),
                      NEW i \in DOMAIN Ports
               PROVE  exits[i] # "nonzero"
    BY DEF GateImpliesField
  <1>1. TypeOK /\ suite \in Suites /\ file \in FilesRead(suite)
    BY DEF IInv, TypeOK, FilesRead
  <1>2. ASSUME NEW k \in DOMAIN Sections
        PROVE  IF CasesAt(k) = Missing
                 THEN Ports[i].missing = "empty"
                 ELSE \A n \in DOMAIN CasesAt(k) : Outcome(i, k, n) = "match"
    <2>1. /\ k \in DOMAIN SectionsOf(suite) /\ Sections[k] = SectionsOf(suite)[k]
          /\ CasesAt(k) = file[Sections[k]] /\ Ports = PortsOf(suite)
      BY DEF Sections, CasesAt, Ports
    <2>2. /\ CasesAt(k) = Missing /\ KatReads(suite, Sections[k]) => Ports[i].missing = "empty"
          /\ CasesAt(k) # Missing =>
               \A n \in DOMAIN CasesAt(k) :
                 Emitted(suite, Sections[k], CasesAt(k)[n])
                   /\ KatChecks(suite, Sections[k], CasesAt(k)[n])
                   => Correct(suite, Sections[k], CasesAt(k)[n])
      BY <1>1, <2>1 DEF GateFaithful
    <2>3. ASSUME CasesAt(k) # Missing, NEW n \in DOMAIN CasesAt(k)
          PROVE  Outcome(i, k, n) = "match"
      <3>1. Emitted(suite, Sections[k], CasesAt(k)[n])
        BY <2>3 DEF AsGenerated
      <3>2. Correct(suite, Sections[k], CasesAt(k)[n])
        BY <2>2, <2>3, <3>1
      <3> QED BY <1>1, <2>3, <3>1, <3>2, FaithfulOutcome
    <2> QED BY <2>2, <2>3
  <1>3. Reproduces(i)
    BY <1>2 DEF Reproduces
  <1> QED BY <1>3 DEF IInv

\* What IInv says of the gate after the field.
LEMMA FieldDecides ==
  ASSUME GateComplete, IInv
  PROVE  FieldImpliesGate
  <1> SUFFICES ASSUME IInv, \A i \in DOMAIN Ports : exits[i] = "zero",
                      Complete \/ \E i \in DOMAIN Ports : Strict(Ports[i])
               PROVE  file # Unreadable /\ KatRederives(suite, file)
    BY DEF FieldImpliesGate
  <1>1. TypeOK /\ suite \in Suites
    BY DEF IInv, TypeOK
  <1>2. Complete
    BY StrictIsComplete
  <1>3. file # Unreadable /\ file \in FilesRead(suite)
    BY <1>1, <1>2 DEF Complete, TypeOK, FilesRead
  <1>4. \A i \in DOMAIN Ports : Reproduces(i)
    BY DEF IInv
  <1>5. ASSUME NEW k \in DOMAIN Sections
        PROVE  /\ file[Sections[k]] # Missing
               /\ \A n \in DOMAIN file[Sections[k]] : \A i \in DOMAIN Ports :
                    Judge(suite, Ports[i], Sections[k], file[Sections[k]][n]) = "match"
    <2>1. CasesAt(k) # Missing /\ CasesAt(k) = file[Sections[k]]
      BY <1>2, <1>3 DEF Complete, CasesAt
    <2> QED BY <1>4, <2>1 DEF Reproduces, Outcome
  <1> QED BY <1>1, <1>3, <1>5 DEF GateComplete, Sections, Ports

\* With a gate that passes what every port matches, consensus hides no case
\* from the gate.
THEOREM FieldPasses ==
  ASSUME GateComplete
  PROVE  Spec => []FieldImpliesGate
BY FieldDecides, Inductive, PTL

\* With faithful ports and a faithful gate, what the gate accepts after
\* recomputing every case fails no port.
THEOREM GatePasses ==
  ASSUME PortsFaithful, GateFaithful
  PROVE  Spec => []GateImpliesField
BY GateDecides, Inductive, PTL

-----------------------------------------------------------------------------
(* What the tools make.                                                     *)

\* Keys and a freezing of them make material.
LEMMA AMaterial ==
  ASSUME NEW k \in KeySets, NEW n \in 1 .. MaxFreezings, NEW s \in BOOLEAN
  PROVE  FrozenWith(k, n, s) \in Materials
BY DEF Materials, FrozenWith

\* What a generator does not refuse is a corpus of the suite.
LEMMA MadeIsAFile ==
  ASSUME suite \in Frozen, NEW m \in Materials, Makes(m) # Refused
  PROVE  Makes(m) \in Files(suite)
<1>1. Makes(m) = Builds(suite, m)
  BY DEF Makes
<1> QED BY <1>1, FreezingAssumption

\* What the generator of a suite makes of material as it is frozen now, section
\* by section: nothing stops the generator.
BuildsAreSound ==
  \A s \in Frozen : \A m \in Materials :
    m.separated =>
      /\ Builds(s, m) # Refused
      /\ \A k \in DOMAIN SectionsOf(s) :
           LET section == SectionsOf(s)[k] IN
             Builds(s, m)[section] # Missing =>
               \A n \in DOMAIN Builds(s, m)[section] :
                 Correct(s, section, Builds(s, m)[section][n])

\* And a case of it tells each of the probed rules.
BuildsProbe ==
  \A s \in Frozen : \A m \in Materials :
    m.separated =>
      \A rule \in Probed(s) : \E k \in DOMAIN SectionsOf(s) :
        LET section == SectionsOf(s)[k] IN
          Builds(s, m)[section] # Missing /\
            \E n \in DOMAIN Builds(s, m)[section] :
              Judge(s, Without(s, rule), section, Builds(s, m)[section][n]) # "match"

\* A generator that nothing stops writes what it built.
LEMMA SoundIsMade ==
  ASSUME BuildsAreSound, suite \in Frozen, NEW m \in Materials, m.separated
  PROVE  Makes(m) = Builds(suite, m) /\ Makes(m) # Refused
BY DEF BuildsAreSound, Makes, Sections

\* What is made of the material on disk is made of it as the tool freezes it now.
LEMMA MadeOfSeparated ==
  ASSUME NEW m \in Materials, Makes(m) # Refused, suite \in Frozen,
         m.separated \/ suite \in Augmented
  PROVE  m.key \in KeySets /\ Makes(m) \in CorporaOf(m.key)
<1>1. m.key \in KeySets /\ m.freezing \in 1 .. MaxFreezings
  BY DEF Materials
<1>2. Makes(m) = Builds(suite, m)
  BY DEF Makes
<1>3. m.separated = TRUE
  BY <1>2, FreezingAssumption DEF Materials
<1>4. m = FrozenWith(m.key, m.freezing, TRUE)
  BY <1>3 DEF Materials, FrozenWith
<1> QED BY <1>1, <1>4 DEF CorporaOf

\* The corpora of a key set depend on the suite alone.
LEMMA SameCorpora ==
  ASSUME suite' = suite, keyfile' = keyfile
  PROVE  CorporaOf(keyfile)' = CorporaOf(keyfile)
<1>1. Sections' = Sections
  BY DEF Sections
<1>2. \A n : Makes(FrozenWith(keyfile, n, TRUE))' = Makes(FrozenWith(keyfile, n, TRUE))
  BY <1>1 DEF Makes
<1> QED BY <1>2 DEF CorporaOf

-----------------------------------------------------------------------------
(* The invariant.                                                           *)

THEOREM PipelineStarts == PipelineInit => IInv /\ KeysInv
<1> SUFFICES ASSUME PipelineInit PROVE IInv /\ KeysInv
  OBVIOUS
<1>1. Init /\ FreezeInit
  BY DEF PipelineInit
<1>2. IInv
  BY <1>1, InitIInv
<1>3. NotStarted
  BY <1>1 DEF Init, NotStarted
<1>4. MaxKeys \in Nat \ {0} /\ MaxFreezings \in Nat \ {0} /\ MaxKills \in Nat
      /\ Nothing \notin KeySets /\ Nothing # Torn
  BY FreezingAssumption
<1>5. kills = 0 /\ inHand = 0
  BY <1>1 DEF FreezeInit
<1>6. ASSUME suite \in Frozen, file = Unreadable, tool = "idle",
             keyfile = Nothing, material = Nothing, created = 0, frozen = 0
      PROVE  KeysInv
  <2>1. FreezeTypeOK
    BY <1>4, <1>5, <1>6 DEF FreezeTypeOK
  <2>2. ~IsMaterial(material)
    BY <1>6 DEF IsMaterial
  <2> QED BY <1>3, <1>6, <2>1, <2>2 DEF KeysInv
<1>7. ASSUME suite \in Augmented, file = Unreadable, tool = "idle",
             keyfile = 1, material = FrozenWith(1, 1, FALSE), created = 1, frozen = 1
      PROVE  KeysInv
  <2>1. 1 \in KeySets /\ 1 \in 1 .. MaxFreezings
    BY <1>4 DEF KeySets
  <2>2. suite \in Frozen
    BY <1>7, FreezingAssumption
  <2>3. material.key = 1
    BY <1>7 DEF FrozenWith
  <2>4. material \in Materials
    BY <1>7, <2>1, AMaterial
  <2>5. FreezeTypeOK
    <3>1. created \in 0 .. MaxKeys /\ frozen \in 0 .. MaxFreezings /\ kills \in 0 .. MaxKills
      BY <1>4, <1>5, <1>7
    <3> QED BY <1>7, <2>1, <2>4, <3>1 DEF FreezeTypeOK
  <2> QED BY <1>3, <1>7, <2>1, <2>2, <2>3, <2>5 DEF KeysInv
<1>8. ASSUME tool = "field", keyfile = Nothing, material = Nothing,
             created = 0, frozen = 0
      PROVE  KeysInv
  <2>1. FreezeTypeOK
    BY <1>4, <1>5, <1>8 DEF FreezeTypeOK
  <2>2. ~IsMaterial(material)
    BY <1>8 DEF IsMaterial
  <2> QED BY <1>8, <2>1, <2>2 DEF KeysInv
<1> QED BY <1>1, <1>2, <1>6, <1>7, <1>8 DEF FreezeInit

\* The field's own invariant holds of whatever file it will be started on.
LEMMA FileReplaced ==
  ASSUME IInv, KeysInv, tool # "field", UNCHANGED fieldVars, file' \in Files(suite)
  PROVE  IInv'
<1>1. /\ suite' = suite /\ port' = 1 /\ pc' = "open" /\ sec' = 1 /\ pos' = 1
      /\ fails' = 0 /\ exits' = [i \in DOMAIN Ports |-> "none"]
  BY DEF KeysInv, NotStarted, fieldVars
<1>2. Ports' = Ports /\ Sections' = Sections
  BY <1>1 DEF Ports, Sections
<1>3. suite \in Suites
  BY DEF IInv, TypeOK
<1>4. TypeOK'
  BY <1>1, <1>2, <1>3, Shapes DEF TypeOK
<1>5. \A i \in DOMAIN Ports : ~(i < port') /\ exits'[i] = "none"
  BY <1>1, <1>3, Shapes
<1> QED BY <1>1, <1>2, <1>4, <1>5 DEF IInv

\* The field has not started while a tool still runs.
LEMMA StillNotStarted ==
  ASSUME KeysInv, tool # "field", UNCHANGED fieldVars
  PROVE  suite' = suite /\ suite \in Frozen /\ NotStarted'
<1>1. suite' = suite /\ UNCHANGED <<port, pc, sec, pos, fails, exits>>
  BY DEF fieldVars
<1>2. Ports' = Ports
  BY <1>1 DEF Ports
<1> QED BY <1>1, <1>2 DEF KeysInv, NotStarted

\* A step of a tool that keeps the corpus file.
LEMMA FileKept ==
  ASSUME IInv, KeysInv, tool # "field", UNCHANGED <<fieldVars, file>>
  PROVE  IInv' /\ suite' = suite /\ suite \in Frozen /\ NotStarted'
<1>1. suite' = suite /\ suite \in Frozen /\ NotStarted'
  BY StillNotStarted
<1>2. file' \in Files(suite)
  BY DEF IInv, TypeOK
<1> QED BY <1>1, <1>2, FileReplaced

\* The corpus stays one of the saved keys while neither is written.
LEMMA CorpusKept ==
  ASSUME IInv, KeysInv, tool # "field", UNCHANGED <<fieldVars, file, keyfile>>
  PROVE  file' # Unreadable => (keyfile \in KeySets /\ file \in CorporaOf(keyfile))'
<1>1. suite' = suite /\ file' = file /\ keyfile' = keyfile
  BY DEF fieldVars
<1>2. CorporaOf(keyfile)' = CorporaOf(keyfile)
  BY <1>1, SameCorpora
<1>3. file # Unreadable => keyfile \in KeySets /\ file \in CorporaOf(keyfile)
  BY DEF KeysInv
<1> QED BY <1>1, <1>2, <1>3

\* No runner changes the file it judges.
LEMMA GivenKept ==
  ASSUME IInv, Next
  PROVE  UNCHANGED given
<1>1. CASE EnterSection
  <2>1. suite \in Suites /\ port \in DOMAIN Ports
    BY Shapes DEF IInv, TypeOK
  <2>2. Ports[port].missing \in {"raise", "empty"}
    BY <2>1, VerdictAssumption DEF Ports
  <2>3. CASE CasesAt(sec) # Missing
    BY <1>1, <2>3 DEF EnterSection
  <2>4. CASE CasesAt(sec) = Missing /\ Ports[port].missing = "raise"
    BY <1>1, <2>4 DEF EnterSection, Exit
  <2>5. CASE CasesAt(sec) = Missing /\ Ports[port].missing = "empty"
    BY <1>1, <2>5 DEF EnterSection
  <2> QED BY <2>2, <2>3, <2>4, <2>5
<1>2. CASE Open \/ JudgeCase \/ EndSection \/ Finish \/ StartNext
  BY <1>2 DEF Open, JudgeCase, EndSection, Finish, StartNext, Exit
<1> QED BY <1>1, <1>2 DEF Next

THEOREM PipelineStep ==
  IInv /\ KeysInv /\ [PipelineNext]_pipelineVars => IInv' /\ KeysInv'
<1> SUFFICES ASSUME IInv, KeysInv, [PipelineNext]_pipelineVars
             PROVE  IInv' /\ KeysInv'
  OBVIOUS
<1> USE DEF FreezeTypeOK
<1>1. FreezeTypeOK
  BY DEF KeysInv
<1>2. MaxKeys \in Nat \ {0} /\ MaxFreezings \in Nat \ {0} /\ MaxKills \in Nat
      /\ Nothing \notin KeySets /\ Torn \notin KeySets /\ Nothing # Torn
  BY FreezingAssumption
<1>3. tool # "field" => suite \in Frozen /\ NotStarted
  BY DEF KeysInv
<1>4. material # Nothing => keyfile \in KeySets /\ frozen \in 1 .. MaxFreezings
  BY DEF KeysInv
<1>5. IsMaterial(material) =>
        keyfile = material.key /\ (material.separated \/ suite \in Augmented)
  BY DEF KeysInv
<1>6. tool # "field" /\ file # Unreadable =>
        keyfile \in KeySets /\ file \in CorporaOf(keyfile)
  BY DEF KeysInv
<1>7. ~IsMaterial(Nothing) /\ ~IsMaterial(Torn)
  BY DEF IsMaterial
<1>8. CASE CreateKeys
  <2>1. /\ tool = "idle" /\ material = Nothing /\ keyfile = Nothing /\ created < MaxKeys
        /\ created' = created + 1 /\ inHand' = created + 1
        /\ keyfile' = Torn /\ tool' = "save keys"
        /\ UNCHANGED <<fieldVars, file, material, frozen, kills>>
    BY <1>8 DEF CreateKeys
  <2>2. created + 1 \in KeySets /\ created + 1 \in 0 .. MaxKeys
    <3>1. created \in 0 .. MaxKeys /\ created < MaxKeys /\ MaxKeys \in Nat
      BY <1>1, <1>2, <2>1
    <3> QED BY <3>1 DEF KeySets
  <2>3. IInv' /\ NotStarted' /\ suite' = suite /\ suite \in Frozen
    BY <2>1, FileKept
  <2>4. file' = Unreadable
    BY <1>2, <1>6, <2>1
  <2>5. FreezeTypeOK'
    BY <1>1, <2>1, <2>2
  <2>6. ~IsMaterial(material)'
    BY <2>1 DEF IsMaterial
  <2> QED BY <2>1, <2>3, <2>4, <2>5, <2>6 DEF KeysInv
<1>9. CASE SaveKeys
  <2>1. /\ tool = "save keys" /\ keyfile' = inHand /\ tool' = "sign"
        /\ UNCHANGED <<fieldVars, file, material, created, frozen, inHand, kills>>
    BY <1>9 DEF SaveKeys
  <2>2. keyfile = Torn /\ inHand \in KeySets
    BY <1>1, <2>1 DEF KeysInv
  <2>3. IInv' /\ NotStarted' /\ suite' = suite /\ suite \in Frozen
    BY <2>1, FileKept
  <2>4. file' = Unreadable /\ material' = Nothing
    BY <1>2, <1>4, <1>6, <2>1, <2>2
  <2>5. FreezeTypeOK'
    BY <1>1, <2>1, <2>2
  <2>6. ~IsMaterial(material)'
    BY <2>4 DEF IsMaterial
  <2> QED BY <2>1, <2>3, <2>4, <2>5, <2>6 DEF KeysInv
<1>10. CASE LoadKeys
  <2>1. /\ tool = "idle" /\ material = Nothing /\ keyfile \notin {Nothing, Torn}
        /\ inHand' = keyfile /\ tool' = "sign"
        /\ UNCHANGED <<fieldVars, file, keyfile, material, created, frozen, kills>>
    BY <1>10 DEF LoadKeys
  <2>2. keyfile \in KeySets
    BY <1>1, <2>1
  <2>3. IInv' /\ NotStarted' /\ suite' = suite /\ suite \in Frozen
    BY <2>1, FileKept
  <2>4. FreezeTypeOK'
    BY <1>1, <2>1, <2>2
  <2>5. file' # Unreadable => (keyfile \in KeySets /\ file \in CorporaOf(keyfile))'
    BY <2>1, CorpusKept
  <2>6. ~IsMaterial(material)'
    BY <2>1 DEF IsMaterial
  <2> QED BY <2>1, <2>3, <2>4, <2>5, <2>6 DEF KeysInv
<1>11. CASE OpenMaterial
  <2>1. /\ tool = "sign" /\ frozen < MaxFreezings /\ frozen' = frozen + 1
        /\ material' = Torn /\ tool' = "write material"
        /\ UNCHANGED <<fieldVars, file, keyfile, created, inHand, kills>>
    BY <1>11 DEF OpenMaterial
  <2>2. keyfile = inHand /\ inHand \in KeySets
    BY <1>1, <2>1 DEF KeysInv
  <2>3. IInv' /\ NotStarted' /\ suite' = suite /\ suite \in Frozen
    BY <2>1, FileKept
  <2>4. frozen' \in 1 .. MaxFreezings
    <3>1. frozen \in 0 .. MaxFreezings /\ frozen < MaxFreezings /\ MaxFreezings \in Nat
      BY <1>1, <1>2, <2>1
    <3>2. frozen + 1 \in 1 .. MaxFreezings
      BY <3>1
    <3> QED BY <2>1, <3>2
  <2>5. FreezeTypeOK'
    <3>1. frozen' \in 0 .. MaxFreezings
      BY <2>4
    <3> QED BY <1>1, <2>1, <2>2, <3>1
  <2>6. file' # Unreadable => (keyfile \in KeySets /\ file \in CorporaOf(keyfile))'
    BY <2>1, CorpusKept
  <2>7. ~IsMaterial(material)'
    BY <2>1 DEF IsMaterial
  <2> QED BY <2>1, <2>2, <2>3, <2>4, <2>5, <2>6, <2>7 DEF KeysInv
<1>12. CASE OpenToAugment
  <2>1. /\ tool = "idle" /\ IsMaterial(material)
        /\ inHand' = material.key /\ material' = Torn /\ tool' = "write material"
        /\ UNCHANGED <<fieldVars, file, keyfile, created, frozen, kills>>
    BY <1>12 DEF OpenToAugment
  <2>2. material # Nothing /\ keyfile = material.key /\ keyfile \in KeySets
        /\ frozen \in 1 .. MaxFreezings
    BY <1>4, <1>5, <1>7, <2>1
  <2>3. IInv' /\ NotStarted' /\ suite' = suite /\ suite \in Frozen
    BY <2>1, FileKept
  <2>4. FreezeTypeOK'
    BY <1>1, <2>1, <2>2
  <2>5. file' # Unreadable => (keyfile \in KeySets /\ file \in CorporaOf(keyfile))'
    BY <2>1, CorpusKept
  <2>6. ~IsMaterial(material)'
    BY <2>1 DEF IsMaterial
  <2> QED BY <2>1, <2>2, <2>3, <2>4, <2>5, <2>6 DEF KeysInv
<1>13. CASE WriteMaterial
  <2>1. /\ tool = "write material"
        /\ material' = FrozenWith(inHand, frozen, TRUE) /\ tool' = "idle"
        /\ UNCHANGED <<fieldVars, file, keyfile, created, frozen, inHand, kills>>
    BY <1>13 DEF WriteMaterial
  <2>2. keyfile = inHand /\ inHand \in KeySets /\ frozen \in 1 .. MaxFreezings
    BY <1>1, <2>1 DEF KeysInv
  <2>3. IInv' /\ NotStarted' /\ suite' = suite /\ suite \in Frozen
    BY <2>1, FileKept
  <2>4. material' \in Materials /\ material'.key = keyfile /\ material'.separated = TRUE
    <3>1. FrozenWith(inHand, frozen, TRUE) \in Materials
      BY <2>2, AMaterial
    <3> QED BY <2>1, <2>2, <3>1 DEF FrozenWith
  <2>5. FreezeTypeOK'
    BY <1>1, <2>1, <2>4
  <2>6. file' # Unreadable => (keyfile \in KeySets /\ file \in CorporaOf(keyfile))'
    BY <2>1, CorpusKept
  <2> QED BY <2>1, <2>2, <2>3, <2>4, <2>5, <2>6 DEF KeysInv
<1>14. CASE OpenCorpus
  <2>1. /\ tool = "idle" /\ IsMaterial(material) /\ Makes(material) # Refused
        /\ file' = Unreadable /\ tool' = "write corpus"
        /\ UNCHANGED <<fieldVars, keyfile, material, created, frozen, inHand, kills>>
    BY <1>14 DEF OpenCorpus
  <2>2. suite' = suite /\ suite \in Frozen /\ NotStarted'
    BY <2>1, StillNotStarted
  <2>3. material \in Materials
    BY <1>1, <2>1 DEF IsMaterial
  <2>4. IInv'
    BY <2>1, <2>2, <2>3, FreezingAssumption, FileReplaced
  <2>5. Makes(material)' # Refused
    BY <2>1, <2>2 DEF Makes, Sections
  <2>6. FreezeTypeOK'
    BY <1>1, <2>1
  <2>7. IsMaterial(material)' /\ material' # Nothing
    BY <1>7, <2>1 DEF IsMaterial
  <2> QED BY <1>4, <1>5, <1>7, <2>1, <2>2, <2>4, <2>5, <2>6, <2>7 DEF KeysInv
<1>15. CASE WriteCorpus
  <2>1. /\ tool = "write corpus" /\ file' = Makes(material) /\ tool' = "idle"
        /\ UNCHANGED <<fieldVars, keyfile, material, created, frozen, inHand, kills>>
    BY <1>15 DEF WriteCorpus
  <2>2. suite' = suite /\ suite \in Frozen /\ NotStarted'
    BY <2>1, StillNotStarted
  <2>3. IsMaterial(material) /\ Makes(material) # Refused
    BY <2>1 DEF KeysInv
  <2>4. material \in Materials
    BY <1>1, <2>3 DEF IsMaterial
  <2>5. keyfile \in KeySets /\ Makes(material) \in CorporaOf(keyfile)
    BY <1>5, <2>2, <2>3, <2>4, MadeOfSeparated
  <2>6. IInv'
    BY <2>1, <2>2, <2>3, <2>4, MadeIsAFile, FileReplaced
  <2>7. (keyfile \in KeySets /\ file \in CorporaOf(keyfile))'
    <3>1. CorporaOf(keyfile)' = CorporaOf(keyfile)
      BY <2>1, <2>2, SameCorpora
    <3> QED BY <2>1, <2>5, <3>1
  <2>8. FreezeTypeOK'
    BY <1>1, <2>1
  <2>9. IsMaterial(material)' = IsMaterial(material)
    BY <2>1 DEF IsMaterial
  <2> QED BY <1>4, <1>5, <2>1, <2>2, <2>6, <2>7, <2>8, <2>9 DEF KeysInv
<1>16. CASE Kill
  <2>1. /\ tool \notin {"idle", "field"} /\ kills < MaxKills
        /\ kills' = kills + 1 /\ tool' = "idle"
        /\ UNCHANGED <<fieldVars, file, keyfile, material, created, frozen, inHand>>
    BY <1>16 DEF Kill
  <2>2. IInv' /\ NotStarted' /\ suite' = suite /\ suite \in Frozen
    BY <2>1, FileKept
  <2>3. kills' \in 0 .. MaxKills
    <3>1. kills \in 0 .. MaxKills
      BY <1>1
    <3> QED BY <1>2, <2>1, <3>1
  <2>4. FreezeTypeOK'
    BY <1>1, <2>1, <2>3
  <2>5. file' # Unreadable => (keyfile \in KeySets /\ file \in CorporaOf(keyfile))'
    BY <2>1, CorpusKept
  <2>6. IsMaterial(material)' = IsMaterial(material)
    BY <2>1 DEF IsMaterial
  <2> QED BY <1>4, <1>5, <2>1, <2>2, <2>4, <2>5, <2>6 DEF KeysInv
<1>17. CASE Delete
  <2>1. /\ tool = "idle"
        /\ UNCHANGED <<fieldVars, file, created, frozen, tool, inHand, kills>>
    BY <1>17 DEF Delete
  <2>2. IInv' /\ NotStarted' /\ suite' = suite /\ suite \in Frozen
    BY <2>1, FileKept
  <2>3. CASE material' = Nothing /\ UNCHANGED keyfile
    <3>1. FreezeTypeOK'
      BY <1>1, <2>1, <2>3
    <3>2. file' # Unreadable => (keyfile \in KeySets /\ file \in CorporaOf(keyfile))'
      BY <2>1, <2>3, CorpusKept
    <3>3. ~IsMaterial(material)'
      BY <2>3 DEF IsMaterial
    <3> QED BY <2>1, <2>2, <2>3, <3>1, <3>2, <3>3 DEF KeysInv
  <2>4. CASE keyfile = Torn /\ keyfile' = Nothing /\ UNCHANGED material
    <3>1. material' = Nothing /\ file' = Unreadable
      BY <1>2, <1>4, <1>6, <2>1, <2>4
    <3>2. FreezeTypeOK'
      BY <1>1, <2>1, <2>4
    <3>3. ~IsMaterial(material)'
      BY <3>1 DEF IsMaterial
    <3> QED BY <2>1, <2>2, <2>4, <3>1, <3>2, <3>3 DEF KeysInv
  <2> QED BY <1>17, <2>3, <2>4 DEF Delete
<1>18. CASE StartField
  <2>1. /\ tool = "idle" /\ tool' = "field"
        /\ inHand' = 0 /\ kills' = 0
        /\ UNCHANGED <<fieldVars, file, keyfile, material, created, frozen>>
    BY <1>18 DEF StartField
  <2>2. IInv' /\ suite' = suite
    BY <2>1, FileKept
  <2>3. FreezeTypeOK'
    BY <1>1, <2>1, FreezingAssumption DEF FreezeTypeOK
  <2>4. IsMaterial(material)' = IsMaterial(material)
    BY <2>1 DEF IsMaterial
  <2> QED BY <1>4, <1>5, <2>1, <2>2, <2>3, <2>4 DEF KeysInv
<1>19. CASE Field
  <2>1. tool = "field" /\ Next /\ UNCHANGED freezeVars
    BY <1>19 DEF Field
  <2>2. IInv'
    BY <2>1, StepIInv
  <2>3. /\ UNCHANGED <<keyfile, material, created, frozen, tool, inHand, kills>>
    BY <2>1 DEF freezeVars
  <2>4. suite' = suite
    <3>1. UNCHANGED given
      BY <2>1, GivenKept
    <3> QED BY <3>1 DEF given
  <2>5. FreezeTypeOK'
    BY <1>1, <2>3
  <2>6. IsMaterial(material)' = IsMaterial(material)
    BY <2>3 DEF IsMaterial
  <2> QED BY <1>4, <1>5, <2>1, <2>2, <2>3, <2>4, <2>5, <2>6 DEF KeysInv
<1>20. CASE UNCHANGED pipelineVars
  <2>1. /\ UNCHANGED vars
        /\ UNCHANGED <<keyfile, material, created, frozen, tool, inHand, kills>>
    BY <1>20 DEF pipelineVars, freezeVars
  <2>2. IInv' /\ UNCHANGED <<fieldVars, file>>
    BY <2>1, StepIInv DEF vars, given, fieldVars
  <2>3. FreezeTypeOK'
    BY <1>1, <2>1
  <2>4. IsMaterial(material)' = IsMaterial(material)
    BY <2>1 DEF IsMaterial
  <2>5. CASE tool = "field"
    <3>1. suite' = suite
      BY <2>2 DEF fieldVars
    <3> QED BY <1>4, <1>5, <2>1, <2>2, <2>3, <2>4, <2>5, <3>1 DEF KeysInv
  <2>6. CASE tool # "field"
    <3>1. suite' = suite /\ suite \in Frozen /\ NotStarted'
      BY <2>2, <2>6, StillNotStarted
    <3>2. file' # Unreadable => (keyfile \in KeySets /\ file \in CorporaOf(keyfile))'
      BY <2>1, <2>2, <2>6, CorpusKept
    <3>3. tool = "write corpus" => IsMaterial(material) /\ Makes(material)' # Refused
      BY <2>1, <3>1 DEF KeysInv, Makes, Sections
    <3> QED BY <1>4, <1>5, <2>1, <2>2, <2>3, <2>4, <2>6, <3>1, <3>2, <3>3 DEF KeysInv
  <2> QED BY <2>5, <2>6
<1> QED
  BY <1>8, <1>9, <1>10, <1>11, <1>12, <1>13, <1>14, <1>15, <1>16, <1>17, <1>18, <1>19,
     <1>20
     DEF PipelineNext, Freeze

\* The field's invariant, with the tools that write its file before it.
THEOREM PipelineInductive == PipelineSpec => [](IInv /\ KeysInv)
<1> QED BY PipelineStarts, PipelineStep, PTL DEF PipelineSpec

-----------------------------------------------------------------------------
(* The properties of the runs.                                              *)

\* The tools keep the types of their files and counters.
THEOREM FreezeTypeCorrect == PipelineSpec => []FreezeTypeOK
<1>1. IInv /\ KeysInv => FreezeTypeOK
  BY DEF KeysInv
<1> QED BY <1>1, PipelineInductive, PTL

\* Private keys outlive what they signed, wherever the tools are killed and
\* whatever is deleted to freeze again (load_or_create_keys).
THEOREM KeysSurvive == PipelineSpec => []KeysOutliveWhatTheySigned
<1>1. IInv /\ KeysInv => KeysOutliveWhatTheySigned
  BY DEF KeysInv, KeysOutliveWhatTheySigned
<1> QED BY <1>1, PipelineInductive, PTL

\* The field keeps the types of its variables, on whatever the tools leave it.
THEOREM PipelineTypes == PipelineSpec => []TypeOK
<1>1. IInv /\ KeysInv => TypeOK
  BY DEF IInv
<1> QED BY <1>1, PipelineInductive, PTL

\* On whatever the tools leave at the corpus path, exit 0 of a strict port is
\* earned.
THEOREM PipelineStrictZero ==
  ASSUME PortsFaithful
  PROVE  PipelineSpec => []StrictZeroIsEarned
BY EarnedZero, PipelineInductive, PTL

\* A corpus that the tools finished fails no port.
THEOREM PipelinePasses ==
  ASSUME PortsFaithful
  PROVE  PipelineSpec => []StampedFailsNoPort
BY NoFaithfulPortFails, PipelineInductive, PTL

\* A field that is all green after the tools has the oracle's expectations.
THEOREM PipelineFullField ==
  ASSUME OracleTwin
  PROVE  PipelineSpec => []FullFieldIsOracle
BY TwinDecides, PipelineInductive, PTL

\* What the KAT gate derives of the tools' corpus fails no port.
THEOREM PipelineGatePasses ==
  ASSUME PortsFaithful, GateFaithful
  PROVE  PipelineSpec => []GateImpliesField
BY GateDecides, PipelineInductive, PTL

\* And it derives every corpus of the tools that the whole field matches.
THEOREM PipelineFieldPasses ==
  ASSUME GateComplete
  PROVE  PipelineSpec => []FieldImpliesGate
BY FieldDecides, PipelineInductive, PTL

\* What KeysInv says of material that was written to the end.
LEMMA FrozenMakes ==
  ASSUME BuildsAreSound, KeysInv
  PROVE  FrozenIsUsable
<1> SUFFICES ASSUME tool # "field", IsMaterial(material), material.separated
             PROVE  Makes(material) # Refused
  BY DEF FrozenIsUsable
<1>1. suite \in Frozen /\ material \in Materials
  BY DEF KeysInv, FreezeTypeOK, IsMaterial
<1> QED BY <1>1, SoundIsMade

\* With sound generators, material that a tool froze to the end never stops the
\* generator, whatever was killed or deleted before.
THEOREM PipelineUsable ==
  ASSUME BuildsAreSound
  PROVE  PipelineSpec => []FrozenIsUsable
BY FrozenMakes, PipelineInductive, PTL

\* What KeysInv says of a corpus that was written to the end: it is made of the
\* saved keys, so it has the cases that its generator meant.
LEMMA MadeProbes ==
  ASSUME BuildsAreSound, BuildsProbe, KeysInv
  PROVE  ProbedRulesAreCaught
<1> SUFFICES ASSUME Made, NEW rule \in Probed(suite) PROVE Caught(rule)
  BY DEF ProbedRulesAreCaught
<1>1. suite \in Frozen /\ file # Unreadable
      /\ keyfile \in KeySets /\ file \in CorporaOf(keyfile)
  BY DEF KeysInv, Made
<1>2. PICK n \in 1 .. MaxFreezings : file = Makes(FrozenWith(keyfile, n, TRUE))
  BY <1>1 DEF CorporaOf
<1> DEFINE m == FrozenWith(keyfile, n, TRUE)
<1>3. m \in Materials /\ m.separated
  BY <1>1, AMaterial DEF FrozenWith
<1>4. file = Builds(suite, m)
  BY <1>1, <1>2, <1>3, SoundIsMade
<1>5. PICK k \in DOMAIN SectionsOf(suite) :
        LET section == SectionsOf(suite)[k] IN
          file[section] # Missing /\
            \E i \in DOMAIN file[section] :
              Judge(suite, Without(suite, rule), section, file[section][i]) # "match"
  BY <1>1, <1>3, <1>4 DEF BuildsProbe
<1>6. CasesAt(k) = file[SectionsOf(suite)[k]] /\ Sections = SectionsOf(suite)
  BY <1>1 DEF CasesAt, Sections
<1> QED BY <1>5, <1>6 DEF Caught

\* With generators that are sound and probe, a corpus that the tools finished
\* catches every verifier that lacks a probed rule, whatever was killed or
\* deleted before.
THEOREM PipelineProbes ==
  ASSUME BuildsAreSound, BuildsProbe
  PROVE  PipelineSpec => []ProbedRulesAreCaught
BY MadeProbes, PipelineInductive, PTL

-----------------------------------------------------------------------------
(* ML-DSA-65: the runners, and what the generator makes.                    *)

\* All twelve runners enforce the same rules and read well formed hexadecimal.
LEMMA MldsaRunnerKinds ==
  ASSUME NEW i \in DOMAIN Mldsa!MldsaRunners
  PROVE  /\ Mldsa!MldsaRunners[i].enforced = Mldsa!MldsaRules
         /\ "well formed" \in Mldsa!MldsaRunners[i].reads
         /\ Mldsa!MldsaRunners[i].missing = "empty"
         /\ Mldsa!MldsaRunners[i].unread \in {"fail", "empty"}
<1> DEFINE Kind(p) == /\ p.enforced = Mldsa!MldsaRules /\ "well formed" \in p.reads
                      /\ p.missing = "empty" /\ p.unread \in {"fail", "empty"}
<1>1. Kind(Mldsa!MldsaPython) /\ Kind(Mldsa!MldsaPlain)
  BY DEF Mldsa!MldsaPython, Mldsa!MldsaPlain
<1>2. Kind(Mldsa!MldsaTypescript) /\ Kind(Mldsa!MldsaJvm) /\ Kind(Mldsa!MldsaPhp)
  BY DEF Mldsa!MldsaPython, Mldsa!MldsaPlain, Mldsa!MldsaTypescript, Mldsa!MldsaJvm,
         Mldsa!MldsaPhp
<1>3. Mldsa!MldsaRunners[i] \in
        {Mldsa!MldsaPython, Mldsa!MldsaPlain, Mldsa!MldsaTypescript, Mldsa!MldsaJvm,
         Mldsa!MldsaPhp}
  BY DEF Mldsa!MldsaRunners
<1> QED BY <1>1, <1>2, <1>3

\* On a case of well formed hexadecimal the twelve runners decide alike.
THEOREM MldsaPortsAgree ==
  ASSUME NEW i \in DOMAIN Mldsa!MldsaRunners, NEW section, NEW c,
         Mldsa!MldsaEmitted(section, c)
  PROVE  Mldsa!MldsaJudge(Mldsa!MldsaRunners[i], section, c) =
           IF Mldsa!MldsaCorrect(section, c) THEN "match" ELSE "mismatch"
<1> DEFINE p == Mldsa!MldsaRunners[i]
<1>1. p.enforced = Mldsa!MldsaRules /\ "well formed" \in p.reads
  BY MldsaRunnerKinds
<1>2. Mldsa!MldsaPython.enforced = Mldsa!MldsaRules
      /\ "well formed" \in Mldsa!MldsaPython.reads
  BY DEF Mldsa!MldsaPython
<1> HIDE DEF p
<1>3. Mldsa!MldsaVerdict(p, c) = Mldsa!MldsaVerdict(Mldsa!MldsaPython, c)
  BY <1>1, <1>2 DEF Mldsa!MldsaVerdict, Mldsa!MldsaEmitted
<1> QED BY <1>3 DEF p, Mldsa!MldsaJudge, Mldsa!MldsaCorrect

\* A case that the generator may write with this expectation.
MldsaSound(c) == c.hex = "well formed" /\ Mldsa!MldsaVerdict(Mldsa!MldsaPython, c) = c.expect

\* A case whose expectation is what its key and signature are is sound.
LEMMA MldsaCaseSound ==
  ASSUME NEW pk, NEW msg, NEW sig, NEW expect \in BOOLEAN,
         expect <=> /\ pk.length = Mldsa!PK_LEN /\ sig.length = Mldsa!SIG_LEN
                    /\ sig.by = pk.of /\ sig.over = msg
                    /\ sig.bytes = "as made" /\ pk.bytes = "as made"
                    /\ sig.domain \notin Mldsa!MldsaRules
  PROVE  MldsaSound(Mldsa!MldsaCase(pk, msg, sig, expect))
<1> DEFINE p == Mldsa!MldsaPython
           c == Mldsa!MldsaCase(pk, msg, sig, expect)
<1>1. /\ p.enforced = Mldsa!MldsaRules /\ "lengths" \in p.enforced
      /\ "well formed" \in p.reads
  BY DEF Mldsa!MldsaPython, Mldsa!MldsaRules
<1> HIDE DEF p
<1>2. Mldsa!MldsaVerdict(p, c) \in BOOLEAN
  BY DEF Mldsa!MldsaVerdict
<1>3. /\ c.hex = "well formed" /\ c.expect = expect
      /\ Mldsa!MldsaVerdict(p, c) <=> expect
  BY <1>1 DEF Mldsa!MldsaCase, Mldsa!MldsaVerdict, Mldsa!LengthsOk, Mldsa!SignatureVerifies
<1> QED BY <1>2, <1>3 DEF MldsaSound, p

\* A list of known length.
LEMMA ListOf ==
  ASSUME NEW S, NEW n \in Nat, NEW f \in [1 .. n -> S]
  PROVE  f \in Seq(S) /\ Len(f) = n
<1>1. f \in Seq(S)
  BY SeqDef
<1>2. DOMAIN f = 1 .. n /\ DOMAIN f = 1 .. Len(f) /\ Len(f) \in Nat
  BY <1>1, LenProperties
<1>3. \A m \in Nat : 1 .. m = 1 .. n => m = n
  <2> SUFFICES ASSUME NEW m \in Nat, 1 .. m = 1 .. n, m # n PROVE FALSE
    OBVIOUS
  <2>1. m < n => n \in 1 .. n /\ n \notin 1 .. m
    OBVIOUS
  <2>2. n < m => m \in 1 .. m /\ m \notin 1 .. n
    OBVIOUS
  <2> QED BY <2>1, <2>2
<1> QED BY <1>1, <1>2, <1>3

\* Four parts of a corpus one behind the other.
Parts(a, b, c, d) == a \o b \o c \o d

LEMMA FourParts ==
  ASSUME NEW S, NEW a \in Seq(S), NEW b \in Seq(S), NEW c \in Seq(S), NEW d \in Seq(S)
  PROVE  /\ \A i \in DOMAIN Parts(a, b, c, d) : Parts(a, b, c, d)[i] \in S
         /\ \A i \in 1 .. Len(d) :
              LET j == Len(a) + Len(b) + Len(c) + i
              IN  j \in DOMAIN Parts(a, b, c, d) /\ Parts(a, b, c, d)[j] = d[i]
<1>1. /\ a \o b \in Seq(S) /\ Len(a \o b) = Len(a) + Len(b)
  BY ConcatProperties
<1>2. a \o b \o c \in Seq(S) /\ Len(a \o b \o c) = Len(a) + Len(b) + Len(c)
  BY <1>1, ConcatProperties
<1>3. /\ a \o b \o c \o d \in Seq(S)
      /\ Len(a \o b \o c \o d) = Len(a) + Len(b) + Len(c) + Len(d)
      /\ \A i \in 1 .. Len(a \o b \o c) + Len(d) :
           (a \o b \o c \o d)[i] = IF i <= Len(a \o b \o c) THEN (a \o b \o c)[i]
                                     ELSE d[i - Len(a \o b \o c)]
  BY <1>2, ConcatProperties
<1>4. /\ Len(a) \in Nat /\ Len(b) \in Nat /\ Len(c) \in Nat /\ Len(d) \in Nat
      /\ DOMAIN (a \o b \o c \o d) = 1 .. Len(a \o b \o c \o d)
  BY <1>3, LenProperties
<1>5. \A i \in DOMAIN (a \o b \o c \o d) : (a \o b \o c \o d)[i] \in S
  BY <1>3, <1>4, ElementOfSeq
<1> DEFINE all == a \o b \o c \o d
           n == Len(a) + Len(b) + Len(c)
<1> HIDE DEF all
<1>6. ASSUME NEW i \in 1 .. Len(d) PROVE n + i \in DOMAIN all /\ all[n + i] = d[i]
  <2>1. n \in Nat /\ i \in Nat /\ ~(n + i <= n) /\ (n + i) - n = i
        /\ n + i \in 1 .. n + Len(d)
    BY <1>4
  <2> QED BY <1>2, <1>3, <1>4, <2>1 DEF all
<1> QED BY <1>5, <1>6 DEF all, Parts

\* The corpus of any key set: every expectation is the oracle's, and the two
\* signatures of another domain stand for its two rules.
LEMMA MldsaCorpusSound ==
  ASSUME NEW k
  PROVE  LET corpus == Mldsa!MldsaCorpus(Mldsa!MldsaMaterial(k), Missing) IN
           /\ DOMAIN corpus = {"mldsa65_verify", "mldsa65_malformed", "mldsa65_acvp_kat"}
           /\ \A n \in DOMAIN corpus.mldsa65_verify : MldsaSound(corpus.mldsa65_verify[n])
           /\ \A n \in DOMAIN corpus.mldsa65_malformed :
                MldsaSound(corpus.mldsa65_malformed[n])
           /\ corpus.mldsa65_acvp_kat = Missing /\ 16 \in DOMAIN corpus.mldsa65_verify
           /\ \A rule \in {"context", "prehash"} :
                \E n \in DOMAIN corpus.mldsa65_verify :
                  LET c == corpus.mldsa65_verify[n]
                      p == [Mldsa!MldsaPython EXCEPT !.enforced = Mldsa!MldsaRules \ {rule}]
                  IN  Mldsa!MldsaVerdict(p, c) # c.expect
<1> DEFINE Pk(of) == Mldsa!PublicKey(<<of, k>>)
           Main(msg) == Mldsa!Sig(<<"main", k>>, msg, "pure")
           key == Mldsa!PublicKey(<<"seeded", 0>>)
           Seeded(domain) == Mldsa!Sig(<<"seeded", 0>>, "primary", domain)
           good == Main("primary")
           Case(pk, msg, s, expect) == Mldsa!MldsaCase(pk, msg, s, expect)
           none == [good EXCEPT !.length = 0, !.bytes = "resized"]
           forged == <<Mldsa!Flipped(good), Mldsa!ConstSig, Mldsa!ConstSig,
                       Mldsa!Flipped(good), Mldsa!Flipped(good)>>
           wrong == <<Pk("wrong"), Mldsa!GarbageKey, Mldsa!GarbageKey>>
           a == [i \in 1 .. 3 |-> LET msg == <<"primary", "empty", "short">>[i]
                                  IN  Case(Pk("main"), msg, Main(msg), TRUE)]
           b == [i \in DOMAIN forged |-> Case(Pk("main"), "primary", forged[i], FALSE)]
           c == [i \in DOMAIN wrong |-> Case(wrong[i], "primary", good, FALSE)]
           d == <<Case(Pk("main"), "altered", good, FALSE),
                  Case(Pk("main"), "empty", good, FALSE),
                  Case(key, "primary", Seeded("pure"), TRUE),
                  Case(key, "primary", Seeded("context"), FALSE),
                  Case(key, "primary", Seeded("prehash"), FALSE)>>
           all == a \o b \o c \o d
           bad == <<Case(Pk("main"), "primary", Mldsa!Resized(good, -1), FALSE),
                    Case(Pk("main"), "primary", Mldsa!Resized(good, 1), FALSE),
                    Case(Pk("main"), "primary", none, FALSE),
                    Case(Mldsa!Resized(Pk("main"), -1), "primary", good, FALSE),
                    Case(Mldsa!Resized(Pk("main"), 1), "primary", good, FALSE)>>
<1> HIDE DEF Pk, Main, key, Seeded, good, Case, none
<1>1. Mldsa!MldsaCorpus(Mldsa!MldsaMaterial(k), Missing) =
        [mldsa65_verify |-> all, mldsa65_malformed |-> bad, mldsa65_acvp_kat |-> Missing]
  <2>1. LET m == Mldsa!MldsaMaterial(k) IN
          /\ m.publicKey = Pk("main") /\ m.wrongKey = Pk("wrong")
          /\ \A msg \in {"primary", "empty", "short"} : m.signatures[msg] = Main(msg)
          /\ m.separation.publicKey = key /\ m.separation.pure = Seeded("pure")
          /\ m.separation.context = Seeded("context")
          /\ m.separation.prehash = Seeded("prehash")
    BY DEF Mldsa!MldsaMaterial, Mldsa!DomainSeparation, Pk, Main, key, Seeded
  <2> DEFINE m == Mldsa!MldsaMaterial(k)
             valid == [i \in 1 .. 3 |-> LET msg == <<"primary", "empty", "short">>[i]
                         IN  Mldsa!MldsaCase(m.publicKey, msg, m.signatures[msg], TRUE)]
  <2>2. valid = a
    <3>1. \A i \in 1 .. 3 : <<"primary", "empty", "short">>[i] \in {"primary", "empty", "short"}
      OBVIOUS
    <3> HIDE DEF m
    <3> QED BY <2>1, <3>1 DEF Case, m
  <2>3. m.signatures["primary"] = good
    BY <2>1 DEF good
  <2> HIDE DEF m
  <2> QED BY <2>1, <2>2, <2>3 DEF Mldsa!MldsaCorpus, Case, none, m
<1>2. /\ \A of : Pk(of).length = Mldsa!PK_LEN /\ Pk(of).bytes = "as made"
                 /\ Pk(of).of = <<of, k>>
      /\ key.length = Mldsa!PK_LEN /\ key.bytes = "as made" /\ key.of = <<"seeded", 0>>
      /\ \A msg : /\ Main(msg).length = Mldsa!SIG_LEN /\ Main(msg).bytes = "as made"
                   /\ Main(msg).by = <<"main", k>> /\ Main(msg).over = msg
                   /\ Main(msg).domain = "pure"
      /\ \A domain : /\ Seeded(domain).length = Mldsa!SIG_LEN
                      /\ Seeded(domain).bytes = "as made"
                      /\ Seeded(domain).by = <<"seeded", 0>>
                      /\ Seeded(domain).over = "primary" /\ Seeded(domain).domain = domain
  BY DEF Pk, key, Main, Seeded, Mldsa!PublicKey, Mldsa!Sig
<1>3. /\ Mldsa!Flipped(good).bytes = "flipped" /\ Mldsa!ConstSig.bytes = "constant"
      /\ Mldsa!GarbageKey.bytes = "constant" /\ none.bytes = "resized"
      /\ \A n : Mldsa!Resized(good, n).bytes = "resized"
      /\ \A n : Mldsa!Resized(Pk("main"), n).bytes = "resized"
  <2>1. /\ Mldsa!Flipped(good).bytes = "flipped" /\ none.bytes = "resized"
        /\ \A n : Mldsa!Resized(good, n).bytes = "resized"
    BY DEF Mldsa!Flipped, Mldsa!Resized, good, Main, none, Mldsa!Sig
  <2>2. \A n : Mldsa!Resized(Pk("main"), n).bytes = "resized"
    BY DEF Mldsa!Resized, Pk, Mldsa!PublicKey
  <2>3. Mldsa!ConstSig.bytes = "constant" /\ Mldsa!GarbageKey.bytes = "constant"
    BY DEF Mldsa!ConstSig, Mldsa!GarbageKey, Mldsa!Sig, Mldsa!PublicKey
  <2> QED BY <2>1, <2>2, <2>3
<1>4. /\ "pure" \notin Mldsa!MldsaRules /\ "context" \in Mldsa!MldsaRules
      /\ "prehash" \in Mldsa!MldsaRules
  BY DEF Mldsa!MldsaRules
\* What is flipped, resized or made by nobody verifies under no key.
<1>5. ASSUME NEW pk, NEW s, pk.bytes # "as made" \/ s.bytes # "as made"
      PROVE  MldsaSound(Case(pk, "primary", s, FALSE))
  BY <1>5, MldsaCaseSound DEF Case
<1>6. ASSUME NEW msg \in {"primary", "empty", "short"}
      PROVE  MldsaSound(Case(Pk("main"), msg, Main(msg), TRUE))
  BY <1>2, <1>4, MldsaCaseSound DEF Case
<1>7. \A i \in 1 .. 3 : MldsaSound(a[i])
  <2> DEFINE msgs == <<"primary", "empty", "short">>
  <2>1. \A i \in 1 .. 3 : a[i] = Case(Pk("main"), msgs[i], Main(msgs[i]), TRUE)
    OBVIOUS
  <2>2. \A i \in 1 .. 3 : msgs[i] \in {"primary", "empty", "short"}
    OBVIOUS
  <2> HIDE DEF msgs, a
  <2>3. \A i \in 1 .. 3 : MldsaSound(Case(Pk("main"), msgs[i], Main(msgs[i]), TRUE))
    BY <1>6, <2>2
  <2> QED BY <2>1, <2>3
<1>8. \A i \in 1 .. 5 : MldsaSound(b[i])
  <2>1. /\ MldsaSound(Case(Pk("main"), "primary", Mldsa!Flipped(good), FALSE))
        /\ MldsaSound(Case(Pk("main"), "primary", Mldsa!ConstSig, FALSE))
    BY <1>3, <1>5
  <2>2. \A i \in 1 .. 5 : forged[i] \in {Mldsa!Flipped(good), Mldsa!ConstSig}
    OBVIOUS
  <2>3. \A i \in 1 .. 5 : b[i] = Case(Pk("main"), "primary", forged[i], FALSE)
    OBVIOUS
  <2> HIDE DEF b, forged
  <2> QED BY <2>1, <2>2, <2>3
<1>9. \A i \in 1 .. 3 : MldsaSound(c[i])
  <2>1. MldsaSound(Case(Pk("wrong"), "primary", good, FALSE))
    <3>1. <<"main", k>> # <<"wrong", k>>
      OBVIOUS
    <3> QED BY <1>2, <3>1, MldsaCaseSound DEF Case, good
  <2>2. MldsaSound(Case(Mldsa!GarbageKey, "primary", good, FALSE))
    BY <1>3, <1>5
  <2>3. \A i \in 1 .. 3 : wrong[i] \in {Pk("wrong"), Mldsa!GarbageKey}
    OBVIOUS
  <2>4. \A i \in 1 .. 3 : c[i] = Case(wrong[i], "primary", good, FALSE)
    OBVIOUS
  <2> HIDE DEF c, wrong
  <2> QED BY <2>1, <2>2, <2>3, <2>4
<1>10. \A i \in 1 .. 5 : MldsaSound(d[i])
  <2>1. MldsaSound(d[1]) /\ MldsaSound(d[2])
    BY <1>2, MldsaCaseSound DEF Case, good
  <2>2. MldsaSound(d[3]) /\ MldsaSound(d[4]) /\ MldsaSound(d[5])
    BY <1>2, <1>4, MldsaCaseSound DEF Case
  <2> HIDE DEF d
  <2> QED BY <2>1, <2>2
<1>11. \A i \in 1 .. 5 : MldsaSound(bad[i])
  <2>1. MldsaSound(bad[1]) /\ MldsaSound(bad[2]) /\ MldsaSound(bad[3])
    BY <1>3, <1>5
  <2>2. MldsaSound(bad[4]) /\ MldsaSound(bad[5])
    BY <1>3, <1>5
  <2> HIDE DEF bad
  <2> QED BY <2>1, <2>2
<1> DEFINE S == {a[i] : i \in 1 .. 3} \cup {b[i] : i \in 1 .. 5} \cup {c[i] : i \in 1 .. 3}
                  \cup {d[i] : i \in 1 .. 5}
<1>12. /\ DOMAIN a = 1 .. 3 /\ DOMAIN b = 1 .. 5 /\ DOMAIN c = 1 .. 3 /\ DOMAIN d = 1 .. 5
       /\ DOMAIN bad = 1 .. 5
  OBVIOUS
<1>13. \A s \in S : MldsaSound(s)
  <2> HIDE DEF a, b, c, d
  <2> QED BY <1>7, <1>8, <1>9, <1>10
<1>14. a \in [1 .. 3 -> S] /\ b \in [1 .. 5 -> S] /\ c \in [1 .. 3 -> S]
       /\ d \in [1 .. 5 -> S]
  <2>1. a = [i \in 1 .. 3 |-> a[i]] /\ c = [i \in 1 .. 3 |-> c[i]]
    OBVIOUS
  <2>2. b = [i \in 1 .. 5 |-> b[i]] /\ d = [i \in 1 .. 5 |-> d[i]]
    OBVIOUS
  <2> HIDE DEF a, b, c, d
  <2> QED BY <2>1, <2>2
<1>15. d[4] = Case(key, "primary", Seeded("context"), FALSE)
       /\ d[5] = Case(key, "primary", Seeded("prehash"), FALSE)
  OBVIOUS
<1> HIDE DEF a, b, c, d, bad, S
<1>16. a \in Seq(S) /\ b \in Seq(S) /\ c \in Seq(S) /\ d \in Seq(S)
  BY <1>14, ListOf
<1>17. Len(a) = 3 /\ Len(b) = 5 /\ Len(c) = 3 /\ Len(d) = 5
  BY <1>14, ListOf
<1>18. /\ \A i \in DOMAIN all : all[i] \in S
       /\ \A i \in 1 .. 5 : 11 + i \in DOMAIN all /\ all[11 + i] = d[i]
  <2>1. all = Parts(a, b, c, d)
    BY DEF Parts
  <2>2. /\ \A i \in DOMAIN Parts(a, b, c, d) : Parts(a, b, c, d)[i] \in S
        /\ \A i \in 1 .. Len(d) :
             LET j == Len(a) + Len(b) + Len(c) + i
             IN  j \in DOMAIN Parts(a, b, c, d) /\ Parts(a, b, c, d)[j] = d[i]
    BY <1>16, FourParts
  <2> HIDE DEF all
  <2> QED BY <1>17, <2>1, <2>2
<1> HIDE DEF all
<1>19. all[15] = d[4] /\ all[16] = d[5] /\ 15 \in DOMAIN all /\ 16 \in DOMAIN all
  <2>1. 11 + 4 = 15 /\ 11 + 5 = 16 /\ 4 \in 1 .. 5 /\ 5 \in 1 .. 5
    OBVIOUS
  <2> QED BY <1>18, <2>1
\* A port that lacks the rule takes the signature of the other domain.
<1>20. ASSUME NEW rule \in {"context", "prehash"}
       PROVE  \E n \in DOMAIN all :
                LET p == [Mldsa!MldsaPython EXCEPT !.enforced = Mldsa!MldsaRules \ {rule}]
                IN  Mldsa!MldsaVerdict(p, all[n]) # all[n].expect
  <2> DEFINE enforced == Mldsa!MldsaRules \ {rule}
             p == [Mldsa!MldsaPython EXCEPT !.enforced = enforced]
             x == Case(key, "primary", Seeded(rule), FALSE)
  <2>1. "lengths" \in p.enforced /\ rule \notin p.enforced /\ "well formed" \in p.reads
    BY DEF Mldsa!MldsaRules, Mldsa!MldsaPython
  <2> HIDE DEF p
  <2>2. x.expect = FALSE /\ Mldsa!MldsaVerdict(p, x)
    BY <1>2, <2>1
       DEF Case, Mldsa!MldsaCase, Mldsa!MldsaVerdict, Mldsa!LengthsOk, Mldsa!SignatureVerifies
  <2>3. \E n \in DOMAIN all : all[n] = x
    BY <1>15, <1>19
  <2> HIDE DEF x
  <2>4. PICK n \in DOMAIN all : all[n] = x
    BY <2>3
  <2> QED BY <2>2, <2>4 DEF p
<1>21. \A i \in DOMAIN all : MldsaSound(all[i])
  BY <1>13, <1>18
<1>22. \A i \in DOMAIN bad : MldsaSound(bad[i])
  BY <1>11, <1>12
<1> DEFINE corpus == Mldsa!MldsaCorpus(Mldsa!MldsaMaterial(k), Missing)
<1>23. /\ DOMAIN corpus = {"mldsa65_verify", "mldsa65_malformed", "mldsa65_acvp_kat"}
       /\ corpus.mldsa65_verify = all /\ corpus.mldsa65_malformed = bad
       /\ corpus.mldsa65_acvp_kat = Missing
  BY <1>1
<1> HIDE DEF corpus
<1>24. /\ \A n \in DOMAIN corpus.mldsa65_verify : MldsaSound(corpus.mldsa65_verify[n])
       /\ \A n \in DOMAIN corpus.mldsa65_malformed : MldsaSound(corpus.mldsa65_malformed[n])
  BY <1>21, <1>22, <1>23
<1>25. \A rule \in {"context", "prehash"} :
         \E n \in DOMAIN corpus.mldsa65_verify :
           LET x == corpus.mldsa65_verify[n]
               p == [Mldsa!MldsaPython EXCEPT !.enforced = Mldsa!MldsaRules \ {rule}]
           IN  Mldsa!MldsaVerdict(p, x) # x.expect
  BY <1>20, <1>23
<1>26. 16 \in DOMAIN corpus.mldsa65_verify
  BY <1>19, <1>23
<1> QED BY <1>23, <1>24, <1>25, <1>26 DEF corpus

-----------------------------------------------------------------------------
(* JWS.                                                                     *)

\* The twelve runners enforce the same rules, and read what a canonical encoder
\* writes.
LEMMA JwsRunnerKinds ==
  ASSUME NEW i \in DOMAIN Jws!JwsRunners
  PROVE  /\ Jws!JwsRunners[i].enforced = Jws!JwsRules
         /\ Jws!JwsRunners[i].missing = "empty"
         /\ Jws!JwsRunners[i].unread \in {"fail", "empty"}
         /\ "object" \in Jws!JwsRunners[i].headers
         /\ "not json" \notin Jws!JwsRunners[i].headers
         /\ "canonical" \in Jws!JwsRunners[i].encodings
         /\ "malformed" \notin Jws!JwsRunners[i].encodings
<1> DEFINE Kind(p) ==
      /\ p.enforced = Jws!JwsRules /\ p.missing = "empty" /\ p.unread \in {"fail", "empty"}
      /\ "object" \in p.headers /\ "not json" \notin p.headers
      /\ "canonical" \in p.encodings /\ "malformed" \notin p.encodings
<1> USE DEF Jws!JwsPython, Jws!JwsPlain
<1>1. Kind(Jws!JwsPython) /\ Kind(Jws!JwsTypescript) /\ Kind(Jws!JwsGo)
  BY DEF Jws!JwsTypescript, Jws!JwsGo
<1>2. Kind(Jws!JwsRust) /\ Kind(Jws!JwsC) /\ Kind(Jws!JwsJava) /\ Kind(Jws!JwsKotlin)
  BY DEF Jws!JwsRust, Jws!JwsC, Jws!JwsJava, Jws!JwsKotlin
<1>3. Kind(Jws!JwsDotnet) /\ Kind(Jws!JwsRuby) /\ Kind(Jws!JwsPhp) /\ Kind(Jws!JwsElixir)
  BY DEF Jws!JwsDotnet, Jws!JwsRuby, Jws!JwsPhp, Jws!JwsElixir
<1> HIDE DEF Jws!JwsPython, Jws!JwsPlain
<1>4. Jws!JwsRunners[i] \in
        {Jws!JwsPython, Jws!JwsTypescript, Jws!JwsGo, Jws!JwsRust, Jws!JwsC, Jws!JwsJava,
         Jws!JwsKotlin, Jws!JwsDotnet, Jws!JwsRuby, Jws!JwsPhp, Jws!JwsElixir}
  BY DEF Jws!JwsRunners, Jws!JwsScala
<1> QED BY <1>1, <1>2, <1>3, <1>4

\* A case holds a key or a list of keys, no algorithm has the name that stands
\* for an exception, and crit lists nothing that jwcrypto understands: the oracle
\* refuses any crit, the gate only what it does not know.
JwsShape(c) ==
  /\ c.held # <<>> /\ Len(c.held) \in Nat /\ DOMAIN c.held = 1 .. Len(c.held)
  /\ c.jws.header.alg # "raises" /\ c.jws.header.crit \notin Jws!Understood

\* The first hit is one.
LEMMA FirstHit ==
  ASSUME NEW S \in SUBSET Nat, S # {}
  PROVE  (CHOOSE i \in S : \A j \in S : i <= j) \in S
<1> DEFINE R == {ss \in Nat \X Nat : ss[1] < ss[2]}
<1>1. OpToRel(<, Nat) = R
  BY DEF OpToRel
<1>2. IsWellFoundedOn(R, Nat)
  BY <1>1, NatLessThanWellFounded
<1> HIDE DEF R
<1>3. PICK i \in S : \A j \in S : ~ (<<j, i>> \in R)
  BY <1>2, WFMin
<1>4. ASSUME NEW j \in S PROVE i <= j
  <2>1. i \in Nat /\ j \in Nat
    OBVIOUS
  <2>2. j < i => <<j, i>> \in R
    BY <2>1 DEF R
  <2> QED BY <1>3, <2>1, <2>2
<1> QED BY <1>4

\* A key that is selected is one of those that the case holds.
LEMMA SelectedIsHeld ==
  ASSUME NEW p, NEW c, JwsShape(c), p.enforced = Jws!JwsRules
  PROVE  Jws!SelectKey(p, c) = Absent
           \/ \E i \in DOMAIN c.held : Jws!SelectKey(p, c) = c.held[i]
<1>1. CASE c.byKid /\ Jws!Hits(p, c) # {}
  <2>1. Jws!Hits(p, c) \in SUBSET Nat /\ Jws!Hits(p, c) \subseteq DOMAIN c.held
    BY DEF Jws!Hits, JwsShape
  <2>2. (CHOOSE i \in Jws!Hits(p, c) : \A j \in Jws!Hits(p, c) : i <= j) \in Jws!Hits(p, c)
    BY <1>1, <2>1, FirstHit
  <2> QED BY <1>1, <2>1, <2>2 DEF Jws!SelectKey
<1>2. CASE c.byKid /\ Jws!Hits(p, c) = {}
  BY <1>2 DEF Jws!SelectKey, Jws!JwsRules
<1>3. CASE ~c.byKid
  <2>1. 1 \in DOMAIN c.held
    BY DEF JwsShape
  <2> QED BY <1>3, <2>1 DEF Jws!SelectKey
<1> QED BY <1>1, <1>2, <1>3

\* On a case of the generator's kinds no runner ends with an exception.
LEMMA JwsNoneRaises ==
  ASSUME NEW p, NEW section, NEW c, JwsShape(c), Jws!JwsEmitted(section, c)
  PROVE  ~Jws!Raises(p, c)
<1>1. 1 \in DOMAIN c.held
  BY DEF JwsShape
<1>2. ~Jws!Unresolved(c) /\ ~Jws!MeetsUnresolved(p, c)
  BY <1>1 DEF Jws!Unresolved, Jws!MeetsUnresolved, Jws!JwsEmitted
<1>3. Jws!AlgOf(p, c.jws.header) # "raises" /\ c.jws.header.kid # Jws!Seven
  BY DEF Jws!AlgOf, Jws!JwsEmitted, JwsShape
<1> QED BY <1>2, <1>3 DEF Jws!Raises

\* On a case of the generator's kinds the twelve runners decide alike.
THEOREM JwsPortsAgree ==
  ASSUME NEW i \in DOMAIN Jws!JwsRunners, NEW section, NEW c, JwsShape(c),
         Jws!JwsEmitted(section, c)
  PROVE  Jws!JwsJudge(Jws!JwsRunners[i], section, c) =
           IF Jws!JwsCorrect(section, c) THEN "match" ELSE "mismatch"
<1> DEFINE p == Jws!JwsRunners[i]
           q == Jws!JwsPython
           jwk == Jws!SelectKey(q, c)
           alg == c.jws.header.alg
<1>1. /\ p.enforced = Jws!JwsRules
      /\ "object" \in p.headers /\ "not json" \notin p.headers
      /\ "canonical" \in p.encodings /\ "malformed" \notin p.encodings
  BY JwsRunnerKinds
<1>2. /\ q.enforced = Jws!JwsRules
      /\ "object" \in q.headers /\ "not json" \notin q.headers
      /\ "canonical" \in q.encodings /\ "malformed" \notin q.encodings
  BY DEF Jws!JwsPython
<1> HIDE DEF p, q
<1>3. Jws!ParsesCompact(p, c.jws) = Jws!ParsesCompact(q, c.jws)
  BY <1>1, <1>2 DEF Jws!ParsesCompact, Jws!JwsEmitted
<1>4. Jws!AlgOf(p, c.jws.header) = alg /\ Jws!AlgOf(q, c.jws.header) = alg
  BY DEF Jws!AlgOf, Jws!JwsEmitted
<1>5. Jws!SelectKey(p, c) = jwk
  <2>1. Jws!WantedKid(p, c) = Jws!WantedKid(q, c)
    BY DEF Jws!WantedKid, Jws!JwsEmitted
  <2>2. \A j \in DOMAIN c.held : Jws!KidOf(p, c.held[j]) = Jws!KidOf(q, c.held[j])
    BY DEF Jws!KidOf, Jws!JwsEmitted
  <2>3. Jws!Hits(p, c) = Jws!Hits(q, c)
    BY <2>1, <2>2 DEF Jws!Hits
  <2> QED BY <1>1, <1>2, <2>3 DEF Jws!SelectKey
<1>6. jwk = Absent \/ (jwk.coordinates = "full" /\ jwk.kty # "oct")
  <2>1. jwk = Absent \/ \E j \in DOMAIN c.held : jwk = c.held[j]
    BY <1>2, SelectedIsHeld
  <2> HIDE DEF jwk
  <2> QED BY <2>1 DEF Jws!JwsEmitted
<1>7. Jws!Selects(p, c) = Jws!Selects(q, c)
  BY <1>1, <1>2, <1>3, <1>4 DEF Jws!Selects
<1>8. ASSUME jwk # Absent, alg \in DOMAIN Jws!AlgKty, jwk.kty = Jws!AlgKty[alg]
      PROVE  Jws!SignatureOk(p, alg, jwk, c.jws) = Jws!SignatureOk(q, alg, jwk, c.jws)
  <2>1. alg # "HS256"
    BY <1>6, <1>8 DEF Jws!AlgKty
  <2> QED BY <1>6, <1>8, <2>1 DEF Jws!SignatureOk
<1> HIDE DEF jwk, alg
<1>9. Jws!Verdict(p, c) = Jws!Verdict(q, c)
  <2>1. Jws!Selects(q, c) => alg \in DOMAIN Jws!AlgKty
    BY <1>4 DEF Jws!Selects
  <2>2. "alg_none" \in Jws!JwsRules /\ "alg_key_type" \in Jws!JwsRules
    BY DEF Jws!JwsRules
  <2> QED BY <1>1, <1>2, <1>3, <1>4, <1>5, <1>7, <1>8, <2>1, <2>2 DEF Jws!Verdict, jwk
<1>10. ~Jws!Raises(p, c) /\ ~Jws!Raises(q, c)
  BY JwsNoneRaises
<1> QED BY <1>9, <1>10 DEF p, q, Jws!JwsJudge, Jws!JwsCorrect, Jws!JwsOracle

\* The texts in the material: algorithms and key names.
Texts ==
  {"RS256", "ES256", "EdDSA", "HS256", "PS256", "none", "raises", Jws!Listed,
   "jws-rsa-1", "jws-ec-1", "jws-ed25519-1", Jws!Seven, "payload",
   "urn:example:unknown", "b64", Cose!Listed}

\* The marker of what is not there is no text and no key; nor are it and the
\* marker of a crit that is no list any list.
AbsentIsApart == Absent \notin Texts /\ "kty" \notin DOMAIN Absent

ListsAreApart == 1 \notin DOMAIN Absent /\ 1 \notin DOMAIN NotAList

\* A token that verifies under a key: well formed, of an algorithm that is the
\* key's, and signed with it as it is.
JwsGenuine(token, jwk) ==
  /\ token.segments = 3 /\ token.header.form = "object" /\ token.payload # "not base64url"
  /\ token.header.alg # Absent /\ token.header.crit = Absent
  /\ token.header.alg \in DOMAIN Jws!AlgKty /\ jwk.kty = Jws!AlgKty[token.header.alg]
  /\ token.sig.encoding = "canonical" /\ token.sig.bytes = "as made"
  /\ token.sig.alg = token.header.alg /\ token.sig.by = jwk.key
  /\ token.sig.over = <<token.header, token.payload>>
  /\ token.header.alg = "ES256" => token.sig.width = 64 /\ jwk.point = "on curve"

JwsSound(c) == Jws!JwsCorrect("any", c)

JwsCase(token, held, byKid, expect) ==
  [jws |-> token, held |-> held, byKid |-> byKid, expect |-> expect]

\* What the oracle makes of a case whose key is this one.
LEMMA JwsVerdictOf ==
  ASSUME NEW c, NEW token, NEW jwk, c.jws = token, jwk # Absent,
         Jws!SelectKey(Jws!JwsPython, c) = jwk,
         token.header.alg # Jws!Listed, token.sig.encoding = "canonical"
  PROVE  Jws!Verdict(Jws!JwsPython, c) <=> JwsGenuine(token, jwk)
<1> DEFINE p == Jws!JwsPython
<1>1. /\ p.enforced = Jws!JwsRules /\ p.headers = {"object"}
      /\ p.encodings = {"canonical", "spare bits"} /\ p.hmac = TRUE /\ p.short = TRUE
  BY DEF Jws!JwsPython
<1>2. /\ "alg_none" \in p.enforced /\ "alg_key_type" \in p.enforced /\ "crit" \in p.enforced
  BY <1>1 DEF Jws!JwsRules
<1> HIDE DEF p
<1>3. Jws!SelectKey(p, c) = jwk
  BY DEF p
<1>4. Jws!AlgOf(p, token.header) = token.header.alg
  BY DEF Jws!AlgOf
<1>5. Jws!ParsesCompact(p, token) <=>
        /\ token.segments = 3 /\ token.header.form = "object"
        /\ token.header.alg # Absent /\ token.payload # "not base64url"
  BY <1>1 DEF Jws!ParsesCompact
<1>6. ASSUME token.header.alg = token.sig.alg
      PROVE  Jws!SignatureOk(p, token.header.alg, jwk, token) <=>
               /\ token.sig.by = jwk.key /\ token.sig.bytes = "as made"
               /\ token.sig.over = <<token.header, token.payload>>
               /\ token.header.alg = "ES256" =>
                    token.sig.width = 64 /\ jwk.point = "on curve"
  <2>1. p.hmac /\ p.short
    BY <1>1
  <2> QED BY <1>6, <2>1 DEF Jws!SignatureOk, Jws!SigningInput
<1>7. Jws!SignatureOk(p, token.header.alg, jwk, token) => token.header.alg = token.sig.alg
  BY DEF Jws!SignatureOk
<1>8. Jws!Selects(p, c) <=>
        /\ Jws!ParsesCompact(p, token) /\ token.header.crit = Absent
        /\ token.header.alg \in DOMAIN Jws!AlgKty
  BY <1>2, <1>4 DEF Jws!Selects
<1>9. Jws!Verdict(p, c) <=>
        /\ Jws!Selects(p, c) /\ jwk.kty = Jws!AlgKty[token.header.alg]
        /\ Jws!SignatureOk(p, token.header.alg, jwk, token)
  BY <1>2, <1>3, <1>4 DEF Jws!Verdict
<1>10. Jws!Verdict(p, c) <=> JwsGenuine(token, jwk)
  BY <1>5, <1>6, <1>7, <1>8, <1>9 DEF JwsGenuine
<1> QED BY <1>10 DEF p

\* A case of one key is sound if its expectation tells whether the token is genuine.
LEMMA JwsHeldSound ==
  ASSUME NEW token, NEW jwk, NEW expect \in BOOLEAN, jwk # Absent,
         token.header.alg \notin {Jws!Listed, "raises"}, token.sig.encoding = "canonical",
         expect <=> JwsGenuine(token, jwk)
  PROVE  JwsSound(JwsCase(token, <<jwk>>, FALSE, expect))
<1> DEFINE c == JwsCase(token, <<jwk>>, FALSE, expect)
           p == Jws!JwsPython
<1>1. /\ c.jws = token /\ c.held = <<jwk>> /\ c.byKid = FALSE /\ c.expect = expect
  BY DEF JwsCase
<1>2. /\ p.enforced = Jws!JwsRules /\ p.headers = {"object"}
      /\ p.encodings = {"canonical", "spare bits"} /\ p.lookup = "all"
      /\ p.kids = "unequal" /\ p.hmac = TRUE /\ p.short = TRUE
  BY DEF Jws!JwsPython
<1>3. /\ "alg_none" \in p.enforced /\ "alg_key_type" \in p.enforced /\ "crit" \in p.enforced
  BY <1>2 DEF Jws!JwsRules
<1> HIDE DEF c, p
<1>4. Jws!SelectKey(p, c) = jwk
  BY <1>1 DEF Jws!SelectKey
<1>5. Jws!AlgOf(p, token.header) = token.header.alg
  BY DEF Jws!AlgOf
<1>6. ~Jws!Raises(p, c)
  <2>1. ~Jws!Unresolved(c)
    <3>1. DOMAIN <<jwk>> = {1} /\ <<jwk>>[1] = jwk
      OBVIOUS
    <3> QED BY <1>1, <3>1 DEF Jws!Unresolved
  <2> QED BY <1>1, <1>2, <1>5, <2>1 DEF Jws!Raises
<1>7. Jws!Verdict(p, c) <=> JwsGenuine(token, jwk)
  BY <1>1, <1>4, JwsVerdictOf DEF p
<1>8. Jws!Verdict(p, c) \in BOOLEAN
  BY DEF Jws!Verdict
<1> QED BY <1>1, <1>6, <1>7, <1>8 DEF JwsSound, Jws!JwsCorrect, Jws!JwsOracle, p, c

\* A key set is searched for the kid.
LEMMA JwsKeysetSound ==
  ASSUME NEW token, NEW expect \in BOOLEAN, NEW jwk, NEW jwk2, NEW jwk3,
         jwk # Absent, jwk2 # Absent, jwk3 # Absent,
         jwk.kid # Absent, jwk2.kid # Absent, jwk3.kid # Absent,
         token.header.alg \notin {Jws!Listed, "raises"}, token.header.kid # Jws!Seven,
         token.sig.encoding = "canonical",
         token.header.kid # jwk2.kid, token.header.kid # jwk3.kid,
         expect <=> token.header.kid = jwk.kid /\ JwsGenuine(token, jwk)
  PROVE  JwsSound(JwsCase(token, <<jwk, jwk2, jwk3>>, TRUE, expect))
<1> DEFINE held == <<jwk, jwk2, jwk3>>
           c == JwsCase(token, held, TRUE, expect)
           p == Jws!JwsPython
<1>1. /\ c.jws = token /\ c.held = held /\ c.byKid = TRUE /\ c.expect = expect
  BY DEF JwsCase
<1>2. /\ p.enforced = Jws!JwsRules /\ p.headers = {"object"}
      /\ p.encodings = {"canonical", "spare bits"} /\ p.lookup = "all"
      /\ p.kids = "unequal" /\ p.hmac = TRUE /\ p.short = TRUE
  BY DEF Jws!JwsPython
<1>3. /\ "alg_none" \in p.enforced /\ "alg_key_type" \in p.enforced /\ "crit" \in p.enforced
      /\ "kid" \in p.enforced
  BY <1>2 DEF Jws!JwsRules
<1>4. DOMAIN held = 1 .. 3
  OBVIOUS
<1>5. /\ held[1] = jwk /\ held[2] = jwk2 /\ held[3] = jwk3
  OBVIOUS
<1> HIDE DEF c, p, held
<1>6. \A i \in 1 .. 3 : held[i] # Absent /\ held[i].kid # Absent
  BY <1>5
<1>7. Jws!WantedKid(p, c) = token.header.kid
  BY <1>1 DEF Jws!WantedKid
<1>8. \A i \in 1 .. 3 : Jws!KidOf(p, held[i]) = held[i].kid
  BY <1>6 DEF Jws!KidOf
<1>9. Jws!AlgOf(p, token.header) = token.header.alg
  BY DEF Jws!AlgOf
<1>10. ~Jws!Raises(p, c)
  BY <1>1, <1>2, <1>4, <1>6, <1>9 DEF Jws!Raises, Jws!Unresolved
<1>11. CASE token.header.kid = jwk.kid
  <2>1. Jws!Hits(p, c) = {1}
    <3>1. \A i \in 1 .. 3 : held[i].kid = token.header.kid <=> i = 1
      BY <1>5, <1>11
    <3>2. token.header.kid # Absent
      BY <1>11
    <3> QED BY <1>1, <1>4, <1>7, <1>8, <3>1, <3>2 DEF Jws!Hits
  <2>2. (CHOOSE i \in {1} : \A j \in {1} : i <= j) = 1
    OBVIOUS
  <2>3. Jws!SelectKey(p, c) = jwk
    BY <1>1, <1>5, <2>1, <2>2 DEF Jws!SelectKey
  <2>4. Jws!Verdict(p, c) <=> JwsGenuine(token, jwk)
    BY <1>1, <2>3, JwsVerdictOf DEF p
  <2>5. Jws!Verdict(p, c) \in BOOLEAN
    BY DEF Jws!Verdict
  <2> QED BY <1>1, <1>10, <1>11, <2>4, <2>5 DEF JwsSound, Jws!JwsCorrect, Jws!JwsOracle, p, c, held
<1>12. CASE token.header.kid # jwk.kid
  <2>1. Jws!Hits(p, c) = {}
    <3>1. \A i \in 1 .. 3 : held[i].kid # token.header.kid
      BY <1>5, <1>12
    <3> QED BY <1>1, <1>4, <1>7, <1>8, <3>1 DEF Jws!Hits
  <2>2. Jws!SelectKey(p, c) = Absent
    BY <1>1, <1>3, <2>1 DEF Jws!SelectKey
  <2>3. Jws!Verdict(p, c) = FALSE
    BY <1>1, <1>3, <2>2 DEF Jws!Verdict
  <2> QED BY <1>1, <1>10, <1>12, <2>3 DEF JwsSound, Jws!JwsCorrect, Jws!JwsOracle, p, c, held
<1> QED BY <1>11, <1>12

\* A marker is none of the texts in a token, and a key is no marker.
LEMMA JwsMarkers ==
  ASSUME AbsentIsApart
  PROVE  /\ \A text \in Texts : text # Absent
         /\ \A kty, kid, key : Jws!Jwk(kty, kid, key) # Absent
         /\ \A kty, kid, key : [Jws!Jwk(kty, kid, key) EXCEPT !.point = "off curve"] # Absent
<1>1. \A kty, kid, key : "kty" \in DOMAIN Jws!Jwk(kty, kid, key)
  BY DEF Jws!Jwk
<1>2. \A kty, kid, key :
        "kty" \in DOMAIN [Jws!Jwk(kty, kid, key) EXCEPT !.point = "off curve"]
  BY DEF Jws!Jwk
<1> QED BY <1>1, <1>2 DEF AbsentIsApart

\* What a token is, as it was made.
JwsMade(token, alg, kid, by) ==
  /\ token.segments = 3 /\ token.payload = "payload"
  /\ token.header.form = "object" /\ token.header.alg = alg
  /\ token.header.kid = kid /\ token.header.crit = Absent
  /\ token.sig.alg = alg /\ token.sig.by = by
  /\ token.sig.over = <<token.header, "payload">>
  /\ token.sig.width = Jws!Widths[alg] /\ token.sig.bytes = "as made"
  /\ token.sig.encoding = "canonical"

\* A token as the generator makes it, for a key, has the fields of one that is genuine.
LEMMA JwsTokenMade ==
  ASSUME NEW alg, NEW kid, NEW by
  PROVE  JwsMade(Jws!Token(alg, kid, by), alg, kid, by)
BY DEF Jws!Token, JwsMade

\* A token with the key that it was signed with.
LEMMA JwsTokenGenuine ==
  ASSUME AbsentIsApart, NEW alg \in DOMAIN Jws!AlgKty, NEW kid, NEW by,
         NEW jwk, jwk.key = by, jwk.kty = Jws!AlgKty[alg], jwk.point = "on curve"
  PROVE  JwsGenuine(Jws!Token(alg, kid, by), jwk)
<1>1. alg # Absent
  BY DEF AbsentIsApart, Texts, Jws!AlgKty
<1>2. alg = "ES256" => Jws!Widths[alg] = 64
  BY DEF Jws!Widths
<1> DEFINE token == Jws!Token(alg, kid, by)
<1>3. JwsMade(token, alg, kid, by)
  BY JwsTokenMade
<1> HIDE DEF token
<1>4. JwsGenuine(token, jwk)
  BY <1>1, <1>2, <1>3 DEF JwsGenuine, JwsMade
<1> QED BY <1>4 DEF token

\* A token that verifies under no key, of the kinds that the generator makes by
\* its surgery.
JwsBroken(token) ==
  /\ token.sig.encoding = "canonical"
  /\ token.header.alg \in {"RS256", "ES256", "EdDSA", "HS256", "none", Absent}
  /\ \A jwk : ~JwsGenuine(token, jwk)

\* The corpus of any material: every expectation is the oracle's.
LEMMA JwsCorpusSound ==
  ASSUME AbsentIsApart, NEW k, NEW n
  PROVE  LET corpus == Jws!JwsCorpus(Jws!JwsMaterial(k, n)) IN
           /\ DOMAIN corpus = {Jws!JwsSections[i] : i \in DOMAIN Jws!JwsSections}
           /\ \A section \in DOMAIN corpus : \A i \in DOMAIN corpus[section] :
                JwsSound(corpus[section][i])
           /\ corpus.jws_alg_none[1] =
                JwsCase(Jws!Unsigned([Jws!Token("RS256", "jws-rsa-1", <<"rsa", k>>).header
                                        EXCEPT !.alg = "none"]),
                        <<Jws!Jwk("RSA", "jws-rsa-1", <<"rsa", k>>)>>, FALSE, FALSE)
           /\ corpus.jws_alg_confusion[2] =
                JwsCase(Jws!Token("HS256", "jws-rsa-1", <<"rsa", k>>),
                        <<Jws!Jwk("RSA", "jws-rsa-1", <<"rsa", k>>)>>, FALSE, FALSE)
           /\ 1 \in DOMAIN corpus.jws_alg_none /\ 2 \in DOMAIN corpus.jws_alg_confusion
<1> DEFINE rsa == Jws!Jwk("RSA", "jws-rsa-1", <<"rsa", k>>)
           ec == Jws!Jwk("EC", "jws-ec-1", <<"ec", k>>)
           okp == Jws!Jwk("OKP", "jws-ed25519-1", <<"ed25519", k>>)
           wrongRsa == Jws!Jwk("RSA", "jws-rsa-1", <<"wrong rsa", n>>)
           wrongEc == Jws!Jwk("EC", "jws-ec-1", <<"wrong ec", n>>)
           wrongOkp == Jws!Jwk("OKP", "jws-ed25519-1", <<"wrong ed25519", n>>)
           offEc == [ec EXCEPT !.point = "off curve"]
           rs == Jws!Token("RS256", "jws-rsa-1", <<"rsa", k>>)
           es == Jws!Token("ES256", "jws-ec-1", <<"ec", k>>)
           ed == Jws!Token("EdDSA", "jws-ed25519-1", <<"ed25519", k>>)
           hs == Jws!Token("HS256", "jws-rsa-1", <<"rsa", k>>)
           Held(token, jwk, expect) == JwsCase(token, <<jwk>>, FALSE, expect)
           Keyset(token, expect) == JwsCase(token, <<rsa, ec, okp>>, TRUE, expect)
           unsigned(alg) == Jws!Unsigned([rs.header EXCEPT !.alg = alg])
           two == [rs EXCEPT !.segments = 2]
           four == [rs EXCEPT !.segments = 4]
           garbled == [rs EXCEPT !.payload = "not base64url"]
           bare == unsigned(Absent)
           none == unsigned("none")
           empty == [none EXCEPT !.sig.width = 0]
           parse == <<Held(rs, rsa, TRUE), Held(two, rsa, FALSE), Held(four, rsa, FALSE),
                      Held(garbled, rsa, FALSE),
                      Held(Jws!RetypeHeader(rs, "form", "not json"), rsa, FALSE),
                      Held(bare, rsa, FALSE)>>
           algNone == <<Held(none, rsa, FALSE), Held(empty, rsa, FALSE)>>
           confusion == <<Held(rs, rsa, TRUE), Held(hs, rsa, FALSE), Held(rs, ec, FALSE),
                          Held(es, rsa, FALSE)>>
           rs256 == <<Held(rs, rsa, TRUE), Held(Jws!TamperSig(rs), rsa, FALSE),
                      Held(Jws!SwapPayload(rs), rsa, FALSE), Held(rs, wrongRsa, FALSE)>>
           es256 == <<Held(es, ec, TRUE), Held(Jws!TamperSig(es), ec, FALSE),
                      Held(Jws!TruncateSig(es), ec, FALSE), Held(es, offEc, FALSE),
                      Held(es, wrongEc, FALSE)>>
           eddsa == <<Held(ed, okp, TRUE), Held(Jws!TamperSig(ed), okp, FALSE),
                      Held(ed, wrongOkp, FALSE)>>
           crit == <<Held(Jws!RetypeHeader(rs, "crit", "urn:example:unknown"), rsa, FALSE),
                     Held(Jws!RetypeHeader(rs, "crit", "b64"), rsa, FALSE)>>
           kid == <<Keyset(rs, TRUE), Keyset(Jws!RetypeHeader(rs, "kid", "jws-unknown-9"), FALSE),
                    Keyset(Jws!RetypeHeader(rs, "kid", Absent), FALSE)>>
<1> HIDE DEF rsa, ec, okp, wrongRsa, wrongEc, wrongOkp, offEc, rs, es, ed, hs, two, four,
             garbled, bare, none, empty
<1>1. Jws!JwsCorpus(Jws!JwsMaterial(k, n)) =
        [jws_compact_parse |-> parse, jws_alg_none |-> algNone, jws_alg_confusion |-> confusion,
         jws_rs256_verify |-> rs256, jws_es256_verify |-> es256, jws_eddsa_verify |-> eddsa,
         jws_crit |-> crit, jws_kid |-> kid]
  <2> DEFINE m == Jws!JwsMaterial(k, n)
  <2>1. /\ m.keys["rsa"] = rsa /\ m.keys["ec"] = ec /\ m.keys["ed25519"] = okp
        /\ m.keys["wrong_rsa"] = wrongRsa /\ m.keys["wrong_ec"] = wrongEc
        /\ m.keys["wrong_ed25519"] = wrongOkp /\ m.keys["offcurve_ec"] = offEc
        /\ m.tokens.rs256 = rs /\ m.tokens.es256 = es /\ m.tokens.eddsa = ed
        /\ m.tokens.hs256_confusion = hs
    BY DEF Jws!JwsMaterial, rsa, ec, okp, wrongRsa, wrongEc, wrongOkp, offEc, rs, es, ed, hs
  <2> HIDE DEF m
  <2> QED BY <2>1 DEF Jws!JwsCorpus, JwsCase, m, two, four, garbled, bare, none, empty
<1>2. /\ rsa.kty = "RSA" /\ rsa.key = <<"rsa", k>> /\ rsa.point = "on curve"
      /\ ec.kty = "EC" /\ ec.key = <<"ec", k>> /\ ec.point = "on curve"
      /\ okp.kty = "OKP" /\ okp.key = <<"ed25519", k>> /\ okp.point = "on curve"
      /\ wrongRsa.key = <<"wrong rsa", n>> /\ wrongEc.key = <<"wrong ec", n>>
      /\ wrongOkp.key = <<"wrong ed25519", n>> /\ offEc.point = "off curve"
      /\ rsa.kid = "jws-rsa-1" /\ ec.kid = "jws-ec-1" /\ okp.kid = "jws-ed25519-1"
  BY DEF Jws!Jwk, rsa, ec, okp, wrongRsa, wrongEc, wrongOkp, offEc
<1>3. /\ rsa # Absent /\ ec # Absent /\ okp # Absent /\ wrongRsa # Absent
      /\ wrongEc # Absent /\ wrongOkp # Absent /\ offEc # Absent
  BY JwsMarkers DEF rsa, ec, okp, wrongRsa, wrongEc, wrongOkp, offEc
<1> HIDE DEF Held, Keyset
\* Tokens with their keys.
<1>4. JwsGenuine(rs, rsa) /\ JwsGenuine(es, ec) /\ JwsGenuine(ed, okp)
  <2>1. /\ Jws!AlgKty["RS256"] = "RSA" /\ Jws!AlgKty["ES256"] = "EC"
        /\ Jws!AlgKty["EdDSA"] = "OKP"
        /\ "RS256" \in DOMAIN Jws!AlgKty /\ "ES256" \in DOMAIN Jws!AlgKty
        /\ "EdDSA" \in DOMAIN Jws!AlgKty
    BY DEF Jws!AlgKty
  <2>2. JwsGenuine(rs, rsa)
    BY <1>2, <2>1, JwsTokenGenuine DEF rs
  <2>3. JwsGenuine(es, ec)
    BY <1>2, <2>1, JwsTokenGenuine DEF es
  <2>4. JwsGenuine(ed, okp)
    BY <1>2, <2>1, JwsTokenGenuine DEF ed
  <2> QED BY <2>2, <2>3, <2>4
<1>5. /\ JwsMade(rs, "RS256", "jws-rsa-1", <<"rsa", k>>)
      /\ JwsMade(es, "ES256", "jws-ec-1", <<"ec", k>>)
      /\ JwsMade(ed, "EdDSA", "jws-ed25519-1", <<"ed25519", k>>)
      /\ JwsMade(hs, "HS256", "jws-rsa-1", <<"rsa", k>>)
  BY JwsTokenMade DEF rs, es, ed, hs
<1>6. /\ rs.header.alg = "RS256" /\ rs.sig.by = <<"rsa", k>> /\ rs.header.kid = "jws-rsa-1"
      /\ rs.sig.encoding = "canonical" /\ rs.payload = "payload"
      /\ rs.sig.over = <<rs.header, "payload">>
  BY <1>5 DEF JwsMade
<1>7. /\ es.header.alg = "ES256" /\ es.sig.by = <<"ec", k>> /\ es.sig.encoding = "canonical"
      /\ ed.header.alg = "EdDSA" /\ ed.sig.by = <<"ed25519", k>>
      /\ ed.sig.encoding = "canonical"
  BY <1>5 DEF JwsMade
<1>8. hs.header.alg = "HS256" /\ hs.sig.encoding = "canonical"
  BY <1>5 DEF JwsMade
<1>9. /\ "raises" # Absent /\ Jws!Listed # Absent
      /\ \A alg \in {"RS256", "ES256", "EdDSA", "HS256", "none"} :
           alg \notin {Jws!Listed, "raises"}
  BY DEF AbsentIsApart, Texts, Jws!Listed
<1>10. ASSUME NEW token, NEW jwk, jwk # Absent, token.sig.encoding = "canonical",
              token.header.alg \in {"RS256", "ES256", "EdDSA", "HS256", "none", Absent}
       PROVE  /\ JwsGenuine(token, jwk) => JwsSound(Held(token, jwk, TRUE))
              /\ ~JwsGenuine(token, jwk) => JwsSound(Held(token, jwk, FALSE))
  <2>1. token.header.alg \notin {Jws!Listed, "raises"}
    BY <1>9, <1>10
  <2> QED BY <1>10, <2>1, JwsHeldSound DEF Held
<1>11. ASSUME NEW token, NEW jwk, jwk # Absent, JwsBroken(token)
       PROVE  JwsSound(Held(token, jwk, FALSE))
  BY <1>10, <1>11 DEF JwsBroken
\* What the generator's surgery breaks.
<1>12. JwsBroken(two) /\ JwsBroken(four) /\ JwsBroken(garbled)
  <2>1. /\ two.segments # 3 /\ four.segments # 3 /\ garbled.payload = "not base64url"
        /\ two.header = rs.header /\ four.header = rs.header /\ garbled.header = rs.header
        /\ two.sig = rs.sig /\ four.sig = rs.sig /\ garbled.sig = rs.sig
    BY DEF two, four, garbled, rs, Jws!Token
  <2>2. \A jwk : ~JwsGenuine(two, jwk)
    BY <2>1 DEF JwsGenuine
  <2>3. \A jwk : ~JwsGenuine(four, jwk)
    BY <2>1 DEF JwsGenuine
  <2>4. \A jwk : ~JwsGenuine(garbled, jwk)
    BY <2>1 DEF JwsGenuine
  <2> QED BY <1>6, <2>1, <2>2, <2>3, <2>4 DEF JwsBroken
<1>13. JwsBroken(Jws!RetypeHeader(rs, "form", "not json"))
  BY DEF JwsBroken, JwsGenuine, rs, Jws!Token, Jws!RetypeHeader
<1>14. JwsBroken(bare) /\ JwsBroken(none) /\ JwsBroken(empty)
  <2>1. /\ bare.header.alg = Absent /\ none.header.alg = "none" /\ empty.header.alg = "none"
        /\ bare.sig.encoding = "canonical" /\ none.sig.encoding = "canonical"
        /\ empty.sig.encoding = "canonical"
    BY DEF rs, bare, none, empty, Jws!Token, Jws!Unsigned
  <2>2. "none" \notin DOMAIN Jws!AlgKty
    BY DEF Jws!AlgKty
  <2> QED BY <2>1, <2>2 DEF JwsBroken, JwsGenuine
<1>15. /\ JwsBroken(Jws!TamperSig(rs)) /\ JwsBroken(Jws!TamperSig(es))
       /\ JwsBroken(Jws!TamperSig(ed)) /\ JwsBroken(Jws!TruncateSig(es))
  BY DEF JwsBroken, JwsGenuine, rs, es, ed, Jws!Token, Jws!TamperSig, Jws!TruncateSig
<1>16. JwsBroken(Jws!SwapPayload(rs))
  BY DEF JwsBroken, JwsGenuine, rs, Jws!Token, Jws!SwapPayload
<1>17. /\ JwsBroken(Jws!RetypeHeader(rs, "crit", "urn:example:unknown"))
       /\ JwsBroken(Jws!RetypeHeader(rs, "crit", "b64"))
  BY DEF JwsBroken, JwsGenuine, rs, Jws!Token, Jws!RetypeHeader, AbsentIsApart, Texts
<1>18. \A i \in DOMAIN parse : JwsSound(parse[i])
  <2>1. JwsSound(Held(rs, rsa, TRUE))
    BY <1>3, <1>4, <1>6, <1>10
  <2>2. /\ JwsSound(parse[2]) /\ JwsSound(parse[3]) /\ JwsSound(parse[4])
        /\ JwsSound(parse[5]) /\ JwsSound(parse[6])
    BY <1>3, <1>11, <1>12, <1>13, <1>14
  <2>3. JwsSound(parse[1])
    BY <2>1
  <2>4. DOMAIN parse = 1 .. 6
    OBVIOUS
  <2> HIDE DEF parse
  <2> QED BY <2>2, <2>3, <2>4
<1>19. \A i \in DOMAIN algNone : JwsSound(algNone[i])
  <2>1. JwsSound(Held(none, rsa, FALSE)) /\ JwsSound(Held(empty, rsa, FALSE))
    BY <1>3, <1>11, <1>14
  <2>2. DOMAIN algNone = 1 .. 2
    OBVIOUS
  <2>3. JwsSound(algNone[1]) /\ JwsSound(algNone[2])
    BY <2>1
  <2> HIDE DEF algNone
  <2> QED BY <2>2, <2>3
<1>20. \A i \in DOMAIN confusion : JwsSound(confusion[i])
  <2>1. JwsSound(Held(rs, rsa, TRUE))
    BY <1>3, <1>4, <1>6, <1>10
  <2>2. ~JwsGenuine(hs, rsa) /\ ~JwsGenuine(rs, ec) /\ ~JwsGenuine(es, rsa)
    BY <1>2, <1>6, <1>7, <1>8 DEF JwsGenuine, Jws!AlgKty
  <2>3. /\ JwsSound(Held(hs, rsa, FALSE)) /\ JwsSound(Held(rs, ec, FALSE))
        /\ JwsSound(Held(es, rsa, FALSE))
    BY <1>3, <1>6, <1>7, <1>8, <1>10, <2>2
  <2>4. DOMAIN confusion = 1 .. 4
    OBVIOUS
  <2>5. /\ JwsSound(confusion[1]) /\ JwsSound(confusion[2]) /\ JwsSound(confusion[3])
        /\ JwsSound(confusion[4])
    BY <2>1, <2>3
  <2> HIDE DEF confusion
  <2> QED BY <2>4, <2>5
<1>21. \A i \in DOMAIN rs256 : JwsSound(rs256[i])
  <2>1. JwsSound(Held(rs, rsa, TRUE))
    BY <1>3, <1>4, <1>6, <1>10
  <2>2. ~JwsGenuine(rs, wrongRsa)
    <3>1. <<"rsa", k>> # <<"wrong rsa", n>>
      OBVIOUS
    <3> QED BY <1>2, <1>6, <3>1 DEF JwsGenuine
  <2>3. /\ JwsSound(Held(Jws!TamperSig(rs), rsa, FALSE))
        /\ JwsSound(Held(Jws!SwapPayload(rs), rsa, FALSE))
    BY <1>3, <1>11, <1>15, <1>16
  <2>4. JwsSound(Held(rs, wrongRsa, FALSE))
    BY <1>3, <1>6, <1>10, <2>2
  <2>5. DOMAIN rs256 = 1 .. 4
    OBVIOUS
  <2>6. /\ JwsSound(rs256[1]) /\ JwsSound(rs256[2]) /\ JwsSound(rs256[3])
        /\ JwsSound(rs256[4])
    BY <2>1, <2>3, <2>4
  <2> HIDE DEF rs256
  <2> QED BY <2>5, <2>6
<1>22. \A i \in DOMAIN es256 : JwsSound(es256[i])
  <2>1. JwsSound(Held(es, ec, TRUE))
    BY <1>3, <1>4, <1>7, <1>10
  <2>2. ~JwsGenuine(es, wrongEc) /\ ~JwsGenuine(es, offEc)
    <3>1. <<"ec", k>> # <<"wrong ec", n>>
      OBVIOUS
    <3> QED BY <1>2, <1>7, <3>1 DEF JwsGenuine
  <2>3. /\ JwsSound(Held(Jws!TamperSig(es), ec, FALSE))
        /\ JwsSound(Held(Jws!TruncateSig(es), ec, FALSE))
    BY <1>3, <1>11, <1>15
  <2>4. JwsSound(Held(es, offEc, FALSE)) /\ JwsSound(Held(es, wrongEc, FALSE))
    BY <1>3, <1>7, <1>10, <2>2
  <2>5. DOMAIN es256 = 1 .. 5
    OBVIOUS
  <2>6. /\ JwsSound(es256[1]) /\ JwsSound(es256[2]) /\ JwsSound(es256[3])
        /\ JwsSound(es256[4]) /\ JwsSound(es256[5])
    BY <2>1, <2>3, <2>4
  <2> HIDE DEF es256
  <2> QED BY <2>5, <2>6
<1>23. \A i \in DOMAIN eddsa : JwsSound(eddsa[i])
  <2>1. JwsSound(Held(ed, okp, TRUE))
    BY <1>3, <1>4, <1>7, <1>10
  <2>2. ~JwsGenuine(ed, wrongOkp)
    <3>1. <<"ed25519", k>> # <<"wrong ed25519", n>>
      OBVIOUS
    <3> QED BY <1>2, <1>7, <3>1 DEF JwsGenuine
  <2>3. JwsSound(Held(Jws!TamperSig(ed), okp, FALSE))
    BY <1>3, <1>11, <1>15
  <2>4. JwsSound(Held(ed, wrongOkp, FALSE))
    BY <1>3, <1>7, <1>10, <2>2
  <2>5. DOMAIN eddsa = 1 .. 3
    OBVIOUS
  <2>6. JwsSound(eddsa[1]) /\ JwsSound(eddsa[2]) /\ JwsSound(eddsa[3])
    BY <2>1, <2>3, <2>4
  <2> HIDE DEF eddsa
  <2> QED BY <2>5, <2>6
<1>24. \A i \in DOMAIN crit : JwsSound(crit[i])
  <2>1. /\ JwsSound(Held(Jws!RetypeHeader(rs, "crit", "urn:example:unknown"), rsa, FALSE))
        /\ JwsSound(Held(Jws!RetypeHeader(rs, "crit", "b64"), rsa, FALSE))
    BY <1>3, <1>11, <1>17
  <2>2. DOMAIN crit = 1 .. 2
    OBVIOUS
  <2>3. JwsSound(crit[1]) /\ JwsSound(crit[2])
    BY <2>1
  <2> HIDE DEF crit
  <2> QED BY <2>2, <2>3
<1>25. \A i \in DOMAIN kid : JwsSound(kid[i])
  <2> DEFINE unknown == Jws!RetypeHeader(rs, "kid", "jws-unknown-9")
             unnamed == Jws!RetypeHeader(rs, "kid", Absent)
  <2>1. /\ unknown.header.kid = "jws-unknown-9" /\ unnamed.header.kid = Absent
        /\ unknown.header.alg = "RS256" /\ unnamed.header.alg = "RS256"
        /\ unknown.sig.encoding = "canonical" /\ unnamed.sig.encoding = "canonical"
    BY DEF rs, Jws!Token, Jws!RetypeHeader
  <2>2. /\ Absent # Jws!Seven /\ "jws-rsa-1" # Jws!Seven /\ "jws-unknown-9" # Jws!Seven
        /\ "jws-rsa-1" # Absent /\ "jws-ec-1" # Absent /\ "jws-ed25519-1" # Absent
    BY DEF AbsentIsApart, Texts, Jws!Seven
  <2>3. "RS256" \notin {Jws!Listed, "raises"}
    BY <1>9
  <2> HIDE DEF unknown, unnamed
  <2>4. JwsSound(Keyset(rs, TRUE))
    BY <1>2, <1>3, <1>4, <1>6, <2>2, <2>3, JwsKeysetSound DEF Keyset
  <2>5. JwsSound(Keyset(unknown, FALSE))
    BY <1>2, <1>3, <2>1, <2>2, <2>3, JwsKeysetSound DEF Keyset
  <2>6. JwsSound(Keyset(unnamed, FALSE))
    BY <1>2, <1>3, <2>1, <2>2, <2>3, JwsKeysetSound DEF Keyset
  <2>7. DOMAIN kid = 1 .. 3
    OBVIOUS
  <2>8. JwsSound(kid[1]) /\ JwsSound(kid[2]) /\ JwsSound(kid[3])
    BY <2>4, <2>5, <2>6 DEF unknown, unnamed
  <2> HIDE DEF kid
  <2> QED BY <2>7, <2>8
<1> DEFINE corpus == Jws!JwsCorpus(Jws!JwsMaterial(k, n))
<1>26. /\ algNone[1] = JwsCase(Jws!Unsigned([rs.header EXCEPT !.alg = "none"]), <<rsa>>, FALSE, FALSE)
       /\ confusion[2] = JwsCase(hs, <<rsa>>, FALSE, FALSE)
       /\ 1 \in DOMAIN algNone /\ 2 \in DOMAIN confusion
  BY DEF Held, none
<1> HIDE DEF parse, algNone, confusion, rs256, es256, eddsa, crit, kid
<1>27. /\ corpus.jws_compact_parse = parse /\ corpus.jws_alg_none = algNone
       /\ corpus.jws_alg_confusion = confusion /\ corpus.jws_rs256_verify = rs256
       /\ corpus.jws_es256_verify = es256 /\ corpus.jws_eddsa_verify = eddsa
       /\ corpus.jws_crit = crit /\ corpus.jws_kid = kid
       /\ DOMAIN corpus = {"jws_compact_parse", "jws_alg_none", "jws_alg_confusion",
                           "jws_rs256_verify", "jws_es256_verify", "jws_eddsa_verify",
                           "jws_crit", "jws_kid"}
  BY <1>1
<1>28. DOMAIN corpus = {Jws!JwsSections[i] : i \in DOMAIN Jws!JwsSections}
  <2>1. DOMAIN Jws!JwsSections = 1 .. 8
    BY DEF Jws!JwsSections
  <2> QED BY <1>27, <2>1 DEF Jws!JwsSections
<1> HIDE DEF corpus
<1>29. \A section \in DOMAIN corpus : \A i \in DOMAIN corpus[section] :
         JwsSound(corpus[section][i])
  BY <1>18, <1>19, <1>20, <1>21, <1>22, <1>23, <1>24, <1>25, <1>27
<1> QED BY <1>26, <1>27, <1>28, <1>29 DEF corpus, rs, hs, rsa

-----------------------------------------------------------------------------
(* COSE_Sign1.                                                              *)

\* How the generator's data and protected headers are encoded.
PlainEncodings == {"canonical", "long integer", "indefinite", "unsorted", "empty"}

\* What the runners have in common: their rules, plain hexadecimal, and of the
\* encodings the generator writes the canonical one alone.
CoseOrdinary(p) ==
  /\ p.enforced = Cose!CoseRules
  /\ p.missing = "empty" /\ p.unread \in {"fail", "empty"}
  /\ "plain" \in p.texts.message /\ "plain" \in p.texts.datum
  /\ "cbor" \in p.decodes
  /\ p.canonical \cap PlainEncodings = {"canonical"}

\* The twelve runners of COSE are ordinary.
LEMMA CoseRunnersAreOrdinary ==
  ASSUME NEW i \in DOMAIN Cose!CoseRunners
  PROVE  CoseOrdinary(Cose!CoseRunners[i])
<1> USE DEF CoseOrdinary, PlainEncodings, Cose!Texts, Cose!AnyCase
<1>1. CoseOrdinary(Cose!CosePython) /\ CoseOrdinary(Cose!CosePlain)
  BY DEF Cose!CosePython, Cose!CosePlain
<1>2. CoseOrdinary(Cose!CoseTypescript) /\ CoseOrdinary(Cose!CoseGo)
  BY DEF Cose!CosePython, Cose!CosePlain, Cose!CoseTypescript, Cose!CoseGo
<1>3. CoseOrdinary(Cose!CoseRust) /\ CoseOrdinary(Cose!CoseC)
  BY DEF Cose!CosePython, Cose!CosePlain, Cose!CoseRust, Cose!CoseC
<1>4. CoseOrdinary(Cose!CoseJava) /\ CoseOrdinary(Cose!CoseScala)
  BY DEF Cose!CosePython, Cose!CosePlain, Cose!CoseJava, Cose!CoseScala
<1>5. CoseOrdinary(Cose!CoseDotnet) /\ CoseOrdinary(Cose!CoseRuby)
  BY DEF Cose!CosePython, Cose!CosePlain, Cose!CoseDotnet, Cose!CoseRuby
<1>6. CoseOrdinary(Cose!CosePhp) /\ CoseOrdinary(Cose!CoseElixir)
  BY DEF Cose!CosePython, Cose!CosePlain, Cose!CosePhp, Cose!CoseElixir
<1>7. Cose!CoseRunners[i] \in
        {Cose!CosePython, Cose!CoseTypescript, Cose!CoseGo, Cose!CoseRust, Cose!CoseC,
         Cose!CoseJava, Cose!CoseScala, Cose!CoseDotnet, Cose!CoseRuby, Cose!CosePhp,
         Cose!CoseElixir}
  BY DEF Cose!CoseRunners, Cose!CoseKotlin
<1> HIDE DEF CoseOrdinary
<1> QED BY <1>1, <1>2, <1>3, <1>4, <1>5, <1>6, <1>7

\* Ordinary ports see the same structure in a message that the generator writes.
LEMMA CoseSameStructure ==
  ASSUME NEW p, NEW q, CoseOrdinary(p), CoseOrdinary(q),
         NEW m, m.bytes = "cbor", m.protected.encoding \in PlainEncodings
  PROVE  /\ Cose!AlgOf(p, m) = m.protected.alg
         /\ Cose!ReachesKey(p, m) = Cose!ReachesKey(q, m)
         /\ Cose!MeetsArray(p, m) = Cose!MeetsArray(q, m)
<1> USE DEF CoseOrdinary
<1>1. Cose!IsSign1(p, m) = Cose!IsSign1(q, m)
  BY DEF Cose!IsSign1
<1>2. Cose!Deterministic(p, m.protected.encoding) = Cose!Deterministic(q, m.protected.encoding)
  BY DEF Cose!Deterministic
<1>3. Cose!ParsesSign1(p, m) = Cose!ParsesSign1(q, m)
  BY <1>1, <1>2 DEF Cose!ParsesSign1
<1>4. Cose!PassesCrit(p, m) = Cose!PassesCrit(q, m)
  BY DEF Cose!PassesCrit
<1>5. Cose!AlgOf(p, m) = m.protected.alg /\ Cose!AlgOf(q, m) = m.protected.alg
  BY DEF Cose!AlgOf, Cose!CoseRules
<1>6. Cose!ReachesKey(p, m) = Cose!ReachesKey(q, m)
  BY <1>3, <1>4, <1>5 DEF Cose!ReachesKey
<1>7. Cose!MeetsArray(p, m) = Cose!MeetsArray(q, m)
  BY <1>3, <1>4 DEF Cose!MeetsArray
<1> QED BY <1>5, <1>6, <1>7

\* On a case of the generator's kinds the twelve runners decide alike.
THEOREM CosePortsAgree ==
  ASSUME NEW i \in DOMAIN Cose!CoseRunners, NEW section, NEW c,
         Cose!CoseEmitted(section, c)
  PROVE  Cose!CoseJudge(Cose!CoseRunners[i], section, c) =
           IF Cose!CoseCorrect(section, c) THEN "match" ELSE "mismatch"
<1> DEFINE p == Cose!CoseRunners[i]
           q == Cose!CosePython
<1>1. CoseOrdinary(p)
  BY CoseRunnersAreOrdinary
<1>2. CoseOrdinary(q)
  <2>1. 1 \in DOMAIN Cose!CoseRunners /\ Cose!CoseRunners[1] = Cose!CosePython
    BY DEF Cose!CoseRunners
  <2> QED BY <2>1, CoseRunnersAreOrdinary
<1> HIDE DEF p, q
<1>3. CASE section = "cose_deterministic_cbor"
  <2>1. c.text = "plain" /\ c.datum \in PlainEncodings
    BY <1>3 DEF Cose!CoseEmitted, PlainEncodings
  <2>2. ~Cose!CoseRaises(p, section, c) /\ ~Cose!CoseRaises(q, section, c)
    BY <1>1, <1>2, <1>3, <2>1 DEF CoseOrdinary, Cose!CoseRaises, Cose!DatumRaises, PlainEncodings
  <2>3. Cose!CoseVerdict(p, section, c) = Cose!CoseVerdict(q, section, c)
    <3>1. Cose!Deterministic(p, c.datum) = Cose!Deterministic(q, c.datum)
      BY <1>1, <1>2, <2>1 DEF CoseOrdinary, Cose!Deterministic
    <3> QED BY <1>1, <1>2, <1>3, <2>1, <3>1 DEF CoseOrdinary, Cose!CoseVerdict
  <2> QED BY <2>2, <2>3 DEF q, p, Cose!CoseJudge, Cose!CoseCorrect
<1>4. CASE section # "cose_deterministic_cbor"
  <2>1. /\ c.text = "plain" /\ c.key # Absent /\ c.key.material = "full"
        /\ c.message.bytes = "cbor" /\ c.message.protected.encoding \in PlainEncodings
        /\ c.message.sig.bytes # "zero in front" /\ ~Cose!MeetsArray(q, c.message)
    BY <1>4 DEF Cose!CoseEmitted, PlainEncodings, q
  <2>2. /\ Cose!AlgOf(p, c.message) = c.message.protected.alg
        /\ Cose!AlgOf(q, c.message) = c.message.protected.alg
        /\ Cose!ReachesKey(p, c.message) = Cose!ReachesKey(q, c.message)
        /\ Cose!MeetsArray(p, c.message) = Cose!MeetsArray(q, c.message)
    BY <1>1, <1>2, <2>1, CoseSameStructure
  <2>3. ~Cose!CoseRaises(p, section, c) /\ ~Cose!CoseRaises(q, section, c)
    BY <1>1, <1>2, <1>4, <2>1, <2>2
       DEF CoseOrdinary, Cose!CoseRaises, Cose!MessageRaises, PlainEncodings
  <2>4. \A alg : Cose!SigOk(p, alg, c.key, c.message) = Cose!SigOk(q, alg, c.key, c.message)
    BY <2>1 DEF Cose!SigOk
  <2>5. Cose!Accepts(p, c.message, c.key) = Cose!Accepts(q, c.message, c.key)
    BY <1>1, <1>2, <2>1, <2>2, <2>4 DEF CoseOrdinary, Cose!Accepts
  <2>6. Cose!CoseVerdict(p, section, c) = Cose!CoseVerdict(q, section, c)
    BY <1>1, <1>2, <1>4, <2>1, <2>5 DEF CoseOrdinary, Cose!CoseVerdict
  <2> QED BY <2>3, <2>6 DEF q, p, Cose!CoseJudge, Cose!CoseCorrect
<1> QED BY <1>3, <1>4

\* A message that verifies under a key: the array of four with an algorithm in
\* the protected header that is the key's, and signed with it as it is.
CoseGenuine(message, key) ==
  /\ message.protected.encoding = "empty" \/ message.protected.form = "map"
  /\ message.protected.crit \in {Absent, <<"alg">>}
  /\ message.protected.alg \in DOMAIN Cose!KtyOf
  /\ key.kty = Cose!KtyOf[message.protected.alg]
  /\ message.sig.alg = message.protected.alg /\ message.sig.by = key.key
  /\ message.sig.over = Cose!SigStructure(message) /\ message.sig.bytes = "as made"
  /\ message.protected.alg = "ES256" =>
       message.sig.width = 64 /\ key.point = "on curve"

\* What the tool signs, with another signature perhaps.
CoseWhole(message) ==
  /\ message.bytes = "cbor" /\ message.tag = 18 /\ message.fields = 4
  /\ message.types = "right" /\ message.protected.encoding \in {"canonical", "empty"}
  /\ message.protected.crit \in {Absent, <<"alg">>, <<"unregistered">>}
  /\ message.protected.alg \in {Absent, "ES256", "EdDSA", "PS256"}
  /\ message.sig.bytes # "zero in front"

CoseCase(message, key, expect) ==
  [text |-> "plain", message |-> message, key |-> key, expect |-> expect]

\* Its crit is a list of registered labels or of an unregistered one.
LEMMA CoseCrits ==
  ASSUME ListsAreApart
  PROVE  /\ <<"alg">> # Absent /\ <<"unregistered">> # Absent
         /\ Cose!CritHonored(<<"alg">>) /\ ~Cose!CritHonored(<<"unregistered">>)
<1>1. /\ DOMAIN <<"alg">> = {1} /\ DOMAIN <<"unregistered">> = {1}
      /\ <<"alg">>[1] = "alg" /\ <<"unregistered">>[1] = "unregistered"
  OBVIOUS
<1>2. <<"alg">> # <<>>
  OBVIOUS
<1>3. <<"alg">> # NotAList /\ <<"alg">> # Absent /\ <<"unregistered">> # Absent
  BY <1>1 DEF ListsAreApart
<1> QED BY <1>1, <1>2, <1>3 DEF Cose!CritHonored, Cose!KnownLabels

\* The oracle of a whole message, and of a port without one of its rules.
LEMMA CoseVerdictOf ==
  ASSUME AbsentIsApart, ListsAreApart, NEW section, section # "cose_deterministic_cbor",
         NEW message, CoseWhole(message),
         NEW key, key # Absent, key.material = "full", NEW expect \in BOOLEAN
  PROVE  LET c == CoseCase(message, key, expect) IN
         /\ ~Cose!CoseRaises(Cose!CosePython, section, c)
         /\ Cose!CoseVerdict(Cose!CosePython, section, c) <=> CoseGenuine(message, key)
<1> DEFINE c == CoseCase(message, key, expect)
           p == Cose!CosePython
           crit == message.protected.crit
           alg == message.protected.alg
<1>1. /\ c.text = "plain" /\ c.message = message /\ c.key = key /\ c.expect = expect
  BY DEF CoseCase
<1>2. /\ "plain" \in p.texts.message /\ "cbor" \in p.decodes
      /\ "canonical" \in p.canonical /\ "boolean" \notin p.ends /\ "key type" \notin p.ends
      /\ "material" \notin p.ends /\ "coordinate" \notin p.ends
  BY DEF Cose!CosePython, Cose!Texts, Cose!AnyCase
<1>3. /\ "alg_protected" \in p.enforced /\ "crit" \in p.enforced
      /\ "deterministic" \in p.enforced /\ "alg_key_type" \in p.enforced
  BY DEF Cose!CosePython, Cose!CoseRules
<1> HIDE DEF c, p
<1>4. Cose!IsSign1(p, message)
  BY <1>2 DEF Cose!IsSign1, CoseWhole
<1>5. Cose!ParsesSign1(p, message) <=>
        message.protected.encoding = "empty" \/ message.protected.form = "map"
  BY <1>2, <1>3, <1>4 DEF Cose!ParsesSign1, Cose!Deterministic, CoseWhole
<1>6. Cose!AlgOf(p, message) = alg
  BY <1>3 DEF Cose!AlgOf
<1>7. Cose!PassesCrit(p, message) <=> crit \in {Absent, <<"alg">>}
  BY <1>3, CoseCrits DEF Cose!PassesCrit, CoseWhole
<1>8. ~Cose!MeetsArray(p, message)
  <2>1. alg # Cose!Listed
    BY DEF CoseWhole, AbsentIsApart, Texts, Cose!Listed
  <2>2. ASSUME crit # Absent, NEW i \in DOMAIN crit PROVE crit[i] # Cose!Listed
    <3>1. /\ DOMAIN <<"alg">> = {1} /\ DOMAIN <<"unregistered">> = {1}
          /\ <<"alg">>[1] = "alg" /\ <<"unregistered">>[1] = "unregistered"
      OBVIOUS
    <3>2. crit = <<"alg">> \/ crit = <<"unregistered">>
      BY <2>2 DEF CoseWhole
    <3> QED BY <2>2, <3>1, <3>2 DEF Cose!Listed
  <2> QED BY <2>1, <2>2 DEF Cose!MeetsArray
<1>9. ~Cose!CoseRaises(p, section, c)
  BY <1>1, <1>2, <1>8 DEF Cose!CoseRaises, Cose!MessageRaises
<1>10. Cose!ReachesKey(p, message) <=>
         /\ message.protected.encoding = "empty" \/ message.protected.form = "map"
         /\ crit \in {Absent, <<"alg">>} /\ alg \in DOMAIN Cose!KtyOf
  BY <1>5, <1>6, <1>7 DEF Cose!ReachesKey
<1>11. Cose!SigOk(p, alg, key, message) <=>
         /\ message.sig.alg = alg /\ message.sig.by = key.key
         /\ message.sig.over = Cose!SigStructure(message) /\ message.sig.bytes = "as made"
         /\ alg = "ES256" => message.sig.width = 64 /\ key.point = "on curve"
  BY DEF Cose!SigOk, CoseWhole
<1>12. Cose!Accepts(p, message, key) <=> CoseGenuine(message, key)
  BY <1>3, <1>6, <1>10, <1>11 DEF Cose!Accepts, CoseGenuine
<1> QED BY <1>1, <1>2, <1>9, <1>12 DEF Cose!CoseVerdict, c, p

CoseSound(section, c) == Cose!CoseCorrect(section, c)

\* A case whose message pycose accepts when it is expected to is sound.
LEMMA CoseCaseSound ==
  ASSUME AbsentIsApart, ListsAreApart, NEW section, section # "cose_deterministic_cbor",
         NEW message, CoseWhole(message),
         NEW key, key # Absent, key.material = "full", NEW expect \in BOOLEAN,
         expect <=> CoseGenuine(message, key)
  PROVE  CoseSound(section, CoseCase(message, key, expect))
<1> DEFINE c == CoseCase(message, key, expect)
<1>1. /\ ~Cose!CoseRaises(Cose!CosePython, section, c)
      /\ Cose!CoseVerdict(Cose!CosePython, section, c) <=> expect
  BY CoseVerdictOf
<1>2. Cose!CoseVerdict(Cose!CosePython, section, c) \in BOOLEAN
  BY DEF Cose!CoseVerdict
<1>3. c.expect = expect
  BY DEF CoseCase
<1> QED BY <1>1, <1>2, <1>3 DEF CoseSound, Cose!CoseCorrect

\* What a signed message is, as it was made.
CoseMade(message, alg, key, protected) ==
  /\ message.bytes = "cbor" /\ message.tag = 18 /\ message.fields = 4
  /\ message.types = "right" /\ message.protected = protected
  /\ message.sig.alg = alg /\ message.sig.by = key
  /\ message.sig.over = Cose!SigStructure(message)
  /\ message.sig.width = 64 /\ message.sig.bytes = "as made"

\* A message as the generator signs it has the fields of one that is genuine.
LEMMA CoseSignedMade ==
  ASSUME NEW alg, NEW key, NEW protected, NEW unprotected
  PROVE  /\ CoseMade(Cose!Signed(alg, key, protected, unprotected), alg, key, protected)
         /\ Cose!Signed(alg, key, protected, unprotected).unprotected = unprotected
<1> DEFINE message ==
             [bytes |-> "cbor", tag |-> 18, fields |-> 4, types |-> "right",
              protected |-> protected, unprotected |-> unprotected, payload |-> "payload"]
           sig == [alg |-> alg, by |-> key, over |-> Cose!SigStructure(message),
                   width |-> 64, bytes |-> "as made"]
           signed == [field \in DOMAIN message \cup {"sig"} |->
                        IF field = "sig" THEN sig ELSE message[field]]
<1>1. Cose!Signed(alg, key, protected, unprotected) = signed
  BY DEF Cose!Signed
<1>2. DOMAIN message = {"bytes", "tag", "fields", "types", "protected", "unprotected", "payload"}
  OBVIOUS
<1>3. /\ message.bytes = "cbor" /\ message.tag = 18 /\ message.fields = 4
      /\ message.types = "right" /\ message.protected = protected
      /\ message.unprotected = unprotected /\ message.payload = "payload"
  OBVIOUS
<1>4. /\ sig.alg = alg /\ sig.by = key /\ sig.over = Cose!SigStructure(message)
      /\ sig.width = 64 /\ sig.bytes = "as made"
  OBVIOUS
<1> HIDE DEF message, sig
<1>5. /\ signed.bytes = message.bytes /\ signed.tag = message.tag
      /\ signed.fields = message.fields /\ signed.types = message.types
      /\ signed.protected = message.protected /\ signed.payload = message.payload
      /\ signed.unprotected = message.unprotected /\ signed.sig = sig
  BY <1>2
<1> HIDE DEF signed
<1>6. Cose!SigStructure(signed) = Cose!SigStructure(message)
  BY <1>5 DEF Cose!SigStructure
<1>7. CoseMade(signed, alg, key, protected) /\ signed.unprotected = unprotected
  BY <1>3, <1>4, <1>5, <1>6 DEF CoseMade
<1> QED BY <1>1, <1>7

\* A message of the material: whole, and genuine under the key that signed it.
LEMMA CoseSignedGenuine ==
  ASSUME AbsentIsApart, ListsAreApart, NEW alg \in DOMAIN Cose!KtyOf, NEW name,
         NEW crit \in {Absent, <<"alg">>, <<"unregistered">>}, NEW unprotected,
         NEW key, key.key = name, key.kty = Cose!KtyOf[alg], key.point = "on curve"
  PROVE  /\ CoseWhole(Cose!Signed(alg, name, Cose!Protected(alg, crit), unprotected))
         /\ CoseGenuine(Cose!Signed(alg, name, Cose!Protected(alg, crit), unprotected), key)
              <=> crit # <<"unregistered">>
<1> DEFINE protected == Cose!Protected(alg, crit)
           message == Cose!Signed(alg, name, protected, unprotected)
<1>1. /\ protected.encoding = "canonical" /\ protected.form = "map"
      /\ protected.alg = alg /\ protected.crit = crit
  BY DEF Cose!Protected
<1>2. CoseMade(message, alg, name, protected)
  BY CoseSignedMade
<1>3. <<"alg">> # <<"unregistered">>
  OBVIOUS
<1>4. <<"unregistered">> # Absent
  BY CoseCrits
<1> HIDE DEF protected, message
<1>5. CoseWhole(message)
  BY <1>1, <1>2 DEF CoseWhole, CoseMade, Cose!KtyOf
<1>6. CoseGenuine(message, key) <=> crit # <<"unregistered">>
  BY <1>1, <1>2, <1>3, <1>4 DEF CoseGenuine, CoseMade
<1> QED BY <1>5, <1>6 DEF message, protected

\* The corpus of any material: every expectation is the oracle's.
LEMMA CoseCorpusSound ==
  ASSUME AbsentIsApart, ListsAreApart, NEW k, NEW n
  PROVE  LET corpus == Cose!CoseCorpus(Cose!CoseMaterial(k, n))
             ec == Cose!CoseKey("EC2", <<"ec", k>>)
         IN
           /\ DOMAIN corpus = {Cose!CoseSections[i] : i \in DOMAIN Cose!CoseSections}
           /\ \A section \in DOMAIN corpus : \A i \in DOMAIN corpus[section] :
                CoseSound(section, corpus[section][i])
           /\ corpus.cose_protected_header[2] =
                CoseCase(Cose!Signed("ES256", <<"ec", k>>,
                                     [Cose!Protected(Absent, Absent) EXCEPT !.encoding = "empty"],
                                     [alg |-> "ES256"]), ec, FALSE)
           /\ corpus.cose_crit[1] =
                CoseCase(Cose!Signed("ES256", <<"ec", k>>,
                                     Cose!Protected("ES256", <<"unregistered">>), Cose!NoAlg),
                         ec, FALSE)
           /\ 2 \in DOMAIN corpus.cose_protected_header /\ 1 \in DOMAIN corpus.cose_crit
<1> DEFINE ec == Cose!CoseKey("EC2", <<"ec", k>>)
           okp == Cose!CoseKey("OKP", <<"ed25519", k>>)
           rsa == Cose!CoseKey("RSA", <<"rsa", k>>)
           wrongEc == Cose!CoseKey("EC2", <<"wrong ec", n>>)
           wrongOkp == Cose!CoseKey("OKP", <<"wrong ed25519", n>>)
           offEc == [ec EXCEPT !.point = "off curve"]
           bare == [Cose!Protected(Absent, Absent) EXCEPT !.encoding = "empty"]
           es == Cose!Signed("ES256", <<"ec", k>>, Cose!Protected("ES256", Absent), Cose!NoAlg)
           ed == Cose!Signed("EdDSA", <<"ed25519", k>>, Cose!Protected("EdDSA", Absent),
                             Cose!NoAlg)
           ps == Cose!Signed("PS256", <<"rsa", k>>, Cose!Protected("PS256", Absent), Cose!NoAlg)
           outside == Cose!Signed("ES256", <<"ec", k>>, bare, [alg |-> "ES256"])
           known == Cose!Signed("ES256", <<"ec", k>>, Cose!Protected("ES256", <<"alg">>),
                                Cose!NoAlg)
           unknown == Cose!Signed("ES256", <<"ec", k>>,
                                  Cose!Protected("ES256", <<"unregistered">>), Cose!NoAlg)
           sigStructure == <<CoseCase(es, ec, TRUE), CoseCase(ed, okp, TRUE)>>
           cbor == [i \in DOMAIN Cose!Datums |->
                      [text |-> "plain", datum |-> Cose!Datums[i][1],
                       expect |-> Cose!Datums[i][2]]]
           header == <<CoseCase(es, ec, TRUE), CoseCase(outside, ec, FALSE),
                       CoseCase(known, ec, TRUE)>>
           es256 == <<CoseCase(es, ec, TRUE), CoseCase(Cose!Tampered(es), ec, FALSE),
                      CoseCase(Cose!Truncated(es), ec, FALSE), CoseCase(es, offEc, FALSE),
                      CoseCase(es, wrongEc, FALSE), CoseCase(es, okp, FALSE)>>
           eddsa == <<CoseCase(ed, okp, TRUE), CoseCase(Cose!Tampered(ed), okp, FALSE),
                      CoseCase(ed, wrongOkp, FALSE)>>
           ps256 == <<CoseCase(ps, rsa, TRUE), CoseCase(Cose!Tampered(ps), rsa, FALSE)>>
           crit == <<CoseCase(unknown, ec, FALSE), CoseCase(known, ec, TRUE)>>
<1> HIDE DEF ec, okp, rsa, wrongEc, wrongOkp, offEc, bare, es, ed, ps, outside, known, unknown
<1>1. Cose!CoseCorpus(Cose!CoseMaterial(k, n)) =
        [cose_sig_structure |-> sigStructure, cose_deterministic_cbor |-> cbor,
         cose_protected_header |-> header, cose_es256_verify |-> es256,
         cose_eddsa_verify |-> eddsa, cose_ps256_verify |-> ps256, cose_crit |-> crit]
  <2> DEFINE m == Cose!CoseMaterial(k, n)
  <2>1. /\ m.keys["ec"] = ec /\ m.keys["ed25519"] = okp /\ m.keys["rsa"] = rsa
        /\ m.keys["wrong_ec"] = wrongEc /\ m.keys["wrong_ed25519"] = wrongOkp
        /\ m.keys["offcurve_ec"] = offEc
        /\ m.messages.es256 = es /\ m.messages.eddsa = ed /\ m.messages.ps256 = ps
        /\ m.messages.es256_alg_unprotected = outside
        /\ m.messages.es256_crit_honored = known /\ m.messages.es256_crit_unknown = unknown
    BY DEF Cose!CoseMaterial, ec, okp, rsa, wrongEc, wrongOkp, offEc, bare, es, ed, ps,
           outside, known, unknown
  <2> HIDE DEF m
  <2> QED BY <2>1 DEF Cose!CoseCorpus, CoseCase, m
<1>2. /\ ec.kty = "EC2" /\ ec.key = <<"ec", k>> /\ ec.point = "on curve"
      /\ okp.kty = "OKP" /\ okp.key = <<"ed25519", k>> /\ okp.point = "on curve"
      /\ rsa.kty = "RSA" /\ rsa.key = <<"rsa", k>> /\ rsa.point = "on curve"
      /\ wrongEc.key = <<"wrong ec", n>> /\ wrongOkp.key = <<"wrong ed25519", n>>
      /\ offEc.point = "off curve"
  BY DEF Cose!CoseKey, ec, okp, rsa, wrongEc, wrongOkp, offEc
<1>3. \A key \in {ec, okp, rsa, wrongEc, wrongOkp, offEc} : key # Absent /\ key.material = "full"
  <2>1. \A kty, key : /\ "kty" \in DOMAIN Cose!CoseKey(kty, key)
                      /\ Cose!CoseKey(kty, key).material = "full"
    BY DEF Cose!CoseKey
  <2>2. "kty" \in DOMAIN offEc /\ offEc.material = "full"
    BY DEF Cose!CoseKey, ec, offEc
  <2>3. \A key \in {ec, okp, rsa, wrongEc, wrongOkp, offEc} :
          "kty" \in DOMAIN key /\ key.material = "full"
    BY <2>1, <2>2 DEF ec, okp, rsa, wrongEc, wrongOkp
  <2> QED BY <2>3 DEF AbsentIsApart
<1>4. /\ "ES256" \in DOMAIN Cose!KtyOf /\ Cose!KtyOf["ES256"] = "EC2"
      /\ "EdDSA" \in DOMAIN Cose!KtyOf /\ Cose!KtyOf["EdDSA"] = "OKP"
      /\ "PS256" \in DOMAIN Cose!KtyOf /\ Cose!KtyOf["PS256"] = "RSA"
      /\ Absent \notin DOMAIN Cose!KtyOf
  BY DEF Cose!KtyOf, AbsentIsApart, Texts
\* Messages with their keys.
<1>5. Absent # <<"unregistered">> /\ <<"alg">> # <<"unregistered">>
  <2>1. <<"alg">> # <<"unregistered">>
    OBVIOUS
  <2> QED BY <2>1, CoseCrits
<1>6. CoseWhole(es) /\ CoseGenuine(es, ec)
  BY <1>2, <1>4, <1>5, CoseSignedGenuine DEF es
<1>7. CoseWhole(ed) /\ CoseGenuine(ed, okp)
  BY <1>2, <1>4, <1>5, CoseSignedGenuine DEF ed
<1>8. CoseWhole(ps) /\ CoseGenuine(ps, rsa)
  BY <1>2, <1>4, <1>5, CoseSignedGenuine DEF ps
<1>9. CoseWhole(known) /\ CoseGenuine(known, ec)
  BY <1>2, <1>4, <1>5, CoseSignedGenuine DEF known
<1>10. CoseWhole(unknown) /\ ~CoseGenuine(unknown, ec)
  BY <1>2, <1>4, <1>5, CoseSignedGenuine DEF unknown
<1>11. CoseWhole(outside) /\ ~CoseGenuine(outside, ec)
  <2>1. /\ bare.encoding = "empty" /\ bare.alg = Absent /\ bare.crit = Absent
    BY DEF Cose!Protected, bare
  <2>2. CoseMade(outside, "ES256", <<"ec", k>>, bare)
    BY CoseSignedMade DEF outside
  <2>3. CoseWhole(outside)
    BY <2>1, <2>2 DEF CoseWhole, CoseMade
  <2>4. outside.protected.alg = Absent
    BY <2>1, <2>2 DEF CoseMade
  <2> QED BY <1>4, <2>3, <2>4 DEF CoseGenuine
\* What the generator's surgery breaks.
<1>12. /\ CoseMade(es, "ES256", <<"ec", k>>, Cose!Protected("ES256", Absent))
       /\ CoseMade(ed, "EdDSA", <<"ed25519", k>>, Cose!Protected("EdDSA", Absent))
       /\ CoseMade(ps, "PS256", <<"rsa", k>>, Cose!Protected("PS256", Absent))
  BY CoseSignedMade DEF es, ed, ps
<1>13. /\ "sig" \in DOMAIN es /\ "bytes" \in DOMAIN es.sig /\ "width" \in DOMAIN es.sig
       /\ "sig" \in DOMAIN ed /\ "bytes" \in DOMAIN ed.sig
       /\ "sig" \in DOMAIN ps /\ "bytes" \in DOMAIN ps.sig
  BY DEF Cose!Signed, es, ed, ps
<1>14. ASSUME NEW message \in {es, ed, ps}, NEW key
       PROVE  CoseWhole(Cose!Tampered(message)) /\ ~CoseGenuine(Cose!Tampered(message), key)
  <2>1. CoseWhole(message) /\ "sig" \in DOMAIN message /\ "bytes" \in DOMAIN message.sig
    BY <1>6, <1>7, <1>8, <1>13, <1>14
  <2>2. Cose!Tampered(message).sig.bytes = "flipped"
    BY <2>1 DEF Cose!Tampered
  <2>3. /\ Cose!Tampered(message).bytes = message.bytes
        /\ Cose!Tampered(message).tag = message.tag
        /\ Cose!Tampered(message).fields = message.fields
        /\ Cose!Tampered(message).types = message.types
        /\ Cose!Tampered(message).protected = message.protected
    BY <2>1 DEF Cose!Tampered
  <2> QED BY <2>1, <2>2, <2>3 DEF CoseWhole, CoseGenuine
<1>15. CoseWhole(Cose!Truncated(es)) /\ ~CoseGenuine(Cose!Truncated(es), ec)
  <2>1. Cose!Truncated(es).sig.bytes = "cut"
    BY <1>13 DEF Cose!Truncated
  <2>2. /\ Cose!Truncated(es).bytes = es.bytes /\ Cose!Truncated(es).tag = es.tag
        /\ Cose!Truncated(es).fields = es.fields /\ Cose!Truncated(es).types = es.types
        /\ Cose!Truncated(es).protected = es.protected
    BY <1>13 DEF Cose!Truncated
  <2> QED BY <1>6, <2>1, <2>2 DEF CoseWhole, CoseGenuine
\* Other keys.
<1>16. ~CoseGenuine(es, offEc) /\ ~CoseGenuine(es, wrongEc) /\ ~CoseGenuine(es, okp)
       /\ ~CoseGenuine(ed, wrongOkp)
  <2>1. es.sig.by = <<"ec", k>> /\ ed.sig.by = <<"ed25519", k>>
    BY <1>12 DEF CoseMade
  <2>3. es.protected.alg = "ES256"
    <3>1. es.protected = Cose!Protected("ES256", Absent)
      BY <1>12 DEF CoseMade
    <3> QED BY <3>1 DEF Cose!Protected
  <2>2. /\ <<"ec", k>> # <<"wrong ec", n>> /\ <<"ec", k>> # <<"ed25519", k>>
        /\ <<"ed25519", k>> # <<"wrong ed25519", n>>
    OBVIOUS
  <2> QED BY <1>2, <2>1, <2>2, <2>3 DEF CoseGenuine
<1>17. ASSUME NEW section, section # "cose_deterministic_cbor",
              NEW message, CoseWhole(message),
              NEW key \in {ec, okp, rsa, wrongEc, wrongOkp, offEc}
       PROVE  /\ CoseGenuine(message, key) => CoseSound(section, CoseCase(message, key, TRUE))
              /\ ~CoseGenuine(message, key) => CoseSound(section, CoseCase(message, key, FALSE))
  BY <1>3, <1>17, CoseCaseSound
<1>18. \A i \in DOMAIN sigStructure : CoseSound("cose_sig_structure", sigStructure[i])
  <2>1. /\ CoseSound("cose_sig_structure", CoseCase(es, ec, TRUE))
        /\ CoseSound("cose_sig_structure", CoseCase(ed, okp, TRUE))
    BY <1>6, <1>7, <1>17
  <2>2. DOMAIN sigStructure = 1 .. 2
    OBVIOUS
  <2>3. /\ CoseSound("cose_sig_structure", sigStructure[1])
        /\ CoseSound("cose_sig_structure", sigStructure[2])
    BY <2>1
  <2> HIDE DEF sigStructure
  <2> QED BY <2>2, <2>3
<1>19. \A i \in DOMAIN cbor : CoseSound("cose_deterministic_cbor", cbor[i])
  <2>1. DOMAIN cbor = 1 .. 8
    BY DEF Cose!Datums
  <2>2. ASSUME NEW i \in 1 .. 8
        PROVE  /\ cbor[i].text = "plain" /\ cbor[i].expect \in BOOLEAN
               /\ cbor[i].expect <=> cbor[i].datum = "canonical"
               /\ cbor[i].datum \in {"canonical", "long integer", "indefinite", "unsorted"}
    <3>1. /\ cbor[i].text = "plain" /\ cbor[i].datum = Cose!Datums[i][1]
          /\ cbor[i].expect = Cose!Datums[i][2]
      BY <2>1, <2>2
    <3>2. /\ Cose!Datums[1] = <<"canonical", TRUE>> /\ Cose!Datums[2] = <<"canonical", TRUE>>
          /\ Cose!Datums[3] = <<"canonical", TRUE>>
          /\ Cose!Datums[4] = <<"long integer", FALSE>>
          /\ Cose!Datums[5] = <<"indefinite", FALSE>>
          /\ Cose!Datums[6] = <<"indefinite", FALSE>>
          /\ Cose!Datums[7] = <<"indefinite", FALSE>>
          /\ Cose!Datums[8] = <<"unsorted", FALSE>>
      BY DEF Cose!Datums
    <3>3. Cose!Datums[i] \in {<<"canonical", TRUE>>, <<"long integer", FALSE>>,
                             <<"indefinite", FALSE>>, <<"unsorted", FALSE>>}
      <4>1. i \in {1, 2, 3, 4, 5, 6, 7, 8}
        BY <2>2
      <4> QED BY <3>2, <4>1
    <3> HIDE DEF cbor
    <3>4. CASE Cose!Datums[i] = <<"canonical", TRUE>>
      <4>0. <<"canonical", TRUE>>[1] = "canonical" /\ <<"canonical", TRUE>>[2] = TRUE
        OBVIOUS
      <4>1. cbor[i].datum = "canonical" /\ cbor[i].expect = TRUE
        BY <3>1, <3>4, <4>0
      <4>2. cbor[i].expect \in BOOLEAN /\ (cbor[i].expect <=> cbor[i].datum = "canonical")
        BY <4>1, Zenon
      <4> QED BY <3>1, <4>1, <4>2, Zenon
    <3>5. CASE Cose!Datums[i] = <<"long integer", FALSE>>
      <4>0. <<"long integer", FALSE>>[1] = "long integer" /\ <<"long integer", FALSE>>[2] = FALSE
        OBVIOUS
      <4>1. cbor[i].datum = "long integer" /\ cbor[i].expect = FALSE
        BY <3>1, <3>5, <4>0
      <4> QED BY <3>1, <4>1
    <3>6. CASE Cose!Datums[i] = <<"indefinite", FALSE>>
      <4>0. <<"indefinite", FALSE>>[1] = "indefinite" /\ <<"indefinite", FALSE>>[2] = FALSE
        OBVIOUS
      <4>1. cbor[i].datum = "indefinite" /\ cbor[i].expect = FALSE
        BY <3>1, <3>6, <4>0
      <4> QED BY <3>1, <4>1
    <3>7. CASE Cose!Datums[i] = <<"unsorted", FALSE>>
      <4>0. <<"unsorted", FALSE>>[1] = "unsorted" /\ <<"unsorted", FALSE>>[2] = FALSE
        OBVIOUS
      <4>1. cbor[i].datum = "unsorted" /\ cbor[i].expect = FALSE
        BY <3>1, <3>7, <4>0
      <4> QED BY <3>1, <4>1
    <3> QED BY <3>3, <3>4, <3>5, <3>6, <3>7
  <2> HIDE DEF cbor
  <2>3. ASSUME NEW i \in 1 .. 8 PROVE CoseSound("cose_deterministic_cbor", cbor[i])
    <3>1. /\ "plain" \in Cose!CosePython.texts.datum
          /\ "canonical" \in Cose!CosePython.canonical
          /\ \A encoding \in {"long integer", "indefinite", "unsorted"} :
               encoding \notin Cose!CosePython.canonical
      BY DEF Cose!CosePython, Cose!Texts, Cose!AnyCase
    <3>2. ~Cose!CoseRaises(Cose!CosePython, "cose_deterministic_cbor", cbor[i])
      BY <2>2, <3>1 DEF Cose!CoseRaises, Cose!DatumRaises
    <3>3. Cose!CoseVerdict(Cose!CosePython, "cose_deterministic_cbor", cbor[i]) <=>
            cbor[i].datum = "canonical"
      BY <2>2, <3>1 DEF Cose!CoseVerdict, Cose!Deterministic
    <3>4. Cose!CoseVerdict(Cose!CosePython, "cose_deterministic_cbor", cbor[i]) \in BOOLEAN
      BY DEF Cose!CoseVerdict
    <3> QED BY <2>2, <3>2, <3>3, <3>4 DEF CoseSound, Cose!CoseCorrect
  <2> QED BY <2>1, <2>3
<1>20. \A i \in DOMAIN header : CoseSound("cose_protected_header", header[i])
  <2>1. /\ CoseSound("cose_protected_header", CoseCase(es, ec, TRUE))
        /\ CoseSound("cose_protected_header", CoseCase(outside, ec, FALSE))
        /\ CoseSound("cose_protected_header", CoseCase(known, ec, TRUE))
    BY <1>6, <1>9, <1>11, <1>17
  <2>2. DOMAIN header = 1 .. 3
    OBVIOUS
  <2>3. /\ CoseSound("cose_protected_header", header[1])
        /\ CoseSound("cose_protected_header", header[2])
        /\ CoseSound("cose_protected_header", header[3])
    BY <2>1
  <2> HIDE DEF header
  <2> QED BY <2>2, <2>3
<1>21. \A i \in DOMAIN es256 : CoseSound("cose_es256_verify", es256[i])
  <2>1. /\ CoseSound("cose_es256_verify", CoseCase(es, ec, TRUE))
        /\ CoseSound("cose_es256_verify", CoseCase(Cose!Tampered(es), ec, FALSE))
        /\ CoseSound("cose_es256_verify", CoseCase(Cose!Truncated(es), ec, FALSE))
    BY <1>6, <1>14, <1>15, <1>17
  <2>2. /\ CoseSound("cose_es256_verify", CoseCase(es, offEc, FALSE))
        /\ CoseSound("cose_es256_verify", CoseCase(es, wrongEc, FALSE))
        /\ CoseSound("cose_es256_verify", CoseCase(es, okp, FALSE))
    BY <1>6, <1>16, <1>17
  <2>3. DOMAIN es256 = 1 .. 6
    OBVIOUS
  <2>4. /\ CoseSound("cose_es256_verify", es256[1]) /\ CoseSound("cose_es256_verify", es256[2])
        /\ CoseSound("cose_es256_verify", es256[3]) /\ CoseSound("cose_es256_verify", es256[4])
        /\ CoseSound("cose_es256_verify", es256[5]) /\ CoseSound("cose_es256_verify", es256[6])
    BY <2>1, <2>2
  <2> HIDE DEF es256
  <2> QED BY <2>3, <2>4
<1>22. \A i \in DOMAIN eddsa : CoseSound("cose_eddsa_verify", eddsa[i])
  <2>1. /\ CoseSound("cose_eddsa_verify", CoseCase(ed, okp, TRUE))
        /\ CoseSound("cose_eddsa_verify", CoseCase(Cose!Tampered(ed), okp, FALSE))
        /\ CoseSound("cose_eddsa_verify", CoseCase(ed, wrongOkp, FALSE))
    BY <1>7, <1>14, <1>16, <1>17
  <2>2. DOMAIN eddsa = 1 .. 3
    OBVIOUS
  <2>3. /\ CoseSound("cose_eddsa_verify", eddsa[1]) /\ CoseSound("cose_eddsa_verify", eddsa[2])
        /\ CoseSound("cose_eddsa_verify", eddsa[3])
    BY <2>1
  <2> HIDE DEF eddsa
  <2> QED BY <2>2, <2>3
<1>23. \A i \in DOMAIN ps256 : CoseSound("cose_ps256_verify", ps256[i])
  <2>1. /\ CoseSound("cose_ps256_verify", CoseCase(ps, rsa, TRUE))
        /\ CoseSound("cose_ps256_verify", CoseCase(Cose!Tampered(ps), rsa, FALSE))
    BY <1>8, <1>14, <1>17
  <2>2. DOMAIN ps256 = 1 .. 2
    OBVIOUS
  <2>3. CoseSound("cose_ps256_verify", ps256[1]) /\ CoseSound("cose_ps256_verify", ps256[2])
    BY <2>1
  <2> HIDE DEF ps256
  <2> QED BY <2>2, <2>3
<1>24. \A i \in DOMAIN crit : CoseSound("cose_crit", crit[i])
  <2>1. /\ CoseSound("cose_crit", CoseCase(unknown, ec, FALSE))
        /\ CoseSound("cose_crit", CoseCase(known, ec, TRUE))
    BY <1>9, <1>10, <1>17
  <2>2. DOMAIN crit = 1 .. 2
    OBVIOUS
  <2>3. CoseSound("cose_crit", crit[1]) /\ CoseSound("cose_crit", crit[2])
    BY <2>1
  <2> HIDE DEF crit
  <2> QED BY <2>2, <2>3
<1> DEFINE corpus == Cose!CoseCorpus(Cose!CoseMaterial(k, n))
<1>25. /\ header[2] = CoseCase(outside, ec, FALSE) /\ crit[1] = CoseCase(unknown, ec, FALSE)
       /\ 2 \in DOMAIN header /\ 1 \in DOMAIN crit
  OBVIOUS
<1> HIDE DEF sigStructure, cbor, header, es256, eddsa, ps256, crit
<1>26. /\ corpus.cose_sig_structure = sigStructure /\ corpus.cose_deterministic_cbor = cbor
       /\ corpus.cose_protected_header = header /\ corpus.cose_es256_verify = es256
       /\ corpus.cose_eddsa_verify = eddsa /\ corpus.cose_ps256_verify = ps256
       /\ corpus.cose_crit = crit
       /\ DOMAIN corpus = {"cose_sig_structure", "cose_deterministic_cbor",
                           "cose_protected_header", "cose_es256_verify", "cose_eddsa_verify",
                           "cose_ps256_verify", "cose_crit"}
  BY <1>1
<1>27. DOMAIN corpus = {Cose!CoseSections[i] : i \in DOMAIN Cose!CoseSections}
  <2>1. DOMAIN Cose!CoseSections = 1 .. 7
    BY DEF Cose!CoseSections
  <2> QED BY <1>26, <2>1 DEF Cose!CoseSections
<1> HIDE DEF corpus
<1>28. \A section \in DOMAIN corpus : \A i \in DOMAIN corpus[section] :
         CoseSound(section, corpus[section][i])
  BY <1>18, <1>19, <1>20, <1>21, <1>22, <1>23, <1>24, <1>26
<1> QED BY <1>25, <1>26, <1>27, <1>28 DEF corpus, outside, unknown, bare, ec

-----------------------------------------------------------------------------
(* The three suites that are made of frozen material.  The hypotheses say    *)
(* that a suite is one of them, as the modules of the suites define it, and  *)
(* that the markers of what is not there are no data of theirs.              *)

IsMldsa(s) ==
  /\ SectionsOf(s) = Mldsa!MldsaSections /\ Probed(s) = {"context", "prehash"}
  /\ \A m \in Materials :
       m.separated => Builds(s, m) = Mldsa!MldsaCorpus(Mldsa!MldsaMaterial(m.key), Missing)
  /\ \A section, c : Correct(s, section, c) <=> Mldsa!MldsaCorrect(section, c)
  /\ \A p, section, c : Judge(s, p, section, c) = Mldsa!MldsaJudge(p, section, c)
  /\ PortsOf(s) = Mldsa!MldsaRunners
  /\ \A section, c : Emitted(s, section, c) <=> Mldsa!MldsaEmitted(section, c)
  /\ \A f : KatRederives(s, f) <=> Mldsa!MldsaKatRederives(f)
  /\ \A rule \in Probed(s) :
       Without(s, rule) = [Mldsa!MldsaPython EXCEPT !.enforced = Mldsa!MldsaRules \ {rule}]

IsJws(s) ==
  /\ SectionsOf(s) = Jws!JwsSections /\ Probed(s) = {"alg_none", "alg_key_type"}
  /\ \A m \in Materials :
       Builds(s, m) = Jws!JwsCorpus(Jws!JwsMaterial(m.key, m.freezing))
  /\ \A section, c : Correct(s, section, c) <=> Jws!JwsCorrect(section, c)
  /\ \A p, section, c : Judge(s, p, section, c) = Jws!JwsJudge(p, section, c)
  /\ PortsOf(s) = Jws!JwsRunners
  /\ \A section, c : Emitted(s, section, c) <=> Jws!JwsEmitted(section, c)
  /\ \A f : KatRederives(s, f) <=> Jws!JwsKatRederives(f)
  /\ \A f \in FilesRead(s) : \A k \in DOMAIN SectionsOf(s) :
       f[SectionsOf(s)[k]] # Missing =>
         \A n \in DOMAIN f[SectionsOf(s)[k]] : JwsShape(f[SectionsOf(s)[k]][n])
  /\ \A rule \in Probed(s) :
       Without(s, rule) = [Jws!JwsPython EXCEPT !.enforced = Jws!JwsRules \ {rule}]

IsCose(s) ==
  /\ SectionsOf(s) = Cose!CoseSections /\ Probed(s) = {"alg_protected", "crit"}
  /\ \A m \in Materials :
       Builds(s, m) = Cose!CoseCorpus(Cose!CoseMaterial(m.key, m.freezing))
  /\ \A section, c : Correct(s, section, c) <=> Cose!CoseCorrect(section, c)
  /\ \A p, section, c : Judge(s, p, section, c) = Cose!CoseJudge(p, section, c)
  /\ PortsOf(s) = Cose!CoseRunners
  /\ \A section, c : Emitted(s, section, c) <=> Cose!CoseEmitted(section, c)
  /\ \A f : KatRederives(s, f) <=> Cose!CoseKatRederives(f)
  /\ \A rule \in Probed(s) :
       Without(s, rule) = [Cose!CosePython EXCEPT !.enforced = Cose!CoseRules \ {rule}]

ByFreezing(s) == IsMldsa(s) \/ IsJws(s) \/ IsCose(s)

FrozenSuites == \A s \in Frozen : ByFreezing(s)

\* A refusal is no corpus, and a section that is not there no list of cases.
MarkersApart ==
  /\ "mldsa65_verify" \notin DOMAIN Refused /\ "jws_kid" \notin DOMAIN Refused
  /\ "cose_crit" \notin DOMAIN Refused
  /\ Nat \cap DOMAIN Missing = {}
  /\ AbsentIsApart /\ ListsAreApart

\* What the generator of one suite makes of material is sound, and probes.
SoundFrom(s, corpus) ==
  /\ corpus # Refused
  /\ \A k \in DOMAIN SectionsOf(s) :
       LET section == SectionsOf(s)[k] IN
         corpus[section] # Missing =>
           \A n \in DOMAIN corpus[section] : Correct(s, section, corpus[section][n])

ProbesFrom(s, corpus) ==
  \A rule \in Probed(s) : \E k \in DOMAIN SectionsOf(s) :
    LET section == SectionsOf(s)[k] IN
      corpus[section] # Missing /\
        \E n \in DOMAIN corpus[section] :
          Judge(s, Without(s, rule), section, corpus[section][n]) # "match"

\* What gen_pqc_mldsa_v0.py makes of whole material is sound, and probes.
LEMMA MldsaFrom ==
  ASSUME MarkersApart, NEW s, IsMldsa(s), NEW m \in Materials, m.separated
  PROVE  SoundFrom(s, Builds(s, m)) /\ ProbesFrom(s, Builds(s, m))
<1> DEFINE corpus == Mldsa!MldsaCorpus(Mldsa!MldsaMaterial(m.key), Missing)
<1>1. Builds(s, m) = corpus
  BY DEF IsMldsa
<1>2. /\ DOMAIN corpus = {"mldsa65_verify", "mldsa65_malformed", "mldsa65_acvp_kat"}
      /\ \A n \in DOMAIN corpus.mldsa65_verify : MldsaSound(corpus.mldsa65_verify[n])
      /\ \A n \in DOMAIN corpus.mldsa65_malformed : MldsaSound(corpus.mldsa65_malformed[n])
      /\ corpus.mldsa65_acvp_kat = Missing /\ 16 \in DOMAIN corpus.mldsa65_verify
  BY MldsaCorpusSound
<1>3. \A rule \in {"context", "prehash"} :
        \E n \in DOMAIN corpus.mldsa65_verify :
          Mldsa!MldsaVerdict([Mldsa!MldsaPython EXCEPT !.enforced = Mldsa!MldsaRules \ {rule}],
                             corpus.mldsa65_verify[n]) # corpus.mldsa65_verify[n].expect
  BY MldsaCorpusSound
<1> HIDE DEF corpus
<1>4. /\ DOMAIN SectionsOf(s) = 1 .. 3 /\ SectionsOf(s)[1] = "mldsa65_verify"
      /\ SectionsOf(s)[2] = "mldsa65_malformed" /\ SectionsOf(s)[3] = "mldsa65_acvp_kat"
  BY DEF IsMldsa, Mldsa!MldsaSections
<1>5. corpus # Refused
  BY <1>2 DEF MarkersApart
<1>6. corpus.mldsa65_verify # Missing
  BY <1>2 DEF MarkersApart
<1>7. \A section, c : MldsaSound(c) => Correct(s, section, c)
  BY DEF IsMldsa, MldsaSound, Mldsa!MldsaCorrect
<1>8. SoundFrom(s, corpus)
  BY <1>2, <1>4, <1>5, <1>7 DEF SoundFrom
<1>9. ProbesFrom(s, corpus)
  <2>1. ASSUME NEW rule \in Probed(s)
        PROVE  \E n \in DOMAIN corpus.mldsa65_verify :
                 Judge(s, Without(s, rule), "mldsa65_verify", corpus.mldsa65_verify[n]) # "match"
    <3> DEFINE p == [Mldsa!MldsaPython EXCEPT !.enforced = Mldsa!MldsaRules \ {rule}]
    <3>1. rule \in {"context", "prehash"} /\ Without(s, rule) = p
      BY <2>1 DEF IsMldsa
    <3>2. PICK n \in DOMAIN corpus.mldsa65_verify :
            Mldsa!MldsaVerdict(p, corpus.mldsa65_verify[n]) # corpus.mldsa65_verify[n].expect
      BY <1>3, <3>1
    <3> HIDE DEF p
    <3>3. Mldsa!MldsaJudge(p, "mldsa65_verify", corpus.mldsa65_verify[n]) # "match"
      BY <3>2 DEF Mldsa!MldsaJudge
    <3> QED BY <3>1, <3>3 DEF IsMldsa
  <2> QED BY <1>4, <1>6, <2>1 DEF ProbesFrom
<1> QED BY <1>1, <1>8, <1>9

\* A port that takes alg:none accepts the token without a signature, and one
\* that does not hold a key to its type the token signed with the public key.
LEMMA JwsLaxPorts ==
  ASSUME AbsentIsApart, NEW k
  PROVE  LET jwk == Jws!Jwk("RSA", "jws-rsa-1", <<"rsa", k>>)
             none == Jws!Unsigned([Jws!Token("RS256", "jws-rsa-1", <<"rsa", k>>).header
                                     EXCEPT !.alg = "none"])
             hs == Jws!Token("HS256", "jws-rsa-1", <<"rsa", k>>)
         IN  /\ Jws!Verdict([Jws!JwsPython EXCEPT !.enforced = Jws!JwsRules \ {"alg_none"}],
                            JwsCase(none, <<jwk>>, FALSE, FALSE))
             /\ Jws!Verdict([Jws!JwsPython EXCEPT !.enforced = Jws!JwsRules \ {"alg_key_type"}],
                            JwsCase(hs, <<jwk>>, FALSE, FALSE))
<1> DEFINE jwk == Jws!Jwk("RSA", "jws-rsa-1", <<"rsa", k>>)
           rs == Jws!Token("RS256", "jws-rsa-1", <<"rsa", k>>)
           none == Jws!Unsigned([rs.header EXCEPT !.alg = "none"])
           hs == Jws!Token("HS256", "jws-rsa-1", <<"rsa", k>>)
           Lax(rule) == [Jws!JwsPython EXCEPT !.enforced = Jws!JwsRules \ {rule}]
<1>1. \A rule : /\ rule \notin Lax(rule).enforced
                /\ "object" \in Lax(rule).headers /\ "canonical" \in Lax(rule).encodings
                /\ Lax(rule).hmac
  BY DEF Jws!JwsPython
<1>2. /\ none.segments = 3 /\ none.header.form = "object" /\ none.header.alg = "none"
      /\ none.payload = "payload" /\ none.sig.encoding = "canonical"
  BY DEF Jws!Token, Jws!Unsigned
<1>3. JwsMade(hs, "HS256", "jws-rsa-1", <<"rsa", k>>)
  BY JwsTokenMade
<1>4. jwk.key = <<"rsa", k>> /\ jwk # Absent
  BY JwsMarkers DEF Jws!Jwk
<1>5. "none" # Absent /\ "HS256" # Absent /\ "HS256" # Jws!Listed /\ "none" # Jws!Listed
  BY DEF AbsentIsApart, Texts, Jws!Listed
<1>6. "HS256" \in DOMAIN Jws!AlgKty
  BY DEF Jws!AlgKty
<1> HIDE DEF jwk, none, hs, Lax
<1>7. Jws!Verdict(Lax("alg_none"), JwsCase(none, <<jwk>>, FALSE, FALSE))
  BY <1>1, <1>2, <1>5 DEF Jws!Verdict, Jws!ParsesCompact, Jws!AlgOf, JwsCase
<1>8. Jws!Verdict(Lax("alg_key_type"), JwsCase(hs, <<jwk>>, FALSE, FALSE))
  <2> DEFINE p == Lax("alg_key_type")
             c == JwsCase(hs, <<jwk>>, FALSE, FALSE)
  <2>1. c.jws = hs /\ c.byKid = FALSE /\ c.held[1] = jwk
    BY DEF JwsCase
  <2>2. /\ "alg_key_type" \notin p.enforced /\ "object" \in p.headers
        /\ "canonical" \in p.encodings /\ p.hmac
    BY <1>1
  <2> HIDE DEF p, c
  <2>3. Jws!SelectKey(p, c) = jwk
    BY <2>1 DEF Jws!SelectKey
  <2>4. Jws!AlgOf(p, hs.header) = "HS256"
    BY <1>3, <1>5 DEF JwsMade, Jws!AlgOf
  <2>5. Jws!ParsesCompact(p, hs)
    BY <1>3, <1>5, <2>2 DEF JwsMade, Jws!ParsesCompact
  <2>6. Jws!Selects(p, c)
    BY <1>3, <1>6, <2>1, <2>4, <2>5 DEF JwsMade, Jws!Selects
  <2>7. Jws!SignatureOk(p, "HS256", jwk, hs)
    BY <1>3, <1>4, <2>2 DEF JwsMade, Jws!SignatureOk, Jws!SigningInput
  <2>8. Jws!Verdict(p, c)
    BY <1>4, <2>1, <2>2, <2>3, <2>4, <2>6, <2>7 DEF Jws!Verdict
  <2> QED BY <2>8 DEF p, c
<1> QED BY <1>7, <1>8 DEF jwk, none, hs, Lax

\* What gen_jws_v0.py makes of whole material is sound, and probes.
LEMMA JwsFrom ==
  ASSUME MarkersApart, NEW s, IsJws(s), NEW m \in Materials
  PROVE  SoundFrom(s, Builds(s, m)) /\ ProbesFrom(s, Builds(s, m))
<1> DEFINE corpus == Jws!JwsCorpus(Jws!JwsMaterial(m.key, m.freezing))
           Lax(rule) == [Jws!JwsPython EXCEPT !.enforced = Jws!JwsRules \ {rule}]
<1>1. Builds(s, m) = corpus
  BY DEF IsJws
<1>2. AbsentIsApart
  BY DEF MarkersApart
<1>3. /\ DOMAIN corpus = {Jws!JwsSections[i] : i \in DOMAIN Jws!JwsSections}
      /\ \A section \in DOMAIN corpus : \A i \in DOMAIN corpus[section] :
           JwsSound(corpus[section][i])
      /\ 1 \in DOMAIN corpus.jws_alg_none /\ 2 \in DOMAIN corpus.jws_alg_confusion
  BY <1>2, JwsCorpusSound
<1>4. /\ Jws!Verdict(Lax("alg_none"), corpus.jws_alg_none[1])
      /\ corpus.jws_alg_none[1].expect = FALSE
      /\ Jws!Verdict(Lax("alg_key_type"), corpus.jws_alg_confusion[2])
      /\ corpus.jws_alg_confusion[2].expect = FALSE
  <2> DEFINE rsa == Jws!Jwk("RSA", "jws-rsa-1", <<"rsa", m.key>>)
             none == Jws!Unsigned([Jws!Token("RS256", "jws-rsa-1", <<"rsa", m.key>>).header
                                     EXCEPT !.alg = "none"])
             hs == Jws!Token("HS256", "jws-rsa-1", <<"rsa", m.key>>)
  <2>2. /\ corpus.jws_alg_none[1] = JwsCase(none, <<rsa>>, FALSE, FALSE)
        /\ corpus.jws_alg_confusion[2] = JwsCase(hs, <<rsa>>, FALSE, FALSE)
    BY <1>2, JwsCorpusSound
  <2>3. /\ Jws!Verdict(Lax("alg_none"), JwsCase(none, <<rsa>>, FALSE, FALSE))
        /\ Jws!Verdict(Lax("alg_key_type"), JwsCase(hs, <<rsa>>, FALSE, FALSE))
    BY <1>2, JwsLaxPorts
  <2> HIDE DEF corpus, rsa, none, hs
  <2>1. /\ JwsCase(none, <<rsa>>, FALSE, FALSE).expect = FALSE
        /\ JwsCase(hs, <<rsa>>, FALSE, FALSE).expect = FALSE
    BY DEF JwsCase
  <2>4. corpus.jws_alg_none[1].expect = FALSE /\ corpus.jws_alg_confusion[2].expect = FALSE
    BY <2>1, <2>2
  <2>5. Jws!Verdict(Lax("alg_none"), corpus.jws_alg_none[1])
    BY <2>2, <2>3
  <2>6. Jws!Verdict(Lax("alg_key_type"), corpus.jws_alg_confusion[2])
    BY <2>2, <2>3
  <2> QED BY <2>4, <2>5, <2>6
<1> HIDE DEF corpus
<1>5. /\ SectionsOf(s) = Jws!JwsSections /\ DOMAIN Jws!JwsSections = 1 .. 8
      /\ Jws!JwsSections[2] = "jws_alg_none" /\ Jws!JwsSections[3] = "jws_alg_confusion"
      /\ Jws!JwsSections[8] = "jws_kid"
  BY DEF IsJws, Jws!JwsSections
<1>6. corpus # Refused
  BY <1>3, <1>5 DEF MarkersApart
<1>7. corpus.jws_alg_none # Missing /\ corpus.jws_alg_confusion # Missing
  BY <1>3 DEF MarkersApart
<1>8. \A section, c : JwsSound(c) => Correct(s, section, c)
  BY DEF IsJws, JwsSound, Jws!JwsCorrect
<1>9. SoundFrom(s, corpus)
  BY <1>3, <1>5, <1>6, <1>8 DEF SoundFrom
<1>10. ProbesFrom(s, corpus)
  <2>1. ASSUME NEW rule, NEW section, NEW c, Jws!Verdict(Lax(rule), c), c.expect = FALSE
        PROVE  Jws!JwsJudge(Lax(rule), section, c) # "match"
    <3> HIDE DEF Lax
    <3> QED BY <2>1 DEF Jws!JwsJudge
  <2>2. \A rule \in Probed(s) : Without(s, rule) = Lax(rule)
    BY DEF IsJws
  <2> HIDE DEF Lax
  <2>3. Probed(s) = {"alg_none", "alg_key_type"}
    BY DEF IsJws
  <2>4. /\ Judge(s, Without(s, "alg_none"), "jws_alg_none", corpus.jws_alg_none[1]) # "match"
        /\ Judge(s, Without(s, "alg_key_type"), "jws_alg_confusion",
                 corpus.jws_alg_confusion[2]) # "match"
    <3>1. /\ Jws!JwsJudge(Lax("alg_none"), "jws_alg_none", corpus.jws_alg_none[1]) # "match"
          /\ Jws!JwsJudge(Lax("alg_key_type"), "jws_alg_confusion",
                          corpus.jws_alg_confusion[2]) # "match"
      BY <1>4, <2>1
    <3>2. /\ Without(s, "alg_none") = Lax("alg_none")
          /\ Without(s, "alg_key_type") = Lax("alg_key_type")
      BY <2>2, <2>3
    <3> QED BY <3>1, <3>2 DEF IsJws
  <2> QED BY <1>3, <1>5, <1>7, <2>3, <2>4 DEF ProbesFrom
<1> QED BY <1>1, <1>9, <1>10

\* A port that reads the algorithm outside the protected header, or does not
\* look at crit, accepts what the rule is about.
LEMMA CoseLaxPorts ==
  ASSUME AbsentIsApart, NEW k
  PROVE  LET ec == Cose!CoseKey("EC2", <<"ec", k>>)
             outside == Cose!Signed("ES256", <<"ec", k>>,
                                    [Cose!Protected(Absent, Absent) EXCEPT !.encoding = "empty"],
                                    [alg |-> "ES256"])
             unknown == Cose!Signed("ES256", <<"ec", k>>,
                                    Cose!Protected("ES256", <<"unregistered">>), Cose!NoAlg)
             Lax(rule) == [Cose!CosePython EXCEPT !.enforced = Cose!CoseRules \ {rule}]
         IN  /\ Cose!CoseVerdict(Lax("alg_protected"), "cose_protected_header",
                                 CoseCase(outside, ec, FALSE))
             /\ Cose!CoseVerdict(Lax("crit"), "cose_crit", CoseCase(unknown, ec, FALSE))
<1> DEFINE ec == Cose!CoseKey("EC2", <<"ec", k>>)
           bare == [Cose!Protected(Absent, Absent) EXCEPT !.encoding = "empty"]
           critical == Cose!Protected("ES256", <<"unregistered">>)
           outside == Cose!Signed("ES256", <<"ec", k>>, bare, [alg |-> "ES256"])
           unknown == Cose!Signed("ES256", <<"ec", k>>, critical, Cose!NoAlg)
           Lax(rule) == [Cose!CosePython EXCEPT !.enforced = Cose!CoseRules \ {rule}]
<1>1. \A rule : /\ Lax(rule).enforced = Cose!CoseRules \ {rule}
                /\ "plain" \in Lax(rule).texts.message /\ "cbor" \in Lax(rule).decodes
                /\ "canonical" \in Lax(rule).canonical
  BY DEF Cose!CosePython, Cose!Texts, Cose!AnyCase
<1>2. CoseMade(outside, "ES256", <<"ec", k>>, bare) /\ outside.unprotected = [alg |-> "ES256"]
  BY CoseSignedMade
<1>3. CoseMade(unknown, "ES256", <<"ec", k>>, critical)
  BY CoseSignedMade
<1>4. /\ bare.encoding = "empty" /\ bare.alg = Absent /\ bare.crit = Absent
      /\ critical.encoding = "canonical" /\ critical.form = "map" /\ critical.alg = "ES256"
  BY DEF Cose!Protected
<1>5. /\ ec.kty = "EC2" /\ ec.key = <<"ec", k>> /\ ec.point = "on curve"
      /\ ec.material = "full" /\ ec # Absent
  <2>1. /\ ec.kty = "EC2" /\ ec.key = <<"ec", k>> /\ ec.point = "on curve"
        /\ ec.material = "full" /\ "kty" \in DOMAIN ec
    BY DEF Cose!CoseKey
  <2> HIDE DEF ec
  <2> QED BY <2>1 DEF AbsentIsApart
<1>6. "ES256" \in DOMAIN Cose!KtyOf /\ Cose!KtyOf["ES256"] = "EC2" /\ "ES256" # Absent
  BY DEF Cose!KtyOf, AbsentIsApart, Texts
<1> HIDE DEF ec, bare, critical, outside, unknown, Lax
<1>7. ASSUME NEW rule, NEW section, section # "cose_deterministic_cbor",
             NEW protected, NEW message, CoseMade(message, "ES256", <<"ec", k>>, protected),
             Cose!ParsesSign1(Lax(rule), message), Cose!PassesCrit(Lax(rule), message),
             Cose!AlgOf(Lax(rule), message) = "ES256"
      PROVE  Cose!CoseVerdict(Lax(rule), section, CoseCase(message, ec, FALSE))
  <2> DEFINE c == CoseCase(message, ec, FALSE)
  <2>1. c.text = "plain" /\ c.message = message /\ c.key = ec
    BY DEF CoseCase
  <2> HIDE DEF c
  <2>2. Cose!SigOk(Lax(rule), "ES256", ec, message)
    BY <1>5, <1>7 DEF Cose!SigOk, CoseMade
  <2>3. Cose!ReachesKey(Lax(rule), message)
    BY <1>6, <1>7 DEF Cose!ReachesKey
  <2>4. Cose!Accepts(Lax(rule), message, ec)
    BY <1>5, <1>6, <1>7, <2>2, <2>3 DEF Cose!Accepts
  <2>5. Cose!CoseVerdict(Lax(rule), section, c)
    BY <1>1, <1>7, <2>1, <2>4 DEF Cose!CoseVerdict
  <2> QED BY <2>5 DEF c
<1>8. Cose!CoseVerdict(Lax("alg_protected"), "cose_protected_header",
                       CoseCase(outside, ec, FALSE))
  <2>1. "alg_protected" \notin Lax("alg_protected").enforced
    BY <1>1
  <2>2. Cose!ParsesSign1(Lax("alg_protected"), outside)
    BY <1>1, <1>2, <1>4 DEF Cose!ParsesSign1, Cose!IsSign1, CoseMade
  <2>3. Cose!PassesCrit(Lax("alg_protected"), outside)
    BY <1>2, <1>4 DEF Cose!PassesCrit, CoseMade
  <2>4. Cose!AlgOf(Lax("alg_protected"), outside) = "ES256"
    <3>1. outside.protected.alg = Absent
      BY <1>2, <1>4 DEF CoseMade
    <3>2. outside.unprotected.alg = "ES256"
      BY <1>2
    <3> QED BY <2>1, <3>1, <3>2 DEF Cose!AlgOf
  <2>5. CoseMade(outside, "ES256", <<"ec", k>>, bare)
    BY <1>2
  <2> QED BY <1>7, <2>2, <2>3, <2>4, <2>5
<1>9. Cose!CoseVerdict(Lax("crit"), "cose_crit", CoseCase(unknown, ec, FALSE))
  <2>1. "crit" \notin Lax("crit").enforced /\ "deterministic" \in Lax("crit").enforced
    BY <1>1 DEF Cose!CoseRules
  <2>2. Cose!ParsesSign1(Lax("crit"), unknown)
    BY <1>1, <1>3, <1>4, <2>1
       DEF Cose!ParsesSign1, Cose!IsSign1, Cose!Deterministic, CoseMade
  <2>3. Cose!PassesCrit(Lax("crit"), unknown)
    BY <2>1 DEF Cose!PassesCrit
  <2>4. Cose!AlgOf(Lax("crit"), unknown) = "ES256"
    BY <1>3, <1>4, <1>6 DEF Cose!AlgOf, CoseMade
  <2> QED BY <1>3, <1>7, <2>2, <2>3, <2>4
<1> QED BY <1>8, <1>9 DEF ec, bare, critical, outside, unknown, Lax

\* What gen_cose_v0.py makes of whole material is sound, and probes.
LEMMA CoseFrom ==
  ASSUME MarkersApart, NEW s, IsCose(s), NEW m \in Materials
  PROVE  SoundFrom(s, Builds(s, m)) /\ ProbesFrom(s, Builds(s, m))
<1> DEFINE corpus == Cose!CoseCorpus(Cose!CoseMaterial(m.key, m.freezing))
           Lax(rule) == [Cose!CosePython EXCEPT !.enforced = Cose!CoseRules \ {rule}]
<1>1. Builds(s, m) = corpus
  BY DEF IsCose
<1>2. AbsentIsApart /\ ListsAreApart
  BY DEF MarkersApart
<1>3. /\ DOMAIN corpus = {Cose!CoseSections[i] : i \in DOMAIN Cose!CoseSections}
      /\ \A section \in DOMAIN corpus : \A i \in DOMAIN corpus[section] :
           CoseSound(section, corpus[section][i])
      /\ 2 \in DOMAIN corpus.cose_protected_header /\ 1 \in DOMAIN corpus.cose_crit
  BY <1>2, CoseCorpusSound
<1>4. /\ Cose!CoseVerdict(Lax("alg_protected"), "cose_protected_header",
                          corpus.cose_protected_header[2])
      /\ corpus.cose_protected_header[2].expect = FALSE
      /\ Cose!CoseVerdict(Lax("crit"), "cose_crit", corpus.cose_crit[1])
      /\ corpus.cose_crit[1].expect = FALSE
  <2> DEFINE ec == Cose!CoseKey("EC2", <<"ec", m.key>>)
             outside == Cose!Signed("ES256", <<"ec", m.key>>,
                                    [Cose!Protected(Absent, Absent) EXCEPT !.encoding = "empty"],
                                    [alg |-> "ES256"])
             unknown == Cose!Signed("ES256", <<"ec", m.key>>,
                                    Cose!Protected("ES256", <<"unregistered">>), Cose!NoAlg)
  <2>2. /\ corpus.cose_protected_header[2] = CoseCase(outside, ec, FALSE)
        /\ corpus.cose_crit[1] = CoseCase(unknown, ec, FALSE)
    BY <1>2, CoseCorpusSound
  <2>3. /\ Cose!CoseVerdict(Lax("alg_protected"), "cose_protected_header",
                            CoseCase(outside, ec, FALSE))
        /\ Cose!CoseVerdict(Lax("crit"), "cose_crit", CoseCase(unknown, ec, FALSE))
    BY <1>2, CoseLaxPorts
  <2> HIDE DEF corpus, ec, outside, unknown
  <2>1. /\ CoseCase(outside, ec, FALSE).expect = FALSE
        /\ CoseCase(unknown, ec, FALSE).expect = FALSE
    BY DEF CoseCase
  <2>4. corpus.cose_protected_header[2].expect = FALSE /\ corpus.cose_crit[1].expect = FALSE
    BY <2>1, <2>2
  <2>5. Cose!CoseVerdict(Lax("alg_protected"), "cose_protected_header",
                         corpus.cose_protected_header[2])
    BY <2>2, <2>3
  <2>6. Cose!CoseVerdict(Lax("crit"), "cose_crit", corpus.cose_crit[1])
    BY <2>2, <2>3
  <2> QED BY <2>4, <2>5, <2>6
<1> HIDE DEF corpus
<1>5. /\ SectionsOf(s) = Cose!CoseSections /\ DOMAIN Cose!CoseSections = 1 .. 7
      /\ Cose!CoseSections[3] = "cose_protected_header" /\ Cose!CoseSections[7] = "cose_crit"
  BY DEF IsCose, Cose!CoseSections
<1>6. corpus # Refused
  BY <1>3, <1>5 DEF MarkersApart
<1>7. corpus.cose_protected_header # Missing /\ corpus.cose_crit # Missing
  BY <1>3 DEF MarkersApart
<1>8. \A section, c : CoseSound(section, c) => Correct(s, section, c)
  BY DEF IsCose, CoseSound
<1>9. SoundFrom(s, corpus)
  BY <1>3, <1>5, <1>6, <1>8 DEF SoundFrom
<1>10. ProbesFrom(s, corpus)
  <2>1. ASSUME NEW rule, NEW section, NEW c, Cose!CoseVerdict(Lax(rule), section, c),
               c.expect = FALSE
        PROVE  Cose!CoseJudge(Lax(rule), section, c) # "match"
    <3> HIDE DEF Lax
    <3> QED BY <2>1 DEF Cose!CoseJudge
  <2>2. \A rule \in Probed(s) : Without(s, rule) = Lax(rule)
    BY DEF IsCose
  <2> HIDE DEF Lax
  <2>3. Probed(s) = {"alg_protected", "crit"}
    BY DEF IsCose
  <2>4. /\ Judge(s, Without(s, "alg_protected"), "cose_protected_header",
                 corpus.cose_protected_header[2]) # "match"
        /\ Judge(s, Without(s, "crit"), "cose_crit", corpus.cose_crit[1]) # "match"
    <3>1. /\ Cose!CoseJudge(Lax("alg_protected"), "cose_protected_header",
                            corpus.cose_protected_header[2]) # "match"
          /\ Cose!CoseJudge(Lax("crit"), "cose_crit", corpus.cose_crit[1]) # "match"
      BY <1>4, <2>1
    <3>2. /\ Without(s, "alg_protected") = Lax("alg_protected")
          /\ Without(s, "crit") = Lax("crit")
      BY <2>2, <2>3
    <3> QED BY <3>1, <3>2 DEF IsCose
  <2> QED BY <1>3, <1>5, <1>7, <2>3, <2>4 DEF ProbesFrom
<1> QED BY <1>1, <1>9, <1>10

\* What gen_jws_v0.py, gen_cose_v0.py and gen_pqc_mldsa_v0.py make of any whole
\* material, of whatever keys and freezing: the expectation that is written on
\* every case is the oracle's, so that no generator stops at its own sanity check;
\* and of each probed rule a case tells the port that does not enforce it.
THEOREM GeneratorsSound ==
  ASSUME FrozenSuites, MarkersApart
  PROVE  BuildsAreSound /\ BuildsProbe
<1>1. ASSUME NEW s \in Frozen, NEW m \in Materials, m.separated
      PROVE  SoundFrom(s, Builds(s, m)) /\ ProbesFrom(s, Builds(s, m))
  <2>1. IsMldsa(s) \/ IsJws(s) \/ IsCose(s)
    BY DEF FrozenSuites, ByFreezing
  <2>2. CASE IsMldsa(s)
    BY <1>1, <2>2, MldsaFrom
  <2>3. CASE IsJws(s)
    BY <1>1, <2>3, JwsFrom
  <2>4. CASE IsCose(s)
    BY <1>1, <2>4, CoseFrom
  <2> QED BY <2>1, <2>2, <2>3, <2>4
<1>2. BuildsAreSound
  BY <1>1 DEF BuildsAreSound, SoundFrom
<1>3. BuildsProbe
  BY <1>1 DEF BuildsProbe, ProbesFrom
<1> QED BY <1>2, <1>3

\* Of the three suites as they are: material that the tools freeze now always gives
\* a corpus (gen_*_v0.py and the freeze tools before it).
THEOREM FrozenSuitesUsable ==
  ASSUME FrozenSuites, MarkersApart
  PROVE  PipelineSpec => []FrozenIsUsable
BY GeneratorsSound, PipelineUsable

\* And every corpus that is left behind tells the ports without a probed rule.
THEOREM FrozenSuitesProbe ==
  ASSUME FrozenSuites, MarkersApart
  PROVE  PipelineSpec => []ProbedRulesAreCaught
BY GeneratorsSound, PipelineProbes

-----------------------------------------------------------------------------
(* The runners and the gates of the three suites.                           *)

\* The gate of ML-DSA derives what the oracle does.
LEMMA MldsaGateAgrees ==
  ASSUME NEW c
  PROVE  Mldsa!DilithiumAccepts(c) = Mldsa!MldsaVerdict(Mldsa!MldsaPython, c)
<1> DEFINE p == Mldsa!MldsaPython
<1>1. /\ p.enforced = Mldsa!MldsaRules /\ "lengths" \in Mldsa!MldsaRules
      /\ p.reads = {"well formed", "spaced"}
  BY DEF Mldsa!MldsaPython, Mldsa!MldsaRules
<1> HIDE DEF p
<1>2. Mldsa!DilithiumAccepts(c) <=> Mldsa!MldsaVerdict(p, c)
  <2>1. Mldsa!DilithiumAccepts(c) <=>
          /\ c.hex \in {"well formed", "spaced"} /\ Mldsa!LengthsOk(c)
          /\ Mldsa!SignatureVerifies(Mldsa!MldsaRules, c)
    BY DEF Mldsa!DilithiumAccepts, Mldsa!LengthsOk, Mldsa!PK_LEN, Mldsa!SIG_LEN
  <2>2. Mldsa!MldsaVerdict(p, c) <=>
          /\ c.hex \in {"well formed", "spaced"} /\ Mldsa!LengthsOk(c)
          /\ Mldsa!SignatureVerifies(Mldsa!MldsaRules, c)
    BY <1>1 DEF Mldsa!MldsaVerdict
  <2> QED BY <2>1, <2>2
<1>3. Mldsa!DilithiumAccepts(c) \in BOOLEAN /\ Mldsa!MldsaVerdict(p, c) \in BOOLEAN
  BY DEF Mldsa!DilithiumAccepts, Mldsa!MldsaVerdict
<1> QED BY <1>2, <1>3 DEF p

\* The gate of JWS ends with an exception only where the python runner does.
LEMMA JwsLookups ==
  ASSUME NEW c, JwsShape(c), ~Jws!Raises(Jws!JwsPython, c)
  PROVE  ~Jws!LookupRaises(c)
<1>1. Jws!JwsPython.lookup = "all"
  BY DEF Jws!JwsPython
<1>2. 1 \in DOMAIN c.held
  BY DEF JwsShape
<1>3. ~Jws!Unresolved(c)
  BY <1>1 DEF Jws!Raises
<1> QED BY <1>2, <1>3 DEF Jws!LookupRaises, Jws!Unresolved

\* And it derives what the oracle does where crit lists nothing it understands.
LEMMA JwsGateAgrees ==
  ASSUME NEW c, JwsShape(c)
  PROVE  Jws!JwcryptoAccepts(c) = Jws!Verdict(Jws!JwsPython, c)
BY DEF JwsShape, Jws!JwcryptoAccepts

\* The gate of COSE, with pycose, derives what the oracle does on a case that ends
\* no run.
LEMMA CoseGateAgrees ==
  ASSUME AbsentIsApart, NEW section, NEW c, ~Cose!CoseRaises(Cose!CosePython, section, c)
  PROVE  Cose!CoseVerdict(Cose!CosePython, section, c) =
           IF section = "cose_deterministic_cbor"
             THEN Cose!Deterministic(Cose!CosePython, c.datum)
             ELSE Cose!PycoseAccepts(c.message, c.key)
<1> DEFINE p == Cose!CosePython
<1>1. /\ p.enforced = Cose!CoseRules /\ p.decodes = {"cbor", "float inside"}
      /\ "text" \in p.ends /\ "lookup" \in p.ends
  BY DEF Cose!CosePython
<1>2. /\ "alg_protected" \in p.enforced /\ "crit" \in p.enforced
      /\ "deterministic" \in p.enforced /\ "alg_key_type" \in p.enforced
  BY <1>1 DEF Cose!CoseRules
<1> HIDE DEF p
<1>3. CASE section = "cose_deterministic_cbor"
  <2>1. c.text \in p.texts.datum
    BY <1>1, <1>3 DEF Cose!CoseRaises, Cose!DatumRaises, p
  <2>2. Cose!Deterministic(p, c.datum) \in BOOLEAN
    BY DEF Cose!Deterministic
  <2>3. Cose!CoseVerdict(p, section, c) = Cose!Deterministic(p, c.datum)
    BY <1>3, <2>1, <2>2 DEF Cose!CoseVerdict
  <2> QED BY <1>3, <2>3 DEF p
<1>4. CASE section # "cose_deterministic_cbor"
  <2> DEFINE message == c.message
             key == c.key
             alg == message.protected.alg
             crit == message.protected.crit
  <2>1. c.text \in p.texts.message /\ key # Absent
    BY <1>1, <1>4 DEF Cose!CoseRaises, Cose!MessageRaises, p
  <2> HIDE DEF message, key
  <2>2. Absent \notin DOMAIN Cose!KtyOf
    BY DEF AbsentIsApart, Texts, Cose!KtyOf
  <2>3. Cose!AlgOf(p, message) = alg
    BY <1>2 DEF Cose!AlgOf
  <2>4. Cose!PassesCrit(p, message) <=>
          (crit # Absent =>
             crit # NotAList /\ crit # <<>> /\ ~\E i \in DOMAIN crit : crit[i] \notin Cose!KnownLabels)
    BY <1>2 DEF Cose!PassesCrit, Cose!CritHonored
  <2>5. Cose!ParsesSign1(p, message) <=>
          /\ message.bytes \in {"cbor", "float inside"} /\ message.tag \in {Absent, 18}
          /\ message.fields = 4 /\ message.types = "right"
          /\ \/ message.protected.encoding = "empty"
             \/ /\ Cose!Deterministic(p, message.protected.encoding)
                /\ message.protected.form = "map"
    BY <1>1, <1>2 DEF Cose!ParsesSign1, Cose!IsSign1
  <2>6. Cose!ReachesKey(p, message) <=>
          /\ Cose!ParsesSign1(p, message) /\ Cose!PassesCrit(p, message)
          /\ alg \in DOMAIN Cose!KtyOf
    BY <2>3 DEF Cose!ReachesKey
  <2>7. Cose!Accepts(p, message, key) <=>
          /\ Cose!ReachesKey(p, message) /\ key.kty = Cose!KtyOf[alg]
          /\ Cose!SigOk(p, alg, key, message)
    BY <1>2, <2>1, <2>3 DEF Cose!Accepts, message, key
  <2>8. Cose!PycoseAccepts(message, key) <=>
          /\ Cose!ParsesSign1(p, message) /\ alg # Absent /\ Cose!PassesCrit(p, message)
          /\ alg \in DOMAIN Cose!KtyOf /\ key.kty = Cose!KtyOf[alg]
          /\ Cose!SigOk(p, alg, key, message)
    BY <2>4, <2>5 DEF Cose!PycoseAccepts, p
  <2>9. Cose!PycoseAccepts(message, key) <=> Cose!Accepts(p, message, key)
    BY <2>2, <2>6, <2>7, <2>8
  <2>10. Cose!PycoseAccepts(message, key) \in BOOLEAN
    BY DEF Cose!PycoseAccepts
  <2>11. Cose!CoseVerdict(p, section, c) <=> Cose!Accepts(p, message, key)
    BY <1>4, <2>1 DEF Cose!CoseVerdict, message, key
  <2>12. Cose!CoseVerdict(p, section, c) \in BOOLEAN
    BY DEF Cose!CoseVerdict
  <2>13. Cose!CoseVerdict(p, section, c) = Cose!PycoseAccepts(message, key)
    BY <2>9, <2>10, <2>11, <2>12
  <2> QED BY <1>4, <2>13 DEF p, message, key
<1> QED BY <1>3, <1>4

\* No runner of the three suites is strict, and the first is the python one.
LEMMA FrozenPorts ==
  ASSUME NEW s, ByFreezing(s)
  PROVE  /\ \A i \in DOMAIN PortsOf(s) : PortsOf(s)[i].missing = "empty"
         /\ 1 \in DOMAIN PortsOf(s)
         /\ IsMldsa(s) => PortsOf(s)[1] = Mldsa!MldsaPython
         /\ IsJws(s) => PortsOf(s)[1] = Jws!JwsPython
         /\ IsCose(s) => PortsOf(s)[1] = Cose!CosePython
<1>1. /\ 1 \in DOMAIN Mldsa!MldsaRunners /\ Mldsa!MldsaRunners[1] = Mldsa!MldsaPython
      /\ 1 \in DOMAIN Jws!JwsRunners /\ Jws!JwsRunners[1] = Jws!JwsPython
      /\ 1 \in DOMAIN Cose!CoseRunners /\ Cose!CoseRunners[1] = Cose!CosePython
  BY DEF Mldsa!MldsaRunners, Jws!JwsRunners, Cose!CoseRunners
<1>2. /\ \A i \in DOMAIN Mldsa!MldsaRunners : Mldsa!MldsaRunners[i].missing = "empty"
      /\ \A i \in DOMAIN Jws!JwsRunners : Jws!JwsRunners[i].missing = "empty"
      /\ \A i \in DOMAIN Cose!CoseRunners : Cose!CoseRunners[i].missing = "empty"
  BY MldsaRunnerKinds, JwsRunnerKinds, CoseRunnersAreOrdinary DEF CoseOrdinary
<1>3. /\ IsMldsa(s) => PortsOf(s) = Mldsa!MldsaRunners
      /\ IsJws(s) => PortsOf(s) = Jws!JwsRunners
      /\ IsCose(s) => PortsOf(s) = Cose!CoseRunners
  BY DEF IsMldsa, IsJws, IsCose
<1>4. IsMldsa(s) \/ IsJws(s) \/ IsCose(s)
  BY DEF ByFreezing
<1> QED BY <1>1, <1>2, <1>3, <1>4

\* The ports of the three suites judge what the generators write as the oracles do.
LEMMA FrozenFaithful ==
  ASSUME NEW s, ByFreezing(s), NEW f \in FilesRead(s), NEW k \in DOMAIN SectionsOf(s),
         f[SectionsOf(s)[k]] # Missing, NEW n \in DOMAIN f[SectionsOf(s)[k]],
         NEW i \in DOMAIN PortsOf(s), Emitted(s, SectionsOf(s)[k], f[SectionsOf(s)[k]][n])
  PROVE  Judge(s, PortsOf(s)[i], SectionsOf(s)[k], f[SectionsOf(s)[k]][n]) =
           IF Correct(s, SectionsOf(s)[k], f[SectionsOf(s)[k]][n]) THEN "match" ELSE "mismatch"
<1> DEFINE section == SectionsOf(s)[k]
           c == f[section][n]
<1>1. CASE IsMldsa(s)
  <2>1. i \in DOMAIN Mldsa!MldsaRunners /\ Mldsa!MldsaEmitted(section, c)
    BY <1>1 DEF IsMldsa
  <2>2. Mldsa!MldsaJudge(Mldsa!MldsaRunners[i], section, c) =
          IF Mldsa!MldsaCorrect(section, c) THEN "match" ELSE "mismatch"
    BY <2>1, MldsaPortsAgree
  <2> QED BY <1>1, <2>2 DEF IsMldsa
<1>2. CASE IsJws(s)
  <2>1. i \in DOMAIN Jws!JwsRunners /\ Jws!JwsEmitted(section, c) /\ JwsShape(c)
    BY <1>2 DEF IsJws
  <2>2. Jws!JwsJudge(Jws!JwsRunners[i], section, c) =
          IF Jws!JwsCorrect(section, c) THEN "match" ELSE "mismatch"
    BY <2>1, JwsPortsAgree
  <2> QED BY <1>2, <2>2 DEF IsJws
<1>3. CASE IsCose(s)
  <2>1. i \in DOMAIN Cose!CoseRunners /\ Cose!CoseEmitted(section, c)
    BY <1>3 DEF IsCose
  <2>2. Cose!CoseJudge(Cose!CoseRunners[i], section, c) =
          IF Cose!CoseCorrect(section, c) THEN "match" ELSE "mismatch"
    BY <2>1, CosePortsAgree
  <2> QED BY <1>3, <2>2 DEF IsCose
<1> QED BY <1>1, <1>2, <1>3 DEF ByFreezing

\* What the python runner matches is correct.
LEMMA PythonMatches ==
  ASSUME NEW s, ByFreezing(s), NEW section, NEW c,
         Judge(s, PortsOf(s)[1], section, c) = "match"
  PROVE  /\ Correct(s, section, c)
         /\ IsJws(s) => ~Jws!Raises(Jws!JwsPython, c)
         /\ IsCose(s) => ~Cose!CoseRaises(Cose!CosePython, section, c)
<1>1. ASSUME IsMldsa(s) PROVE Correct(s, section, c)
  <2>1. Mldsa!MldsaJudge(Mldsa!MldsaPython, section, c) = "match"
    BY <1>1, FrozenPorts DEF IsMldsa
  <2>2. Mldsa!MldsaCorrect(section, c)
    BY <2>1 DEF Mldsa!MldsaJudge, Mldsa!MldsaCorrect
  <2> QED BY <1>1, <2>2 DEF IsMldsa
<1>2. ASSUME IsJws(s) PROVE Correct(s, section, c) /\ ~Jws!Raises(Jws!JwsPython, c)
  <2>1. Jws!JwsJudge(Jws!JwsPython, section, c) = "match"
    BY <1>2, FrozenPorts DEF IsJws
  <2>2. Jws!JwsCorrect(section, c) /\ ~Jws!Raises(Jws!JwsPython, c)
    BY <2>1 DEF Jws!JwsJudge, Jws!JwsCorrect, Jws!JwsOracle
  <2> QED BY <1>2, <2>2 DEF IsJws
<1>3. ASSUME IsCose(s)
      PROVE  Correct(s, section, c) /\ ~Cose!CoseRaises(Cose!CosePython, section, c)
  <2>1. Cose!CoseJudge(Cose!CosePython, section, c) = "match"
    BY <1>3, FrozenPorts DEF IsCose
  <2>2. Cose!CoseCorrect(section, c) /\ ~Cose!CoseRaises(Cose!CosePython, section, c)
    BY <2>1 DEF Cose!CoseJudge, Cose!CoseCorrect
  <2> QED BY <1>3, <2>2 DEF IsCose
<1> QED BY <1>1, <1>2, <1>3 DEF ByFreezing

\* What the three gates accept, the oracles decide as the file says.
LEMMA FrozenGateFaithful ==
  ASSUME AbsentIsApart, NEW s, ByFreezing(s), NEW f \in FilesRead(s), KatRederives(s, f),
         NEW k \in DOMAIN SectionsOf(s), f[SectionsOf(s)[k]] # Missing,
         NEW n \in DOMAIN f[SectionsOf(s)[k]],
         Emitted(s, SectionsOf(s)[k], f[SectionsOf(s)[k]][n])
  PROVE  Correct(s, SectionsOf(s)[k], f[SectionsOf(s)[k]][n])
<1> DEFINE section == SectionsOf(s)[k]
           c == f[section][n]
<1>1. CASE IsMldsa(s)
  <2>1. Mldsa!MldsaKatRederives(f) /\ k \in DOMAIN Mldsa!MldsaSections
        /\ section = Mldsa!MldsaSections[k]
    BY <1>1 DEF IsMldsa
  <2>2. Mldsa!DilithiumAccepts(c) = c.expect
    BY <2>1 DEF Mldsa!MldsaKatRederives
  <2>3. Mldsa!MldsaCorrect(section, c)
    BY <2>2, MldsaGateAgrees DEF Mldsa!MldsaCorrect
  <2> QED BY <1>1, <2>3 DEF IsMldsa
<1>2. CASE IsJws(s)
  <2>1. /\ Jws!JwsKatRederives(f) /\ k \in DOMAIN Jws!JwsSections
        /\ section = Jws!JwsSections[k] /\ JwsShape(c) /\ Jws!JwsEmitted(section, c)
    BY <1>2 DEF IsJws
  <2>2. Jws!Verdict(Jws!JwsPython, c) = c.expect
    BY <2>1, JwsGateAgrees DEF Jws!JwsKatRederives
  <2>3. ~Jws!Raises(Jws!JwsPython, c)
    BY <2>1, JwsNoneRaises
  <2>4. Jws!JwsCorrect(section, c)
    BY <2>2, <2>3 DEF Jws!JwsCorrect, Jws!JwsOracle
  <2> QED BY <1>2, <2>4 DEF IsJws
<1>3. CASE IsCose(s)
  <2>1. /\ Cose!CoseKatRederives(f) /\ k \in DOMAIN Cose!CoseSections
        /\ section = Cose!CoseSections[k]
    BY <1>3 DEF IsCose
  <2>2. /\ ~Cose!CoseRaises(Cose!CosePython, section, c)
        /\ c.expect = IF section = "cose_deterministic_cbor"
                        THEN Cose!Deterministic(Cose!CosePython, c.datum)
                        ELSE Cose!PycoseAccepts(c.message, c.key)
    BY <2>1 DEF Cose!CoseKatRederives
  <2>3. Cose!CoseCorrect(section, c)
    BY <2>2, CoseGateAgrees DEF Cose!CoseCorrect
  <2> QED BY <1>3, <2>3 DEF IsCose
<1> QED BY <1>1, <1>2, <1>3 DEF ByFreezing

\* What the oracles decide as the file says, the three gates accept.
LEMMA FrozenGateComplete ==
  ASSUME AbsentIsApart, NEW s, ByFreezing(s), NEW f \in FilesRead(s),
         \A k \in DOMAIN SectionsOf(s) :
           /\ f[SectionsOf(s)[k]] # Missing
           /\ \A n \in DOMAIN f[SectionsOf(s)[k]] : \A i \in DOMAIN PortsOf(s) :
                Judge(s, PortsOf(s)[i], SectionsOf(s)[k], f[SectionsOf(s)[k]][n]) = "match"
  PROVE  KatRederives(s, f)
<1>1. ASSUME NEW k \in DOMAIN SectionsOf(s), NEW n \in DOMAIN f[SectionsOf(s)[k]]
      PROVE  /\ Correct(s, SectionsOf(s)[k], f[SectionsOf(s)[k]][n])
             /\ IsJws(s) => ~Jws!Raises(Jws!JwsPython, f[SectionsOf(s)[k]][n])
             /\ IsCose(s) => ~Cose!CoseRaises(Cose!CosePython, SectionsOf(s)[k],
                                              f[SectionsOf(s)[k]][n])
  BY <1>1, FrozenPorts, PythonMatches
<1>2. CASE IsMldsa(s)
  <2>1. ASSUME NEW k \in DOMAIN Mldsa!MldsaSections, NEW n \in DOMAIN f[Mldsa!MldsaSections[k]]
        PROVE  Mldsa!DilithiumAccepts(f[Mldsa!MldsaSections[k]][n])
                 = f[Mldsa!MldsaSections[k]][n].expect
    <3>1. Mldsa!MldsaCorrect(Mldsa!MldsaSections[k], f[Mldsa!MldsaSections[k]][n])
      BY <1>1, <1>2, <2>1 DEF IsMldsa
    <3> QED BY <3>1, MldsaGateAgrees DEF Mldsa!MldsaCorrect
  <2>2. Mldsa!MldsaKatRederives(f)
    BY <2>1 DEF Mldsa!MldsaKatRederives
  <2> QED BY <1>2, <2>2 DEF IsMldsa
<1>3. CASE IsJws(s)
  <2>1. ASSUME NEW k \in DOMAIN Jws!JwsSections
        PROVE  /\ f[Jws!JwsSections[k]] # Missing
               /\ \A n \in DOMAIN f[Jws!JwsSections[k]] :
                    LET c == f[Jws!JwsSections[k]][n] IN
                      ~Jws!LookupRaises(c) /\ Jws!JwcryptoAccepts(c) = c.expect
    <3>1. k \in DOMAIN SectionsOf(s) /\ SectionsOf(s)[k] = Jws!JwsSections[k]
      BY <1>3, <2>1 DEF IsJws
    <3>2. f[Jws!JwsSections[k]] # Missing
      BY <3>1
    <3>3. ASSUME NEW n \in DOMAIN f[Jws!JwsSections[k]]
          PROVE  LET c == f[Jws!JwsSections[k]][n] IN
                   ~Jws!LookupRaises(c) /\ Jws!JwcryptoAccepts(c) = c.expect
      <4> DEFINE c == f[Jws!JwsSections[k]][n]
      <4>1. Jws!JwsCorrect(SectionsOf(s)[k], c) /\ JwsShape(c) /\ ~Jws!Raises(Jws!JwsPython, c)
        BY <1>1, <1>3, <3>1, <3>2, <3>3 DEF IsJws
      <4> HIDE DEF c
      <4>2. ~Jws!LookupRaises(c) /\ Jws!JwcryptoAccepts(c) = c.expect
        BY <4>1, JwsLookups, JwsGateAgrees DEF Jws!JwsCorrect, Jws!JwsOracle
      <4> QED BY <4>2 DEF c
    <3> QED BY <3>2, <3>3
  <2>2. Jws!JwsKatRederives(f)
    BY <2>1 DEF Jws!JwsKatRederives
  <2> QED BY <1>3, <2>2 DEF IsJws
<1>4. CASE IsCose(s)
  <2>1. ASSUME NEW k \in DOMAIN Cose!CoseSections
        PROVE  /\ f[Cose!CoseSections[k]] # Missing
               /\ \A n \in DOMAIN f[Cose!CoseSections[k]] :
                    LET section == Cose!CoseSections[k]
                        c == f[section][n]
                    IN  /\ ~Cose!CoseRaises(Cose!CosePython, section, c)
                        /\ c.expect = IF section = "cose_deterministic_cbor"
                                        THEN Cose!Deterministic(Cose!CosePython, c.datum)
                                        ELSE Cose!PycoseAccepts(c.message, c.key)
    <3> DEFINE section == Cose!CoseSections[k]
    <3>1. k \in DOMAIN SectionsOf(s) /\ SectionsOf(s)[k] = section
      BY <1>4, <2>1 DEF IsCose
    <3>2. f[section] # Missing
      BY <3>1
    <3>3. ASSUME NEW n \in DOMAIN f[section]
          PROVE  LET c == f[section][n]
                 IN  /\ ~Cose!CoseRaises(Cose!CosePython, section, c)
                     /\ c.expect = IF section = "cose_deterministic_cbor"
                                     THEN Cose!Deterministic(Cose!CosePython, c.datum)
                                     ELSE Cose!PycoseAccepts(c.message, c.key)
      <4> DEFINE c == f[section][n]
      <4>1. Cose!CoseCorrect(section, c) /\ ~Cose!CoseRaises(Cose!CosePython, section, c)
        BY <1>1, <1>4, <3>1, <3>3 DEF IsCose
      <4> HIDE DEF c, section
      <4>2. Cose!CoseVerdict(Cose!CosePython, section, c) = c.expect
        BY <4>1 DEF Cose!CoseCorrect
      <4>3. c.expect = IF section = "cose_deterministic_cbor"
                         THEN Cose!Deterministic(Cose!CosePython, c.datum)
                         ELSE Cose!PycoseAccepts(c.message, c.key)
        BY <4>1, <4>2, CoseGateAgrees
      <4> QED BY <4>1, <4>3 DEF c
    <3> QED BY <3>2, <3>3
  <2>2. Cose!CoseKatRederives(f)
    BY <2>1 DEF Cose!CoseKatRederives
  <2> QED BY <1>4, <2>2 DEF IsCose
<1> QED BY <1>2, <1>3, <1>4 DEF ByFreezing

-----------------------------------------------------------------------------
(* The three suites whose corpora are made of the rules alone: the core      *)
(* battery, Web Bot Auth and FAPI.  Their hypotheses too say that a suite is *)
(* one of them as the modules define it, and of the files' cases no more     *)
(* than their shape.                                                         *)

\* Every case of every section of every file is of that shape.
Shaped(s, Shape(_, _)) ==
  \A f \in FilesRead(s) : \A k \in DOMAIN SectionsOf(s) :
    LET section == SectionsOf(s)[k] IN
      f[section] # Missing => \A n \in DOMAIN f[section] : Shape(section, f[section][n])

IsNegative(s) ==
  /\ SectionsOf(s) = Neg!NegativeSections /\ PortsOf(s) = Neg!NegativeRunners
  /\ \A section, c : Correct(s, section, c) <=> Neg!NegativeCorrect(section, c)
  /\ \A p, section, c : Judge(s, p, section, c) = Neg!NegativeJudge(p, section, c)
  /\ \A section, c : Emitted(s, section, c) <=> Neg!NegativeEmitted(section, c)
  /\ \A f : KatRederives(s, f) <=> Neg!NegativeKatRederives(f)
  /\ \A section : KatReads(s, section) <=> section = "signing_base"
  /\ \A section, c : ~KatChecks(s, section, c)
  /\ Shaped(s, Neg!NegativeShape)
  /\ Neg!SextetAssumption /\ Neg!KeysAsDefined

IsWba(s) ==
  /\ SectionsOf(s) = Wba!WbaSections /\ PortsOf(s) = Wba!WbaPorts
  /\ \A section, c : Correct(s, section, c) <=> Wba!WbaCorrect(section, c)
  /\ \A p, section, c : Judge(s, p, section, c) = Wba!WbaJudge(p, section, c)
  /\ \A section, c : Emitted(s, section, c) <=> Wba!WbaEmitted(section, c)
  /\ \A f : KatRederives(s, f) <=> Wba!WbaKatRederives(f)
  /\ \A section, c : KatChecks(s, section, c) <=> Wba!WbaKatChecks(section, c)
  /\ Shaped(s, Wba!CaseShape) /\ \A f \in FilesRead(s) : DOMAIN f = Wba!SectionNames
  /\ Skew \in Wba!Exact

IsFapi(s) ==
  /\ SectionsOf(s) = Fapi!FapiSections /\ PortsOf(s) = Fapi!FapiRunners
  /\ \A section, c : Correct(s, section, c) <=> Fapi!FapiCorrect(section, c)
  /\ \A p, section, c : Judge(s, p, section, c) = Fapi!FapiJudge(p, section, c)
  /\ \A section, c : Emitted(s, section, c) <=> Fapi!FapiEmitted(section, c)
  /\ \A f : KatRederives(s, f) <=> Fapi!FapiKatRederives(f)
  /\ \A section, c : KatChecks(s, section, c) <=> Fapi!FapiKatChecks(section, c)
  /\ Shaped(s, Fapi!CaseShape) /\ \A f \in FilesRead(s) : DOMAIN f = Fapi!SectionNames
  /\ Order \in Int

ByReference(s) == IsNegative(s) \/ IsWba(s) \/ IsFapi(s)

\* The six suites of the repository, and no other.
AllSuites == \A s \in Suites : ByFreezing(s) \/ ByReference(s)

\* The messages for which check_kat.py holds hand-made bases are those it was
\* written for.
AnchoredFiles ==
  \A s \in Suites : IsNegative(s) =>
    \A f \in FilesRead(s) : f["signing_base"] # Missing => Neg!Anchored(f)

\* The sections of the three suites have the names that their modules know.
LEMMA ReferenceSections ==
  ASSUME NEW s, NEW k \in DOMAIN SectionsOf(s)
  PROVE  /\ IsNegative(s) => SectionsOf(s)[k] \in Neg!NegativeNames
         /\ IsWba(s) => SectionsOf(s)[k] \in Wba!SectionNames
         /\ IsFapi(s) => SectionsOf(s)[k] \in Fapi!SectionNames
<1>1. IsNegative(s) => SectionsOf(s)[k] \in Neg!NegativeNames
  BY DEF IsNegative, Neg!NegativeSections, Neg!NegativeNames
<1>2. IsWba(s) => SectionsOf(s)[k] \in Wba!SectionNames
  BY Wba!SectionIsNamed DEF IsWba
<1>3. IsFapi(s) => SectionsOf(s)[k] \in Fapi!SectionNames
  BY Fapi!SectionIsNamed DEF IsFapi
<1> QED BY <1>1, <1>2, <1>3

\* Their ports judge what the generators write as the oracles do.
LEMMA ReferenceFaithful ==
  ASSUME NEW s, ByReference(s), NEW f \in FilesRead(s), NEW k \in DOMAIN SectionsOf(s),
         f[SectionsOf(s)[k]] # Missing, NEW n \in DOMAIN f[SectionsOf(s)[k]],
         NEW i \in DOMAIN PortsOf(s), Emitted(s, SectionsOf(s)[k], f[SectionsOf(s)[k]][n])
  PROVE  Judge(s, PortsOf(s)[i], SectionsOf(s)[k], f[SectionsOf(s)[k]][n]) =
           IF Correct(s, SectionsOf(s)[k], f[SectionsOf(s)[k]][n]) THEN "match" ELSE "mismatch"
<1> DEFINE section == SectionsOf(s)[k]
           c == f[section][n]
<1>1. CASE IsNegative(s)
  <2>1. /\ i \in DOMAIN Neg!NegativeRunners /\ section \in Neg!NegativeNames
        /\ Neg!NegativeShape(section, c) /\ Neg!NegativeEmitted(section, c)
        /\ Neg!SextetAssumption /\ Neg!KeysAsDefined
    BY <1>1, ReferenceSections DEF IsNegative, Shaped
  <2>2. Neg!NegativeJudge(Neg!NegativeRunners[i], section, c) =
          IF Neg!NegativeCorrect(section, c) THEN "match" ELSE "mismatch"
    BY <2>1, Neg!NegativePortsAgree
  <2> QED BY <1>1, <2>2 DEF IsNegative
<1>2. CASE IsWba(s)
  <2>1. /\ i \in DOMAIN Wba!WbaPorts /\ section \in Wba!SectionNames
        /\ Wba!CaseShape(section, c) /\ Wba!WbaEmitted(section, c) /\ Skew \in Wba!Exact
    BY <1>2, ReferenceSections DEF IsWba, Shaped
  <2>2. Wba!WbaJudge(Wba!WbaPorts[i], section, c) =
          IF Wba!WbaCorrect(section, c) THEN "match" ELSE "mismatch"
    BY <2>1, Wba!PortsAgree
  <2> QED BY <1>2, <2>2 DEF IsWba
<1>3. CASE IsFapi(s)
  <2>1. /\ i \in DOMAIN Fapi!FapiRunners /\ section \in Fapi!SectionNames
        /\ Fapi!CaseShape(section, c) /\ Fapi!FapiEmitted(section, c) /\ Order \in Int
    BY <1>3, ReferenceSections DEF IsFapi, Shaped
  <2>2. Fapi!FapiJudge(Fapi!FapiRunners[i], section, c) =
          IF Fapi!FapiCorrect(section, c) THEN "match" ELSE "mismatch"
    BY <2>1, Fapi!PortsAgree
  <2> QED BY <1>3, <2>2 DEF IsFapi
<1> QED BY <1>1, <1>2, <1>3 DEF ByReference

\* The port of a suite whose rules are its oracle's on every case of the model:
\* python's, but for FAPI the java one (verify_fapi.py builds no base over some
\* of the derived components).
IsTwin(s, i) ==
  \/ i = 1 /\ (IsNegative(s) \/ IsWba(s))
  \/ i = 6 /\ IsFapi(s)

\* Every suite has one, and it fails on what it cannot find.
LEMMA ReferencePorts ==
  ASSUME NEW s, ByReference(s)
  PROVE  /\ \E i : IsTwin(s, i)
         /\ \A i : IsTwin(s, i) => i \in DOMAIN PortsOf(s) /\ Strict(PortsOf(s)[i])
         /\ IsNegative(s) => PortsOf(s)[1] = Neg!PythonRunner
         /\ IsWba(s) => PortsOf(s)[1] = Wba!Python
         /\ IsFapi(s) => PortsOf(s)[6] = Fapi!Java
<1>1. ASSUME IsNegative(s) PROVE 1 \in DOMAIN PortsOf(s) /\ Strict(PortsOf(s)[1])
  BY <1>1, Neg!NegativeRunnersAreTwelve DEF IsNegative, Strict
<1>2. ASSUME IsWba(s) PROVE 1 \in DOMAIN PortsOf(s) /\ Strict(PortsOf(s)[1])
  BY <1>2, Wba!RunnersAreTwelve DEF IsWba, Strict
<1>3. ASSUME IsFapi(s) PROVE 6 \in DOMAIN PortsOf(s) /\ Strict(PortsOf(s)[6])
  BY <1>3, Fapi!RunnersAreTwelve DEF IsFapi, Strict
<1>4. /\ IsNegative(s) => PortsOf(s)[1] = Neg!PythonRunner
      /\ IsWba(s) => PortsOf(s)[1] = Wba!Python
      /\ IsFapi(s) => PortsOf(s)[6] = Fapi!Java
  BY Neg!NegativeRunnersAreTwelve, Wba!RunnersAreTwelve, Fapi!RunnersAreTwelve
     DEF IsNegative, IsWba, IsFapi
<1>5. \E i : IsTwin(s, i)
  BY DEF ByReference, IsTwin
<1>6. \A i : IsTwin(s, i) => i \in DOMAIN PortsOf(s) /\ Strict(PortsOf(s)[i])
  BY <1>1, <1>2, <1>3 DEF IsTwin
<1> QED BY <1>4, <1>5, <1>6

\* What it matches is correct.
LEMMA ReferenceMatches ==
  ASSUME NEW s, NEW i, IsTwin(s, i), NEW f \in FilesRead(s), NEW k \in DOMAIN SectionsOf(s),
         f[SectionsOf(s)[k]] # Missing, NEW n \in DOMAIN f[SectionsOf(s)[k]],
         Judge(s, PortsOf(s)[i], SectionsOf(s)[k], f[SectionsOf(s)[k]][n]) = "match"
  PROVE  Correct(s, SectionsOf(s)[k], f[SectionsOf(s)[k]][n])
<1> DEFINE section == SectionsOf(s)[k]
           c == f[section][n]
<1>0. ByReference(s)
  BY DEF IsTwin, ByReference
<1>1. CASE i = 1 /\ IsNegative(s)
  <2>1. Neg!NegativeJudge(Neg!PythonRunner, section, c) = "match" /\ Neg!SextetAssumption
    BY <1>0, <1>1, ReferencePorts DEF IsNegative
  <2>2. Neg!NegativeCorrect(section, c)
    BY <2>1, Neg!PythonIsTheReference
  <2> QED BY <1>1, <2>2 DEF IsNegative
<1>2. CASE i = 1 /\ IsWba(s)
  <2>1. /\ section \in Wba!SectionNames /\ Wba!CaseShape(section, c) /\ Skew \in Wba!Exact
        /\ Wba!WbaJudge(Wba!Python, section, c) = "match"
    BY <1>0, <1>2, ReferenceSections, ReferencePorts DEF IsWba, Shaped
  <2>2. Wba!WbaCorrect(section, c)
    BY <2>1, Wba!PythonIsTheOracle
  <2> QED BY <1>2, <2>2 DEF IsWba
<1>3. CASE i = 6 /\ IsFapi(s)
  <2>1. /\ section \in Fapi!SectionNames /\ Fapi!CaseShape(section, c) /\ Order \in Int
        /\ Fapi!FapiJudge(Fapi!Java, section, c) = "match"
    BY <1>0, <1>3, ReferenceSections, ReferencePorts DEF IsFapi, Shaped
  <2>2. Fapi!FapiCorrect(section, c)
    BY <2>1, Fapi!JavaIsTheOracle
  <2> QED BY <1>3, <2>2 DEF IsFapi
<1> QED BY <1>1, <1>2, <1>3 DEF IsTwin

\* What their gates recompute and pass is correct, and what they look for is there.
LEMMA ReferenceGateFaithful ==
  ASSUME NEW s, ByReference(s), NEW f \in FilesRead(s), KatRederives(s, f),
         NEW k \in DOMAIN SectionsOf(s)
  PROVE  /\ KatReads(s, SectionsOf(s)[k]) => f[SectionsOf(s)[k]] # Missing
         /\ f[SectionsOf(s)[k]] # Missing =>
              \A n \in DOMAIN f[SectionsOf(s)[k]] :
                KatChecks(s, SectionsOf(s)[k], f[SectionsOf(s)[k]][n])
                  => Correct(s, SectionsOf(s)[k], f[SectionsOf(s)[k]][n])
<1> DEFINE section == SectionsOf(s)[k]
<1>1. CASE IsNegative(s)
  <2>1. f["signing_base"] # Missing
    BY <1>1 DEF IsNegative, Neg!NegativeKatRederives
  <2> QED BY <1>1, <2>1 DEF IsNegative
<1>2. CASE IsWba(s)
  <2>1. /\ section \in Wba!SectionNames \cap DOMAIN f /\ Skew \in Wba!Exact
        /\ Wba!WbaKatRederives(f)
    BY <1>2, ReferenceSections DEF IsWba
  <2>2. f[section] # Missing
    BY <2>1 DEF Wba!WbaKatRederives
  <2>3. ASSUME NEW n \in DOMAIN f[section], KatChecks(s, section, f[section][n])
        PROVE  Correct(s, section, f[section][n])
    <3>1. Wba!CaseShape(section, f[section][n]) /\ Wba!WbaKatChecks(section, f[section][n])
      BY <1>2, <2>2, <2>3 DEF IsWba, Shaped
    <3>2. Wba!WbaCorrect(section, f[section][n])
      BY <2>1, <3>1, Wba!GateIsTheOracle
    <3> QED BY <1>2, <3>2 DEF IsWba
  <2> QED BY <2>2, <2>3
<1>3. CASE IsFapi(s)
  <2>1. /\ section \in Fapi!SectionNames \cap DOMAIN f /\ Order \in Int
        /\ Fapi!FapiKatRederives(f)
    BY <1>3, ReferenceSections DEF IsFapi
  <2>2. f[section] # Missing
    BY <2>1 DEF Fapi!FapiKatRederives
  <2>3. ASSUME NEW n \in DOMAIN f[section], KatChecks(s, section, f[section][n])
        PROVE  Correct(s, section, f[section][n])
    <3>1. Fapi!CaseShape(section, f[section][n]) /\ Fapi!FapiKatChecks(section, f[section][n])
      BY <1>3, <2>2, <2>3 DEF IsFapi, Shaped
    <3>2. Fapi!FapiCorrect(section, f[section][n])
      BY <2>1, <3>1, Fapi!GateIsTheOracle
    <3> QED BY <1>3, <3>2 DEF IsFapi
  <2> QED BY <2>2, <2>3
<1> QED BY <1>1, <1>2, <1>3 DEF ByReference

\* And every whole file whose cases such a port matches passes them.
LEMMA ReferenceGateComplete ==
  ASSUME AnchoredFiles, NEW s \in Suites, ByReference(s), NEW f \in FilesRead(s), NEW i, IsTwin(s, i),
         \A k \in DOMAIN SectionsOf(s) :
           /\ f[SectionsOf(s)[k]] # Missing
           /\ \A n \in DOMAIN f[SectionsOf(s)[k]] :
                Judge(s, PortsOf(s)[i], SectionsOf(s)[k], f[SectionsOf(s)[k]][n]) = "match"
  PROVE  KatRederives(s, f)
<1>1. CASE i = 1 /\ IsNegative(s)
  <2>1. 1 \in DOMAIN SectionsOf(s) /\ SectionsOf(s)[1] = "signing_base"
    BY <1>1 DEF IsNegative, Neg!NegativeSections
  <2>2. /\ f["signing_base"] # Missing
        /\ \A n \in DOMAIN f["signing_base"] :
             Neg!NegativeJudge(Neg!PythonRunner, "signing_base", f["signing_base"][n]) = "match"
    BY <1>1, <2>1, ReferencePorts DEF IsNegative
  <2>3. Neg!Anchored(f) /\ Neg!SextetAssumption
    BY <1>1, <2>2 DEF AnchoredFiles, IsNegative
  <2>4. Neg!NegativeKatRederives(f)
    BY <2>2, <2>3, Neg!KatTakesTheReference
  <2> QED BY <1>1, <2>4 DEF IsNegative
<1>2. CASE i = 1 /\ IsWba(s)
  <2>1. DOMAIN f = Wba!SectionNames
    BY <1>2 DEF IsWba
  <2>2. ASSUME NEW section \in Wba!SectionNames
        PROVE  /\ f[section] # Missing
               /\ \A n \in DOMAIN f[section] :
                    Wba!WbaJudge(Wba!Python, section, f[section][n]) = "match"
    <3>1. PICK k \in DOMAIN SectionsOf(s) : SectionsOf(s)[k] = section
      BY <1>2, <2>2, Wba!NameIsASection DEF IsWba
    <3> QED BY <1>2, <3>1, ReferencePorts DEF IsWba
  <2>3. Wba!WbaKatRederives(f)
    BY <2>1, <2>2, Wba!GateTakesTheOracles
  <2> QED BY <1>2, <2>3 DEF IsWba
<1>3. CASE i = 6 /\ IsFapi(s)
  <2>1. DOMAIN f = Fapi!SectionNames
    BY <1>3 DEF IsFapi
  <2>2. ASSUME NEW section \in Fapi!SectionNames
        PROVE  /\ f[section] # Missing
               /\ \A n \in DOMAIN f[section] :
                    Fapi!FapiJudge(Fapi!Java, section, f[section][n]) = "match"
    <3>1. PICK k \in DOMAIN SectionsOf(s) : SectionsOf(s)[k] = section
      BY <1>3, <2>2, Fapi!NameIsASection DEF IsFapi
    <3> QED BY <1>3, <3>1, ReferencePorts DEF IsFapi
  <2>3. Fapi!FapiKatRederives(f)
    BY <2>1, <2>2, Fapi!GateTakesTheOracles
  <2> QED BY <1>3, <2>3 DEF IsFapi
<1> QED BY <1>1, <1>2, <1>3 DEF IsTwin

-----------------------------------------------------------------------------
(* The field of the six suites.                                             *)

\* All seventy-two runners judge what the generators write as the oracles do.
LEMMA SuitesFaithful ==
  ASSUME AllSuites
  PROVE  PortsFaithful
<1> SUFFICES ASSUME NEW s \in Suites, NEW f \in FilesRead(s), NEW k \in DOMAIN SectionsOf(s),
                    f[SectionsOf(s)[k]] # Missing, NEW n \in DOMAIN f[SectionsOf(s)[k]],
                    NEW i \in DOMAIN PortsOf(s),
                    Emitted(s, SectionsOf(s)[k], f[SectionsOf(s)[k]][n])
             PROVE  Judge(s, PortsOf(s)[i], SectionsOf(s)[k], f[SectionsOf(s)[k]][n]) =
                      IF Correct(s, SectionsOf(s)[k], f[SectionsOf(s)[k]][n])
                        THEN "match" ELSE "mismatch"
  BY DEF PortsFaithful
<1>1. CASE ByFreezing(s)
  BY <1>1, FrozenFaithful
<1>2. CASE ByReference(s)
  BY <1>2, ReferenceFaithful
<1> QED BY <1>1, <1>2 DEF AllSuites

\* In every suite one runner, a strict one where there is any, matches nothing
\* that is not correct.
LEMMA SuitesTwin ==
  ASSUME AllSuites
  PROVE  OracleTwin
<1> SUFFICES ASSUME NEW s \in Suites
             PROVE  \E i \in DOMAIN PortsOf(s) :
                      /\ (\E j \in DOMAIN PortsOf(s) : Strict(PortsOf(s)[j]))
                           => Strict(PortsOf(s)[i])
                      /\ \A f \in FilesRead(s) : \A k \in DOMAIN SectionsOf(s) :
                           f[SectionsOf(s)[k]] # Missing =>
                             \A n \in DOMAIN f[SectionsOf(s)[k]] :
                               Judge(s, PortsOf(s)[i], SectionsOf(s)[k],
                                     f[SectionsOf(s)[k]][n]) = "match"
                                 => Correct(s, SectionsOf(s)[k], f[SectionsOf(s)[k]][n])
  BY DEF OracleTwin
<1>1. CASE ByFreezing(s)
  <2>1. 1 \in DOMAIN PortsOf(s) /\ ~ \E j \in DOMAIN PortsOf(s) : Strict(PortsOf(s)[j])
    BY <1>1, FrozenPorts DEF Strict
  <2> QED BY <1>1, <2>1, PythonMatches
<1>2. CASE ByReference(s)
  <2>1. PICK i : IsTwin(s, i)
    BY <1>2, ReferencePorts
  <2>2. i \in DOMAIN PortsOf(s) /\ Strict(PortsOf(s)[i])
    BY <1>2, <2>1, ReferencePorts
  <2> QED BY <2>1, <2>2, ReferenceMatches
<1> QED BY <1>1, <1>2 DEF AllSuites

\* What the six gates recompute and accept, the oracles decide as the file says.
LEMMA SuitesGateFaithful ==
  ASSUME AllSuites, AbsentIsApart
  PROVE  GateFaithful
<1> SUFFICES ASSUME NEW s \in Suites, NEW f \in FilesRead(s), KatRederives(s, f),
                    NEW k \in DOMAIN SectionsOf(s)
             PROVE  /\ f[SectionsOf(s)[k]] = Missing /\ KatReads(s, SectionsOf(s)[k]) =>
                         \A i \in DOMAIN PortsOf(s) : PortsOf(s)[i].missing = "empty"
                    /\ f[SectionsOf(s)[k]] # Missing =>
                         \A n \in DOMAIN f[SectionsOf(s)[k]] :
                           /\ Emitted(s, SectionsOf(s)[k], f[SectionsOf(s)[k]][n])
                           /\ KatChecks(s, SectionsOf(s)[k], f[SectionsOf(s)[k]][n])
                           => Correct(s, SectionsOf(s)[k], f[SectionsOf(s)[k]][n])
  BY DEF GateFaithful
<1>1. CASE ByFreezing(s)
  BY <1>1, FrozenPorts, FrozenGateFaithful
<1>2. CASE ByReference(s)
  BY <1>2, ReferenceGateFaithful
<1> QED BY <1>1, <1>2 DEF AllSuites

\* What the oracles decide as the file says, the six gates accept.
LEMMA SuitesGateComplete ==
  ASSUME AllSuites, AbsentIsApart, AnchoredFiles
  PROVE  GateComplete
<1> SUFFICES ASSUME NEW s \in Suites, NEW f \in FilesRead(s),
                    \A k \in DOMAIN SectionsOf(s) :
                      /\ f[SectionsOf(s)[k]] # Missing
                      /\ \A n \in DOMAIN f[SectionsOf(s)[k]] : \A i \in DOMAIN PortsOf(s) :
                           Judge(s, PortsOf(s)[i], SectionsOf(s)[k], f[SectionsOf(s)[k]][n])
                             = "match"
             PROVE  KatRederives(s, f)
  BY DEF GateComplete
<1>1. CASE ByFreezing(s)
  BY <1>1, FrozenGateComplete
<1>2. CASE ByReference(s)
  <2>1. PICK i : IsTwin(s, i)
    BY <1>2, ReferencePorts
  <2>2. i \in DOMAIN PortsOf(s)
    BY <1>2, <2>1, ReferencePorts
  <2> QED BY <1>2, <2>1, <2>2, ReferenceGateComplete
<1> QED BY <1>1, <1>2 DEF AllSuites

\* Of the six suites as they are: exit 0 of a runner that fails on what it cannot
\* find says of a corpus as generated that nothing is missing and every expectation
\* is the oracle's, whatever the tools left ("exits 0 iff it matched every case",
\* run_consensus_*.sh).
THEOREM SuitesStrictZero ==
  ASSUME AllSuites
  PROVE  PipelineSpec => []StrictZeroIsEarned
BY SuitesFaithful, PipelineStrictZero

\* A corpus as its generator makes it fails none of the twelve runners of its suite,
\* after whatever kills (the main loops of the runners in tools/ and runtimes/).
THEOREM SuitesPass ==
  ASSUME AllSuites
  PROVE  PipelineSpec => []StampedFailsNoPort
BY SuitesFaithful, PipelinePasses

\* When all twelve runners of a suite exit 0, every expectation in the file is the
\* oracle's, whatever the cases are and whatever the tools left.
THEOREM SuitesFullField ==
  ASSUME AllSuites
  PROVE  PipelineSpec => []FullFieldIsOracle
BY SuitesTwin, PipelineFullField

\* What a gate accepts after recomputing every case fails no runner (check_kat*.py).
THEOREM SuitesGatePasses ==
  ASSUME AllSuites, AbsentIsApart
  PROVE  PipelineSpec => []GateImpliesField
BY SuitesFaithful, SuitesGateFaithful, PipelineGatePasses

\* And a gate accepts whatever the whole field reproduces (check_kat*.py).
THEOREM SuitesFieldPasses ==
  ASSUME AllSuites, AbsentIsApart, AnchoredFiles
  PROVE  PipelineSpec => []FieldImpliesGate
BY SuitesGateComplete, PipelineFieldPasses
=============================================================================
