--------------------------- MODULE VerdictField ----------------------------
(***************************************************************************)
(* The field of language runners over one corpus file.  Each runner is a   *)
(* process of its own: it opens the file, takes the suite's sections in    *)
(* order, judges every case against the expectation stamped on it, and     *)
(* exits 0 iff it counted no mismatch.  An exception that nothing catches  *)
(* ends it with another status.                                            *)
(*                                                                         *)
(* A suite gives its sections, its ports (a record each) and how a port    *)
(* judges a case; the modules *Ports define these for one suite each.      *)
(* The runners share nothing but the file, so they are taken in the order  *)
(* in which the consensus driver starts them.                              *)
(***************************************************************************)
EXTENDS Integers, Sequences

CONSTANTS
  Suites,           \* the suites considered
  SectionsOf(_),    \* the sections of a suite, in the order they are taken
  PortsOf(_),       \* its ports, in the order of LANGS
  Judge(_, _, _, _),\* suite, port, section, case: "match", "mismatch", "raise"
  Files(_),         \* the corpus files a run may meet
  Unreadable,       \* no file, or not JSON
  Missing,          \* the corpus has no such section
  Correct(_, _, _), \* suite, section, case: the oracle would stamp this
                    \* expectation on the case
  Emitted(_, _, _), \* suite, section, case: the case is of the kinds that the
                    \* suite's generator writes
  KatRederives(_, _),\* suite, file: check_kat_*.py finds the sections it wants,
                    \* and every verdict it recomputes is the one in the file
  KatReads(_, _),   \* suite, section: it looks for this one
  KatChecks(_, _, _)\* suite, section, case: it recomputes this one

ASSUME VerdictAssumption ==
  \A s \in Suites :
    /\ Len(SectionsOf(s)) \in Nat
    /\ DOMAIN SectionsOf(s) = 1 .. Len(SectionsOf(s))
    /\ \A i \in DOMAIN PortsOf(s) :
         /\ PortsOf(s)[i].missing \in {"raise", "empty"}
         /\ PortsOf(s)[i].unread \in {"fail", "empty"}
    /\ Len(PortsOf(s)) \in Nat \ {0}
    /\ DOMAIN PortsOf(s) = 1 .. Len(PortsOf(s))
    /\ \A f \in Files(s) \ {Unreadable} : \A k \in DOMAIN SectionsOf(s) :
         LET cases == f[SectionsOf(s)[k]] IN
           cases # Missing => /\ Len(cases) \in Nat
                              /\ DOMAIN cases = 1 .. Len(cases)

VARIABLES
  suite,
  file,    \* what is at the corpus path
  port,    \* position of the runner under way
  pc,      \* "open", "section", "case" or "exited"
  sec,     \* position in the sections
  pos,     \* position in the cases of the section
  fails,   \* mismatches the runner has counted
  exits    \* [port -> "none", "zero" or "nonzero"]

given == <<suite, file>>
vars == <<given, port, pc, sec, pos, fails, exits>>

Sections == SectionsOf(suite)

Ports == PortsOf(suite)

\* What a lookup of section k gives.
CasesAt(k) == IF file = Unreadable THEN Missing ELSE file[Sections[k]]

Outcome(i, k, n) == Judge(suite, Ports[i], Sections[k], CasesAt(k)[n])

-----------------------------------------------------------------------------
Init ==
  /\ suite \in Suites
  /\ file \in Files(suite)
  /\ port = 1
  /\ pc = "open"
  /\ sec = 1 /\ pos = 1 /\ fails = 0
  /\ exits = [i \in DOMAIN Ports |-> "none"]

Exit(status) ==
  /\ exits' = [exits EXCEPT ![port] = status]
  /\ pc' = "exited"
  /\ sec' = 1 /\ pos' = 1 /\ fails' = 0
  /\ UNCHANGED <<given, port>>

\* The runner reads and parses the corpus.
Open ==
  /\ pc = "open"
  /\ IF file = Unreadable /\ Ports[port].unread = "fail"
       THEN Exit("nonzero")
       ELSE pc' = "section" /\ UNCHANGED <<given, port, sec, pos, fails, exits>>

\* Mutant: a section that is not there is looked up again.
EnterSection_Waits ==
  /\ pc = "section"
  /\ sec <= Len(Sections)
  /\ CASE CasesAt(sec) # Missing ->
            pc' = "case" /\ UNCHANGED <<given, port, sec, pos, fails, exits>>
       [] CasesAt(sec) = Missing /\ Ports[port].missing = "raise" ->
            Exit("nonzero")
       [] CasesAt(sec) = Missing /\ Ports[port].missing = "empty" ->
            UNCHANGED vars

\* It looks the next section up.
EnterSection ==
  /\ pc = "section"
  /\ sec <= Len(Sections)
  /\ CASE CasesAt(sec) # Missing ->
            pc' = "case" /\ UNCHANGED <<given, port, sec, pos, fails, exits>>
       [] CasesAt(sec) = Missing /\ Ports[port].missing = "raise" ->
            Exit("nonzero")
       [] CasesAt(sec) = Missing /\ Ports[port].missing = "empty" ->
            sec' = sec + 1 /\ UNCHANGED <<given, port, pc, pos, fails, exits>>

\* One case of the section.
JudgeCase ==
  /\ pc = "case"
  /\ pos <= Len(CasesAt(sec))
  /\ IF Outcome(port, sec, pos) = "raise"
       THEN Exit("nonzero")
       ELSE /\ pos' = pos + 1
            /\ fails' = IF Outcome(port, sec, pos) = "match"
                          THEN fails ELSE fails + 1
            /\ UNCHANGED <<given, port, pc, sec, exits>>

\* Mutant: the status is taken from the last section alone.
EndSection_ForgetsFails ==
  /\ pc = "case"
  /\ pos > Len(CasesAt(sec))
  /\ pc' = "section"
  /\ sec' = sec + 1
  /\ pos' = 1
  /\ fails' = IF sec < Len(Sections) THEN 0 ELSE fails
  /\ UNCHANGED <<given, port, exits>>

EndSection ==
  /\ pc = "case"
  /\ pos > Len(CasesAt(sec))
  /\ pc' = "section"
  /\ sec' = sec + 1
  /\ pos' = 1
  /\ UNCHANGED <<given, port, fails, exits>>

Finish ==
  /\ pc = "section"
  /\ sec > Len(Sections)
  /\ Exit(IF fails = 0 THEN "zero" ELSE "nonzero")

\* Mutant: the list of ports is read past its end.
StartNext_PastTheLast ==
  /\ pc = "exited"
  /\ port <= Len(Ports)
  /\ port' = port + 1
  /\ pc' = "open"
  /\ UNCHANGED <<given, sec, pos, fails, exits>>

\* The next runner is started on the same file.
StartNext ==
  /\ pc = "exited"
  /\ port < Len(Ports)
  /\ port' = port + 1
  /\ pc' = "open"
  /\ UNCHANGED <<given, sec, pos, fails, exits>>

Next ==
  Open \/ EnterSection \/ JudgeCase \/ EndSection \/ Finish \/ StartNext

Spec == Init /\ [][Next]_vars

-----------------------------------------------------------------------------
(* What a file is worth.                                                   *)

Complete ==
  /\ file # Unreadable
  /\ \A k \in DOMAIN Sections : CasesAt(k) # Missing

\* Every expectation in the file is the oracle's.
Stamped ==
  \A k \in DOMAIN Sections :
    CasesAt(k) # Missing =>
      \A n \in DOMAIN CasesAt(k) : Correct(suite, Sections[k], CasesAt(k)[n])

AsGenerated ==
  \A k \in DOMAIN Sections :
    CasesAt(k) # Missing =>
      \A n \in DOMAIN CasesAt(k) : Emitted(suite, Sections[k], CasesAt(k)[n])

Strict(p) == p.missing = "raise" /\ p.unread = "fail"

\* Runner i reproduces the file.
Reproduces(i) ==
  /\ file = Unreadable => Ports[i].unread = "empty"
  /\ \A k \in DOMAIN Sections :
       IF CasesAt(k) = Missing
         THEN Ports[i].missing = "empty"
         ELSE \A n \in DOMAIN CasesAt(k) : Outcome(i, k, n) = "match"

-----------------------------------------------------------------------------
(* Properties.                                                             *)

\* The type invariant.
TypeOK ==
  /\ suite \in Suites
  /\ file \in Files(suite)
  /\ port \in 1 .. Len(Ports)
  /\ pc \in {"open", "section", "case", "exited"}
  /\ sec \in 1 .. Len(Sections) + 1
  /\ pos \in Nat \ {0}
  /\ fails \in Nat
  /\ exits \in [DOMAIN Ports -> {"none", "zero", "nonzero"}]

\* Sections before k, and of section k the cases before n, were all judged.
JudgedSoFar(k, n) ==
  /\ \A j \in 1 .. k - 1 :
       IF CasesAt(j) = Missing
         THEN Ports[port].missing = "empty"
         ELSE \A m \in DOMAIN CasesAt(j) : Outcome(port, j, m) = "match"
  /\ \A m \in 1 .. n - 1 : Outcome(port, k, m) = "match"

\* A runner exits 0 iff it judged every case of the file a match and could do
\* without what is not there.  (The main loops of the runners.)
ExitsTell ==
  pc = "exited" => (exits[port] = "zero" <=> Reproduces(port))

\* A runner that has exited told whether it reproduces the file; one under
\* way has counted no mismatch iff it met none.  (The main loops of the
\* runners: results are collected over all sections, and only the count at
\* the end decides.)
IInv ==
  /\ TypeOK
  /\ \A i \in DOMAIN Ports :
       /\ i < port \/ (i = port /\ pc = "exited") <=> exits[i] # "none"
       /\ exits[i] = "zero" => Reproduces(i)
       /\ exits[i] = "nonzero" => ~Reproduces(i)
  /\ pc = "case" => sec <= Len(Sections) /\ CasesAt(sec) # Missing
                    /\ pos <= Len(CasesAt(sec)) + 1
  /\ pc # "case" => pos = 1
  /\ pc \in {"open", "exited"} => sec = 1 /\ fails = 0
  /\ pc \in {"section", "case"} =>
       /\ file = Unreadable => Ports[port].unread = "empty"
       /\ fails = 0 <=> JudgedSoFar(sec, pos)

\* Exit 0 of a port that fails on what it cannot find means, on cases of the
\* kinds the generator writes, that no section was left out and every
\* expectation is the oracle's ("exits 0 iff it matched every case",
\* run_consensus_*.sh, and gen_*.py: every verdict is stamped by the oracle).
StrictZeroIsEarned ==
  /\ \E i \in DOMAIN Ports : exits[i] = "zero" /\ Strict(Ports[i])
  /\ AsGenerated
  => Complete /\ Stamped

\* A port that can do without the sections a file lacks never fails one that is
\* as the generator writes it: the implementations of the rules decide alike.
StampedFailsNoPort ==
  (\E i \in DOMAIN Ports :
     exits[i] = "nonzero" /\ (Complete \/ Ports[i].missing = "empty")) =>
    ~(file # Unreadable /\ AsGenerated /\ Stamped)

\* When the whole field exits 0, every expectation is the oracle's, whatever the
\* cases: ports that read a case differently cannot all match it.  And every
\* section was there, if the suite has a port that fails on a missing one.
FullFieldIsOracle ==
  (\A i \in DOMAIN Ports : exits[i] = "zero") =>
    Stamped /\ ((\E i \in DOMAIN Ports : Strict(Ports[i])) => Complete)

\* The KAT gate (which also refuses empty sections) derives every verdict that
\* the whole field matches: consensus never hides a case the gate would refuse.
\* (A missing section it may hide, where no port is strict.)
FieldImpliesGate ==
  /\ \A i \in DOMAIN Ports : exits[i] = "zero"
  /\ Complete \/ \E i \in DOMAIN Ports : Strict(Ports[i])
  => file # Unreadable /\ KatRederives(suite, file)

\* And no port fails what the gate derives, empty sections or not, provided that
\* it looked for every section and recomputed every case.
GateImpliesField ==
  (\E i \in DOMAIN Ports : exits[i] = "nonzero") =>
    ~(/\ file # Unreadable /\ AsGenerated /\ KatRederives(suite, file)
      /\ \A k \in DOMAIN Sections :
           /\ KatReads(suite, Sections[k])
           /\ CasesAt(k) # Missing =>
                \A n \in DOMAIN CasesAt(k) :
                  KatChecks(suite, Sections[k], CasesAt(k)[n]))
=============================================================================
