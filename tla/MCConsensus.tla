---------------------------- MODULE MCConsensus ----------------------------
(***************************************************************************)
(* The seven scripts with their real language tables, on hosts that lack   *)
(* at most two tools, with at most one runner that does not reproduce the  *)
(* signed corpus; and a three-language script on every host, with every    *)
(* behaviour of its runners and two invocations.                           *)
(***************************************************************************)
EXTENDS Consensus, ConsensusSuites

\* The shape of the core battery: the gate shares its interpreter with a
\* language, one runner skips and replays, one changes directory.
Trio ==
  [langs   |-> <<"python", "go", "c">>,
   needs   |-> <<{{"python3"}}, {{"go"}}, {{"cc"}}>>,
   gate    |-> {{"python3"}},
   chdir   |-> {2, 3},
   vacuous |-> {2},
   memo    |-> {2},
   require |-> 2]

TrioHosts == SUBSET {"python3", "go", "cc"}

\* Losing any one tool, and the pairs that take the most languages away: the
\* Python interpreters, the JDK with Python, a JDK with node.
FieldHosts ==
  {ToolNames} \cup {ToolNames \ {t} : t \in ToolNames}
    \cup {ToolNames \ m : m \in {{"python3", "python"}, {"java", "python3"},
                                 {"java", "node"}, {"go", "cargo"},
                                 {"liboqs_local", "liboqs_usr"}}}

MCSuites == AllSuites \cup {Trio}
MCInstallations == FieldHosts \cup TrioHosts
MCRequireArgs == {Default, NotANumber, 0, 2, 3, 12}

\* Every runner computes the signed corpus' verdicts, or they all share a
\* systematic error with a drifted corpus (what the KAT gate is for); in either
\* field one runner may be broken.
FieldBehaviours(s) ==
  LET honest == [i \in Runners(s) |-> {"signed"}]
      shared == [i \in Runners(s) |-> {"drifted"}]
      fields == {honest, shared}
  IN  fields \cup {[f EXCEPT ![i] = {}] : f \in fields, i \in Runners(s)}

MCBehaviours(s) ==
  IF s = Trio THEN [Runners(s) -> SUBSET Contents] ELSE FieldBehaviours(s)

\* The small script takes everything; the real ones one invocation, by an
\* absolute path.
MCInit ==
  /\ Init
  /\ IF suite = Trio
       THEN installed \in TrioHosts /\ arg \in {Default, NotANumber, 0, 3}
       ELSE /\ installed \in FieldHosts /\ arg \in {Default, 2, 12}
            /\ path = "absolute"

MCNext == Next /\ (runs' # runs => suite = Trio)

MCSpec == MCInit /\ [][MCNext]_vars

\* The core battery on a host with every toolchain, and a corpus signed anew
\* with one more case, which only the go runner misses.
CoreOnly == {Negative}
FullHost == {ToolNames}
MissesTheNewCase(s) ==
  {[i \in Runners(s) |-> IF s.langs[i] = "go" THEN {"signed"} ELSE Contents]}
=============================================================================
