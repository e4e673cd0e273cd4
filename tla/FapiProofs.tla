---------------------------- MODULE FapiProofs -----------------------------
(***************************************************************************)
(* The twelve ports of the FAPI rules decide every case of the kinds that   *)
(* the generator writes as the oracle does; the gate derives what the       *)
(* oracle stamps; and no two ports take a signature and its malleable twin. *)
(***************************************************************************)
EXTENDS FapiPorts, TLAPS

SectionNames ==
  {"fapi_signing_base", "fapi_required_coverage", "fapi_content_digest",
   "fapi_alg", "fapi_ps256_verify", "fapi_es256_verify"}

\* The shape of a case, whatever its values.
CaseShape(section, c) ==
  /\ section = "fapi_signing_base" => c.ok \in BOOLEAN
  /\ section # "fapi_signing_base" => c.expect \in BOOLEAN
  /\ section = "fapi_es256_verify" => c.sig.s \in Int /\ c.low \in BOOLEAN

\* The derived components that gen_fapi_v0.py covers.
GeneratorsNames == {"@method", "@target-uri", "@status"}

\* What all the ports have in common.
OrdinaryPort(p) ==
  /\ p.missing \in {"raise", "empty"} /\ p.unread \in {"fail", "empty"}
  /\ p.decoders \subseteq DecodingSections /\ "lower" \notin p.fatal
  /\ "lower" \in p.rules.pss /\ "lower" \in p.rules.hex
  /\ GeneratorsNames \subseteq p.rules.fields \ p.rules.lowered
  /\ p.rules.lowered \subseteq DerivedNames

LEMMA PortsAreOrdinary ==
  ASSUME NEW i \in DOMAIN FapiRunners
  PROVE  OrdinaryPort(FapiRunners[i])
<1>1. DOMAIN FapiRunners = 1 .. 12
  BY DEF FapiRunners
<1>2. /\ GeneratorsNames \subseteq MostRules.fields /\ MostRules.lowered = {}
      /\ "lower" \in MostRules.pss /\ "lower" \in MostRules.hex
  BY DEF GeneratorsNames, MostRules
<1>3. /\ OrdinaryPort(MostDrivers) /\ OrdinaryPort(ThrowingDrivers)
      /\ OrdinaryPort(Go) /\ OrdinaryPort(Rust)
  BY <1>2 DEF OrdinaryPort, MostDrivers, ThrowingDrivers, Go, Rust, MostRules
<1>4. OrdinaryPort(Python)
  BY DEF OrdinaryPort, Python, ThrowingDrivers, MostDrivers, MostRules, GeneratorsNames
<1>5. OrdinaryPort(Typescript) /\ OrdinaryPort(Php)
  <2>1. OrdinaryPort(Typescript)
    BY <1>2 DEF OrdinaryPort, Typescript, MostDrivers, MostRules
  <2>2. OrdinaryPort(Php)
    BY <1>2 DEF OrdinaryPort, Php, MostDrivers, MostRules
  <2> QED BY <2>1, <2>2
<1>6. OrdinaryPort(C)
  <2>1. /\ C.missing = "empty" /\ C.unread = "fail" /\ C.decoders = {} /\ C.fatal = {}
    BY DEF C, MostDrivers
  <2>2. C.rules = [MostRules EXCEPT !.text = Absent, !.name = "cutname",
                                    !.long = "cut", !.huge = Absent]
    BY DEF C, MostDrivers, MostRules
  <2>3. /\ C.rules.fields = MostRules.fields /\ C.rules.lowered = MostRules.lowered
        /\ C.rules.pss = MostRules.pss /\ C.rules.hex = MostRules.hex
    BY <2>2 DEF MostRules
  <2> QED BY <1>2, <2>1, <2>3 DEF OrdinaryPort
<1>7. /\ OrdinaryPort(Kotlin) /\ OrdinaryPort(Scala) /\ OrdinaryPort(Elixir)
  <2>1. OrdinaryPort(Kotlin)
    BY <1>2 DEF OrdinaryPort, Kotlin, ThrowingDrivers, MostDrivers, MostRules
  <2>2. OrdinaryPort(Scala)
    BY <1>2 DEF OrdinaryPort, Scala, ThrowingDrivers, MostDrivers, MostRules
  <2>3. /\ Elixir.missing = "raise" /\ Elixir.unread = "fail"
        /\ Elixir.decoders = DecodingSections /\ Elixir.fatal = {"malformed", "upper"}
    BY DEF Elixir, ThrowingDrivers, MostDrivers
  <2>4. Elixir.rules = [MostRules EXCEPT !.fields = MostRules.fields \cup {"@scheme"},
                                         !.lowered = {"@authority", "@scheme"}]
    BY DEF Elixir, ThrowingDrivers, MostDrivers, MostRules
  <2>5. /\ Elixir.rules.fields = MostRules.fields \cup {"@scheme"}
        /\ Elixir.rules.lowered = {"@authority", "@scheme"}
        /\ Elixir.rules.pss = MostRules.pss /\ Elixir.rules.hex = MostRules.hex
    BY <2>4 DEF MostRules
  <2>6. /\ GeneratorsNames \subseteq Elixir.rules.fields \ Elixir.rules.lowered
        /\ Elixir.rules.lowered \subseteq DerivedNames
    BY <1>2, <2>5 DEF GeneratorsNames, DerivedNames
  <2> QED BY <1>2, <2>1, <2>2, <2>3, <2>5, <2>6 DEF OrdinaryPort
<1>8. CASE i \in 1 .. 6
  BY <1>3, <1>4, <1>5, <1>6, <1>8 DEF FapiRunners, Java
<1>9. CASE i \in 7 .. 12
  BY <1>3, <1>5, <1>7, <1>9 DEF FapiRunners, Dotnet, Ruby
<1> QED BY <1>1, <1>8, <1>9

-----------------------------------------------------------------------------
(* The oracle's reasons, as the conditions that the ports write.            *)

LEMMA CoverageIsOracle ==
  ASSUME NEW c
  PROVE  Coverage(c) <=> CoverageReason(c) = "ok"
BY DEF Coverage, CoverageReason, CoveredNames

LEMMA DigestIsOracle ==
  ASSUME NEW c
  PROVE  ContentDigest(c) <=> DigestReason(c) = "ok"
<1>1. "content-digest" \in CoveredNames(c)
        <=> \E i \in DOMAIN c.covered : Lower(c.covered[i]) = "content-digest"
  BY DEF CoveredNames
<1> HIDE DEF CoveredNames
<1> QED BY <1>1 DEF ContentDigest, DigestDecodes, DigestReason

LEMMA Es256IsOracle ==
  ASSUME NEW r, NEW c, CaseShape("fapi_es256_verify", c), Order \in Int,
         c.sig.form \in r.hex <=> c.sig.form \in {"lower", "upper"}
  PROVE  Es256(r, c) <=> Oracle("fapi_es256_verify", c)
<1>1. c.sig.s \in Int /\ c.low \in BOOLEAN
  BY DEF CaseShape
<1>2. (c.low => c.sig.s <= Order \div 2) <=> ~(c.low /\ IsHighS(c.sig.s))
  BY <1>1 DEF IsHighS
<1> QED BY <1>2 DEF Es256, Oracle

\* A port with the oracle's idea of a hexadecimal string, for this case,
\* accepts what the oracle accepts.
LEMMA AcceptsIsOracle ==
  ASSUME NEW p, NEW section \in SectionNames \ {"fapi_signing_base"}, NEW c,
         CaseShape(section, c), Order \in Int,
         section \in VerifySections =>
           \A forms \in {p.rules.pss, p.rules.hex} :
             c.sig.form \in forms <=> c.sig.form \in {"lower", "upper"}
  PROVE  Accepts(p.rules, section, c) <=> Oracle(section, c)
<1>1. CASE section = "fapi_required_coverage"
  BY <1>1, CoverageIsOracle DEF Accepts, Oracle
<1>2. CASE section = "fapi_content_digest"
  BY <1>2, DigestIsOracle DEF Accepts, Oracle
<1>3. CASE section = "fapi_alg"
  BY <1>3 DEF Accepts, Oracle, AlgReason
<1>4. CASE section = "fapi_ps256_verify"
  BY <1>4 DEF Accepts, Oracle, Ps256, VerifySections
<1>5. CASE section = "fapi_es256_verify"
  BY <1>5, Es256IsOracle DEF Accepts, VerifySections
<1> QED BY <1>1, <1>2, <1>3, <1>4, <1>5 DEF SectionNames

\* The rules and verdicts are truth values.
LEMMA Truths ==
  ASSUME NEW r, NEW section \in SectionNames \ {"fapi_signing_base"}, NEW c
  PROVE  Accepts(r, section, c) \in BOOLEAN /\ Oracle(section, c) \in BOOLEAN
<1>1. CASE section = "fapi_required_coverage"
  BY <1>1 DEF Accepts, Oracle, Coverage
<1>2. CASE section = "fapi_content_digest"
  BY <1>2 DEF Accepts, Oracle, ContentDigest
<1>3. CASE section = "fapi_alg"
  BY <1>3 DEF Accepts, Oracle
<1>4. CASE section = "fapi_ps256_verify"
  BY <1>4 DEF Accepts, Oracle, Ps256
<1>5. CASE section = "fapi_es256_verify"
  BY <1>5 DEF Accepts, Oracle, Es256
<1> QED BY <1>1, <1>2, <1>3, <1>4, <1>5 DEF SectionNames

\* A case with which a port agrees, and which does not end it, is judged by
\* whether its expectation is the oracle's.
LEMMA JudgedByOracle ==
  ASSUME NEW p, NEW section \in SectionNames \ {"fapi_signing_base"}, NEW c,
         CaseShape(section, c), Accepts(p.rules, section, c) <=> Oracle(section, c)
  PROVE  Matches(p, section, c) <=> FapiCorrect(section, c)
<1>1. c.expect \in BOOLEAN
  BY DEF CaseShape
<1>2. Accepts(p.rules, section, c) \in BOOLEAN /\ Oracle(section, c) \in BOOLEAN
  BY Truths
<1>3. Accepts(p.rules, section, c) = c.expect <=> Oracle(section, c) = c.expect
  BY <1>1, <1>2
<1> QED BY <1>3 DEF Matches, FapiCorrect

\* A component of the kinds the generator writes has the same line everywhere.
LEMMA SameLine ==
  ASSUME NEW p, OrdinaryPort(p), NEW c, FapiEmitted("fapi_signing_base", c),
         NEW i \in DOMAIN c.covered
  PROVE  /\ Value(p.rules, c, i) = Value(MostRules, c, i)
         /\ Name(p.rules, c, i) = Name(MostRules, c, i)
<1> DEFINE name == Lower(c.covered[i])
           v == c.values[name]
<1>1. /\ name \in DerivedNames => name \in GeneratorsNames
      /\ name # "longname" /\ v # "long" /\ (name = "@status" => v \notin {Absent, "text"})
  BY DEF FapiEmitted, VerifySections, GeneratorsNames
<1>2. /\ Value(p.rules, c, i) =
           IF Unread(p.rules, name) THEN Absent ELSE Written(p.rules, name, v)
      /\ Value(MostRules, c, i) =
           IF Unread(MostRules, name) THEN Absent ELSE Written(MostRules, name, v)
  BY DEF Value
<1>3. Name(p.rules, c, i) = name /\ Name(MostRules, c, i) = name
  BY <1>1 DEF Name
<1>4. /\ GeneratorsNames \subseteq MostRules.fields /\ MostRules.lowered = {}
  BY DEF GeneratorsNames, MostRules
<1> HIDE DEF v, name
<1>5. ~Unread(p.rules, name) /\ ~Unread(MostRules, name)
  BY <1>1, <1>4 DEF Unread, OrdinaryPort
<1>6. name \notin p.rules.lowered /\ name \notin MostRules.lowered
  BY <1>1, <1>4 DEF OrdinaryPort
<1>7. Written(p.rules, name, v) = v /\ Written(MostRules, name, v) = v
  BY <1>1, <1>6 DEF Written
<1> QED BY <1>2, <1>3, <1>5, <1>7

\* So all build the same base.
LEMMA SameBase ==
  ASSUME NEW p, OrdinaryPort(p), NEW c, FapiEmitted("fapi_signing_base", c)
  PROVE  Matches(p, "fapi_signing_base", c) <=> FapiCorrect("fapi_signing_base", c)
<1>1. ASSUME NEW i \in DOMAIN c.covered
      PROVE  /\ Value(p.rules, c, i) = Value(MostRules, c, i)
             /\ Name(p.rules, c, i) = Name(MostRules, c, i)
  BY SameLine
<1>2. Params(p.rules, c) = Params(MostRules, c)
  BY DEF FapiEmitted, VerifySections, Params
<1>3. Buildable(p.rules, c) <=> Buildable(MostRules, c)
  BY <1>1, <1>2 DEF Buildable
<1>4. SigningBase(p.rules, c) = SigningBase(MostRules, c)
  BY <1>1, <1>2 DEF SigningBase
<1>5. c.base # Undecodable
  BY DEF FapiEmitted
<1> QED BY <1>3, <1>4, <1>5 DEF Matches, BaseMatches, BaseCorrect, FapiCorrect

-----------------------------------------------------------------------------

\* Every port, given any case of the kinds the generator writes, matches it iff
\* its expectation is the one the oracle stamps (oracle_fapi.py, of which every
\* runner re-derives the verdicts).  The derived components of these kinds are
\* the method, the target and the status: on an authority, a path or a scheme,
\* on a text status and on names and values that outgrow C's buffers the ports
\* differ (FapiEmitted).
THEOREM PortsAgree ==
  ASSUME Order \in Int, NEW i \in DOMAIN FapiRunners, NEW section \in SectionNames,
         NEW c, CaseShape(section, c), FapiEmitted(section, c)
  PROVE  FapiJudge(FapiRunners[i], section, c) =
           IF FapiCorrect(section, c) THEN "match" ELSE "mismatch"
<1> DEFINE p == FapiRunners[i]
<1>1. OrdinaryPort(p)
  BY PortsAreOrdinary
<1> HIDE DEF p
<1>2. section \in VerifySections => c.sig.form = "lower"
  BY DEF FapiEmitted, VerifySections
<1>3. ~Raises(p, section, c)
  <2>1. ~MeetsUndecodable(section, c) \/ section \in {"fapi_required_coverage", "fapi_alg"}
    BY DEF MeetsUndecodable, FapiEmitted, SectionNames, VerifySections
  <2>2. section \in p.decoders => section \notin {"fapi_required_coverage", "fapi_alg"}
    BY <1>1 DEF OrdinaryPort, DecodingSections, VerifySections
  <2> QED BY <1>1, <1>2, <2>1, <2>2 DEF Raises, OrdinaryPort
<1>4. Matches(p, section, c) <=> FapiCorrect(section, c)
  <2>1. CASE section = "fapi_signing_base"
    BY <1>1, <2>1, SameBase
  <2>2. CASE section # "fapi_signing_base"
    <3>1. Accepts(p.rules, section, c) <=> Oracle(section, c)
      BY <1>1, <1>2, <2>2, AcceptsIsOracle DEF OrdinaryPort
    <3> QED BY <2>2, <3>1, JudgedByOracle
  <2> QED BY <2>1, <2>2
<1> QED BY <1>3, <1>4 DEF FapiJudge, p

\* A port that throws and has the most common rules matches no case whose
\* expectation is not the oracle's.
LEMMA CommonIsTheOracle ==
  ASSUME Order \in Int, NEW section \in SectionNames, NEW c, CaseShape(section, c),
         NEW p, ~p.wanting, p.rules.pss = MostRules.pss, p.rules.hex = MostRules.hex,
         section = "fapi_signing_base" =>
           /\ Buildable(p.rules, c) <=> Buildable(MostRules, c)
           /\ SigningBase(p.rules, c) = SigningBase(MostRules, c),
         Matches(p, section, c)
  PROVE  FapiCorrect(section, c)
<1>1. MostRules.pss = {"lower", "upper"} /\ MostRules.hex = {"lower", "upper"}
  BY DEF MostRules
<1>2. CASE section = "fapi_signing_base"
  <2>1. BaseMatches(p, c)
    BY <1>2 DEF Matches
  <2>2. CASE c.base = Undecodable
    <3>1. ~c.ok /\ ~Buildable(MostRules, c)
      BY <1>2, <2>1, <2>2 DEF BaseMatches
    <3> QED BY <1>2, <3>1 DEF FapiCorrect, BaseCorrect
  <2>3. CASE c.base # Undecodable
    <3>1. BaseCorrect(MostRules, c)
      BY <1>2, <2>1, <2>3 DEF BaseMatches, BaseCorrect
    <3> QED BY <1>2, <2>3, <3>1 DEF FapiCorrect
  <2> QED BY <2>2, <2>3
<1>3. CASE section # "fapi_signing_base"
  <2>1. Accepts(p.rules, section, c) <=> Oracle(section, c)
    BY <1>1, <1>3, AcceptsIsOracle
  <2> QED BY <1>3, <2>1, JudgedByOracle
<1> QED BY <1>2, <1>3

\* The java port matches no case, of whatever kind, whose expectation is not the
\* oracle's: of the twelve it is the one whose rules are the gate's on every case
\* of the model and that stops where base64 or hexadecimal does not decode
\* (java/VerifyFapi.java).
THEOREM JavaIsTheOracle ==
  ASSUME Order \in Int, NEW section \in SectionNames, NEW c, CaseShape(section, c),
         FapiJudge(Java, section, c) = "match"
  PROVE  FapiCorrect(section, c)
<1>1. Matches(Java, section, c)
  BY DEF FapiJudge
<1>2. Java.rules = MostRules /\ ~Java.wanting
  BY DEF Java, ThrowingDrivers, MostDrivers
<1> QED BY <1>1, <1>2, CommonIsTheOracle

\* The python port (python/verify_fapi.py:37-82, the oracle's functions) matches
\* no case whose expectation is not the oracle's, as long as no signing base
\* covers a derived component that its call at :90-94 leaves out; there it
\* matches a case that says "not ok" of a base that can be built.
THEOREM PythonIsTheOracle ==
  ASSUME Order \in Int, NEW section \in SectionNames, NEW c, CaseShape(section, c),
         section = "fapi_signing_base" =>
           \A i \in DOMAIN c.covered : ~Unread(Python.rules, Lower(c.covered[i])),
         FapiJudge(Python, section, c) = "match"
  PROVE  FapiCorrect(section, c)
<1>1. Matches(Python, section, c)
  BY DEF FapiJudge
<1>2. Python.rules = [MostRules EXCEPT !.fields = GeneratorsNames] /\ ~Python.wanting
  BY DEF Python, ThrowingDrivers, MostDrivers, MostRules, GeneratorsNames
<1>3. /\ Python.rules.fields \subseteq MostRules.fields
      /\ Python.rules.lowered = MostRules.lowered /\ Python.rules.status = MostRules.status
      /\ Python.rules.text = MostRules.text /\ Python.rules.name = MostRules.name
      /\ Python.rules.long = MostRules.long /\ Python.rules.huge = MostRules.huge
      /\ Python.rules.pss = MostRules.pss /\ Python.rules.hex = MostRules.hex
  BY <1>2 DEF MostRules, GeneratorsNames
<1>4. ASSUME section = "fapi_signing_base", NEW i \in DOMAIN c.covered
      PROVE  /\ Value(Python.rules, c, i) = Value(MostRules, c, i)
             /\ Name(Python.rules, c, i) = Name(MostRules, c, i)
  <2>1. /\ ~Unread(Python.rules, Lower(c.covered[i]))
        /\ ~Unread(MostRules, Lower(c.covered[i]))
    BY <1>3, <1>4 DEF Unread
  <2>2. ASSUME NEW name, NEW v
        PROVE  Written(Python.rules, name, v) = Written(MostRules, name, v)
    BY <1>3 DEF Written
  <2> QED BY <1>3, <2>1, <2>2 DEF Value, Name
<1>5. Params(Python.rules, c) = Params(MostRules, c)
  BY <1>3 DEF Params
<1>6. section = "fapi_signing_base" =>
        /\ Buildable(Python.rules, c) <=> Buildable(MostRules, c)
        /\ SigningBase(Python.rules, c) = SigningBase(MostRules, c)
  BY <1>4, <1>5 DEF Buildable, SigningBase
<1> QED BY <1>1, <1>2, <1>3, <1>6, CommonIsTheOracle

\* Of the cases that the gate's own derivation recomputes, it passes only those
\* with the oracle's expectation, and it passes no corpus without a section
\* (check_kat_fapi.py, the sections' loops).
THEOREM GateIsTheOracle ==
  ASSUME Order \in Int, NEW corpus, FapiKatRederives(corpus),
         NEW section \in SectionNames \cap DOMAIN corpus,
         NEW n \in DOMAIN corpus[section],
         CaseShape(section, corpus[section][n]),
         FapiKatChecks(section, corpus[section][n])
  PROVE  corpus[section] # Missing /\ FapiCorrect(section, corpus[section][n])
<1>1. corpus[section] # Missing /\ Matches(Gate, section, corpus[section][n])
  BY DEF FapiKatRederives
<1>2. Gate.rules = MostRules /\ ~Gate.wanting
  BY DEF Gate, Python, ThrowingDrivers, MostDrivers
<1> QED BY <1>1, <1>2, CommonIsTheOracle

\* Of a signature and its twin under n - s, exactly one is high.
LEMMA OneTwinIsHigh ==
  ASSUME Order \in Nat, Order % 2 = 1, NEW s \in 1 .. Order - 1
  PROVE  IsHighS(s) <=> ~IsHighS(Order - s)
BY DEF IsHighS

\* Under require_low_s no runner takes a signature whose malleable twin any
\* runner takes: the low-s rule of the twelve ports leaves one of the two
\* ("high-s malleable twin, MUST reject under low-s", gen_fapi_v0.py).
THEOREM NoTwinAccepted ==
  ASSUME Order \in Nat, Order % 2 = 1,
         NEW i \in DOMAIN FapiRunners, NEW j \in DOMAIN FapiRunners,
         NEW c, NEW d, c.low, d.low, c.expect = TRUE, d.expect = TRUE,
         c.sig.s \in 1 .. Order - 1, d.sig.s = Order - c.sig.s,
         FapiJudge(FapiRunners[i], "fapi_es256_verify", c) = "match"
  PROVE  FapiJudge(FapiRunners[j], "fapi_es256_verify", d) # "match"
<1>1. ASSUME NEW p, NEW case, case.expect = TRUE, case.low,
             FapiJudge(p, "fapi_es256_verify", case) = "match"
      PROVE  ~IsHighS(case.sig.s)
  <2>1. Matches(p, "fapi_es256_verify", case)
    BY <1>1 DEF FapiJudge
  <2>2. Es256(p.rules, case)
    BY <1>1, <2>1 DEF Matches, Accepts
  <2> QED BY <1>1, <2>2 DEF Es256
<1>2. ~IsHighS(c.sig.s)
  BY <1>1
<1>3. IsHighS(d.sig.s)
  BY <1>2, OneTwinIsHigh
<1> QED BY <1>1, <1>3

LEMMA SectionIsNamed ==
  ASSUME NEW k \in DOMAIN FapiSections
  PROVE  FapiSections[k] \in SectionNames
BY DEF FapiSections, SectionNames

LEMMA NameIsASection ==
  ASSUME NEW section \in SectionNames
  PROVE  \E k \in DOMAIN FapiSections : FapiSections[k] = section
<1>1. DOMAIN FapiSections = 1 .. 6
  BY DEF FapiSections
<1>2. section \in {FapiSections[k] : k \in 1 .. 6}
  BY DEF FapiSections, SectionNames
<1> QED BY <1>1, <1>2

\* And it passes every corpus with all the sections that the java port matches:
\* the gate asks for nothing that the rules do not (check_kat_fapi.py, the same loops).
THEOREM GateTakesTheOracles ==
  ASSUME NEW corpus, DOMAIN corpus = SectionNames,
         \A section \in SectionNames :
           /\ corpus[section] # Missing
           /\ \A n \in DOMAIN corpus[section] :
                FapiJudge(Java, section, corpus[section][n]) = "match"
  PROVE  FapiKatRederives(corpus)
<1>1. /\ Gate.rules = Java.rules /\ Gate.wanting = Java.wanting
      /\ Gate.decoders = Java.decoders /\ Gate.fatal = Java.fatal
  BY DEF Gate, Python, Java, ThrowingDrivers, MostDrivers
<1>2. ASSUME NEW section, NEW c
      PROVE  /\ Raises(Gate, section, c) <=> Raises(Java, section, c)
             /\ Matches(Gate, section, c) <=> Matches(Java, section, c)
  BY <1>1 DEF Raises, Matches, BaseMatches
<1>3. ASSUME NEW section \in DOMAIN corpus
      PROVE  /\ corpus[section] # Missing
             /\ \A n \in DOMAIN corpus[section] :
                  /\ ~Raises(Gate, section, corpus[section][n])
                  /\ Matches(Gate, section, corpus[section][n])
  BY <1>2, <1>3 DEF FapiJudge
<1> QED BY <1>3 DEF FapiKatRederives

\* The runners and what each does where a section or the file is not there: the
\* sixth is the java one, and strict.
LEMMA RunnersAreTwelve ==
  /\ DOMAIN FapiRunners = 1 .. 12 /\ FapiRunners[6] = Java
  /\ Java.missing = "raise" /\ Java.unread = "fail"
<1>1. DOMAIN FapiRunners = 1 .. 12 /\ FapiRunners[6] = Java
  BY DEF FapiRunners
<1>2. Java.missing = "raise" /\ Java.unread = "fail"
  BY DEF Java, ThrowingDrivers, MostDrivers
<1> QED BY <1>1, <1>2
=============================================================================
