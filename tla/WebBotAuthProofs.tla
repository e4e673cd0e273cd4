------------------------- MODULE WebBotAuthProofs --------------------------
(***************************************************************************)
(* The twelve ports of the Web Bot Auth rules decide every case of the     *)
(* kinds that the generator writes as the oracle does, whatever the        *)
(* components, timestamps, directories and addresses (without a zone) are; *)
(* and the gate derives what the oracle stamps, no less and no more.       *)
(***************************************************************************)
EXTENDS WebBotAuthPorts, TLAPS

CONSTANT Width  \* 2^52: a double, and 64 bits, hold what differs by so much

\* Integers with which every port computes exactly.  Beyond them each has the
\* width of its language.
Exact == {n \in Int : -Width <= n /\ n <= Width}

\* The shape of a case, whatever its values.
CaseShape(section, c) ==
  /\ section = "wba_signing_base" => c.ok \in BOOLEAN
  /\ section # "wba_signing_base" => c.expect \in BOOLEAN
  /\ section = "wba_freshness" =>
       c.created.n \in Exact /\ c.expires.n \in Exact /\ c.now.n \in Exact
  /\ section = "wba_directory" =>
       Len(c.directory) \in Nat /\ DOMAIN c.directory = 1 .. Len(c.directory)
  /\ section = "wba_directory_ssrf" => c.userinfo \in BOOLEAN

SectionNames ==
  {"wba_signing_base", "wba_coverage", "wba_freshness", "wba_directory",
   "wba_directory_ssrf", "wba_ed25519_verify"}

\* What all the ports' rules have in common.
Ordinary(r) ==
  /\ "int" \in r.integers
  /\ r.integers \cap {"frac", "text", "null"} = {}
  /\ r.kid \in {"get", "identical", "string", "zero", "keyidzero"}
  /\ "https" \in r.schemes /\ "http" \notin r.schemes
  /\ "literal" \in r.literals /\ r.literals \cap {"name", "none"} = {}
  /\ "ip" \in r.addresses /\ "ip" \notin r.open
  /\ r.addresses \cap {"null", "empty", "malformed"} = {}
  /\ r.hostless \cap {"name", "literal"} = {}
  /\ "lower" \in r.hex

LEMMA MostAreOrdinary ==
  /\ Ordinary(PythonRules) /\ Ordinary(TypescriptRules) /\ Ordinary(GoRules)
  /\ Ordinary(RustRules) /\ Ordinary(CRules) /\ Ordinary(JavaRules)
  /\ Ordinary(KotlinRules) /\ Ordinary(ScalaRules) /\ Ordinary(DotnetRules)
  /\ Ordinary(RubyRules) /\ Ordinary(PhpRules) /\ Ordinary(ElixirRules)
<1>1. Ordinary(PythonRules)
  BY DEF Ordinary, PythonRules, MostRules, Zones
<1>2. Ordinary(TypescriptRules)
  BY DEF Ordinary, TypescriptRules, MostRules
<1>3. Ordinary(GoRules) /\ Ordinary(RustRules) /\ Ordinary(CRules)
  BY DEF Ordinary, GoRules, RustRules, CRules, MostRules, Zones
<1>4. Ordinary(JavaRules)
  BY DEF Ordinary, JavaRules, JavaUriHostless, MostRules
<1>5. Ordinary(KotlinRules) /\ Ordinary(ScalaRules)
  BY DEF Ordinary, KotlinRules, ScalaRules, JavaUriHostless, MostRules, Zones
<1>6. Ordinary(DotnetRules)
  BY DEF Ordinary, DotnetRules, MostRules, Zones
<1>7. Ordinary(RubyRules) /\ Ordinary(PhpRules)
  BY DEF Ordinary, RubyRules, PhpRules, MostRules, Zones
<1>8. Ordinary(ElixirRules)
  BY DEF Ordinary, ElixirRules, MostRules, Zones
<1> QED BY <1>1, <1>2, <1>3, <1>4, <1>5, <1>6, <1>7, <1>8

LEMMA PortRules ==
  ASSUME NEW i \in DOMAIN WbaPorts
  PROVE  Ordinary(WbaPorts[i].rules)
<1>1. DOMAIN WbaPorts = 1 .. 12
  BY DEF WbaPorts
<1>2. CASE i \in 1 .. 6
  BY <1>2, MostAreOrdinary DEF WbaPorts, Driver, Python, Typescript, Go, Rust, C, Java
<1>3. CASE i \in 7 .. 12
  BY <1>3, MostAreOrdinary
     DEF WbaPorts, Driver, Kotlin, Scala, Dotnet, Ruby, Php, Elixir
<1> QED BY <1>1, <1>2, <1>3

-----------------------------------------------------------------------------
(* The oracle's reasons, as the conditions that the ports write.            *)

LEMMA CoverageIsOracle ==
  ASSUME NEW c
  PROVE  Coverage(c) <=> CoverageReason(c) = "ok"
BY DEF Coverage, CoverageReason

LEMMA FreshnessIsOracle ==
  ASSUME NEW r, NEW c, CaseShape("wba_freshness", c), Skew \in Exact,
         r.integers \cap Timestamps(c) = {"int", "bool"} \cap Timestamps(c)
  PROVE  Freshness(r, c) <=> FreshnessReason(c) = "ok"
<1>1. c.created.n \in Int /\ c.expires.n \in Int /\ c.now.n \in Int /\ Skew \in Int
  BY DEF CaseShape, Exact
<1>2. Timestamps(c) \subseteq r.integers <=> Timestamps(c) \subseteq {"int", "bool"}
  OBVIOUS
<1> QED BY <1>1, <1>2 DEF Freshness, FreshnessReason, Timestamps

\* With kids compared as the oracle compares them, the first key decides.
LEMMA DirectoryIsOracle ==
  ASSUME NEW r, NEW c, CaseShape("wba_directory", c),
         \A kid : KidIs(r, kid, c.keyid) <=> Got(kid) = Got(c.keyid)
  PROVE  Directory(r, c) <=> DirectoryReason(c) = "ok"
<1> DEFINE Hit(i) == Got(c.directory[i].kid) = Got(c.keyid)
           hits == {i \in DOMAIN c.directory : Hit(i)}
           match == {i \in hits : \A j \in hits : i <= j}
           Usable(i) == /\ c.directory[i].kty = "OKP" /\ c.directory[i].crv = "Ed25519"
                        /\ c.directory[i].x \notin Unusable
<1>1. Len(c.directory) \in Nat /\ DOMAIN c.directory = 1 .. Len(c.directory)
  BY DEF CaseShape
<1>2. ASSUME NEW i \in DOMAIN c.directory
      PROVE  i \in match <=> Hit(i) /\ \A j \in 1 .. i - 1 : ~Hit(j)
  BY <1>1
<1>3. ASSUME NEW i \in match, NEW j \in match
      PROVE  i = j
  BY <1>1
<1>4. Directory(r, c) <=> \E i \in match : Usable(i)
  <2>1. Directory(r, c) <=>
          \E i \in DOMAIN c.directory :
            Hit(i) /\ (\A j \in 1 .. i - 1 : ~Hit(j)) /\ Usable(i)
    BY DEF Directory
  <2>2. \A i \in match : i \in DOMAIN c.directory
    OBVIOUS
  <2> HIDE DEF match, Hit, Usable
  <2> QED BY <1>2, <2>1, <2>2
<1>5. DirectoryReason(c) = "ok" <=> match # {} /\ \A i \in match : Usable(i)
  BY DEF DirectoryReason
<1> HIDE DEF match, Usable
<1> QED BY <1>3, <1>4, <1>5

-----------------------------------------------------------------------------
(* On a case as the generator writes it.                                    *)

LEMMA OrdinaryKid ==
  ASSUME NEW r, Ordinary(r), NEW keyid, keyid \notin {"", Null, Absent}
  PROVE  \A kid : KidIs(r, kid, keyid) <=> Got(kid) = Got(keyid)
BY DEF Ordinary, KidIs, Got, Text

LEMMA OrdinarySsrf ==
  ASSUME NEW r, Ordinary(r), NEW c, CaseShape("wba_directory_ssrf", c),
         WbaEmitted("wba_directory_ssrf", c)
  PROVE  Ssrf(r, c) <=> SsrfReason(c) = "ok"
<1>1. /\ c.scheme \in {"https", "http"} /\ c.userinfo \in BOOLEAN
      /\ c.host.kind \in {"literal", "name", "none"}
      /\ c.resolved.kind \in {"null", "empty", "malformed", "ip"}
      /\ c.host.kind = "none" => c.resolved.kind = "null"
  BY DEF WbaEmitted, CaseShape
<1>2. c.scheme \in r.schemes <=> c.scheme = "https"
  BY <1>1 DEF Ordinary
<1>3. c.host.kind \in r.literals <=> c.host.kind = "literal"
  BY <1>1 DEF Ordinary
<1>4. c.resolved.kind \in r.addresses <=> c.resolved.kind = "ip"
  BY <1>1 DEF Ordinary
<1>5. c.host.kind # "none" => c.host.kind \notin r.hostless
  BY <1>1 DEF Ordinary
<1>6. CASE c.host.kind = "literal"
  <2>1. Address(r, c) = {c.host.address}
    BY <1>3, <1>6 DEF Address
  <2>2. ~OutOfRanges(r, c)
    BY <1>3, <1>6 DEF OutOfRanges
  <2> QED BY <1>1, <1>2, <1>5, <1>6, <2>1, <2>2 DEF Ssrf, SsrfReason
<1>7. CASE c.host.kind # "literal" /\ c.resolved.kind = "ip"
  <2>1. Address(r, c) = {c.resolved.address}
    BY <1>3, <1>4, <1>7 DEF Address
  <2>2. ~OutOfRanges(r, c)
    BY <1>7 DEF OutOfRanges, Ordinary
  <2> QED BY <1>1, <1>2, <1>5, <1>7, <2>1, <2>2 DEF Ssrf, SsrfReason
<1>8. CASE c.host.kind # "literal" /\ c.resolved.kind # "ip"
  <2>1. Address(r, c) = {}
    BY <1>3, <1>4, <1>8 DEF Address
  <2> QED BY <1>1, <1>8, <2>1 DEF Ssrf, SsrfReason
<1> QED BY <1>6, <1>7, <1>8

\* Every port's rules decide a case as the generator writes it as the oracle.
LEMMA RulesAgree ==
  ASSUME NEW i \in DOMAIN WbaPorts,
         NEW section \in SectionNames \ {"wba_signing_base"}, NEW c,
         CaseShape(section, c), WbaEmitted(section, c), Skew \in Exact
  PROVE  Accepts(WbaPorts[i].rules, section, c) <=> Oracle(section, c)
<1> DEFINE r == WbaPorts[i].rules
<1>1. Ordinary(r)
  BY PortRules
<1> HIDE DEF r
<1>2. CASE section = "wba_coverage"
  BY <1>2, CoverageIsOracle DEF Accepts, Oracle
<1>3. CASE section = "wba_freshness"
  <2>1. Timestamps(c) \subseteq {"int", "frac", "text", "null"}
    BY <1>3 DEF WbaEmitted
  <2>2. r.integers \cap Timestamps(c) = {"int", "bool"} \cap Timestamps(c)
    BY <1>1, <2>1 DEF Ordinary
  <2> QED BY <1>3, <2>2, FreshnessIsOracle DEF Accepts, Oracle, r
<1>4. CASE section = "wba_directory"
  <2>1. c.keyid \notin {"", Null, Absent}
    BY <1>4 DEF WbaEmitted
  <2>2. \A kid : KidIs(r, kid, c.keyid) <=> Got(kid) = Got(c.keyid)
    BY <1>1, <2>1, OrdinaryKid
  <2> QED BY <1>4, <2>2, DirectoryIsOracle DEF Accepts, Oracle, r
<1>5. CASE section = "wba_directory_ssrf"
  BY <1>1, <1>5, OrdinarySsrf DEF Accepts, Oracle, r
<1>6. CASE section = "wba_ed25519_verify"
  BY <1>1, <1>6 DEF Accepts, Oracle, r, WbaEmitted, Ed25519, SignatureValid, Ordinary
<1> QED BY <1>2, <1>3, <1>4, <1>5, <1>6 DEF SectionNames

\* The rules and verdicts are truth values.
LEMMA Truths ==
  ASSUME NEW r, NEW section \in SectionNames \ {"wba_signing_base"}, NEW c
  PROVE  Accepts(r, section, c) \in BOOLEAN /\ Oracle(section, c) \in BOOLEAN
BY DEF SectionNames, Accepts, Oracle, Coverage, Freshness, Directory, Ssrf, Ed25519,
       SignatureValid

\* Every port, given any case of the kinds the generator writes, matches it iff
\* its expectation is the one the oracle stamps (every runner "computes the
\* identical verdict", oracle_wba.py).
THEOREM PortsAgree ==
  ASSUME Skew \in Exact, NEW i \in DOMAIN WbaPorts, NEW section \in SectionNames,
         NEW c, CaseShape(section, c), WbaEmitted(section, c)
  PROVE  WbaJudge(WbaPorts[i], section, c) =
           IF WbaCorrect(section, c) THEN "match" ELSE "mismatch"
<1>1. ~Raises(WbaPorts[i], section, c)
  BY DEF Raises, WbaEmitted, Timestamps
<1>2. Matches(WbaPorts[i], section, c) <=> WbaCorrect(section, c)
  <2>1. CASE section = "wba_signing_base"
    BY <2>1 DEF Matches, WbaCorrect, BaseMatches, WbaEmitted
  <2>2. CASE section # "wba_signing_base"
    <3>1. c.expect \in BOOLEAN
      BY <2>2 DEF CaseShape
    <3>2. Accepts(WbaPorts[i].rules, section, c) <=> Oracle(section, c)
      BY <2>2, RulesAgree
    <3>3. /\ Accepts(WbaPorts[i].rules, section, c) \in BOOLEAN
          /\ Oracle(section, c) \in BOOLEAN
      BY <2>2, Truths
    <3>4. Accepts(WbaPorts[i].rules, section, c) = c.expect <=> Oracle(section, c) = c.expect
      BY <3>1, <3>2, <3>3
    <3> QED BY <2>2, <3>4 DEF Matches, WbaCorrect
  <2> QED BY <2>1, <2>2
<1> QED BY <1>1, <1>2 DEF WbaJudge

\* The python port matches no case, of whatever kind, whose expectation is not
\* the oracle's (the two are the same functions, python/verify_wba.py:34-78).
THEOREM PythonIsTheOracle ==
  ASSUME Skew \in Exact, NEW section \in SectionNames, NEW c, CaseShape(section, c),
         WbaJudge(Python, section, c) = "match"
  PROVE  WbaCorrect(section, c)
<1>1. ~Raises(Python, section, c) /\ Matches(Python, section, c)
  BY DEF WbaJudge
<1>2. /\ Python.rules = PythonRules /\ Python.base64 = "raise" /\ Python.hex = "raise"
  BY DEF Python, Driver, MostDrivers
<1>3. /\ PythonRules.integers = {"int", "bool"} /\ PythonRules.kid = "get"
      /\ PythonRules.schemes = {"https", "HTTPS"} /\ PythonRules.literals = {"literal"}
      /\ PythonRules.addresses = {"ip", "zoned"} /\ PythonRules.open = {}
      /\ PythonRules.hostless = {"none"} /\ PythonRules.hex = {"lower", "upper"}
  BY DEF PythonRules, MostRules, Zones
<1>4. CASE section = "wba_signing_base"
  BY <1>1, <1>2, <1>4 DEF Raises, Matches, BaseMatches, WbaCorrect
<1>5. CASE section # "wba_signing_base"
  <2>1. Accepts(PythonRules, section, c) <=> Oracle(section, c)
    <3>1. CASE section = "wba_coverage"
      BY <3>1, CoverageIsOracle DEF Accepts, Oracle
    <3>2. CASE section = "wba_freshness"
      BY <1>3, <3>2, FreshnessIsOracle DEF Accepts, Oracle
    <3>3. CASE section = "wba_directory"
      <4>1. \A kid : KidIs(PythonRules, kid, c.keyid) <=> Got(kid) = Got(c.keyid)
        BY <1>3 DEF KidIs
      <4> QED BY <3>3, <4>1, DirectoryIsOracle DEF Accepts, Oracle
    <3>4. CASE section = "wba_directory_ssrf"
      <4>1. Ssrf(PythonRules, c) <=> SsrfReason(c) = "ok"
        BY <1>3, <3>4 DEF CaseShape, Ssrf, SsrfReason, Address, OutOfRanges
      <4> QED BY <3>4, <4>1 DEF Accepts, Oracle
    <3>5. CASE section = "wba_ed25519_verify"
      BY <1>3, <3>5 DEF Accepts, Oracle, Ed25519, SignatureValid
    <3> QED BY <1>5, <3>1, <3>2, <3>3, <3>4, <3>5 DEF SectionNames
  <2>2. Oracle(section, c) \in BOOLEAN /\ Accepts(PythonRules, section, c) \in BOOLEAN
    BY <1>5, Truths
  <2>3. c.expect \in BOOLEAN
    BY <1>5 DEF CaseShape
  <2> QED BY <1>1, <1>2, <1>5, <2>1, <2>2, <2>3 DEF Matches, WbaCorrect
<1> QED BY <1>4, <1>5

\* Of the cases that the gate's own derivation recomputes, it passes only those
\* with the oracle's expectation, and it passes no corpus without a section
\* (check_kat_wba.py, the sections' loops and the final emptiness check).
THEOREM GateIsTheOracle ==
  ASSUME Skew \in Exact, NEW corpus, WbaKatRederives(corpus),
         NEW section \in SectionNames \cap DOMAIN corpus,
         NEW n \in DOMAIN corpus[section],
         CaseShape(section, corpus[section][n]),
         WbaKatChecks(section, corpus[section][n])
  PROVE  corpus[section] # Missing /\ WbaCorrect(section, corpus[section][n])
<1>1. /\ corpus[section] # Missing
      /\ ~Raises(Python, section, corpus[section][n])
      /\ Matches(Python, section, corpus[section][n])
  BY DEF WbaKatRederives
<1>2. WbaJudge(Python, section, corpus[section][n]) = "match"
  BY <1>1 DEF WbaJudge
<1> QED BY <1>1, <1>2, PythonIsTheOracle

LEMMA SectionIsNamed ==
  ASSUME NEW k \in DOMAIN WbaSections
  PROVE  WbaSections[k] \in SectionNames
BY DEF WbaSections, SectionNames

LEMMA NameIsASection ==
  ASSUME NEW section \in SectionNames
  PROVE  \E k \in DOMAIN WbaSections : WbaSections[k] = section
<1>1. DOMAIN WbaSections = 1 .. 6
  BY DEF WbaSections
<1>2. section \in {WbaSections[k] : k \in 1 .. 6}
  BY DEF WbaSections, SectionNames
<1> QED BY <1>1, <1>2

\* And it passes every corpus with all the sections that the python port matches:
\* the gate asks for nothing that the rules do not (check_kat_wba.py, the same loops).
THEOREM GateTakesTheOracles ==
  ASSUME NEW corpus, DOMAIN corpus = SectionNames,
         \A section \in SectionNames :
           /\ corpus[section] # Missing
           /\ \A n \in DOMAIN corpus[section] :
                WbaJudge(Python, section, corpus[section][n]) = "match"
  PROVE  WbaKatRederives(corpus)
<1>1. ASSUME NEW section \in DOMAIN corpus
      PROVE  /\ corpus[section] # Missing
             /\ \A n \in DOMAIN corpus[section] :
                  /\ ~Raises(Python, section, corpus[section][n])
                  /\ Matches(Python, section, corpus[section][n])
  BY <1>1 DEF WbaJudge
<1> QED BY <1>1 DEF WbaKatRederives

\* The runners and what each does where a section or the file is not there: the
\* first is the python one, and strict.
LEMMA RunnersAreTwelve ==
  /\ DOMAIN WbaPorts = 1 .. 12 /\ WbaPorts[1] = Python
  /\ Python.missing = "raise" /\ Python.unread = "fail"
<1>1. DOMAIN WbaPorts = 1 .. 12 /\ WbaPorts[1] = Python
  BY DEF WbaPorts
<1>2. Python.missing = "raise" /\ Python.unread = "fail"
  BY DEF Python, Driver, MostDrivers
<1> QED BY <1>1, <1>2
=============================================================================
