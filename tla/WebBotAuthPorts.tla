-------------------------- MODULE WebBotAuthPorts --------------------------
(***************************************************************************)
(* The Web Bot Auth suite: the decision rules of tools/oracle_wba.py, the  *)
(* twelve runners' own versions of them, and the gate's.  The rules are    *)
(* the same six everywhere; a port is a record of what it does differently *)
(* where its language or its library does (a number that is a float, a key *)
(* without a kid, an abbreviated address, a string that is no hex).        *)
(*                                                                         *)
(* Data is kept as far as the rules look at it: a component is a token     *)
(* with its lower-case form, a number is its kind and value ("int" is one  *)
(* that neither a double nor 64 bits lose), an address is denied or not, a *)
(* signature is who made it over what.                                     *)
(***************************************************************************)
EXTENDS Integers, Sequences

CONSTANTS
  Missing,       \* no such section
  Null, Absent,  \* JSON null; no such key
  Undecodable,   \* what is not base64
  Lower(_),      \* lower-case form of a component name
  Required,      \* policy.required_covered_components
  Skew,          \* policy.clock_skew_seconds, an integer
  Denied         \* the addresses in policy.ssrf.denied_cidrs

WbaSections ==
  <<"wba_signing_base", "wba_coverage", "wba_freshness", "wba_directory",
    "wba_directory_ssrf", "wba_ed25519_verify">>

-----------------------------------------------------------------------------
(* Rule 1: the signing base, a line per covered component and the          *)
(* signature parameters.                                                   *)

Buildable(c) ==
  \A i \in DOMAIN c.covered : c.values[Lower(c.covered[i])] # Absent

SigningBase(c) ==
  [lines  |-> [i \in DOMAIN c.covered |->
                 <<Lower(c.covered[i]), c.values[Lower(c.covered[i])]>>],
   params |-> c.params]

\* The case says ok iff the base can be built, and is then that base.
BaseCorrect(c) ==
  IF Buildable(c) THEN c.ok /\ c.base = SigningBase(c) ELSE ~c.ok

-----------------------------------------------------------------------------
(* The oracle's verdicts, with the reason it stamps.                       *)

\* get() on a dictionary does not tell null from absent.
Got(v) == IF v = Absent THEN Null ELSE v

Unusable == {"", Null, Absent}

CoverageReason(c) ==
  LET covered == {Lower(c.covered[i]) : i \in DOMAIN c.covered} IN
    IF \E req \in Required : Lower(req) \notin covered
      THEN "missing_required_covered_component" ELSE "ok"

\* isinstance(True, int)
FreshnessReason(c) ==
  IF ~({c.created.kind, c.expires.kind, c.now.kind} \subseteq {"int", "bool"})
    THEN "non_integer_timestamp"
  ELSE IF c.expires.n <= c.created.n THEN "expires_not_after_created"
  ELSE IF c.now.n < c.created.n - Skew THEN "not_yet_valid"
  ELSE IF c.now.n >= c.expires.n THEN "expired"
  ELSE "ok"

DirectoryReason(c) ==
  LET hits == {i \in DOMAIN c.directory :
                 Got(c.directory[i].kid) = Got(c.keyid)}
      match == {i \in hits : \A j \in hits : i <= j}
  IN  IF match = {} THEN "keyid_not_in_directory"
      ELSE IF \E i \in match : c.directory[i].kty # "OKP"
                                 \/ c.directory[i].crv # "Ed25519"
        THEN "key_algorithm_not_ed25519"
      ELSE IF \E i \in match : c.directory[i].x \in Unusable
        THEN "malformed_jwk"
      ELSE "ok"

\* urlsplit lower-cases the scheme; ip_address takes no abbreviation, but a
\* zone, which the comparison with a range ignores.
SsrfReason(c) ==
  LET written == c.host.kind = "literal"
      addr == IF written THEN c.host.address ELSE c.resolved.address
  IN  IF c.scheme \notin {"https", "HTTPS"} THEN "scheme_not_https"
      ELSE IF c.userinfo THEN "url_contains_userinfo"
      ELSE IF c.host.kind = "none" THEN "no_host"
      ELSE IF ~written /\ c.resolved.kind = "null" THEN "unresolved_host"
      ELSE IF ~written /\ c.resolved.kind \notin {"ip", "zoned"}
        THEN "malformed_resolved_ip"
      ELSE IF addr \in Denied THEN "address_in_denied_range"
      ELSE "ok"

\* The verifier library: bytes.fromhex takes both letter cases.
SignatureValid(c) ==
  /\ c.base # Undecodable /\ c.sig.form \in {"lower", "upper"}
  /\ c.sig.by = c.pk /\ c.sig.over = c.base

Oracle(section, c) ==
  CASE section = "wba_coverage"       -> CoverageReason(c) = "ok"
    [] section = "wba_freshness"      -> FreshnessReason(c) = "ok"
    [] section = "wba_directory"      -> DirectoryReason(c) = "ok"
    [] section = "wba_directory_ssrf" -> SsrfReason(c) = "ok"
    [] section = "wba_ed25519_verify" -> SignatureValid(c)

-----------------------------------------------------------------------------
(* Rules 2 to 6 as the ports have them, for a port's rules r.              *)

\* Mutant: component names are compared as they are spelled.
Coverage_CaseSensitive(c) ==
  \A req \in Required : \E i \in DOMAIN c.covered : c.covered[i] = req

\* Every required component is covered, in any letter case.
Coverage(c) ==
  \A req \in Required :
    \E i \in DOMAIN c.covered : Lower(c.covered[i]) = Lower(req)

\* Mutant: the window is closed at its end.
Freshness_ClosedWindow(r, c) ==
  /\ {c.created.kind, c.expires.kind, c.now.kind} \subseteq r.integers
  /\ c.created.n < c.expires.n
  /\ c.created.n - Skew <= c.now.n
  /\ c.now.n <= c.expires.n

\* created - skew <= now < expires, all three integers.
Freshness(r, c) ==
  /\ {c.created.kind, c.expires.kind, c.now.kind} \subseteq r.integers
  /\ c.created.n < c.expires.n
  /\ c.created.n - Skew <= c.now.n
  /\ c.now.n < c.expires.n

\* What v.(string), or as_str().unwrap_or(""), makes of a JSON value.
Text(v) == IF v \in {Null, Absent} THEN "" ELSE v

\* The key's kid is the keyid looked for.
KidIs(r, kid, keyid) ==
  CASE r.kid = "get"       -> Got(kid) = Got(keyid)
    [] r.kid = "identical" -> kid = keyid
    [] r.kid = "string"    -> kid \notin {Null, Absent} /\ kid = keyid
    [] r.kid = "zero"      -> Text(kid) = Text(keyid)
    [] r.kid = "keyidzero" -> kid \notin {Null, Absent} /\ kid = Text(keyid)

\* The first key with that kid decides; it must be a usable Ed25519 key.
Directory(r, c) ==
  \E i \in DOMAIN c.directory :
    /\ KidIs(r, c.directory[i].kid, c.keyid)
    /\ \A j \in 1 .. i - 1 : ~KidIs(r, c.directory[j].kid, c.keyid)
    /\ c.directory[i].kty = "OKP" /\ c.directory[i].crv = "Ed25519"
    /\ c.directory[i].x \notin Unusable

\* The address the URL leads to, if any: an address written in the URL goes
\* before the one it is said to resolve to.
Address(r, c) ==
  CASE c.host.kind \in r.literals -> {c.host.address}
    [] c.host.kind \notin r.literals /\ c.resolved.kind \in r.addresses ->
         {c.resolved.address}
    [] OTHER -> {}

\* The address counts as outside every range, whatever it is.
OutOfRanges(r, c) == c.host.kind \notin r.literals /\ c.resolved.kind \in r.open

\* The directory may be fetched.
Ssrf(r, c) ==
  /\ c.scheme \in r.schemes
  /\ ~c.userinfo
  /\ c.host.kind \notin r.hostless
  /\ \E a \in Address(r, c) : a \notin Denied \/ OutOfRanges(r, c)

\* The signature is the key's own, over the base.
Ed25519(r, c) ==
  /\ c.base # Undecodable
  /\ c.sig.form \in r.hex
  /\ c.sig.by = c.pk /\ c.sig.over = c.base

Accepts(r, section, c) ==
  CASE section = "wba_coverage"       -> Coverage(c)
    [] section = "wba_freshness"      -> Freshness(r, c)
    [] section = "wba_directory"      -> Directory(r, c)
    [] section = "wba_directory_ssrf" -> Ssrf(r, c)
    [] section = "wba_ed25519_verify" -> Ed25519(r, c)

-----------------------------------------------------------------------------
(* The rules of the twelve ports.  Where a record says nothing, the port    *)
(* decides as most do:                                                      *)
(*   integers   kinds of JSON value taken for an integer,                   *)
(*   kid        how a kid is compared (KidIs),                              *)
(*   schemes    spellings of the scheme taken for https,                    *)
(*   literals   kinds of host taken for an address ("short": 127.1),        *)
(*   addresses  kinds of resolved_ip taken for an address ("zoned": an IPv6 *)
(*              address with the number of an interface, fe80::1%1),        *)
(*   open       kinds of resolved_ip that no range contains,                *)
(*   hostless   kinds of host for which the URL library finds no host       *)
(*              ("odd": a name outside the grammar of RFC 2396, like a_b),  *)
(*   hex        forms of a hexadecimal string that decode as they should.   *)
(* A zone in the URL's own address, and one that is the name of an interface *)
(* the host may have or not, are outside the model.                         *)

MostRules ==
  [integers |-> {"int"}, kid |-> "get", schemes |-> {"https", "HTTPS"},
   literals |-> {"literal"}, addresses |-> {"ip"}, open |-> {},
   hostless |-> {"none"}, hex |-> {"lower", "upper"}]

\* The address parser takes a zone.
Zones == {"ip", "zoned"}

\* java.net.URI has no host for a name it cannot parse.
JavaUriHostless == {"none", "odd", "short"}

\* isinstance(True, int)
PythonRules ==
  [MostRules EXCEPT !.integers = {"int", "bool"}, !.addresses = Zones]

\* Number.isInteger(15.0); the URL class writes 127.1 out and reads
\* https:///keys as the host "keys".
TypescriptRules ==
  [MostRules EXCEPT !.integers = {"int", "whole"}, !.kid = "identical",
                    !.literals = {"literal", "short"}, !.hostless = {}]

\* Prefix.Contains is false of an address with a zone.
GoRules ==
  [MostRules EXCEPT !.kid = "zero", !.addresses = Zones, !.open = {"zoned"}]

RustRules == [MostRules EXCEPT !.kid = "keyidzero"]

CRules == [MostRules EXCEPT !.kid = "string"]

\* "https".equals(u.getScheme()), which keeps the spelling.
JavaRules ==
  [MostRules EXCEPT !.kid = "string", !.schemes = {"https"},
                    !.hostless = JavaUriHostless]

KotlinRules ==
  [MostRules EXCEPT !.kid = "string", !.hostless = JavaUriHostless]

\* Mutant: the address parser refuses every literal in a URL.
ScalaRules_NoLiteral ==
  [MostRules EXCEPT !.kid = "string", !.hostless = JavaUriHostless,
                    !.addresses = Zones, !.literals = {}]

\* InetAddress.getByName.
ScalaRules ==
  [MostRules EXCEPT !.kid = "string", !.hostless = JavaUriHostless,
                    !.addresses = Zones]

\* Uri and IPAddress.TryParse take 127.1.
DotnetRules ==
  [MostRules EXCEPT !.literals = {"literal", "short"},
                    !.addresses = Zones \cup {"short"}]

\* IPAddr.new.
RubyRules == [MostRules EXCEPT !.addresses = Zones]

PhpRules == [MostRules EXCEPT !.kid = "string"]

\* :inet.parse_address takes 127.1; Base.decode16(case: :lower).
ElixirRules ==
  [MostRules EXCEPT !.literals = {"literal", "short"},
                    !.addresses = Zones \cup {"short"}, !.hex = {"lower"}]

-----------------------------------------------------------------------------
(* The driver of each port: what it does with what it did not expect.       *)
(*   missing, unread  a section, or the corpus, that is not there,          *)
(*   base64   of a base that is no base64: "raise"; "reject"; or "notok",   *)
(*            an unbuildable base,                                          *)
(*   hex      of a signature whose hex is malformed,                        *)
(*   field    of a timestamp that is not there,                             *)
(*   keyid    of a keyid that is null.                                      *)

MostDrivers ==
  [missing |-> "raise", unread |-> "fail", base64 |-> "reject",
   hex |-> "reject", field |-> "reject", keyid |-> "reject"]

Driver(lang, rules, d) ==
  [lang |-> lang, rules |-> rules, missing |-> d.missing, unread |-> d.unread,
   base64 |-> d.base64, hex |-> d.hex, field |-> d.field, keyid |-> d.keyid]

\* c["created"] raises, b64decode and bytes.fromhex are outside the try.
Python ==
  Driver("python", PythonRules,
         [MostDrivers EXCEPT !.base64 = "raise", !.hex = "raise",
                             !.field = "raise"])

Typescript == Driver("typescript", TypescriptRules, MostDrivers)

\* asList of a missing section is nil.
Go == Driver("go", GoRules, [MostDrivers EXCEPT !.missing = "empty"])

\* if let Some(cases); (Some(built), None) falls to the unbuildable arm.
Rust ==
  Driver("rust", RustRules,
         [MostDrivers EXCEPT !.missing = "empty", !.base64 = "notok"])

\* json_array_foreach over NULL.
C == Driver("c", CRules, [MostDrivers EXCEPT !.missing = "empty"])

\* getJSONArray, get, getString, Base64 and hex() all throw.
Java ==
  Driver("java", JavaRules,
         [MostDrivers EXCEPT !.base64 = "raise", !.hex = "raise",
                             !.field = "raise", !.keyid = "raise"])

\* hex() is inside the try of ed25519Ok, the base64 decoding is not.
Kotlin == Driver("kotlin", KotlinRules, [MostDrivers EXCEPT !.base64 = "raise"])

Scala == Driver("scala", ScalaRules, [MostDrivers EXCEPT !.base64 = "raise"])

Dotnet == Driver("dotnet", DotnetRules, [MostDrivers EXCEPT !.base64 = "raise"])

Ruby == Driver("ruby", RubyRules, MostDrivers)

\* foreach over null only warns; directory_ok(array, string $keyid).
Php ==
  Driver("php", PhpRules,
         [MostDrivers EXCEPT !.missing = "empty", !.unread = "empty",
                             !.keyid = "raise"])

Elixir == Driver("elixir", ElixirRules, MostDrivers)

WbaPorts ==
  <<Python, Typescript, Go, Rust, C, Java, Kotlin, Scala, Dotnet, Ruby, Php,
    Elixir>>

-----------------------------------------------------------------------------
(* Judging a case.                                                          *)

Timestamps(c) == {c.created.kind, c.expires.kind, c.now.kind}

\* An exception ends the runner.
Raises(p, section, c) ==
  \/ /\ section \in {"wba_signing_base", "wba_ed25519_verify"}
     /\ c.base = Undecodable /\ p.base64 = "raise"
  \/ section = "wba_ed25519_verify" /\ p.hex = "raise" /\ c.sig.form = "malformed"
  \/ section = "wba_freshness" /\ p.field = "raise" /\ "absent" \in Timestamps(c)
  \/ section = "wba_directory" /\ p.keyid = "raise" /\ c.keyid = Null

\* A base that does not decode equals none that is built.
BaseMatches(p, c) ==
  IF c.base = Undecodable
    THEN ~c.ok /\ (p.base64 = "notok" \/ ~Buildable(c))
    ELSE BaseCorrect(c)

Matches(p, section, c) ==
  IF section = "wba_signing_base"
    THEN BaseMatches(p, c)
    ELSE Accepts(p.rules, section, c) = c.expect

WbaJudge(p, section, c) ==
  CASE Raises(p, section, c) -> "raise"
    [] ~Raises(p, section, c) /\ Matches(p, section, c) -> "match"
    [] OTHER -> "mismatch"

\* The expectation is the one the generator stamps: the oracle's verdict, and
\* for a signing base the base itself.
WbaCorrect(section, c) ==
  IF section = "wba_signing_base"
    THEN (c.base # Undecodable \/ ~Buildable(c)) /\ BaseCorrect(c)
    ELSE Oracle(section, c) = c.expect

-----------------------------------------------------------------------------
(* The kinds of case gen_webbotauth_v0.py writes, with every other value in *)
(* their places: any window, any directory, any address without a zone.     *)

WbaEmitted(section, c) ==
  CASE section = "wba_signing_base"   -> c.base # Undecodable
    [] section = "wba_coverage"       -> TRUE
    [] section = "wba_freshness"      ->
         Timestamps(c) \subseteq {"int", "frac", "text", "null"}
    [] section = "wba_directory"      -> c.keyid \notin {"", Null, Absent}
    [] section = "wba_directory_ssrf" ->
         /\ c.scheme \in {"https", "http"}
         /\ c.host.kind \in {"literal", "name", "none"}
         /\ c.resolved.kind \in {"null", "empty", "malformed", "ip"}
         /\ c.host.kind = "none" => c.resolved.kind = "null"
    [] section = "wba_ed25519_verify" ->
         c.base # Undecodable /\ c.sig.form = "lower"

-----------------------------------------------------------------------------
(* check_kat_wba.py's re-derivation: python's rules once more, but a signing *)
(* base that the case calls bad is not built.                                *)

WbaKatChecks(section, c) == section = "wba_signing_base" => c.ok

WbaKatRederives(corpus) ==
  \A section \in DOMAIN corpus :
    /\ corpus[section] # Missing
    /\ \A n \in DOMAIN corpus[section] :
         LET c == corpus[section][n] IN
           /\ ~Raises(Python, section, c)
           /\ WbaKatChecks(section, c) => Matches(Python, section, c)
=============================================================================
