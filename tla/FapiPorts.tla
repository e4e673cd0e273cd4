----------------------------- MODULE FapiPorts ------------------------------
(***************************************************************************)
(* The FAPI 2.0 message-signing suite: the rules of tools/oracle_fapi.py,   *)
(* the twelve runners' own versions of them, and the gate's.                *)
(*                                                                         *)
(* A component or an algorithm is a token with its lower-case form, a       *)
(* header value is what it is a digest of and how it is written, a          *)
(* signature is who made it over what, in which hexadecimal form, and for   *)
(* ES256 its integer s.  Every case has signature parameters and the mode   *)
(* rfc9421, and the policy lists are in lower case and their names shorter  *)
(* than 64 bytes, as the generator writes them.  A status is an integer of  *)
(* 32 bits or, as "text", a string of such digits; the other components are *)
(* strings.  The headers of a case have names in lower case, none of which  *)
(* starts with "@" and at most one of which is of 128 bytes and more.  At    *)
(* most three of the components a case covers have values of 4096 bytes and  *)
(* more: four of them, cut, would overflow the C runner's 16384.             *)
(***************************************************************************)
EXTENDS Integers, Sequences

CONSTANTS
  Missing,          \* no such section
  Absent,           \* no such key
  Undecodable,      \* what is not base64
  Lower(_),         \* lower-case form of a token
  RequiredRequest,  \* policy.required_covered_request
  RequiredResponse, \* policy.required_covered_response
  DigestAlgorithms, \* policy.content_digest_algorithms
  AllowedAlgs,      \* policy.allowed_algs
  Order             \* policy.p256_n

FapiSections ==
  <<"fapi_signing_base", "fapi_required_coverage", "fapi_content_digest",
    "fapi_alg", "fapi_ps256_verify", "fapi_es256_verify">>

-----------------------------------------------------------------------------
(* The oracle, with the reasons it stamps.                                  *)

Required(messageType) ==
  IF messageType = "request" THEN RequiredRequest ELSE RequiredResponse

CoveredNames(c) == {Lower(c.covered[i]) : i \in DOMAIN c.covered}

CoverageReason(c) ==
  IF \E req \in Required(c.messageType) : Lower(req) \notin CoveredNames(c)
    THEN "missing_required_covered_component" ELSE "ok"

\* A header value is written "exact"ly as <alg>=:<digest>:, with blanks
\* "around" it or "inside" before its "=", or has no "=" ("malformed").  The
\* algorithm's name is lower-cased before the comparison, the value is not.
DigestReason(c) ==
  IF "content-digest" \notin CoveredNames(c) THEN "content_digest_not_covered"
  ELSE IF c.header.written = "malformed" THEN "content_digest_malformed"
  ELSE IF Lower(c.header.alg) \notin DigestAlgorithms
    THEN "content_digest_algorithm_not_allowed"
  ELSE IF \/ c.body = Undecodable \/ c.header.of # c.body
          \/ c.header.written \notin {"exact", "around"}
          \/ c.header.alg # Lower(c.header.alg)
    THEN "content_digest_mismatch"
  ELSE "ok"

AlgReason(c) ==
  IF Lower(c.alg) \in AllowedAlgs THEN "ok" ELSE "algorithm_not_allowed"

\* Mutant: s = n \div 2 is taken for high.
IsHighS_Closed(s) == s >= Order \div 2

\* s and n - s sign alike; exactly one of them is above n/2.
IsHighS(s) == s > Order \div 2

\* The signature libraries, on bytes that decoded.
Signed(c) == c.base # Undecodable /\ c.sig.by = c.pk /\ c.sig.over = c.base

Oracle(section, c) ==
  CASE section = "fapi_required_coverage" -> CoverageReason(c) = "ok"
    [] section = "fapi_content_digest"    -> DigestReason(c) = "ok"
    [] section = "fapi_alg"               -> AlgReason(c) = "ok"
    [] section = "fapi_ps256_verify" ->
         c.sig.form \in {"lower", "upper"} /\ Signed(c)
    [] section = "fapi_es256_verify" ->
         /\ c.sig.form \in {"lower", "upper"} /\ Signed(c)
         /\ c.low => c.sig.s <= Order \div 2

-----------------------------------------------------------------------------
(* The rules as the ports have them, for a port's rules r:                  *)
(*   fields   derived components whose value the port reads from the case,  *)
(*   lowered  components whose value it lower-cases,                        *)
(*   status   what a covered @status without a status is,                   *)
(*   text     what a status that is a string of digits is,                  *)
(*   name     what a name of 128 bytes and more ("longname") becomes,        *)
(*   long     what a value of 4096 bytes and more ("long") becomes,          *)
(*   huge     what parameters that make a base of 16384 bytes and more      *)
(*            ("huge") become,                                              *)
(*   pss      forms of a hexadecimal string that decode to a signature the  *)
(*            RSA library takes ("zeroed": a zero byte more in front;       *)
(*            "malformed": not hexadecimal from the first digits on),       *)
(*   hex      forms that decode to the 64 bytes of r and s.                 *)

DerivedNames ==
  {"@method", "@target-uri", "@status", "@authority", "@path", "@scheme",
   "@query", "@query-param", "@request-target"}

MostRules ==
  [fields  |-> {"@method", "@target-uri", "@status", "@authority", "@path"},
   lowered |-> {}, status |-> Absent, text |-> "text", name |-> "longname",
   long |-> "long", huge |-> "huge", pss |-> {"lower", "upper"},
   hex |-> {"lower", "upper"}]

\* A component that the port does not read is one that is not there: no header
\* has its name.
Unread(r, name) == name \in DerivedNames /\ name \notin r.fields

\* How the port writes the value v of a component.
Written(r, name, v) ==
  CASE v = Absent /\ name = "@status"           -> r.status
    [] v = "text" /\ name = "@status"           -> r.text
    [] v = "long"                               -> r.long
    [] v \notin {Absent, "long"} /\ name \in r.lowered -> Lower(v)
    [] OTHER                                    -> v

\* The value of the i-th covered component.
Value(r, c, i) ==
  LET name == Lower(c.covered[i])
  IN  IF Unread(r, name) THEN Absent ELSE Written(r, name, c.values[name])

Name(r, c, i) ==
  IF Lower(c.covered[i]) = "longname" THEN r.name ELSE Lower(c.covered[i])

Params(r, c) == IF c.params = "huge" THEN r.huge ELSE c.params

Buildable(r, c) ==
  /\ \A i \in DOMAIN c.covered : Value(r, c, i) # Absent
  /\ Params(r, c) # Absent

SigningBase(r, c) ==
  [lines  |-> [i \in DOMAIN c.covered |-> <<Name(r, c, i), Value(r, c, i)>>],
   params |-> Params(r, c)]

\* Built first, then compared: a case that says not ok must fail to build.
BaseCorrect(r, c) ==
  IF Buildable(r, c) THEN c.ok /\ c.base = SigningBase(r, c) ELSE ~c.ok

Coverage(c) ==
  \A req \in Required(c.messageType) :
    \E i \in DOMAIN c.covered : Lower(c.covered[i]) = Lower(req)

\* The body is decoded only now.
DigestDecodes(c) ==
  /\ \E i \in DOMAIN c.covered : Lower(c.covered[i]) = "content-digest"
  /\ c.header.written # "malformed"
  /\ Lower(c.header.alg) \in DigestAlgorithms

ContentDigest(c) ==
  /\ DigestDecodes(c)
  /\ c.body # Undecodable
  /\ c.header.written \in {"exact", "around"}
  /\ c.header.alg = Lower(c.header.alg)
  /\ c.header.of = c.body

Ps256(r, c) == c.sig.form \in r.pss /\ Signed(c)

Es256(r, c) ==
  /\ c.sig.form \in r.hex
  /\ ~(c.low /\ IsHighS(c.sig.s))
  /\ Signed(c)

Accepts(r, section, c) ==
  CASE section = "fapi_required_coverage" -> Coverage(c)
    [] section = "fapi_content_digest"    -> ContentDigest(c)
    [] section = "fapi_alg"               -> Lower(c.alg) \in AllowedAlgs
    [] section = "fapi_ps256_verify"      -> Ps256(r, c)
    [] section = "fapi_es256_verify"      -> Es256(r, c)

-----------------------------------------------------------------------------
(* The ports.                                                               *)
(*   missing, unread   a section, or the corpus, that is not there,          *)
(*   decoders   sections in which undecodable base64 ends the runner,        *)
(*   wanting    undecodable base64 of a signing base makes it unbuildable,   *)
(*   fatal      forms of a hexadecimal string that end the runner.           *)

VerifySections == {"fapi_ps256_verify", "fapi_es256_verify"}

DecodingSections == {"fapi_signing_base", "fapi_content_digest"} \cup VerifySections

MostDrivers ==
  [rules |-> MostRules, missing |-> "raise", unread |-> "fail", decoders |-> {},
   wanting |-> FALSE, fatal |-> {}]

\* b64decode and fromhex, and the JVM's and .NET's decoders, throw.
ThrowingDrivers ==
  [MostDrivers EXCEPT !.decoders = DecodingSections, !.fatal = {"malformed"}]

\* The call of build_signing_base passes on neither authority nor path.
Python ==
  [ThrowingDrivers EXCEPT !.rules.fields = {"@method", "@target-uri", "@status"}]

\* String(undefined) is a value.
Typescript == [MostDrivers EXCEPT !.rules.status = "undefined"]

\* asList(nil); numString takes numbers only.
Go == [MostDrivers EXCEPT !.missing = "empty", !.rules.text = Absent]

\* if let Some(cases); (Some(built), None) falls to the unbuildable arm.
Rust == [MostDrivers EXCEPT !.missing = "empty", !.wanting = TRUE]

\* json_array_foreach over NULL; char name[128], char val[4096], cap = 16384;
\* json_is_integer.
C ==
  [MostDrivers EXCEPT !.missing = "empty", !.rules.text = Absent,
                      !.rules.name = "cutname", !.rules.long = "cut",
                      !.rules.huge = Absent]

Java == ThrowingDrivers

\* Only contentDigestOk catches the decoder's exception.  isIntegralNumber
\* refuses a text.
Kotlin ==
  [ThrowingDrivers EXCEPT !.decoders = DecodingSections \ {"fapi_content_digest"},
                          !.rules.text = Absent]

Scala == [ThrowingDrivers EXCEPT !.rules.text = Absent]

Dotnet == ThrowingDrivers

\* decode64 and pack("H*") take anything.
Ruby == MostDrivers

\* foreach over null only warns.  The port's own EMSA-PSS works on the
\* signature's integer and does not look at its length.
Php ==
  [MostDrivers EXCEPT !.missing = "empty", !.unread = "empty",
                      !.rules.pss = {"lower", "upper", "zeroed"}]

\* Base.decode16!(case: :lower); the port has a @scheme, and downcases it and
\* @authority.
Elixir ==
  [ThrowingDrivers EXCEPT !.fatal = {"malformed", "upper"},
                          !.rules.fields = @ \cup {"@scheme"},
                          !.rules.lowered = {"@authority", "@scheme"}]

FapiRunners ==
  <<Python, Typescript, Go, Rust, C, Java, Kotlin, Scala, Dotnet, Ruby, Php,
    Elixir>>

-----------------------------------------------------------------------------
(* Judging a case.                                                          *)

\* The case has base64 that the port decodes and cannot.
MeetsUndecodable(section, c) ==
  IF section = "fapi_content_digest"
    THEN DigestDecodes(c) /\ c.body = Undecodable
    ELSE c.base = Undecodable

Raises(p, section, c) ==
  \/ section \in p.decoders /\ MeetsUndecodable(section, c)
  \/ section \in VerifySections /\ c.sig.form \in p.fatal

BaseMatches(p, c) ==
  IF c.base = Undecodable
    THEN ~c.ok /\ (p.wanting \/ ~Buildable(p.rules, c))
    ELSE BaseCorrect(p.rules, c)

Matches(p, section, c) ==
  IF section = "fapi_signing_base"
    THEN BaseMatches(p, c)
    ELSE Accepts(p.rules, section, c) = c.expect

FapiJudge(p, section, c) ==
  CASE Raises(p, section, c) -> "raise"
    [] ~Raises(p, section, c) /\ Matches(p, section, c) -> "match"
    [] OTHER -> "mismatch"

\* The expectation is the one the generator stamps: the oracle's verdict, and
\* for a signing base what hand_signing_base builds.
FapiCorrect(section, c) ==
  IF section = "fapi_signing_base"
    THEN /\ c.base # Undecodable \/ ~Buildable(MostRules, c)
         /\ BaseCorrect(MostRules, c)
    ELSE Oracle(section, c) = c.expect

-----------------------------------------------------------------------------
(* The kinds of case gen_fapi_v0.py writes, with every other value in their *)
(* places.                                                                  *)

\* The derived components it covers are the method, the target and the status;
\* a status is a number; names, values and bases are of ordinary length.
FapiEmitted(section, c) ==
  CASE section = "fapi_signing_base" ->
         /\ c.base # Undecodable /\ c.params # "huge"
         /\ \A i \in DOMAIN c.covered :
              LET name == Lower(c.covered[i]) IN
                /\ name \in DerivedNames => name \in {"@method", "@target-uri", "@status"}
                /\ name # "longname" /\ c.values[name] # "long"
                /\ name = "@status" => c.values[name] \notin {Absent, "text"}
    [] section = "fapi_required_coverage" -> TRUE
    [] section = "fapi_content_digest"    -> c.body # Undecodable
    [] section = "fapi_alg"               -> TRUE
    [] section \in VerifySections ->
         c.base # Undecodable /\ c.sig.form = "lower"

-----------------------------------------------------------------------------
(* check_kat_fapi.py's re-derivation: python's rules once more, with a        *)
(* signing base built by hand_signing_base, and only where the case says ok. *)
(* (The gate also refuses an empty section.)                                  *)

Gate == [Python EXCEPT !.rules = MostRules]

FapiKatChecks(section, c) == section = "fapi_signing_base" => c.ok

FapiKatRederives(corpus) ==
  \A section \in DOMAIN corpus :
    /\ corpus[section] # Missing
    /\ \A n \in DOMAIN corpus[section] :
         LET c == corpus[section][n] IN
           /\ ~Raises(Gate, section, c)
           /\ FapiKatChecks(section, c) => Matches(Gate, section, c)
=============================================================================
