--------------------------- MODULE MCVerdictField --------------------------
(***************************************************************************)
(* Each suite's ports over a good corpus with one of its sections, or all,  *)
(* left out or empty; over corpora of one section, with the good case and   *)
(* another of either expectation; and over what the tools leave that freeze *)
(* material and make a corpus of it.                                        *)
(***************************************************************************)
EXTENDS Freezing, MCNegative

CONSTANTS Null, Undecodable, NotAList

MCLower(name) ==
  CASE name = "@Authority"      -> "@authority"
    [] name = "Signature-Agent" -> "signature-agent"
    [] OTHER                    -> name

WbaRequired == {"@authority", "signature-agent"}

Wba ==
  INSTANCE WebBotAuthPorts
  WITH Lower <- MCLower, Required <- WbaRequired, Skew <- 0,
       Denied <- {"private"}

-----------------------------------------------------------------------------
(* Cases.                                                                  *)

Int3(k) == [kind |-> "int", n |-> k]

WbaValues ==
  {[name \in {"@authority", "@method", "signature-agent"} |-> "v"],
   [name \in {"@authority", "@method", "signature-agent"} |->
      IF name = "signature-agent" THEN Absent ELSE "v"]}

CoveredLists ==
  {<<>>, <<"@authority", "signature-agent">>, <<"@Authority", "Signature-Agent">>,
   <<"@method", "signature-agent">>, <<"@authority", "@method">>}

SigningBaseCases ==
  LET inputs == [covered : CoveredLists, values : WbaValues, params : {"p"}]
      With(i, b, ok) == [covered |-> i.covered, values |-> i.values,
                         params |-> i.params, base |-> b, ok |-> ok]
      Bases(i) == {Wba!SigningBase(i), [lines |-> <<>>, params |-> "q"]}
                    \cup {b \in {Undecodable} : i.covered = <<>>}
  IN  UNION {{With(i, b, ok) : b \in Bases(i), ok \in BOOLEAN} : i \in inputs}

CoverageCases == [covered : CoveredLists, expect : BOOLEAN]

OddNumbers ==
  {[kind |-> k, n |-> 1] : k \in {"whole", "frac", "bool", "text", "null",
                                  "absent"}}

FreshnessCases ==
  LET ints == {Int3(k) : k \in 0 .. 2}
      windows == [created : ints, expires : ints, now : ints]
      odd == [created : OddNumbers, expires : {Int3(2)}, now : {Int3(1)}]
               \cup [created : {Int3(0)}, expires : {Int3(2)}, now : OddNumbers]
      With(w, b) == [created |-> w.created, expires |-> w.expires,
                     now |-> w.now, expect |-> b]
  IN  {With(w, b) : w \in windows \cup odd, b \in BOOLEAN}

Jwks ==
  {[kid |-> k, kty |-> "OKP", crv |-> "Ed25519", x |-> "x"] :
     k \in {"a", "b", "", Null, Absent}}
    \cup {[kid |-> "a", kty |-> "EC", crv |-> "P-256", x |-> "x"],
          [kid |-> "a", kty |-> "OKP", crv |-> "Ed25519", x |-> ""]}

\* Any key alone, and any with a kid before a good one.
DirectoryCases ==
  [directory : {<<>>} \cup {<<j>> : j \in Jwks}, keyid : {"a", "", Null},
   expect : BOOLEAN]
    \cup [directory : {<<j, k>> : j \in {w \in Jwks : w.kid \in {"a", "b"}},
                                 k \in {w \in Jwks : w.kid \in {"a", "b"} /\ w.x = "x"
                                                     /\ w.crv = "Ed25519"}},
          keyid : {"a"}, expect : BOOLEAN]

Hosts ==
  [kind : {"literal", "short"}, address : {"public", "private"}]
    \cup [kind : {"name", "odd", "none"}, address : {"no"}]

Resolutions ==
  [kind : {"ip", "short", "zoned"}, address : {"public", "private"}]
    \cup [kind : {"null", "empty", "malformed"}, address : {"no"}]

\* Every resolution where the host is no address; where it is one, some; every
\* scheme and userinfo before a good host.
SsrfCases ==
  [scheme : {"https"}, userinfo : {FALSE}, resolved : Resolutions, expect : BOOLEAN,
   host : {h \in Hosts : h.kind \in {"name", "odd", "short"}}]
    \cup [scheme : {"https"}, userinfo : {FALSE}, expect : BOOLEAN,
          host : {h \in Hosts : h.kind \in {"literal", "none"}},
          resolved : {q \in Resolutions : q.kind = "null" \/ q.kind = "ip"}]
    \cup [scheme : {"https", "HTTPS", "http"}, userinfo : BOOLEAN,
          host : [kind : {"literal"}, address : {"public"}],
          resolved : [kind : {"null"}, address : {"no"}], expect : BOOLEAN]

Ed25519Cases ==
  LET Sigs(forms) == [by : {"A"}, over : {"base", "another"}, form : forms]
  IN  [base : {"base"}, pk : {"A", "B"}, sig : Sigs({"lower"}), expect : BOOLEAN]
        \cup [base : {"base"}, pk : {"A"}, expect : BOOLEAN,
              sig : Sigs({"upper", "malformed"})]
        \cup [base : {Undecodable}, pk : {"A"}, sig : Sigs({"lower"}), expect : BOOLEAN]

GoodWba ==
  [wba_signing_base |->
     <<CHOOSE c \in SigningBaseCases :
         c.ok /\ c.base = Wba!SigningBase(c) /\ Wba!Buildable(c)>>,
   wba_coverage |-> <<[covered |-> <<"@method">>, expect |-> FALSE]>>,
   wba_freshness |->
     <<[created |-> Int3(0), expires |-> Int3(2), now |-> Int3(1),
        expect |-> TRUE]>>,
   wba_directory |-> <<[directory |-> <<>>, keyid |-> "a", expect |-> FALSE]>>,
   wba_directory_ssrf |->
     <<[scheme |-> "https", userinfo |-> FALSE,
        host |-> [kind |-> "literal", address |-> "public"],
        resolved |-> [kind |-> "null", address |-> "no"], expect |-> TRUE]>>,
   wba_ed25519_verify |->
     <<[base |-> "base", pk |-> "A",
        sig |-> [by |-> "A", over |-> "base", form |-> "lower"],
        expect |-> TRUE]>>]

WbaFiles ==
  Variations(GoodWba, "wba_signing_base", SigningBaseCases)
    \cup Variations(GoodWba, "wba_coverage", CoverageCases)
    \cup Variations(GoodWba, "wba_freshness", FreshnessCases)
    \cup Variations(GoodWba, "wba_directory", DirectoryCases)
    \cup Variations(GoodWba, "wba_directory_ssrf", SsrfCases)
    \cup Variations(GoodWba, "wba_ed25519_verify", Ed25519Cases)

\* One section, or all of them, left out or empty.
CutOne(good) ==
  LET With(v, gone) == [k \in DOMAIN good |-> IF k \in gone THEN v ELSE good[k]]
  IN  {With(v, gone) : v \in {Missing, <<>>},
                       gone \in {{}, DOMAIN good} \cup {{k} : k \in DOMAIN good}}

\* At most two cases of each section.
Short(good) ==
  [k \in DOMAIN good |-> IF Len(good[k]) > 2 THEN SubSeq(good[k], 1, 2) ELSE good[k]]

-----------------------------------------------------------------------------
(* FAPI.                                                                   *)

FapiLower(name) ==
  CASE name = "@Method"        -> "@method"
    [] name = "Content-Digest" -> "content-digest"
    [] name = "SHA-256"        -> "sha-256"
    [] name = "PS256"          -> "ps256"
    [] name = "Host"           -> "host"
    [] OTHER                   -> name

Fapi ==
  INSTANCE FapiPorts
  WITH Lower <- FapiLower, Order <- 7, DigestAlgorithms <- {"sha-256"},
       RequiredRequest <- {"@method", "content-digest"},
       RequiredResponse <- {"content-digest"}, AllowedAlgs <- {"ps256"}

\* A component of each kind, and what becomes of an absent, long or text value,
\* of a long name and of a base that is too long.
FapiBaseInputs ==
  LET hosts == {"@authority", "@path", "@scheme"}
      names == hosts \cup {"@method", "@status", "content-digest", "longname"}
      plain == [n \in names |-> IF n \in hosts THEN "Host" ELSE "v"]
      With(name, v) == [plain EXCEPT ![name] = v]
  IN  [covered : {<<"@Method", "content-digest">>}, params : {"p"},
       values : {plain, With("content-digest", Absent), With("content-digest", "long")}]
        \cup [covered : {<<"@status", "content-digest">>}, params : {"p"},
              values : {plain, With("@status", Absent), With("@status", "text")}]
        \cup [covered : {<<name>> : name \in hosts \cup {"longname"}}, params : {"p"},
              values : {plain}]
        \cup [covered : {<<"@Method">>}, params : {"huge"}, values : {plain}]

FapiBaseCases ==
  LET With(i, b, ok) == [covered |-> i.covered, values |-> i.values,
                         params |-> i.params, base |-> b, ok |-> ok]
      Builders(i) == {p \in {Fapi!Python, Fapi!Typescript, Fapi!C, Fapi!Elixir} :
                        Fapi!Buildable(p.rules, i)}
      Bases(i) == {Fapi!SigningBase(p.rules, i) : p \in Builders(i)}
                    \cup {[lines |-> <<>>, params |-> "q"]}
                    \cup {b \in {Undecodable} : Len(i.covered) = 1}
  IN  UNION {{With(i, b, ok) : b \in Bases(i), ok \in BOOLEAN} : i \in FapiBaseInputs}

FapiCoverageCases ==
  [messageType : {"request", "response"},
   covered : {<<>>, <<"@Method", "Content-Digest">>, <<"content-digest">>,
              <<"@method">>}, expect : BOOLEAN]

Header == [written : {"exact", "around", "inside", "malformed"},
           alg : {"sha-256", "SHA-256", "md5"}, of : {"body", "another"}]

DigestCases ==
  [body : {"body"}, header : {h \in Header : h.of = "body" \/ h.written = "exact"},
   covered : {<<"Content-Digest">>}, expect : BOOLEAN]
    \cup [body : {Undecodable}, header : {h \in Header : h.alg = "sha-256" /\ h.of = "body"},
          covered : {<<"content-digest">>}, expect : BOOLEAN]
    \cup [body : {"body", Undecodable},
          header : {h \in Header : h.written = "exact" /\ h.alg = "sha-256"},
          covered : {<<"@method">>}, expect : BOOLEAN]

AlgCases == [alg : {"ps256", "PS256", "md5"}, expect : BOOLEAN]

Ps256Cases ==
  LET Sigs(forms) == [by : {"A"}, over : {"base", "another"}, form : forms]
  IN  [base : {"base"}, pk : {"A", "B"}, sig : Sigs({"lower"}), expect : BOOLEAN]
        \cup [base : {"base"}, pk : {"A"}, expect : BOOLEAN,
              sig : Sigs({"upper", "malformed", "zeroed"})]
        \cup [base : {Undecodable}, pk : {"A"}, sig : Sigs({"lower"}), expect : BOOLEAN]

\* s on both sides of n/2 and at the ends, with its twin n - s.
Es256Cases ==
  [base : {"base"}, pk : {"A", "B"}, low : BOOLEAN,
   sig : [by : {"A"}, over : {"base"}, form : {"lower"}, s : {1, 3, 4, 6}],
   expect : BOOLEAN]
    \cup [base : {"base"}, pk : {"A"}, low : {TRUE}, expect : BOOLEAN,
          sig : [by : {"A"}, over : {"base", "another"}, s : {3},
                 form : {"lower", "upper", "malformed", "short"}]]
    \cup [base : {Undecodable}, pk : {"A"}, low : {TRUE}, expect : BOOLEAN,
          sig : [by : {"A"}, over : {"base"}, s : {3}, form : {"lower"}]]

GoodFapi ==
  [fapi_signing_base |->
     <<CHOOSE c \in FapiBaseCases :
         c.ok /\ Fapi!FapiEmitted("fapi_signing_base", c)
              /\ Fapi!FapiCorrect("fapi_signing_base", c)>>,
   fapi_required_coverage |->
     <<[messageType |-> "request", covered |-> <<>>, expect |-> FALSE]>>,
   fapi_content_digest |->
     <<[body |-> "body", covered |-> <<"@method">>, expect |-> FALSE,
        header |-> [written |-> "exact", alg |-> "sha-256", of |-> "body"]]>>,
   fapi_alg |-> <<[alg |-> "ps256", expect |-> TRUE]>>,
   fapi_ps256_verify |->
     <<[base |-> "base", pk |-> "A", expect |-> TRUE,
        sig |-> [by |-> "A", over |-> "base", form |-> "lower"]]>>,
   fapi_es256_verify |->
     <<[base |-> "base", pk |-> "A", low |-> TRUE, expect |-> TRUE,
        sig |-> [by |-> "A", over |-> "base", form |-> "lower", s |-> 1]]>>]

FapiFiles ==
  Variations(GoodFapi, "fapi_signing_base", FapiBaseCases)
    \cup Variations(GoodFapi, "fapi_required_coverage", FapiCoverageCases)
    \cup Variations(GoodFapi, "fapi_content_digest", DigestCases)
    \cup Variations(GoodFapi, "fapi_alg", AlgCases)
    \cup Variations(GoodFapi, "fapi_ps256_verify", Ps256Cases)
    \cup Variations(GoodFapi, "fapi_es256_verify", Es256Cases)

-----------------------------------------------------------------------------
(* JWS.                                                                    *)

Jws == INSTANCE JwsSuite

JwsGood == Jws!JwsCorpus(Jws!JwsMaterial(1, 1))

JwsKeys == Jws!JwsMaterial(1, 1).keys

\* A header signed as it is, unlike RetypeHeader's.
Signed(token, parameter, value) ==
  LET header == [token.header EXCEPT ![parameter] = value]
  IN  [token EXCEPT !.header = header, !.sig.over = <<header, token.payload>>]

JwsRs == Jws!Token("RS256", "jws-rsa-1", <<"rsa", 1>>)
JwsEs == Jws!Token("ES256", "jws-ec-1", <<"ec", 1>>)

JwsGenuine ==
  {JwsRs, JwsEs, Jws!Token("EdDSA", "jws-ed25519-1", <<"ed25519", 1>>),
   Jws!Token("HS256", "jws-rsa-1", <<"rsa", 1>>),
   Jws!Token("HS256", "jws-oct-1", <<"oct", 1>>)}

JwsTokens ==
  JwsGenuine \cup
  {Jws!TamperSig(JwsRs), Jws!TruncateSig(JwsEs), Jws!SwapPayload(JwsRs),
   Jws!RetypeHeader(JwsRs, "form", "not json"), [JwsRs EXCEPT !.segments = 2],
   Jws!Unsigned([JwsRs.header EXCEPT !.alg = "none"])}
    \cup {[JwsRs EXCEPT !.sig.encoding = e] : e \in {"spare bits", "line feed", "malformed"}}
    \cup {Signed(JwsRs, "form", form) : form \in {"more behind", "other quotes"}}
    \cup {Signed(JwsRs, "crit", "urn:example:unknown"), Signed(JwsRs, "alg", Jws!Listed),
          Signed(Signed(JwsRs, "alg", Jws!Listed), "crit", "b64")}

JwsKids ==
  {JwsRs, JwsEs, Jws!RetypeHeader(JwsRs, "form", "not json")}
    \cup {Signed(JwsRs, "kid", kid) : kid \in {"unknown", "", Absent, Jws!Seven}}

ShortEc == [JwsKeys.ec EXCEPT !.coordinates = "short"]
Renamed(kid) == [JwsKeys.rsa EXCEPT !.kid = kid]

OneHeld ==
  {<<JwsKeys[name]>> : name \in {"ed25519", "wrong_rsa", "offcurve_ec"}}
    \cup {<<Absent>>, <<ShortEc>>, <<Jws!Jwk("oct", "jws-oct-1", <<"oct", 1>>)>>}

TwoHeld ==
  {<<JwsKeys.rsa, JwsKeys.ec>>, <<JwsKeys.rsa, Absent>>, <<Absent, JwsKeys.rsa>>}

NamedOddly ==
  {<<ShortEc>>, <<Renamed("7")>>, <<Renamed(Absent)>>, <<Absent, Renamed(Absent)>>,
   <<JwsKeys.wrong_rsa, JwsKeys.rsa>>}

JwsCases ==
  [jws : JwsTokens, held : {<<JwsKeys.rsa>>}, byKid : {FALSE}, expect : BOOLEAN]
    \cup [jws : JwsGenuine \cup {Jws!TruncateSig(JwsEs)}, byKid : {FALSE},
          held : OneHeld \cup {<<JwsKeys.ec>>}, expect : BOOLEAN]
    \cup [jws : JwsKids, held : TwoHeld, byKid : {TRUE}, expect : BOOLEAN]
    \cup [jws : {t \in JwsKids : t.header.kid # "unknown" /\ t.header.form = "object"},
          held : NamedOddly, byKid : {TRUE}, expect : BOOLEAN]

JwsFiles ==
  CutOne(Short(JwsGood))
    \cup Variations([k \in DOMAIN JwsGood |->
                      IF k = "jws_kid" THEN SubSeq(JwsGood[k], 1, 1) ELSE <<>>],
                    "jws_kid", JwsCases)

-----------------------------------------------------------------------------
(* COSE.                                                                   *)

Cose == INSTANCE CoseSuite

CoseGood == Cose!CoseCorpus(Cose!CoseMaterial(1, 1))

CoseKeys == Cose!CoseMaterial(1, 1).keys
CoseEs == Cose!CoseMaterial(1, 1).messages.es256
CosePs == Cose!CoseMaterial(1, 1).messages.ps256

CoseGenuine ==
  {Cose!CoseMaterial(1, 1).messages[name] :
     name \in DOMAIN Cose!CoseMaterial(1, 1).messages}

CoseMessages ==
  LET Es256(protected) == Cose!Signed("ES256", <<"ec", 1>>, protected, Cose!NoAlg)
      canonical == Cose!Protected("ES256", Absent)
  IN  {Es256(Cose!Protected("ES256", crit)) :
         crit \in {<<>>, NotAList, <<"alg", "unregistered">>, <<"kid", "IV">>,
                   <<"alg", Cose!Listed>>, <<"unregistered", Cose!Listed>>}}
        \cup {Es256([canonical EXCEPT !.encoding = e]) :
                e \in {"unsorted", "not cbor", "boolean", "float", "pair twice",
                       "bad text", "2^64 - 1", "2^53 + 1"}}
        \cup {Es256([canonical EXCEPT !.form = "array"]),
              Es256([canonical EXCEPT !.alg = "ES512"]),
              Es256([canonical EXCEPT !.alg = Cose!Listed]),
              Cose!Tampered(CoseEs), Cose!Truncated(CoseEs),
              [CosePs EXCEPT !.sig.bytes = "zero in front"],
              [CoseEs EXCEPT !.tag = Absent], [CoseEs EXCEPT !.tag = 98],
              [CoseEs EXCEPT !.fields = 3], [CoseEs EXCEPT !.types = "wrong"],
              [CoseEs EXCEPT !.payload = "another"]}
        \cup {[CoseEs EXCEPT !.bytes = b] :
                b \in {"not cbor", "float inside", "bad text inside"}}

CoseTexts == {"plain", "upper", "spaced", "signed", "bad digit", "behind"}

CoseCases ==
  LET named(names) == {CoseKeys[name] : name \in names}
  IN  [text : {"plain"}, message : CoseMessages, key : {CoseKeys.ec}, expect : BOOLEAN]
        \cup [text : {"plain"}, message : CoseGenuine, expect : BOOLEAN,
              key : named({"ec", "ed25519", "rsa"}) \cup {Absent}]
        \cup [text : {"plain"}, message : {CoseEs}, expect : BOOLEAN,
              key : named({"wrong_ec", "offcurve_ec"})
                      \cup {[CoseKeys.ec EXCEPT !.material = "short"]}]
        \cup [text : {"plain"}, message : {CoseEs, CosePs, Cose!Truncated(CoseEs)},
              key : {[CoseKeys[name] EXCEPT !.material = "none"] : name \in {"ec", "rsa"}},
              expect : BOOLEAN]
        \cup [text : CoseTexts, message : {CoseEs, Cose!Tampered(CoseEs)},
              key : {CoseKeys.ec}, expect : BOOLEAN]
        \cup [text : {"behind"}, message : {CoseEs}, key : {Absent}, expect : BOOLEAN]

DatumCases ==
  [text : {"plain"}, expect : BOOLEAN,
   datum : {"canonical", "long integer", "indefinite", "unsorted", "boolean", "float",
            "pair twice", "bad text", "2^64 - 1", "2^53 + 1"}]
    \cup [text : CoseTexts, datum : {"canonical", "unsorted"}, expect : BOOLEAN]

CoseFiles ==
  LET crits == [k \in DOMAIN CoseGood |->
                  IF k = "cose_crit" THEN SubSeq(CoseGood[k], 1, 1) ELSE <<>>]
      data == [k \in DOMAIN CoseGood |->
                 IF k = "cose_deterministic_cbor" THEN SubSeq(CoseGood[k], 1, 1) ELSE <<>>]
  IN  CutOne(Short(CoseGood)) \cup Variations(crits, "cose_crit", CoseCases)
        \cup Variations(data, "cose_deterministic_cbor", DatumCases)

-----------------------------------------------------------------------------
(* ML-DSA-65.  The anchors were never fetched; a file may have them.       *)

Mldsa == INSTANCE MldsaSuite

Anchor == Mldsa!MldsaCase(Mldsa!PublicKey(<<"nist", 1>>), "primary",
                          Mldsa!Sig(<<"nist", 1>>, "primary", "pure"), TRUE)

MldsaGood == Mldsa!MldsaCorpus(Mldsa!MldsaMaterial(1), <<Anchor>>)

MldsaGenuine == Mldsa!Sig(<<"main", 1>>, "primary", "pure")

MldsaKeys ==
  {Mldsa!PublicKey(<<"main", 1>>), Mldsa!Resized(Mldsa!PublicKey(<<"main", 1>>), 1),
   Mldsa!GarbageKey}

MldsaSigs ==
  {Mldsa!Sig(by, over, domain) :
     by \in {<<"main", 1>>, <<"seeded", 0>>}, over \in {"primary", "empty"},
     domain \in {"pure", "context", "prehash"}}
    \cup {Mldsa!Flipped(MldsaGenuine), Mldsa!Resized(MldsaGenuine, -1),
          Mldsa!Resized(MldsaGenuine, 1)}

MldsaCases ==
  LET main == Mldsa!PublicKey(<<"main", 1>>)
      some == {MldsaGenuine, Mldsa!Flipped(MldsaGenuine)}
  IN  [hex : {"well formed"}, message : {"primary"}, publicKey : {main},
       signature : MldsaSigs, expect : BOOLEAN]
        \cup [hex : {"well formed"}, message : {"primary"}, signature : some,
              publicKey : MldsaKeys \ {main}, expect : BOOLEAN]
        \cup [hex : {"spaced", "half bad", "wide", "malformed"}, message : {"primary"},
              publicKey : {main, Mldsa!GarbageKey}, signature : some, expect : BOOLEAN]

MldsaFiles ==
  CutOne(Short(MldsaGood))
    \cup Variations([MldsaGood EXCEPT !["mldsa65_verify"] = SubSeq(@, 1, 1)],
                    "mldsa65_verify", MldsaCases)

-----------------------------------------------------------------------------
(* The suites.                                                             *)

MCBuilds(s, m) ==
  CASE s = "jws_v0"       -> Jws!JwsCorpus(Jws!JwsMaterial(m.key, m.freezing))
    [] s = "cose_v0"      -> Cose!CoseCorpus(Cose!CoseMaterial(m.key, m.freezing))
    [] s = "pqc_mldsa_v0" -> IF m.separated
                               THEN Mldsa!MldsaCorpus(Mldsa!MldsaMaterial(m.key), Missing)
                               ELSE Refused

\* What the tools can make of any material.
MadeFiles(s) ==
  {MCBuilds(s, FrozenWith(k, n, TRUE)) : k \in 1 .. MaxKeys, n \in 1 .. MaxFreezings}

WbaSectionList == Wba!WbaSections
WbaPortList == Wba!WbaPorts
WbaFileSet == {Unreadable} \cup CutOne(GoodWba) \cup WbaFiles
FapiSectionList == Fapi!FapiSections
FapiPortList == Fapi!FapiRunners
FapiFileSet == {Unreadable} \cup CutOne(GoodFapi) \cup FapiFiles
JwsPortList == Jws!JwsRunners
CosePortList == Cose!CoseRunners
MldsaPortList == Mldsa!MldsaRunners
JwsFileSet == {Unreadable} \cup JwsFiles \cup MadeFiles("jws_v0")
CoseFileSet == {Unreadable} \cup CoseFiles \cup MadeFiles("cose_v0")
MldsaFileSet == {Unreadable} \cup MldsaFiles \cup MadeFiles("pqc_mldsa_v0")

\* (Tables of what depends on the suite only, for TLC to compute them once.)
SectionTable ==
  [s \in Suites \cup Frozen |->
     CASE s = "rfc9421_negative"       -> NegativeSections
       [] s = "webbotauth_v0"          -> WbaSectionList
       [] s = "fapi_messagesigning_v0" -> FapiSectionList
       [] s = "jws_v0"                 -> Jws!JwsSections
       [] s = "cose_v0"                -> Cose!CoseSections
       [] s = "pqc_mldsa_v0"           -> Mldsa!MldsaSections]

MCSectionsOf(s) == SectionTable[s]

PortTable ==
  [s \in Suites \cup Frozen |->
     CASE s = "rfc9421_negative"       -> NegativeRunners
       [] s = "webbotauth_v0"          -> WbaPortList
       [] s = "fapi_messagesigning_v0" -> FapiPortList
       [] s = "jws_v0"                 -> JwsPortList
       [] s = "cose_v0"                -> CosePortList
       [] s = "pqc_mldsa_v0"           -> MldsaPortList]

MCPortsOf(s) == PortTable[s]

FileTable ==
  [s \in Suites \cup Frozen |->
     CASE s = "rfc9421_negative"       -> NegFiles
       [] s = "webbotauth_v0"          -> WbaFileSet
       [] s = "fapi_messagesigning_v0" -> FapiFileSet
       [] s = "jws_v0"                 -> JwsFileSet
       [] s = "cose_v0"                -> CoseFileSet
       [] s = "pqc_mldsa_v0"           -> MldsaFileSet]

MCFiles(s) == FileTable[s]

MCJudge(s, p, section, c) ==
  CASE s = "rfc9421_negative"       -> NegativeJudge(p, section, c)
    [] s = "webbotauth_v0"          -> Wba!WbaJudge(p, section, c)
    [] s = "fapi_messagesigning_v0" -> Fapi!FapiJudge(p, section, c)
    [] s = "jws_v0"                 -> Jws!JwsJudge(p, section, c)
    [] s = "cose_v0"                -> Cose!CoseJudge(p, section, c)
    [] s = "pqc_mldsa_v0"           -> Mldsa!MldsaJudge(p, section, c)

MCCorrect(s, section, c) ==
  CASE s = "rfc9421_negative"       -> NegativeCorrect(section, c)
    [] s = "webbotauth_v0"          -> Wba!WbaCorrect(section, c)
    [] s = "fapi_messagesigning_v0" -> Fapi!FapiCorrect(section, c)
    [] s = "jws_v0"                 -> Jws!JwsCorrect(section, c)
    [] s = "cose_v0"                -> Cose!CoseCorrect(section, c)
    [] s = "pqc_mldsa_v0"           -> Mldsa!MldsaCorrect(section, c)

MCEmitted(s, section, c) ==
  CASE s = "rfc9421_negative"       -> NegativeEmitted(section, c)
    [] s = "webbotauth_v0"          -> Wba!WbaEmitted(section, c)
    [] s = "fapi_messagesigning_v0" -> Fapi!FapiEmitted(section, c)
    [] s = "jws_v0"                 -> Jws!JwsEmitted(section, c)
    [] s = "cose_v0"                -> Cose!CoseEmitted(section, c)
    [] s = "pqc_mldsa_v0"           -> Mldsa!MldsaEmitted(section, c)

MCKatRederives(s, f) ==
  CASE s = "rfc9421_negative"       -> NegativeKatRederives(f)
    [] s = "webbotauth_v0"          -> Wba!WbaKatRederives(f)
    [] s = "fapi_messagesigning_v0" -> Fapi!FapiKatRederives(f)
    [] s = "jws_v0"                 -> Jws!JwsKatRederives(f)
    [] s = "cose_v0"                -> Cose!CoseKatRederives(f)
    [] s = "pqc_mldsa_v0"           -> Mldsa!MldsaKatRederives(f)

\* The core's gate reads one section; the others read all of theirs.
MCKatReads(s, section) == s = "rfc9421_negative" => section = "signing_base"

\* The core's gate recomputes no verdict, the gates of the newer suites all.
MCKatChecks(s, section, c) ==
  CASE s = "rfc9421_negative"       -> FALSE
    [] s = "webbotauth_v0"          -> Wba!WbaKatChecks(section, c)
    [] s = "fapi_messagesigning_v0" -> Fapi!FapiKatChecks(section, c)
    [] OTHER                        -> TRUE

MCRules(s) ==
  CASE s = "jws_v0"       -> Jws!JwsRules
    [] s = "cose_v0"      -> Cose!CoseRules
    [] s = "pqc_mldsa_v0" -> Mldsa!MldsaRules

MCProbed(s) ==
  CASE s = "jws_v0"       -> {"alg_none", "alg_key_type"}
    [] s = "cose_v0"      -> {"alg_protected", "crit"}
    [] s = "pqc_mldsa_v0" -> {"context", "prehash"}

MCWithout(s, rule) ==
  [MCPortsOf(s)[1] EXCEPT !.enforced = MCRules(s) \ {rule}]
=============================================================================
