------------------------------ MODULE JwsSuite ------------------------------
(***************************************************************************)
(* The JSON Web Signature suite: tools/oracle_jws.py, its twelve runners,   *)
(* the gate tools/check_kat_jws.py, and the corpus that                     *)
(* tools/gen_jws_v0.py makes of the frozen material.                        *)
(*                                                                         *)
(* A compact token is its number of segments, its header (what it decodes   *)
(* to, and the parameters that matter), its payload and its signature: the  *)
(* algorithm and key that made it, the signing input it was made over, its  *)
(* width, whether its bytes are the ones that were made, and how they are   *)
(* encoded.  A case holds the keys that the corpus' names resolve to.       *)
(***************************************************************************)
EXTENDS Integers, Sequences

CONSTANTS
  Missing,  \* no such section
  Absent    \* no such parameter; for a held key, a name that resolves to none

JwsSections ==
  <<"jws_compact_parse", "jws_alg_none", "jws_alg_confusion",
    "jws_rs256_verify", "jws_es256_verify", "jws_eddsa_verify",
    "jws_crit", "jws_kid">>

\* The rules of the corpus' policy.security_rules.
JwsRules == {"alg_none", "alg_key_type", "crit", "kid"}

-----------------------------------------------------------------------------
(* The runners.  Python hands a case to the oracle; the others write its    *)
(* rules again and differ in                                                *)
(*   headers:   what they read as a JSON object besides one: one with more  *)
(*              text behind it, one with quotes of another kind,            *)
(*   encodings: the signatures they decode: canonical base64url, one with   *)
(*              spare bits set, one with a line feed behind,                *)
(*   listed:    what an alg that is a list with RS256 in it is,             *)
(*   kids:      what a kid is that is the number 7,                         *)
(*   unnamed:   the kid of a key that has none,                             *)
(*   lookup:    when a name that resolves to no key ends the run,           *)
(*   hmac:      whether HS256 is verified, and                              *)
(*   short:     whether a coordinate without its leading zero byte is read. *)
(* A section that is not there is empty to all of them, and php alone goes  *)
(* on without a corpus.                                                     *)

Listed == "[RS256]"
Seven == "the number 7"

JwsPython ==
  [enforced |-> JwsRules, missing |-> "empty", unread |-> "fail",
   headers |-> {"object"}, encodings |-> {"canonical", "spare bits"},
   listed |-> "raises", kids |-> "unequal", unnamed |-> Absent,
   lookup |-> "all", hmac |-> TRUE, short |-> TRUE]

\* The other eleven, without their differences.
JwsPlain == [JwsPython EXCEPT !.listed = "unknown", !.hmac = FALSE, !.lookup = "never"]

JwsTypescript == [JwsPlain EXCEPT !.listed = "RS256", !.lookup = "all"]

JwsGo ==
  [JwsPlain EXCEPT !.encodings = @ \cup {"line feed"}, !.unnamed = ""]

JwsRust ==
  [JwsPlain EXCEPT !.encodings = {"canonical"}, !.unnamed = "", !.short = FALSE]

JwsC == [JwsPlain EXCEPT !.short = FALSE]

JwsJava ==
  [JwsPlain EXCEPT !.headers = {"object", "more behind", "other quotes"},
                   !.kids = "raises", !.lookup = "selecting"]

JwsKotlin ==
  [JwsPlain EXCEPT !.headers = {"object", "more behind"}, !.kids = "text"]

JwsScala == JwsKotlin

JwsDotnet == [JwsPlain EXCEPT !.lookup = "selecting", !.short = FALSE]

JwsRuby ==
  [JwsPlain EXCEPT !.encodings = {"canonical"}, !.lookup = "all", !.short = FALSE]

JwsPhp ==
  [JwsPlain EXCEPT !.encodings = @ \cup {"line feed"}, !.listed = "raises",
                   !.short = FALSE, !.unread = "empty"]

JwsElixir == [JwsPlain EXCEPT !.short = FALSE]

JwsRunners ==
  <<JwsPython, JwsTypescript, JwsGo, JwsRust, JwsC, JwsJava, JwsKotlin,
    JwsScala, JwsDotnet, JwsRuby, JwsPhp, JwsElixir>>

-----------------------------------------------------------------------------
(* Verifying.                                                               *)

AlgKty ==
  [alg \in {"RS256", "ES256", "EdDSA", "HS256"} |->
     CASE alg = "RS256" -> "RSA" [] alg = "ES256" -> "EC"
       [] alg = "EdDSA" -> "OKP" [] OTHER -> "oct"]

\* parse_compact: what is refused before any key is touched.
ParsesCompact(p, token) ==
  /\ token.segments = 3
  /\ token.header.form \in p.headers /\ token.header.alg # Absent
  /\ token.payload # "not base64url" /\ token.sig.encoding \in p.encodings

AlgOf(p, header) == IF header.alg = Listed THEN p.listed ELSE header.alg

\* Both segments as they are encoded.
SigningInput(token) == <<token.header, token.payload>>

\* The signature libraries.  HS256 takes the bytes of the key as the secret.
SignatureOk(p, alg, jwk, token) ==
  /\ token.sig.alg = alg /\ token.sig.by = jwk.key
  /\ token.sig.over = SigningInput(token)
  /\ token.sig.bytes = "as made"
  /\ alg = "ES256" =>
       /\ token.sig.width = 64 /\ jwk.point = "on curve"
       /\ jwk.coordinates = "short" => p.short
  /\ alg = "HS256" => p.hmac

\* The kid to look for, and the one that a held key has.
WantedKid(p, c) ==
  CASE c.jws.header.kid = Seven /\ p.kids = "text" -> "7"
    [] c.jws.header.kid = Seven /\ p.kids # "text" -> Absent
    [] OTHER -> c.jws.header.kid

KidOf(p, jwk) == IF jwk # Absent /\ jwk.kid # Absent THEN jwk.kid ELSE p.unnamed

\* The places of the held keys with the kid that is wanted.
Hits(p, c) ==
  {i \in DOMAIN c.held :
     WantedKid(p, c) # Absent /\ KidOf(p, c.held[i]) = WantedKid(p, c)}

\* A keyset selects by kid, the first hit; a single key is applied as it is.
SelectKey(p, c) ==
  CASE c.byKid /\ Hits(p, c) # {} ->
         c.held[CHOOSE i \in Hits(p, c) : \A j \in Hits(p, c) : i <= j]
    [] c.byKid /\ Hits(p, c) = {} /\ "kid" \in p.enforced -> Absent
    [] OTHER -> c.held[1]

\* What comes before the key: structure, then crit, then a known algorithm.
Selects(p, c) ==
  /\ ParsesCompact(p, c.jws)
  /\ "crit" \in p.enforced => c.jws.header.crit = Absent
  /\ AlgOf(p, c.jws.header) \in DOMAIN AlgKty

\* Mutant: the algorithm is the header's, whatever the key is.
Verdict_HeaderDecides(p, c) ==
  LET jwk == SelectKey(p, c) IN
  /\ Selects(p, c) /\ jwk # Absent
  /\ SignatureOk(p, AlgOf(p, c.jws.header), jwk, c.jws)

\* verdict(): every rule that is enforced comes before the signature.
Verdict(p, c) ==
  LET alg == AlgOf(p, c.jws.header)
      jwk == SelectKey(p, c)
  IN  \/ ParsesCompact(p, c.jws) /\ alg = "none" /\ "alg_none" \notin p.enforced
      \/ /\ Selects(p, c) /\ jwk # Absent
         /\ "alg_key_type" \in p.enforced => jwk.kty = AlgKty[alg]
         /\ SignatureOk(p, alg, jwk, c.jws)

JwsOracle(c) == Verdict(JwsPython, c)

-----------------------------------------------------------------------------
(* What the runners make of a case.                                         *)

Unresolved(c) == \E i \in DOMAIN c.held : c.held[i] = Absent

\* One name after the other is looked up, until the key is found.
MeetsUnresolved(p, c) ==
  IF c.byKid
    THEN /\ WantedKid(p, c) # Absent
         /\ \E i \in DOMAIN c.held :
              c.held[i] = Absent /\ \A j \in 1 .. i - 1 : j \notin Hits(p, c)
    ELSE c.held[1] = Absent

Raises(p, c) ==
  \/ p.lookup = "all" /\ Unresolved(c)
  \/ Selects(p, c) /\ p.lookup = "selecting" /\ MeetsUnresolved(p, c)
  \/ Selects(p, c) /\ p.kids = "raises" /\ c.byKid /\ c.jws.header.kid = Seven
  \/ /\ ParsesCompact(p, c.jws) /\ c.jws.header.crit = Absent
     /\ AlgOf(p, c.jws.header) = "raises"

JwsJudge(p, section, c) ==
  CASE Raises(p, c) -> "raise"
    [] ~Raises(p, c) /\ Verdict(p, c) = c.expect -> "match"
    [] OTHER -> "mismatch"

JwsCorrect(section, c) == ~Raises(JwsPython, c) /\ JwsOracle(c) = c.expect

\* The kinds the generator writes of the material as it is frozen, whose
\* coordinates happen to be 32 bytes long.
JwsEmitted(section, c) ==
  /\ c.jws.header.form \in {"object", "not json"}
  /\ c.jws.header.alg # Listed /\ c.jws.header.kid # Seven
  /\ c.jws.sig.encoding \in {"canonical", "malformed"}
  /\ \A i \in DOMAIN c.held :
       /\ c.held[i] # Absent
       /\ c.held[i].kid # Absent /\ c.held[i].kty # "oct"
       /\ c.held[i].coordinates = "full"

-----------------------------------------------------------------------------
(* The gate: its own selection of the key, and jwcrypto, which parses,      *)
(* refuses alg:none and what it does not know in crit, and holds a key to   *)
(* its type.                                                                *)

\* keys[n] is looked up one name after the other, outside any try, until a key
\* has the header's kid, of whatever type that is.
LookupRaises(c) ==
  IF c.byKid
    THEN /\ c.jws.header.form = "object" /\ c.jws.header.kid # Absent
         /\ \E i \in DOMAIN c.held :
              /\ c.held[i] = Absent
              /\ \A j \in 1 .. i - 1 :
                   c.held[j] = Absent \/ c.held[j].kid # c.jws.header.kid
    ELSE c.held[1] = Absent

\* The parameters that jwcrypto understands and so passes in crit.  With "b64"
\* it verifies over the payload as it stands, which no signature here is over.
Understood == {"alg", "kid", "typ", "cty", "crit"}

JwcryptoAccepts(c) ==
  Verdict(IF c.jws.header.crit \in Understood
            THEN [JwsPython EXCEPT !.enforced = JwsRules \ {"crit"}] ELSE JwsPython, c)

JwsKatRederives(corpus) ==
  \A k \in DOMAIN JwsSections :
    LET cases == corpus[JwsSections[k]] IN
      /\ cases # Missing
      /\ \A n \in DOMAIN cases :
           ~LookupRaises(cases[n]) /\ JwcryptoAccepts(cases[n]) = cases[n].expect

-----------------------------------------------------------------------------
(* The material of the n-th freezing, with the k-th set of private keys, and *)
(* the corpus made of it.  The "wrong" keys are made anew each time.        *)

Jwk(kty, kid, key) ==
  [kty |-> kty, kid |-> kid, key |-> key, point |-> "on curve", coordinates |-> "full"]

Widths == [alg \in DOMAIN AlgKty |-> CASE alg = "RS256" -> 256 [] alg = "HS256" -> 32 [] OTHER -> 64]

Token(alg, kid, key) ==
  LET header == [form |-> "object", alg |-> alg, kid |-> kid, crit |-> Absent] IN
  [segments |-> 3, header |-> header, payload |-> "payload",
   sig |-> [alg |-> alg, by |-> key, over |-> <<header, "payload">>,
            width |-> Widths[alg], bytes |-> "as made", encoding |-> "canonical"]]

JwsMaterial(k, n) ==
  LET ec == Jwk("EC", "jws-ec-1", <<"ec", k>>) IN
  [keys |->
     [rsa           |-> Jwk("RSA", "jws-rsa-1", <<"rsa", k>>),
      ec            |-> ec,
      ed25519       |-> Jwk("OKP", "jws-ed25519-1", <<"ed25519", k>>),
      wrong_rsa     |-> Jwk("RSA", "jws-rsa-1", <<"wrong rsa", n>>),
      wrong_ec      |-> Jwk("EC", "jws-ec-1", <<"wrong ec", n>>),
      wrong_ed25519 |-> Jwk("OKP", "jws-ed25519-1", <<"wrong ed25519", n>>),
      offcurve_ec   |-> [ec EXCEPT !.point = "off curve"]],
   tokens |->
     [rs256 |-> Token("RS256", "jws-rsa-1", <<"rsa", k>>),
      es256 |-> Token("ES256", "jws-ec-1", <<"ec", k>>),
      eddsa |-> Token("EdDSA", "jws-ed25519-1", <<"ed25519", k>>),
      hs256_confusion |-> Token("HS256", "jws-rsa-1", <<"rsa", k>>)]]

\* The surgery; the signature stays the one that was made.
TamperSig(token) == [token EXCEPT !.sig.bytes = "flipped"]
TruncateSig(token) == [token EXCEPT !.sig.width = 63, !.sig.bytes = "cut"]
SwapPayload(token) == [token EXCEPT !.payload = "another"]
RetypeHeader(token, parameter, value) ==
  [token EXCEPT !.header[parameter] = value]
Unsigned(header) ==
  [segments |-> 3, header |-> header, payload |-> "payload",
   sig |-> [alg |-> Absent, by |-> Absent, over |-> Absent, width |-> 1,
            bytes |-> "as made", encoding |-> "canonical"]]

JwsCorpus(m) ==
  LET rs == m.tokens.rs256
      es == m.tokens.es256
      ed == m.tokens.eddsa
      Case(token, held, byKid, expect) ==
        [jws |-> token, held |-> held, byKid |-> byKid, expect |-> expect]
      Held(token, name, expect) == Case(token, <<m.keys[name]>>, FALSE, expect)
      Keyset(token, expect) ==
        Case(token, <<m.keys.rsa, m.keys.ec, m.keys.ed25519>>, TRUE, expect)
  IN  [jws_compact_parse |->
         <<Held(rs, "rsa", TRUE),
           Held([rs EXCEPT !.segments = 2], "rsa", FALSE),
           Held([rs EXCEPT !.segments = 4], "rsa", FALSE),
           Held([rs EXCEPT !.payload = "not base64url"], "rsa", FALSE),
           Held(RetypeHeader(rs, "form", "not json"), "rsa", FALSE),
           Held(Unsigned([rs.header EXCEPT !.alg = Absent]), "rsa", FALSE)>>,
       jws_alg_none |->
         <<Held(Unsigned([rs.header EXCEPT !.alg = "none"]), "rsa", FALSE),
           Held([Unsigned([rs.header EXCEPT !.alg = "none"]) EXCEPT !.sig.width = 0],
                "rsa", FALSE)>>,
       jws_alg_confusion |->
         <<Held(rs, "rsa", TRUE), Held(m.tokens.hs256_confusion, "rsa", FALSE),
           Held(rs, "ec", FALSE), Held(es, "rsa", FALSE)>>,
       jws_rs256_verify |->
         <<Held(rs, "rsa", TRUE), Held(TamperSig(rs), "rsa", FALSE),
           Held(SwapPayload(rs), "rsa", FALSE), Held(rs, "wrong_rsa", FALSE)>>,
       jws_es256_verify |->
         <<Held(es, "ec", TRUE), Held(TamperSig(es), "ec", FALSE),
           Held(TruncateSig(es), "ec", FALSE), Held(es, "offcurve_ec", FALSE),
           Held(es, "wrong_ec", FALSE)>>,
       jws_eddsa_verify |->
         <<Held(ed, "ed25519", TRUE), Held(TamperSig(ed), "ed25519", FALSE),
           Held(ed, "wrong_ed25519", FALSE)>>,
       jws_crit |->
         <<Held(RetypeHeader(rs, "crit", "urn:example:unknown"), "rsa", FALSE),
           Held(RetypeHeader(rs, "crit", "b64"), "rsa", FALSE)>>,
       jws_kid |->
         <<Keyset(rs, TRUE), Keyset(RetypeHeader(rs, "kid", "jws-unknown-9"), FALSE),
           Keyset(RetypeHeader(rs, "kid", Absent), FALSE)>>]
=============================================================================
