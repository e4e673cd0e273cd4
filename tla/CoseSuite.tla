------------------------------ MODULE CoseSuite -----------------------------
(***************************************************************************)
(* The COSE_Sign1 suite: tools/oracle_cose.py, its twelve runners, the gate *)
(* tools/check_kat_cose.py, and the corpus that tools/gen_cose_v0.py makes  *)
(* of the frozen material.                                                  *)
(*                                                                         *)
(* A message is what it decodes to: the tag, the number of fields, the two  *)
(* headers, the payload and the signature; or what is wrong with its bytes. *)
(* A protected header is the map and how its bytes encode it; a datum of    *)
(* CBOR is how its bytes encode it, or what is in it that not every codec   *)
(* writes back as it was.                                                   *)
(***************************************************************************)
EXTENDS Integers, Sequences

CONSTANTS
  Missing,  \* no such section
  Absent,   \* no such label; a nil payload; a name that resolves to no key
  NotAList  \* a crit that is no array

CoseSections ==
  <<"cose_sig_structure", "cose_deterministic_cbor", "cose_protected_header",
    "cose_es256_verify", "cose_eddsa_verify", "cose_ps256_verify", "cose_crit">>

\* The rules of the corpus' policy.security_rules.
CoseRules == {"alg_protected", "crit", "deterministic", "alg_key_type"}

KtyOf ==
  [alg \in {"ES256", "EdDSA", "PS256"} |->
     CASE alg = "ES256" -> "EC2" [] alg = "EdDSA" -> "OKP" [] OTHER -> "RSA"]

KnownLabels == {"alg", "crit", "content type", "kid", "IV"}

\* An alg, or a label of crit, that is an array.
Listed == "array"

-----------------------------------------------------------------------------
(* The runners.  Python hands a case to the oracle and to cbor2; the others *)
(* write the rules and a codec again, and differ in                         *)
(*   texts:     the hexadecimal they read besides plain lower case: upper   *)
(*              case, spaces between the bytes, a sign for a leading zero,  *)
(*              a bad digit, text behind,                                   *)
(*   decodes:   the bytes of a message they decode: with a float in it, or  *)
(*              with a text that is no UTF-8,                               *)
(*   canonical: the data that their codec writes back as they were: with a  *)
(*              boolean, a float, a pair twice, a text that is no UTF-8,    *)
(*              2^64 - 1, 2^53 + 1,                                         *)
(*   ends:      what they do not catch and what ends the run,               *)
(*   short:     whether a coordinate without its leading zero byte is read, *)
(*   zeroed:    whether PS256 takes a zero byte before the signature.       *)
(* A section that is not there is empty to all of them, and php alone goes  *)
(* on without a corpus.                                                     *)

Texts(message, datum) == [message |-> message, datum |-> datum]

AnyCase == {"plain", "upper"}

CosePython ==
  [enforced |-> CoseRules, missing |-> "empty", unread |-> "fail",
   texts |-> Texts(AnyCase \cup {"spaced"}, AnyCase \cup {"spaced"}),
   decodes |-> {"cbor", "float inside"},
   canonical |-> {"canonical", "boolean", "float", "2^64 - 1", "2^53 + 1"},
   ends |-> {"text", "lookup", "array"}, short |-> TRUE, zeroed |-> FALSE]

\* The codec that the other eleven write, which keeps a map as a list of pairs.
CosePlain ==
  [CosePython EXCEPT !.texts = Texts(AnyCase, AnyCase),
                     !.decodes = {"cbor", "bad text inside"},
                     !.canonical = {"canonical", "pair twice", "2^53 + 1"},
                     !.ends = {}]

CoseTypescript ==
  [CosePlain EXCEPT !.texts = Texts(AnyCase \cup {"behind"}, AnyCase \cup {"behind"}),
                    !.canonical = {"canonical", "pair twice"},
                    !.ends = {"key type", "coordinate"}]

CoseGo ==
  [CosePlain EXCEPT !.texts = Texts(AnyCase \cup {"behind"}, AnyCase \cup {"behind"}),
                    !.canonical = @ \cup {"bad text"}]

CoseRust == [CosePlain EXCEPT !.decodes = {"cbor"}, !.short = FALSE]

CoseC == [CosePlain EXCEPT !.canonical = @ \cup {"bad text"}, !.short = FALSE]

CoseJava ==
  [CosePlain EXCEPT !.texts = Texts(AnyCase \cup {"signed"}, AnyCase \cup {"signed"}),
                    !.ends = {"text", "lookup"}]

CoseKotlin == CoseJava

CoseScala == [CoseJava EXCEPT !.ends = {"text", "key type"}]

CoseDotnet == [CosePlain EXCEPT !.ends = {"text", "lookup"}, !.short = FALSE]

\* pack("H*") makes four bits of any character; the ones behind a message are
\* not looked at.
CoseRuby ==
  [CosePlain EXCEPT !.texts = Texts(AnyCase \cup {"behind"}, AnyCase \cup {"bad digit"}),
                    !.canonical = @ \cup {"bad text", "2^64 - 1"},
                    !.ends = {"key type"}, !.short = FALSE]

CosePhp ==
  [CosePlain EXCEPT !.canonical = @ \cup {"bad text"}, !.ends = {"lookup"},
                    !.short = FALSE, !.zeroed = TRUE, !.unread = "empty"]

CoseElixir ==
  [CosePlain EXCEPT !.texts = Texts({"plain"}, {"plain"}),
                    !.canonical = @ \cup {"bad text", "2^64 - 1"},
                    !.ends = {"text", "boolean", "material"}, !.short = FALSE]

CoseRunners ==
  <<CosePython, CoseTypescript, CoseGo, CoseRust, CoseC, CoseJava, CoseKotlin,
    CoseScala, CoseDotnet, CoseRuby, CosePhp, CoseElixir>>

-----------------------------------------------------------------------------
(* Verifying.                                                               *)

\* is_deterministic_cbor: decoding and encoding again gives the same bytes.
Deterministic(p, encoding) == encoding \in p.canonical

\* The array of four, in tag 18 or in none.
IsSign1(p, message) ==
  /\ message.bytes \in p.decodes /\ message.tag \in {18, Absent}
  /\ message.fields = 4 /\ message.types = "right"

\* parse_sign1.  An empty protected header is the zero-length string.
ParsesSign1(p, message) ==
  /\ IsSign1(p, message)
  /\ \/ message.protected.encoding = "empty"
     \/ /\ IF "deterministic" \in p.enforced
             THEN Deterministic(p, message.protected.encoding)
             ELSE message.protected.encoding # "not cbor"
        /\ message.protected.form = "map"

\* sig_structure: over the protected header's bytes; a nil payload is empty.
SigStructure(message) ==
  [context |-> "Signature1", protected |-> message.protected, aad |-> "",
   payload |-> IF message.payload = Absent THEN "" ELSE message.payload]

\* The three verifiers.
SigOk(p, alg, key, message) ==
  /\ message.sig.alg = alg /\ message.sig.by = key.key
  /\ message.sig.over = SigStructure(message)
  /\ \/ message.sig.bytes = "as made"
     \/ message.sig.bytes = "zero in front" /\ alg = "PS256" /\ p.zeroed
  /\ key.material # "none"
  /\ alg = "ES256" =>
       /\ message.sig.width = 64 /\ key.point = "on curve"
       /\ key.material = "short" => p.short

AlgOf(p, message) ==
  IF "alg_protected" \notin p.enforced /\ message.protected.alg = Absent
    THEN message.unprotected.alg ELSE message.protected.alg

\* A crit is a non-empty list of labels the verifier knows.
CritHonored(crit) ==
  /\ crit # NotAList /\ crit # <<>>
  /\ \A i \in DOMAIN crit : crit[i] \in KnownLabels

\* Mutant: an empty crit, or one that is no list, passes for an honored one.
PassesCrit_AnyShape(p, message) ==
  LET crit == message.protected.crit
  IN  crit = Absent \/ crit = NotAList \/ \A i \in DOMAIN crit : crit[i] \in KnownLabels

PassesCrit(p, message) ==
  LET crit == message.protected.crit
  IN  "crit" \in p.enforced => (crit = Absent \/ CritHonored(crit))

\* What comes before the key: structure, crit, and an algorithm.
ReachesKey(p, message) ==
  ParsesSign1(p, message) /\ PassesCrit(p, message) /\ AlgOf(p, message) \in DOMAIN KtyOf

\* verdict(): every rule that is enforced comes before the signature.
Accepts(p, message, key) ==
  LET alg == AlgOf(p, message)
  IN  /\ ReachesKey(p, message) /\ key # Absent
      /\ "alg_key_type" \in p.enforced => key.kty = KtyOf[alg]
      /\ SigOk(p, alg, key, message)

CoseVerdict(p, section, c) ==
  IF section = "cose_deterministic_cbor"
    THEN c.text \in p.texts.datum /\ Deterministic(p, c.datum)
    ELSE c.text \in p.texts.message /\ Accepts(p, c.message, c.key)

-----------------------------------------------------------------------------
(* What the runners make of a case.  None reads its sig_structure_hex.      *)

\* No set holds an array: python looks one up in crit, or as alg behind it.
MeetsArray(p, message) ==
  LET crit == message.protected.crit
      Before(i) == \A j \in 1 .. i - 1 : crit[j] \in KnownLabels
  IN  /\ ParsesSign1(p, message) /\ message.protected.alg # Absent
      /\ \/ /\ crit # Absent /\ crit # NotAList
            /\ \E i \in DOMAIN crit : crit[i] = Listed /\ Before(i)
         \/ PassesCrit(p, message) /\ message.protected.alg = Listed

DatumRaises(p, c) ==
  IF c.text \in p.texts.datum
    THEN c.datum = "boolean" /\ "boolean" \in p.ends
    ELSE "text" \in p.ends

MessageRaises(p, c) ==
  LET read == c.text \in p.texts.message
      alg == AlgOf(p, c.message)
      matched == ReachesKey(p, c.message) /\ c.key # Absent /\ c.key.kty = KtyOf[alg]
  IN  \/ ~read /\ "text" \in p.ends
      \/ c.key = Absent /\ "lookup" \in p.ends
      \/ /\ read /\ IsSign1(p, c.message)
         /\ \/ c.message.protected.encoding = "boolean" /\ "boolean" \in p.ends
            \/ MeetsArray(p, c.message) /\ "array" \in p.ends
            \/ ReachesKey(p, c.message) /\ c.key = Absent /\ "key type" \in p.ends
            \/ /\ matched /\ c.key.material = "none"
               /\ \/ "material" \in p.ends
                  \/ "coordinate" \in p.ends /\ alg = "ES256" /\ c.message.sig.width = 64

CoseRaises(p, section, c) ==
  IF section = "cose_deterministic_cbor" THEN DatumRaises(p, c) ELSE MessageRaises(p, c)

CoseJudge(p, section, c) ==
  CASE CoseRaises(p, section, c) -> "raise"
    [] ~CoseRaises(p, section, c) /\ CoseVerdict(p, section, c) = c.expect -> "match"
    [] OTHER -> "mismatch"

CoseCorrect(section, c) ==
  ~CoseRaises(CosePython, section, c) /\ CoseVerdict(CosePython, section, c) = c.expect

\* The kinds the generator writes, of what cbor2 and the libraries make.
CoseEmitted(section, c) ==
  LET Plain(encoding) ==
        encoding \in {"canonical", "long integer", "indefinite", "unsorted", "empty"}
  IN  /\ c.text = "plain"
      /\ IF section = "cose_deterministic_cbor"
            THEN Plain(c.datum)
            ELSE /\ c.key # Absent /\ c.key.material = "full"
                 /\ c.message.bytes = "cbor" /\ c.message.payload # Absent
                 /\ Plain(c.message.protected.encoding)
                 /\ c.message.sig.bytes # "zero in front"
                 /\ ~MeetsArray(CosePython, c.message)

-----------------------------------------------------------------------------
(* The gate: the same rules written again, in its own order, over the same  *)
(* cbor2, with pycose for the signature.                                    *)

PycoseAccepts(message, key) ==
  /\ message.bytes \in {"cbor", "float inside"} /\ message.tag \in {Absent, 18}
  /\ message.fields = 4 /\ message.types = "right"
  /\ \/ message.protected.encoding = "empty"
     \/ Deterministic(CosePython, message.protected.encoding) /\ message.protected.form = "map"
  /\ message.protected.alg # Absent
  /\ LET crit == message.protected.crit IN
       crit # Absent =>
         crit # NotAList /\ crit # <<>> /\ ~\E i \in DOMAIN crit : crit[i] \notin KnownLabels
  /\ message.protected.alg \in DOMAIN KtyOf
  /\ key.kty = KtyOf[message.protected.alg]
  /\ SigOk(CosePython, message.protected.alg, key, message)

CoseKatRederives(corpus) ==
  \A k \in DOMAIN CoseSections :
    LET section == CoseSections[k] IN
      /\ corpus[section] # Missing
      /\ \A n \in DOMAIN corpus[section] :
           LET c == corpus[section][n] IN
             /\ ~CoseRaises(CosePython, section, c)
             /\ c.expect = IF section = "cose_deterministic_cbor"
                             THEN Deterministic(CosePython, c.datum)
                             ELSE PycoseAccepts(c.message, c.key)

-----------------------------------------------------------------------------
(* The material of the n-th freezing, with the k-th set of private keys, and *)
(* the corpus made of it.  The "wrong" keys are made anew each time.        *)

CoseKey(kty, key) ==
  [kty |-> kty, key |-> key, point |-> "on curve", material |-> "full"]

\* build_sign1: the signature is over the Sig_structure of what is sent.
Signed(alg, key, protected, unprotected) ==
  LET message ==
        [bytes |-> "cbor", tag |-> 18, fields |-> 4, types |-> "right",
         protected |-> protected, unprotected |-> unprotected, payload |-> "payload"]
      sig == [alg |-> alg, by |-> key, over |-> SigStructure(message),
              width |-> 64, bytes |-> "as made"]
  IN  [field \in DOMAIN message \cup {"sig"} |->
         IF field = "sig" THEN sig ELSE message[field]]

Protected(alg, crit) ==
  [encoding |-> "canonical", form |-> "map", alg |-> alg, crit |-> crit]

NoAlg == [alg |-> Absent]

CoseMaterial(k, n) ==
  LET ec == CoseKey("EC2", <<"ec", k>>)
      Es256(protected, unprotected) == Signed("ES256", <<"ec", k>>, protected, unprotected)
  IN  [keys |->
         [ec            |-> ec,
          ed25519       |-> CoseKey("OKP", <<"ed25519", k>>),
          rsa           |-> CoseKey("RSA", <<"rsa", k>>),
          wrong_ec      |-> CoseKey("EC2", <<"wrong ec", n>>),
          wrong_ed25519 |-> CoseKey("OKP", <<"wrong ed25519", n>>),
          offcurve_ec   |-> [ec EXCEPT !.point = "off curve"]],
       messages |->
         [es256 |-> Es256(Protected("ES256", Absent), NoAlg),
          eddsa |-> Signed("EdDSA", <<"ed25519", k>>, Protected("EdDSA", Absent), NoAlg),
          ps256 |-> Signed("PS256", <<"rsa", k>>, Protected("PS256", Absent), NoAlg),
          es256_alg_unprotected |->
            Es256([Protected(Absent, Absent) EXCEPT !.encoding = "empty"], [alg |-> "ES256"]),
          es256_crit_honored |-> Es256(Protected("ES256", <<"alg">>), NoAlg),
          es256_crit_unknown |-> Es256(Protected("ES256", <<"unregistered">>), NoAlg)]]

Tampered(message) == [message EXCEPT !.sig.bytes = "flipped"]
Truncated(message) == [message EXCEPT !.sig.width = 63, !.sig.bytes = "cut"]

\* DCBOR_CASES: what the datum is an example of, and its verdict.
Datums ==
  <<<<"canonical", TRUE>>, <<"canonical", TRUE>>, <<"canonical", TRUE>>,
    <<"long integer", FALSE>>, <<"indefinite", FALSE>>, <<"indefinite", FALSE>>,
    <<"indefinite", FALSE>>, <<"unsorted", FALSE>>>>

CoseCorpus(m) ==
  LET es == m.messages.es256
      ed == m.messages.eddsa
      Case(message, name, expect) ==
        [text |-> "plain", message |-> message, key |-> m.keys[name], expect |-> expect]
      honored == Case(m.messages.es256_crit_honored, "ec", TRUE)
  IN  [cose_sig_structure |-> <<Case(es, "ec", TRUE), Case(ed, "ed25519", TRUE)>>,
       cose_deterministic_cbor |->
         [i \in DOMAIN Datums |->
            [text |-> "plain", datum |-> Datums[i][1], expect |-> Datums[i][2]]],
       cose_protected_header |->
         <<Case(es, "ec", TRUE),
           Case(m.messages.es256_alg_unprotected, "ec", FALSE), honored>>,
       cose_es256_verify |->
         <<Case(es, "ec", TRUE), Case(Tampered(es), "ec", FALSE),
           Case(Truncated(es), "ec", FALSE), Case(es, "offcurve_ec", FALSE),
           Case(es, "wrong_ec", FALSE), Case(es, "ed25519", FALSE)>>,
       cose_eddsa_verify |->
         <<Case(ed, "ed25519", TRUE), Case(Tampered(ed), "ed25519", FALSE),
           Case(ed, "wrong_ed25519", FALSE)>>,
       cose_ps256_verify |->
         <<Case(m.messages.ps256, "rsa", TRUE),
           Case(Tampered(m.messages.ps256), "rsa", FALSE)>>,
       cose_crit |-> <<Case(m.messages.es256_crit_unknown, "ec", FALSE), honored>>]
=============================================================================
