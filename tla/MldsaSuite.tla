----------------------------- MODULE MldsaSuite ----------------------------
(***************************************************************************)
(* The ML-DSA-65 suite: tools/oracle_pqc_mldsa.py, its twelve runners, the   *)
(* gate tools/check_kat_pqc_mldsa.py, and the corpus that                   *)
(* tools/gen_pqc_mldsa_v0.py makes of the frozen material and, when they    *)
(* were fetched, of the official NIST anchors.                              *)
(*                                                                         *)
(* A public key is the key pair it belongs to and its length; a signature   *)
(* is the key pair, message and signing domain it was made with, its length *)
(* and whether its bytes are the ones that were made.                       *)
(***************************************************************************)
EXTENDS Integers, Sequences

CONSTANT Missing  \* no such section

MldsaSections == <<"mldsa65_verify", "mldsa65_malformed", "mldsa65_acvp_kat">>

PK_LEN == 1952
SIG_LEN == 3309

\* The rules of the corpus' policy: fixed lengths, and FIPS 204's separation
\* of the empty context from any other and from pre-hashed messages.
MldsaRules == {"lengths", "context", "prehash"}

-----------------------------------------------------------------------------
(* The runners.  They write the same steps over several libraries, and      *)
(* differ in what they take for hexadecimal besides well formed text: with  *)
(* white space between the bytes, with a bad second digit, with digits of   *)
(* another width.  A section that is not there is empty to all of them, and *)
(* php alone goes on without a corpus.                                      *)

MldsaPython ==
  [enforced |-> MldsaRules, missing |-> "empty", unread |-> "fail",
   reads |-> {"well formed", "spaced"}]

\* go, rust, c, dotnet, ruby and elixir.
MldsaPlain == [MldsaPython EXCEPT !.reads = {"well formed"}]

MldsaTypescript == [MldsaPlain EXCEPT !.reads = @ \cup {"half bad"}]

\* java, kotlin and scala.
MldsaJvm == [MldsaPlain EXCEPT !.reads = @ \cup {"wide"}]

MldsaPhp == [MldsaPlain EXCEPT !.unread = "empty"]

MldsaRunners ==
  <<MldsaPython, MldsaTypescript, MldsaPlain, MldsaPlain, MldsaPlain, MldsaJvm,
    MldsaJvm, MldsaJvm, MldsaPlain, MldsaPlain, MldsaPhp, MldsaPlain>>

-----------------------------------------------------------------------------
(* Verifying.                                                               *)

LengthsOk(c) == c.publicKey.length = PK_LEN /\ c.signature.length = SIG_LEN

\* The libraries, which know one domain: the pure one, with no context.
SignatureVerifies(enforced, c) ==
  /\ c.signature.by = c.publicKey.of
  /\ c.signature.over = c.message
  /\ c.signature.bytes = "as made" /\ c.publicKey.bytes = "as made"
  /\ c.signature.domain \notin enforced

\* verdict(): hexadecimal, then lengths, then the signature.
MldsaVerdict(p, c) ==
  /\ c.hex \in p.reads
  /\ "lengths" \in p.enforced => LengthsOk(c)
  /\ SignatureVerifies(p.enforced, c)

MldsaJudge(p, section, c) ==
  IF MldsaVerdict(p, c) = c.expect THEN "match" ELSE "mismatch"

MldsaCorrect(section, c) == MldsaVerdict(MldsaPython, c) = c.expect

MldsaEmitted(section, c) == c.hex = "well formed"

\* The gate: dilithium-py behind its own hexadecimal and lengths.  It takes the
\* sections that are there, and refuses one that is there and empty.
DilithiumAccepts(c) ==
  /\ c.hex \in {"well formed", "spaced"}
  /\ c.publicKey.length = 1952 /\ c.signature.length = 3309
  /\ SignatureVerifies(MldsaRules, c)

MldsaKatRederives(corpus) ==
  \A section \in {MldsaSections[k] : k \in DOMAIN MldsaSections} :
    corpus[section] # Missing =>
      \A n \in DOMAIN corpus[section] :
        DilithiumAccepts(corpus[section][n]) = corpus[section][n].expect

-----------------------------------------------------------------------------
(* The material, for the k-th set of private keys.  The key of the domain   *)
(* separation comes from a fixed seed; an earlier tool froze none.          *)

PublicKey(of) == [of |-> of, length |-> PK_LEN, bytes |-> "as made"]

Sig(by, over, domain) ==
  [by |-> by, over |-> over, domain |-> domain, length |-> SIG_LEN,
   bytes |-> "as made"]

DomainSeparation ==
  [publicKey |-> PublicKey(<<"seeded", 0>>),
   pure    |-> Sig(<<"seeded", 0>>, "primary", "pure"),
   context |-> Sig(<<"seeded", 0>>, "primary", "context"),
   prehash |-> Sig(<<"seeded", 0>>, "primary", "prehash")]

MldsaMaterial(k) ==
  [publicKey |-> PublicKey(<<"main", k>>),
   wrongKey  |-> PublicKey(<<"wrong", k>>),
   signatures |-> [msg \in {"primary", "empty", "short"} |-> Sig(<<"main", k>>, msg, "pure")],
   separation |-> DomainSeparation]

-----------------------------------------------------------------------------
(* The corpus.                                                              *)

Flipped(x) == [x EXCEPT !.bytes = "flipped"]
Resized(x, n) == [x EXCEPT !.length = x.length + n, !.bytes = "resized"]

\* A right-length value that no signer made.
ConstSig == [Sig(<<"nobody", 0>>, "nothing", "pure") EXCEPT !.bytes = "constant"]
GarbageKey == [PublicKey(<<"nobody", 0>>) EXCEPT !.bytes = "constant"]

MldsaCase(pk, msg, sig, expect) ==
  [hex |-> "well formed", publicKey |-> pk, message |-> msg, signature |-> sig,
   expect |-> expect]

\* Mutant: the context signature is one over another message as well.
MldsaCorpus_WeakSeparation(m, anchors) ==
  LET pk == m.publicKey
      sig == m.signatures
      ds == m.separation
  IN  [mldsa65_verify |->
         <<MldsaCase(pk, "primary", sig["primary"], TRUE),
           MldsaCase(ds.publicKey, "empty", ds.context, FALSE),
           MldsaCase(ds.publicKey, "primary", ds.prehash, FALSE)>>,
       mldsa65_malformed |-> <<MldsaCase(pk, "primary", Resized(sig["primary"], -1), FALSE)>>,
       mldsa65_acvp_kat |-> anchors]

MldsaCorpus(m, anchors) ==
  LET pk == m.publicKey
      sig == m.signatures
      ds == m.separation
      valid == [i \in 1 .. 3 |->
                  LET msg == <<"primary", "empty", "short">>[i]
                  IN  MldsaCase(pk, msg, sig[msg], TRUE)]
      Rejected(key, s) == MldsaCase(key, "primary", s, FALSE)
      forged == <<Flipped(sig["primary"]), ConstSig, ConstSig,
                  Flipped(sig["primary"]), Flipped(sig["primary"])>>
      wrong == <<m.wrongKey, GarbageKey, GarbageKey>>
      empty == [sig["primary"] EXCEPT !.length = 0, !.bytes = "resized"]
  IN  [mldsa65_verify |->
         valid
           \o [i \in DOMAIN forged |-> Rejected(pk, forged[i])]
           \o [i \in DOMAIN wrong |-> Rejected(wrong[i], sig["primary"])]
           \o <<MldsaCase(pk, "altered", sig["primary"], FALSE),
                MldsaCase(pk, "empty", sig["primary"], FALSE),
                MldsaCase(ds.publicKey, "primary", ds.pure, TRUE),
                Rejected(ds.publicKey, ds.context), Rejected(ds.publicKey, ds.prehash)>>,
       mldsa65_malformed |->
         <<Rejected(pk, Resized(sig["primary"], -1)),
           Rejected(pk, Resized(sig["primary"], 1)), Rejected(pk, empty),
           Rejected(Resized(pk, -1), sig["primary"]),
           Rejected(Resized(pk, 1), sig["primary"])>>,
       mldsa65_acvp_kat |-> anchors]
=============================================================================
