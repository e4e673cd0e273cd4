--------------------------- MODULE NegativeCorpora --------------------------
(***************************************************************************)
(* The core battery as its generators write it: gen_negative_v1.py from the *)
(* reference vectors, v2 and v3 each from the file before it.  Every        *)
(* verdict is computed; that a case shows what its note says is not tested. *)
(* And check_kat.py, which holds some signing bases against hand-made ones. *)
(***************************************************************************)
EXTENDS NegativePorts, TLC

\* One value for each field of a message and for each header.
Example(name) ==
  CASE name = "@method"     -> "POST"
    [] name = "@authority"  -> "HOST"
    [] name = "@scheme"     -> "HTTPS"
    [] name = "@path"       -> "/x"
    [] name = "@target-uri" -> "https://h/x?q=1"
    [] name = "@status"     -> "200"
    [] name \in {"created", "expires"} -> "42"
    [] OTHER                -> "  Value  "

\* Stamped with what the reference builds.  What it cannot build carries a base
\* that nobody reads.
BaseCase(covered, given, mode) ==
  LET Examples(names) == [name \in names |-> Example(name)]
      c == [covered |-> covered, mode |-> mode,
            given |-> Examples(given \cap Derived),
            headers |-> Examples(given \ Derived),
            raw |-> IF mode = "rfc9421" THEN "params" ELSE Absent]
      unused == [lines |-> <<>>, params |-> "unused"]
      ok == Buildable(PythonRunner, c)
  IN  c @@ [ok |-> ok, base |-> IF ok THEN SigningBase(PythonRunner, c) ELSE unused]

\* Everything covered is given, in both modes.
InBothModes(covered) ==
  LET given == {covered[k] : k \in DOMAIN covered}
  IN  <<BaseCase(covered, given, "algovoi-v0"), BaseCase(covered, given, "rfc9421")>>

ReferenceBases ==
  InBothModes(<<"@method", "@authority", "@path">>)
    \o InBothModes(<<"@method", "@path", "content-digest", "created">>)
    \o InBothModes(<<"@scheme", "@target-uri", "@authority">>)
    \o InBothModes(<<"@status">>)
    \o InBothModes(<<"@method", "expires">>)
    \o InBothModes(<<"x-custom", "@method">>)

AddedBases ==
  InBothModes(<<"@authority">>) \o InBothModes(<<"x-ows">>) \o InBothModes(<<"@scheme">>)

UnbuildableBases ==
  [k \in 1 .. 4 |->
     BaseCase(<< <<"@method">>, <<"@query">>, <<"x-missing">>, <<"created">> >>[k],
              {}, "algovoi-v0")]

-----------------------------------------------------------------------------
(* Headers.                                                                 *)

HeaderCases(headers, Parses(_, _)) ==
  [k \in DOMAIN headers |->
     [header |-> headers[k], ok |-> Parses(PythonRunner, headers[k])]]

Components == <<"(", "\"", "@", "A", "\"", " ", "\"", "@", "B", "\"", ")">>

InputHeaders ==
  << <<"s", "=">> \o Components \o <<";", "1">>, Components \o <<";", "1">>,
     <<"s", "=", "(", "\"", "@", "A", "\"", ")", ";", "1">>,
     <<"s", " ", "s", " ", "s">>, <<"s", "=", "(", "\"", "@", "A", "\"">>, <<>>,
     <<"s", "=", ";", "1">>, <<"s", "=", "(", "\"", "@", "A", "\"", " ", "@", "B", ")">> >>

Wrapped(chars) == <<"s", "=", ":">> \o chars \o <<":">>

\* The generator tries the alphabet for a last character that is refused.
NonCanonicalHeader ==
  LET candidates == {Wrapped(<<"A", "A", ch, "=">>) : ch \in DOMAIN Sextet}
  IN  CHOOSE header \in candidates : ~ValueParses(PythonRunner, header)

ValueHeaders ==
  <<Wrapped(<<"A", "Q", "=", "=">>), NonCanonicalHeader,
    <<"s", "=", "A", "Q", "=", "=">>, Wrapped(<<"A", "Q", "!", "!">>), <<>>,
    Wrapped(<<>>)>>

-----------------------------------------------------------------------------
(* Keys and signatures.                                                     *)

GoodKeys == Points \ SmallOrderKeys

GoodKey == CHOOSE key \in GoodKeys : TRUE

WrongKey == CHOOSE key \in GoodKeys : key # GoodKey

\* Orders 4, 1, 4, 2 and 8; all of them canonical.
WeakKeys ==
  <<[y |-> 0, sign |-> 0], [y |-> 1, sign |-> 0], [y |-> 0, sign |-> 1],
    [y |-> P - 1, sign |-> 0],
    CHOOSE key \in SmallOrderKeys : key.y \notin {0, 1, P - 1}>>

KeyCase(key) ==
  [key |-> key, rejected |-> Rejected(PythonRunner, key),
   smallOrder |-> IsSmallOrder(PythonRunner, key)]

EdSignature == [by |-> GoodKey, over |-> "base", r |-> MadeR, s |-> MadeS, width |-> 64]

EdCase(base, sig, key) ==
  LET c == [base |-> base, sig |-> sig, pk |-> [key |-> key, width |-> 32]]
  IN  c @@ [expect |-> Ed25519Valid(PythonRunner, c)]

EdCases ==
  LET sig == EdSignature
      malleable == <<[sig EXCEPT !.width = 63], [sig EXCEPT !.width = 65],
                     [sig EXCEPT !.r = 0, !.s = 0], [sig EXCEPT !.r = MadeR + 1],
                     [sig EXCEPT !.s = MadeS + 1], [sig EXCEPT !.s = MadeS + L]>>
  IN  <<EdCase("base", sig, GoodKey), EdCase("tampered", sig, GoodKey),
        EdCase("base", sig, WrongKey)>>
        \o [k \in DOMAIN malleable |-> EdCase("base", malleable[k], GoodKey)]

EdZeroCase == EdCase("base", [EdSignature EXCEPT !.s = 0], GoodKey)

EcPublic(curve) ==
  [of |-> "A", form |-> "uncompressed", width |-> 1 + 2 * FieldSize[curve], onCurve |-> TRUE]

EcSignature(curve) ==
  [by |-> "A", over |-> "msg", r |-> MadeR, s |-> EcMadeS, width |-> 2 * FieldSize[curve]]

EcCase(curve, pub, sig, strict) ==
  LET c == [curve |-> curve, msg |-> "msg", pub |-> pub, sig |-> sig, strict |-> strict]
  IN  c @@ [expect |-> EcdsaValid(c)]

EcPair(curve) ==
  LET sig == EcSignature(curve)
  IN  <<EcCase(curve, EcPublic(curve), sig, FALSE),
        EcCase(curve, EcPublic(curve), [sig EXCEPT !.r = MadeR + 1], FALSE)>>

EcNegatives(curve) ==
  LET pub == EcPublic(curve)
      sig == EcSignature(curve)
      high == [sig EXCEPT !.s = IF 2 * EcMadeS < N THEN N - EcMadeS ELSE EcMadeS]
  IN  <<EcCase(curve, [pub EXCEPT !.onCurve = FALSE], sig, FALSE),
        EcCase(curve, pub, [sig EXCEPT !.r = 0], FALSE),
        EcCase(curve, pub, [sig EXCEPT !.width = 2 * FieldSize[curve] - 1], FALSE),
        EcCase(curve, pub, high, TRUE), EcCase(curve, pub, high, FALSE)>>

EcBounds(curve) ==
  LET sig == EcSignature(curve)
      beyond == <<[sig EXCEPT !.s = 0], [sig EXCEPT !.r = N], [sig EXCEPT !.s = N]>>
  IN  [k \in 1 .. 3 |-> EcCase(curve, EcPublic(curve), beyond[k], FALSE)]

RsaCase(alg, base, sig, key) ==
  LET c == [alg |-> alg, base |-> base, sig |-> sig, key |-> key]
  IN  c @@ [expect |-> RsaValid(PythonRunner, c)]

RsaSignature(alg) == [by |-> "A", over |-> "base", alg |-> alg, form |-> "as made"]

RsaCases ==
  LET pss == "rsa-pss-sha512"
      Three(alg) ==
        <<RsaCase(alg, "base", RsaSignature(alg), "A"),
          RsaCase(alg, "base", [RsaSignature(alg) EXCEPT !.form = "flipped"], "A"),
          RsaCase(alg, "base", RsaSignature(alg), "B")>>
  IN  Three(pss) \o <<RsaCase(pss, "tampered", RsaSignature(pss), "A")>>
        \o Three("rsa-v1_5-sha256")

-----------------------------------------------------------------------------
(* The corpora.  A missing rsa_verify is empty to every runner.             *)

NegativeV1 ==
  [signing_base |-> ReferenceBases \o AddedBases,
   signature_input_parse |-> HeaderCases(InputHeaders, InputParses),
   signature_value_parse |-> HeaderCases(ValueHeaders, ValueParses),
   keygate |-> <<KeyCase(GoodKey), KeyCase(WrongKey)>>
                 \o [k \in DOMAIN WeakKeys |-> KeyCase(WeakKeys[k])],
   ed25519_verify |-> EdCases,
   ecdsa_verify |-> EcPair("p256") \o EcPair("p384")
                      \o EcNegatives("p256") \o EcNegatives("p384"),
   rsa_verify |-> <<>>]

NegativeV2 ==
  [NegativeV1 EXCEPT
     !.signing_base = @ \o UnbuildableBases,
     !.ed25519_verify = Append(@, EdZeroCase),
     !.ecdsa_verify = @ \o EcBounds("p256") \o EcBounds("p384")]

NegativeV3 == [NegativeV2 EXCEPT !.rsa_verify = RsaCases]

-----------------------------------------------------------------------------
(* kat_anchors_v1.json: bases made by hand, by position in the corpus; and  *)
(* check_kat.py.  (It also refuses a corpus too short for its anchors.)      *)

HandMade ==
  (1 :> [lines |-> << <<"@method", "post">>, <<"@authority", "host">>, <<"@path", "/x">> >>,
         params |-> Absent])
  @@ (2 :> [lines |-> << <<"@method", "POST">>, <<"@authority", "host">>, <<"@path", "/x">> >>,
            params |-> "params"])
  @@ (3 :> [lines |-> << <<"@method", "post">>, <<"@path", "/x">>,
                         <<"content-digest", "  Value  ">>, <<"created", "42">> >>,
            params |-> Absent])
  @@ (5 :> [lines |-> << <<"@scheme", "https">>, <<"@target-uri", "https://h/x?q=1">>,
                         <<"@authority", "host">> >>,
            params |-> Absent])

NegativeKatRederives(corpus) ==
  /\ corpus["signing_base"] # Gone
  /\ \A k \in DOMAIN HandMade \cap DOMAIN corpus["signing_base"] :
       corpus["signing_base"][k].base = HandMade[k]
=============================================================================
