------------------------------ MODULE MCNegative ----------------------------
(***************************************************************************)
(* Corpora of the core battery for MCVerdictField: the battery, some cases  *)
(* of a section at a time; headers, keys and signatures beside those it     *)
(* has, with the verdicts the reference stamps; and headers with odd white  *)
(* space, bases (text statuses, long names and texts among them) and RSA    *)
(* signatures of either expectation.                                        *)
(***************************************************************************)
EXTENDS NegativeCorpora

\* Of this curve, which has no other parameters to choose.
ASSUME CurveAssumption == KeysAsDefined

S == INSTANCE SequencesExt
F == INSTANCE FiniteSetsExt

\* Corpora of one section: the good case there and one more.
Variations(good, section, cases) ==
  {[k \in DOMAIN good |-> IF k = section THEN Append(good[k], c) ELSE <<>>] :
     c \in cases}

NegLower(name) ==
  CASE name = "@Method"  -> "@method"
    [] name = "X-Custom" -> "x-custom"
    [] name = "POST"     -> "post"
    [] name = "HOST"     -> "host"
    [] name = "HTTPS"    -> "https"
    [] OTHER             -> name

NegSextet == [A |-> 0, B |-> 1, Q |-> 16, s |-> 44]

SectionNames == {NegativeSections[k] : k \in DOMAIN NegativeSections}

\* Of a corpus so many signing bases, and so many cases of the other sections.  (With
\* SubSeq TLC has the cases in hand.)
First(corpus, bases, others) ==
  LET Some(section) ==
        LET n == IF section = "signing_base" THEN bases ELSE others
        IN  SubSeq(corpus[section], 1, F!Min({n, Len(corpus[section])}))
  IN  [signing_base |-> Some("signing_base"),
       signature_input_parse |-> Some("signature_input_parse"),
       signature_value_parse |-> Some("signature_value_parse"),
       keygate |-> Some("keygate"), ed25519_verify |-> Some("ed25519_verify"),
       ecdsa_verify |-> Some("ecdsa_verify"), rsa_verify |-> Some("rsa_verify")]

NegBaseInputs ==
  LET With(covered, mode, fields, overrun) ==
        [covered |-> covered, mode |-> mode[1], raw |-> mode[2], given |-> fields,
         headers |-> [n \in {"x-custom", "longname", "@query", "x-long"} |->
                        IF n = "x-long" THEN "long" ELSE "v"],
         overrun |-> overrun]
      plain == <<"algovoi-v0", Absent>>
      Field(name, v) == [n \in {name} |-> v]
      outcomes == {"whole", "cut", "crash"}
  IN  {With(<<"@Method", "X-Custom">>, mode, Field("@method", v), "whole") :
         mode \in {plain, <<"rfc9421", Absent>>, <<"rfc9421", "params">>,
                   <<"other", "params">>},
         v \in {"POST", Absent}}
        \cup {With(covered, plain, Field("@authority", "HOST"), "whole") :
                covered \in {<<"@query">>, <<"@authority">>, <<"longname">>}}
        \cup {With(<<"@status">>, plain, Field("@status", "text"), "whole")}
        \cup {With(covered, plain, Field("@path", "long"), overrun) :
                covered \in {<<"@path">>, <<"x-long">>, <<"@path", "@method">>,
                             <<"@method", "@path">>},
                overrun \in outcomes}
        \cup {With(<<"@path">>, <<"rfc9421", "long">>, Field("@path", "/x"), overrun) :
                overrun \in outcomes}

NegBaseCases ==
  LET Builders(i) == {p \in {PythonRunner, CRunner, JavaRunner, DotnetRunner} :
                        Buildable(p, i)}
      Bases(i) == {SigningBase(p, i) : p \in Builders(i)}
                    \cup {[lines |-> <<>>, params |-> "q"]}
  IN  UNION {{i @@ [base |-> b, ok |-> ok] : b \in Bases(i), ok \in BOOLEAN} :
               i \in NegBaseInputs}

\* A text with a character put in, or one left out.
Edited(text, chars) ==
  {text} \cup {S!InsertAt(text, k, ch) : k \in 1 .. Len(text) + 1, ch \in chars}
         \cup {S!RemoveAt(text, k) : k \in DOMAIN text}

InputTexts(blank) ==
  Edited(<<"s", "=", "(", "\"", "A", "\"", ")">>, {blank, "\""})
    \cup Edited(<<"(", "\"", "A", "\"", "\"", "\"", ")">>, {blank})

Quanta == {<<a, b, c, d>> : a \in {"A"}, b \in {"A", "Q", "="},
                            c \in {"A", "B", "="}, d \in {"Q", "="}}
            \cup {<<"=", "A", "=", "=">>, <<"=", "=", "=", "=">>, <<"A", "A", "A", "!">>}

ValueTexts(blank) ==
  Edited(Wrapped(<<"A", "Q", "=", "=">>), {blank, ":"})
    \cup {Wrapped(q) : q \in Quanta}

\* Texts with white space beside the blank, anywhere or at an end.
OddTexts(Texts(_), plain) ==
  {text \in Texts("TAB") \cup Texts("FF") \cup {<<"LF">> \o plain, Append(plain, "CR")} :
     \E k \in DOMAIN text : text[k] \in White \ {" "}}

Either(texts) == [header : texts, ok : BOOLEAN]

OddInputs == Either(OddTexts(InputTexts, <<"s", "=", "(", ")">>))
OddValues == Either(OddTexts(ValueTexts, Wrapped(<<"A", "Q", "=", "=">>)))

\* The cases that carry the verdict the reference stamps.
Right(section, cases) ==
  F!FoldSet(LAMBDA c, done : Append(done, c), <<>>,
            {c \in cases : NegativeCorrect(section, c)})

\* A good key, a weak one and one beyond the prime.
SomeKeys == {GoodKey, WeakKeys[5], [y |-> 30, sign |-> 0]}

KeyCases(keys) == [key : keys, rejected : BOOLEAN, smallOrder : BOOLEAN]

NegEd25519Cases ==
  LET keys == SomeKeys
      Sig(key, n) == [by |-> key, over |-> "base", r |-> MadeR, s |-> n, width |-> 64]
  IN  [base : {"base"}, expect : BOOLEAN, pk : [key : keys, width : {32}],
       sig : {Sig(key, n) : key \in keys, n \in {MadeS, MadeS + L}}
               \cup {Sig(GoodKey, n) : n \in {0, L - 1, L}}]

NegEcdsaCases ==
  LET ec == EcPublic("p256")
      publics == {ec, [ec EXCEPT !.form = "compressed", !.width = 33],
                  [ec EXCEPT !.width = 97], [ec EXCEPT !.onCurve = FALSE]}
      sigs == [by : {"A"}, over : {"msg"}, r : {MadeR}, s : 0 .. N, width : {64}]
  IN  [curve : {"p256"}, msg : {"msg"}, pub : {ec}, strict : BOOLEAN,
       sig : sigs, expect : BOOLEAN]
        \cup [curve : {"p256", "p384"}, msg : {"msg"}, pub : publics, strict : {FALSE},
              sig : {g \in sigs : g.s = EcMadeS}, expect : BOOLEAN]

NegRsaCases ==
  LET algs == {"rsa-pss-sha512", "rsa-v1_5-sha256"}
  IN  [alg : algs \cup {"rsa-v1_5-sha1"}, base : {"base"}, key : {"A"}, expect : BOOLEAN,
       sig : [by : {"A"}, over : {"base"}, alg : algs,
              form : {"as made", "flipped", "zero first"}]]

RightInputs == Right("signature_input_parse", [header : InputTexts(" "), ok : BOOLEAN])
RightValues == Right("signature_value_parse", [header : ValueTexts(" "), ok : BOOLEAN])
RightKeys ==
  LET points == Points
      small == SmallOrderKeys
  IN  F!FoldSet(LAMBDA c, done : Append(done, c), <<>>,
                {[key |-> key, smallOrder |-> key \in small,
                  rejected |-> key \notin points \/ key \in small] : key \in Encodings})
RightEd25519 == Right("ed25519_verify", NegEd25519Cases)
RightEcdsa == Right("ecdsa_verify", NegEcdsaCases)

\* A corpus of one section, and corpora of it with so many of the cases each.  (Here
\* and below sets of one element bind a value, for TLC to compute it once.)
Only(section, cases) ==
  [k \in SectionNames |-> IF k = section THEN cases ELSE <<>>]

InFiles(section, cases) ==
  LET some == 6
      Parts(all) == {SubSeq(all, some * i + 1, F!Min({some * (i + 1), Len(all)})) :
                       i \in 0 .. (Len(all) - 1) \div some}
  IN  UNION {{Only(section, part) : part \in Parts(all)} : all \in {cases}}

FilesOf(all, anchored, good) ==
  LET Lacking(gone) == [k \in SectionNames |-> IF k \in gone THEN Gone ELSE anchored[k]]
  IN  {Only("signing_base", all["signing_base"])}
        \cup UNION {InFiles(section, all[section]) : section \in SectionNames \ {"signing_base"}}
        \cup {Lacking({section}) : section \in SectionNames \ {"rsa_verify"}}
        \cup {Lacking(SectionNames), Lacking(SectionNames \ {"signing_base"})}
        \cup InFiles("signature_input_parse", RightInputs)
        \cup InFiles("signature_value_parse", RightValues)
        \cup InFiles("keygate", RightKeys)
        \cup InFiles("ed25519_verify", RightEd25519)
        \cup InFiles("ecdsa_verify", RightEcdsa)
        \cup Variations(anchored, "signing_base", NegBaseCases)
        \cup Variations(good, "signature_input_parse", OddInputs)
        \cup Variations(good, "signature_value_parse", OddValues)
        \cup Variations(good, "keygate", KeyCases(SomeKeys))
        \cup Variations(good, "ecdsa_verify",
                        {c \in NegEcdsaCases : c.sig.s \in {0, 4} /\ c.pub.onCurve})
        \cup Variations(good, "rsa_verify", NegRsaCases)

NegFiles ==
  UNION {FilesOf(all, First(all, 5, 0), First(all, 1, 1)) :
           all \in {First(NegativeV3, 100, 100)}}
=============================================================================
