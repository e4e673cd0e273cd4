---------------------------- MODULE NegativePorts ---------------------------
(***************************************************************************)
(* The twelve runners of the core battery (rfc9421_negative): signing       *)
(* bases, the two header parsers, the gate for Ed25519 keys, and the three  *)
(* verifiers.  Four runners call the published package of their language,   *)
(* which is taken by its definition; eight write the rules again, the C one *)
(* down to base64.                                                          *)
(*                                                                         *)
(* Headers are sequences of characters; of white space there are the blank, *)
(* tab, line feed, carriage return and form feed.  Headers of a message are *)
(* in lower case, at most one name of 128 bytes and more among them; created *)
(* and expires are integers.  Keys are encodings on a curve of               *)
(* 24 = 8 * 3 points, of Ed25519's shape: the prime is 5 modulo 8, D is no  *)
(* square, and the points of small order are a cyclic group of eight.       *)
(***************************************************************************)
EXTENDS Integers, Sequences

CONSTANTS
  Absent,     \* no such field
  Gone,       \* no such section
  Lower(_),   \* lower case, of names and of values
  Sextet,     \* the base64 characters considered, with their values
  Letters     \* the letters a label may start with

ASSUME SextetAssumption ==
  Sextet \in [DOMAIN Sextet -> 0 .. 63] /\ "=" \notin DOMAIN Sextet

NegativeSections ==
  <<"signing_base", "signature_input_parse", "signature_value_parse", "keygate",
    "ed25519_verify", "ecdsa_verify", "rsa_verify">>

-----------------------------------------------------------------------------
(* Signing bases.  A case gives the fields of the message and its           *)
(* parameters by name in "given", its headers, which have no order, by      *)
(* lower-case name in "headers".  A port p has its own idea of a status that *)
(* is a string of digits ("text"), and of a name of 128 bytes and more       *)
(* ("longname").                                                             *)
(*                                                                         *)
(* The C port writes "long" texts, which are values of 2047 bytes and more   *)
(* and parameters that make a base of 8192 bytes and more, past the end of   *)
(* its buffers, or leaves a buffer without its final zero.  What then        *)
(* happens is the build's choice, which such a case names in "overrun": the  *)
(* text comes out "whole", comes out different ("cut"), or the runner ends   *)
(* ("crash").                                                                *)

Modes == {"algovoi-v0", "rfc9421"}

Derived ==
  {"@method", "@authority", "@path", "@target-uri", "@scheme", "@status",
   "created", "expires"}

\* Other names with an @ are refused, whatever headers there are.
OtherDerived == {"@query", "@query-param", "@request-target"}

Has(f, name) == name \in DOMAIN f /\ f[name] # Absent

Given(p, c, name) ==
  IF name = "@status" /\ c.given[name] = "text" THEN p.status ELSE c.given[name]

\* The port finds a value for the k-th covered component.
Found(p, c, k) ==
  LET name == Lower(c.covered[k]) IN
    \/ name \in Derived /\ Has(c.given, name) /\ Given(p, c, name) # Absent
    \/ name \notin Derived \cup OtherDerived /\ Has(c.headers, name)

Startable(c) == c.mode \in Modes /\ (c.mode = "rfc9421" => c.raw # Absent)

Buildable(p, c) == Startable(c) /\ \A k \in DOMAIN c.covered : Found(p, c, k)

\* A text that may outgrow its buffer.
Held(p, c, text) ==
  IF p.buffers /\ text = "long" /\ c.overrun = "cut" THEN "cut" ELSE text

Lowered(c, name) ==
  \/ name \in {"@authority", "@scheme"}
  \/ name = "@method" /\ c.mode = "algovoi-v0"

RawOf(p, c, name) ==
  IF name \in Derived THEN Given(p, c, name) ELSE c.headers[name]

ValueOf(p, c, name) ==
  LET text == RawOf(p, c, name)
  IN  IF text # "long" /\ Lowered(c, name) THEN Lower(text) ELSE Held(p, c, text)

NameOf(p, name) == IF name = "longname" THEN p.longname ELSE name

SigningBase(p, c) ==
  [lines |-> [k \in DOMAIN c.covered |->
                LET name == Lower(c.covered[k])
                IN  <<NameOf(p, name), ValueOf(p, c, name)>>],
   params |-> IF c.mode = "rfc9421" THEN Held(p, c, c.raw) ELSE Absent]

\* A value before the first component that is not found, or the parameters at
\* the end, outgrow their buffer.
Overruns(p, c) ==
  /\ p.buffers /\ Startable(c)
  /\ \/ \E k \in DOMAIN c.covered :
          /\ Found(p, c, k) /\ \A j \in 1 .. k - 1 : Found(p, c, j)
          /\ RawOf(p, c, Lower(c.covered[k])) = "long"
     \/ Buildable(p, c) /\ c.mode = "rfc9421" /\ c.raw = "long"

BaseMatches(p, c) ==
  IF Buildable(p, c) THEN c.ok /\ c.base = SigningBase(p, c) ELSE ~c.ok

-----------------------------------------------------------------------------
(* The header parsers.  A port strips a text of what its "trim" holds, and   *)
(* between tokens passes over its "blank".                                   *)

White == {" ", "TAB", "LF", "CR", "FF"}

\* trim of PHP and of the C port.
OldWhite == White \ {"FF"}

LabelChars == Letters \cup {"1", "_", "-"}

Least(places) == CHOOSE j \in places : \A k \in places : j <= k

Greatest(places) == CHOOSE j \in places : \A k \in places : j >= k

\* The first position from i on whose character is not in the set.
Past(set, s, i) ==
  LET outside == {j \in i .. Len(s) : s[j] \notin set}
  IN  IF outside = {} THEN Len(s) + 1 ELSE Least(outside)

Trim(space, s) ==
  LET kept == {j \in DOMAIN s : s[j] \notin space}
  IN  IF kept = {} THEN <<>> ELSE SubSeq(s, Least(kept), Greatest(kept))

\* Where the sign after a label at the start would be.
EqualsAt(blank, s) == Past(blank, s, Past(LabelChars, s, Past(blank, s, 1)))

Labelled(blank, s) ==
  LET first == Past(blank, s, 1)
      equals == EqualsAt(blank, s)
  IN  /\ first <= Len(s) /\ s[first] \in Letters
      /\ equals <= Len(s) /\ s[equals] = "="

\* Where the value starts, after the label if there is one.
ValueStart(blank, s) ==
  IF Labelled(blank, s) THEN Past(blank, s, EqualsAt(blank, s) + 1) ELSE 1

\* From position i inside the parentheses, quoted names up to the closing one; the
\* token after position i starts at next[i].
Closing(next, s) ==
  LET closes[i \in 1 .. Len(s) + 1] ==
        LET at == next[i]
            quote == Past({s[k] : k \in DOMAIN s} \ {"\""}, s, at + 1)
        IN  /\ at <= Len(s)
            /\ \/ s[at] = ")"
               \/ s[at] = "\"" /\ quote <= Len(s) /\ closes[quote + 1]
  IN  closes

ListCloses(blank, s) ==
  Closing([i \in 1 .. Len(s) + 1 |-> Past(blank, s, i)], s)

InputParses(p, header) ==
  \E s \in {Trim(p.trim, header)} : \E start \in {ValueStart(p.blank, s)} :
    start <= Len(s) /\ s[start] = "(" /\ ListCloses(p.blank, s)[start + 1]

\* Canonical base64: what an encoder writes.
Canonical(s) ==
  /\ Len(s) % 4 = 0
  /\ \E pads \in {n \in 0 .. 2 : n <= Len(s)} :
       LET data == Len(s) - pads IN
         /\ \A k \in 1 .. data : s[k] \in DOMAIN Sextet
         /\ \A k \in data + 1 .. Len(s) : s[k] = "="
         /\ pads = 1 => Sextet[s[data]] % 4 = 0
         /\ pads = 2 => Sextet[s[data]] % 16 = 0

\* The C port's own decoder and encoder, on four characters: padding stands for
\* zero wherever it is, and what it stands for is written again at the end.
PAD == 64

Code(ch) == IF ch = "=" THEN PAD ELSE Sextet[ch]

Recoded(v) ==
  LET w == [k \in 1 .. 4 |-> IF v[k] = PAD THEN 0 ELSE v[k]]
      pad == {k \in 1 .. 4 : v[k] = PAD}
      one == \E k \in pad : TRUE
      two == \E j, k \in pad : j # k
      b1 == w[1] * 4 + w[2] \div 16
      b2 == IF two THEN 0 ELSE (w[2] % 16) * 16 + w[3] \div 4
      b3 == IF one THEN 0 ELSE (w[3] % 4) * 64 + w[4]
  IN  <<b1 \div 4, (b1 % 4) * 16 + b2 \div 16,
        IF two THEN PAD ELSE (b2 % 16) * 4 + b3 \div 64,
        IF one THEN PAD ELSE b3 % 64>>

RoundTrips(s) ==
  /\ Len(s) % 4 = 0
  /\ \A k \in DOMAIN s : s[k] \in DOMAIN Sextet \/ (s[k] = "=" /\ k > Len(s) - 4)
  /\ \A q \in 0 .. Len(s) \div 4 - 1 :
       \E v \in {<<Code(s[4 * q + 1]), Code(s[4 * q + 2]), Code(s[4 * q + 3]),
                  Code(s[4 * q + 4])>>} : Recoded(v) = v

\* (The texts are bound, so that each is made once.)
ValueParses(p, header) ==
  \E s \in {Trim(p.trim, header)} :
    \E rest \in {Trim(p.trim, SubSeq(s, ValueStart(p.blank, s), Len(s)))} :
      /\ Len(rest) >= 2
      /\ rest[1] = ":" /\ rest[Len(rest)] = ":"
      /\ \E inner \in {SubSeq(rest, 2, Len(rest) - 1)} :
           IF p.base64 = "own" THEN RoundTrips(inner) ELSE Canonical(inner)

-----------------------------------------------------------------------------
(* The gate for Ed25519 keys.  An encoding is a y of as many bits as the    *)
(* prime has, and a sign.                                                   *)

P == 29
D == 3
SQRT_M1 == 12      \* 2 to the (P - 1) / 4

Encodings == [y : 0 .. 31, sign : {0, 1}]

Power(x, n) ==
  LET power[k \in 0 .. n] == IF k = 0 THEN 1 ELSE (power[k - 1] * x) % P
  IN  power[n]

InverseOf(x) == Power(x % P, P - 2)

\* The definition: the point with that y and that sign, if it is written the one
\* way it can be; and eight times the point by the group law.
XsOf(key) ==
  {x \in 0 .. P - 1 :
     /\ key.y < P
     /\ x % 2 = key.sign
     /\ (key.y * key.y - x * x - 1 - D * x * x * key.y * key.y) % P = 0}

PointSum(p, q) ==
  LET t == (D * p[1] * q[1] * p[2] * q[2]) % P
  IN  <<((p[1] * q[2] + q[1] * p[2]) * InverseOf(1 + t)) % P,
        ((p[2] * q[2] + p[1] * q[1]) * InverseOf(1 - t)) % P>>

Double(p) == PointSum(p, p)

Written == UNION {{<<key, <<x, key.y>> >> : x \in XsOf(key)} : key \in Encodings}

Points == {w[1] : w \in Written}

SmallOrderKeys ==
  {w[1] : w \in {v \in Written : Double(Double(Double(v[2]))) = <<0, 1>>}}

\* As ported: the root by two exponentiations, and extended coordinates.
NoPoint == <<>>

RecoverX(key) ==
  LET y2 == (key.y * key.y) % P
      x2 == ((y2 - 1) * InverseOf(D * y2 + 1)) % P
      root == Power(x2, (P + 3) \div 8)
      x == IF (root * root) % P = x2 THEN root ELSE (root * SQRT_M1) % P
  IN  CASE key.y >= P                    -> -1
        [] key.y < P /\ x2 = 0           -> IF key.sign = 1 THEN -1 ELSE 0
        [] OTHER                         ->
             IF (x * x) % P # x2 THEN -1
             ELSE IF x % 2 # key.sign THEN P - x ELSE x

DecodePoint(key) ==
  LET x == RecoverX(key)
  IN  IF x = -1 THEN NoPoint ELSE <<x, key.y, 1, (x * key.y) % P>>

Add(p, q) ==
  LET a == ((p[2] - p[1]) * (q[2] - q[1])) % P
      b == ((p[2] + p[1]) * (q[2] + q[1])) % P
      c == (2 * p[4] * q[4] * D) % P
      d == (2 * p[3] * q[3]) % P
      e == b - a
      f == d - c
      g == d + c
      h == b + a
  IN  <<(e * f) % P, (g * h) % P, (f * g) % P, (e * h) % P>>

Mul8(p) ==
  LET p2 == Add(p, p)
      p4 == Add(p2, p2)
  IN  Add(p4, p4)

IsIdentity(p) == p[1] % P = 0 /\ (p[2] - p[3]) % P = 0

Decoded ==
  {d \in {<<key, DecodePoint(key)>> : key \in Encodings} : d[2] # NoPoint}

PointsAsPorted == {d[1] : d \in Decoded}

SmallOrderAsPorted == {d[1] : d \in {e \in Decoded : IsIdentity(Mul8(e[2]))}}

\* The ported arithmetic finds the points, and those of small order, that the
\* definition has.
KeysAsDefined == PointsAsPorted = Points /\ SmallOrderAsPorted = SmallOrderKeys

IsSmallOrder(p, key) ==
  key \in IF p.gate = "ported" THEN SmallOrderAsPorted ELSE SmallOrderKeys

Rejected(p, key) ==
  \/ key \notin IF p.gate = "ported" THEN PointsAsPorted ELSE Points
  \/ IsSmallOrder(p, key)

-----------------------------------------------------------------------------
(* The verifiers.  A signature is the key and message it was made for, its  *)
(* two numbers, of which it was made with the ones below, and its width.    *)

L == 3          \* the order that Ed25519 signatures are taken modulo
N == 7          \* the order of the ECDSA curves
MadeR == 2
MadeS == 1
EcMadeS == 3

Ed25519Valid(p, c) ==
  /\ c.sig.width = 64 /\ c.pk.width = 32
  /\ ~Rejected(p, c.pk.key)
  /\ c.sig.s < L
  /\ c.sig.by = c.pk.key /\ c.sig.over = c.base
  /\ c.sig.r = MadeR /\ c.sig.s % L = MadeS

FieldSize == [p256 |-> 32, p384 |-> 48]

EcdsaValid(c) ==
  LET size == FieldSize[c.curve] IN
    /\ c.sig.width = 2 * size
    /\ c.sig.r \in 1 .. N - 1 /\ c.sig.s \in 1 .. N - 1
    /\ c.strict => c.sig.s <= N \div 2
    /\ c.pub.form = "uncompressed" /\ c.pub.width = 1 + 2 * size /\ c.pub.onCurve
    /\ c.sig.by = c.pub.of /\ c.sig.over = c.msg
    /\ c.sig.r = MadeR /\ c.sig.s \in {EcMadeS, N - EcMadeS}

\* PHP, whose library has no PSS, reads the signature as an integer.
RsaFormOk(p, c) ==
  \/ c.sig.form = "as made"
  \/ c.sig.form = "zero first" /\ p.pss = "integer" /\ c.alg = "rsa-pss-sha512"

RsaValid(p, c) ==
  /\ c.alg \in {"rsa-pss-sha512", "rsa-v1_5-sha256"}
  /\ c.sig.by = c.key /\ c.sig.over = c.base /\ c.sig.alg = c.alg
  /\ RsaFormOk(p, c)

-----------------------------------------------------------------------------
(* The runners.                                                             *)

Common ==
  [status |-> "text", longname |-> "longname", buffers |-> FALSE, trim |-> White,
   blank |-> White, base64 |-> "library", gate |-> "ported", badMode |-> "refuse",
   pss |-> "library", missing |-> "raise", unread |-> "fail"]

PythonRunner == [Common EXCEPT !.gate = "published"]

GoRunner == [PythonRunner EXCEPT !.missing = "empty", !.unread = "empty"]

\* as_i64
RustRunner ==
  [PythonRunner EXCEPT !.status = Absent, !.badMode = "raise", !.unread = "empty"]

\* json_is_integer; char c[128], char val[2048], malloc(8192).
CRunner ==
  [Common EXCEPT !.status = Absent, !.longname = "cutname", !.buffers = TRUE,
                 !.trim = OldWhite, !.blank = {" "}, !.base64 = "own",
                 !.missing = "empty"]

\* Jackson's bigIntegerValue of a text is zero.
JavaRunner == [Common EXCEPT !.status = "0"]

\* GetRawText keeps the quotes.
DotnetRunner == [Common EXCEPT !.status = "quoted"]

PhpRunner ==
  [Common EXCEPT !.trim = OldWhite, !.pss = "integer", !.missing = "empty",
                 !.unread = "empty"]

\* Typescript is as Python; Kotlin and Scala are as Java; Ruby and Elixir are Common.
NegativeRunners ==
  <<PythonRunner, PythonRunner, GoRunner, RustRunner, CRunner, JavaRunner, JavaRunner,
    JavaRunner, DotnetRunner, Common, PhpRunner, Common>>

NegativeMatches(p, section, c) ==
  CASE section = "signing_base"          -> BaseMatches(p, c)
    [] section = "signature_input_parse" -> InputParses(p, c.header) = c.ok
    [] section = "signature_value_parse" -> ValueParses(p, c.header) = c.ok
    [] section = "keygate" ->
         Rejected(p, c.key) = c.rejected /\ IsSmallOrder(p, c.key) = c.smallOrder
    [] section = "ed25519_verify"        -> Ed25519Valid(p, c) = c.expect
    [] section = "ecdsa_verify"          -> EcdsaValid(c) = c.expect
    [] section = "rsa_verify"            -> RsaValid(p, c) = c.expect

NegativeRaises(p, section, c) ==
  /\ section = "signing_base"
  /\ \/ c.mode \notin Modes /\ p.badMode = "raise"
     \/ Overruns(p, c) /\ c.overrun = "crash"

NegativeJudge(p, section, c) ==
  CASE NegativeRaises(p, section, c) -> "raise"
    [] OTHER -> IF NegativeMatches(p, section, c) THEN "match" ELSE "mismatch"

NegativeCorrect(section, c) == NegativeMatches(PythonRunner, section, c)

\* The kinds of cases that gen_negative_v1.py, v2 and v3 write: a status is a
\* number, names and texts fit C's buffers, and white space is the blank.
NegativeEmitted(section, c) ==
  CASE section = "signing_base" ->
         /\ c.mode \in Modes /\ c.raw # "long"
         /\ \A k \in DOMAIN c.covered :
              LET name == Lower(c.covered[k]) IN
                /\ name # "longname"
                /\ Has(c.given, name) => c.given[name] # "long"
                /\ Has(c.headers, name) => c.headers[name] # "long"
                /\ name = "@status" /\ Has(c.given, name) => c.given[name] # "text"
    [] section \in {"signature_input_parse", "signature_value_parse"} ->
         \A k \in DOMAIN c.header : c.header[k] \notin White \ {" "}
    [] section = "rsa_verify" -> c.sig.form # "zero first"
    [] OTHER -> TRUE
=============================================================================
