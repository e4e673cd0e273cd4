--------------------------- MODULE NegativeProofs ---------------------------
(***************************************************************************)
(* The twelve runners of the core battery decide every case of the kinds    *)
(* that its generators write as the reference does: whatever blanks they    *)
(* pass over, with the C port's own base64, and with the ported arithmetic  *)
(* of Ed25519 as long as it finds the points that the definition does.      *)
(***************************************************************************)
EXTENDS NegativeCorpora, TLAPS, SequenceTheorems, WellFoundedInduction

-----------------------------------------------------------------------------
(* First and last places, and the texts that the parsers read.              *)

\* Of hits there is a first one.
LEMMA LeastHit ==
  ASSUME NEW S \in SUBSET Nat, S # {}
  PROVE  \E i \in S : \A j \in S : i <= j
<1> DEFINE R == {ss \in Nat \X Nat : ss[1] < ss[2]}
<1>1. OpToRel(<, Nat) = R
  BY DEF OpToRel
<1>2. IsWellFoundedOn(R, Nat)
  BY <1>1, NatLessThanWellFounded
<1> HIDE DEF R
<1>3. PICK i \in S : \A j \in S : ~ (<<j, i>> \in R)
  BY <1>2, WFMin
<1>4. ASSUME NEW j \in S PROVE i <= j
  <2>1. i \in Nat /\ j \in Nat
    OBVIOUS
  <2>2. j < i => <<j, i>> \in R
    BY <2>1 DEF R
  <2> QED BY <1>3, <2>1, <2>2
<1> QED BY <1>4

\* The first hit is one.
LEMMA FirstHit ==
  ASSUME NEW S \in SUBSET Nat, S # {}
  PROVE  (CHOOSE i \in S : \A j \in S : i <= j) \in S
BY LeastHit

\* And so is the last one.
LEMMA LastHit ==
  ASSUME NEW n \in Nat, NEW S \in SUBSET (1 .. n), S # {}
  PROVE  (CHOOSE i \in S : \A j \in S : i >= j) \in S
<1> DEFINE Back == {m \in Nat : \E j \in S : m = n - j}
<1>1. \A j \in S : j \in 1 .. n /\ n - j \in Back
  OBVIOUS
<1>2. Back \in SUBSET Nat /\ Back # {}
  BY <1>1
<1>4. PICK i \in Back : \A j \in Back : i <= j
  BY <1>2, LeastHit
<1>5. PICK k \in S : i = n - k
  OBVIOUS
<1>6. \A j \in S : k >= j
  <2> TAKE j \in S
  <2>1. i <= n - j
    BY <1>1, <1>4
  <2> QED BY <1>1, <1>5, <2>1
<1> QED BY <1>6

\* The characters of a text.
Text(s) == s \in Seq(STRING)

\* A text whose white space is the one that every port passes over and trims.
NoOddSpace(s) == \A k \in DOMAIN s : s[k] \notin White \ {" "}

LEMMA PastIsAPlace ==
  ASSUME NEW set, NEW s, Text(s), NEW i \in 1 .. Len(s) + 1
  PROVE  Past(set, s, i) \in i .. Len(s) + 1
<1> DEFINE outside == {j \in i .. Len(s) : s[j] \notin set}
           first == Least(outside)
<1>1. Len(s) \in Nat
  BY DEF Text
<1>2. outside \in SUBSET Nat
  BY <1>1
<1>3. outside # {} => first \in outside
  BY <1>2, FirstHit DEF Least
<1>4. Past(set, s, i) = IF outside = {} THEN Len(s) + 1 ELSE first
  BY DEF Past
<1> HIDE DEF first
<1>5. outside # {} => first \in i .. Len(s)
  BY <1>3
<1> HIDE DEF outside
<1> QED BY <1>1, <1>4, <1>5

\* What the ports pass over or trim: at least the blank.
Blanks == {blank \in SUBSET White : " " \in blank}

LEMMA SamePast ==
  ASSUME NEW s, Text(s), NoOddSpace(s), NEW i \in 1 .. Len(s) + 1, NEW blank \in Blanks
  PROVE  Past(blank, s, i) = Past(White, s, i)
<1>1. DOMAIN s = 1 .. Len(s) /\ Len(s) \in Nat
  BY DEF Text
<1> DEFINE plain == {j \in i .. Len(s) : s[j] \notin blank}
           spaced == {j \in i .. Len(s) : s[j] \notin White}
<1>2. plain = spaced
  <2>1. ASSUME NEW j \in i .. Len(s) PROVE s[j] \notin blank <=> s[j] \notin White
    <3>1. j \in DOMAIN s
      BY <1>1
    <3> QED BY <3>1 DEF NoOddSpace, Blanks, White
  <2> QED BY <2>1
<1>3. /\ Past(blank, s, i) =
           IF plain = {} THEN Len(s) + 1 ELSE Least(plain)
      /\ Past(White, s, i) =
           IF spaced = {} THEN Len(s) + 1 ELSE Least(spaced)
  BY DEF Past
<1> HIDE DEF plain, spaced
<1> QED BY <1>2, <1>3

LEMMA SameTrim ==
  ASSUME NEW s, NoOddSpace(s), NEW space \in Blanks
  PROVE  Trim(space, s) = Trim(White, s)
<1> DEFINE kept == {j \in DOMAIN s : s[j] \notin space}
           plain == {j \in DOMAIN s : s[j] \notin White}
<1>1. kept = plain
  BY DEF NoOddSpace, Blanks, White
<1>2. /\ Trim(space, s) =
           IF kept = {} THEN <<>> ELSE SubSeq(s, Least(kept), Greatest(kept))
      /\ Trim(White, s) =
           IF plain = {} THEN <<>> ELSE SubSeq(s, Least(plain), Greatest(plain))
  BY DEF Trim
<1> HIDE DEF kept, plain
<1> QED BY <1>1, <1>2

LEMMA TrimIsAText ==
  ASSUME NEW s, Text(s)
  PROVE  /\ Text(Trim(White, s))
         /\ NoOddSpace(s) => NoOddSpace(Trim(White, s))
<1> DEFINE kept == {j \in DOMAIN s : s[j] \notin White}
           first == Least(kept)
           last == Greatest(kept)
<1>1. DOMAIN s = 1 .. Len(s) /\ Len(s) \in Nat
  BY DEF Text
<1>2. Trim(White, s) = IF kept = {} THEN <<>> ELSE SubSeq(s, first, last)
  BY DEF Trim
<1>3. CASE kept = {}
  BY <1>2, <1>3 DEF Text, NoOddSpace
<1>4. CASE kept # {}
  <2>1. first \in kept
    <3>1. kept \in SUBSET Nat
      BY <1>1
    <3> QED BY <1>4, <3>1, FirstHit DEF Least
  <2>2. last \in kept
    <3>1. kept \in SUBSET (1 .. Len(s))
      BY <1>1
    <3> QED BY <1>1, <1>4, <3>1, LastHit DEF Greatest
  <2> HIDE DEF first, last
  <2>3. first \in 1 .. Len(s) /\ last \in 1 .. Len(s)
    BY <1>1, <2>1, <2>2
  <2>4. /\ SubSeq(s, first, last) \in Seq(STRING)
        /\ \A k \in DOMAIN SubSeq(s, first, last) :
             SubSeq(s, first, last)[k] = s[first + k - 1] /\ first + k - 1 \in DOMAIN s
    BY <1>1, <2>3 DEF Text
  <2> QED BY <1>2, <1>4, <2>4 DEF Text, NoOddSpace
<1> QED BY <1>3, <1>4

\* A label ends where it does, and its value starts where it does, for every port.
LEMMA SameValueStart ==
  ASSUME NEW s, Text(s), NoOddSpace(s), NEW blank \in Blanks
  PROVE  /\ ValueStart(blank, s) = ValueStart(White, s)
         /\ ValueStart(blank, s) \in 1 .. Len(s) + 1
<1> DEFINE first == Past(blank, s, 1)
           label == Past(LabelChars, s, first)
           equals == Past(blank, s, label)
           value == Past(blank, s, equals + 1)
<1>1. Len(s) \in Nat /\ 1 \in 1 .. Len(s) + 1
  BY DEF Text
<1>2. first \in 1 .. Len(s) + 1 /\ first = Past(White, s, 1)
  BY <1>1, PastIsAPlace, SamePast
<1> HIDE DEF first
<1>3. label \in 1 .. Len(s) + 1
  <2>1. label \in first .. Len(s) + 1
    BY <1>2, PastIsAPlace
  <2> QED BY <1>1, <1>2, <2>1
<1> HIDE DEF label
<1>4. equals \in 1 .. Len(s) + 1 /\ equals = Past(White, s, label)
  <2>1. equals \in label .. Len(s) + 1
    BY <1>3, PastIsAPlace
  <2> QED BY <1>1, <1>3, <2>1, SamePast
<1> HIDE DEF equals
<1>7. EqualsAt(blank, s) = equals /\ EqualsAt(White, s) = equals
  BY <1>2, <1>4 DEF EqualsAt, first, label, equals
<1>8. Labelled(blank, s) <=> Labelled(White, s)
  BY <1>2, <1>7 DEF Labelled, first
<1>5. CASE Labelled(blank, s)
  <2>1. equals <= Len(s)
    BY <1>5, <1>7 DEF Labelled
  <2>2. equals + 1 \in 1 .. Len(s) + 1
    BY <1>1, <1>4, <2>1
  <2>3. value \in 1 .. Len(s) + 1 /\ value = Past(White, s, equals + 1)
    <3>1. value \in equals + 1 .. Len(s) + 1
      BY <2>2, PastIsAPlace
    <3> QED BY <1>1, <2>2, <3>1, SamePast
  <2>4. ValueStart(blank, s) = value
    BY <1>5, <1>7 DEF ValueStart
  <2>5. ValueStart(White, s) = Past(White, s, equals + 1)
    BY <1>5, <1>7, <1>8 DEF ValueStart
  <2> QED BY <2>3, <2>4, <2>5
<1>6. CASE ~Labelled(blank, s)
  BY <1>1, <1>6, <1>8 DEF ValueStart
<1> QED BY <1>5, <1>6

LEMMA SameInputParse ==
  ASSUME NEW p, NEW q, p.blank \in Blanks, q.blank \in Blanks,
         p.trim \in Blanks, q.trim \in Blanks,
         NEW header, Text(header), NoOddSpace(header)
  PROVE  InputParses(p, header) <=> InputParses(q, header)
<1>1. ASSUME NEW r, r.blank \in Blanks, r.trim \in Blanks
      PROVE  InputParses(r, header) <=> InputParses(Common, header)
  <2> DEFINE s == Trim(White, header)
             start == ValueStart(White, s)
  <2>1. Text(s) /\ NoOddSpace(s)
    BY TrimIsAText
  <2>2. ValueStart(r.blank, s) = start
    BY <1>1, <2>1, SameValueStart
  <2>3. Common.blank = White /\ Common.trim = White /\ Trim(r.trim, header) = s
    BY <1>1, SameTrim DEF Common
  <2> HIDE DEF s
  <2>4. ListCloses(r.blank, s) = ListCloses(White, s)
    <3>1. [i \in 1 .. Len(s) + 1 |-> Past(r.blank, s, i)]
            = [i \in 1 .. Len(s) + 1 |-> Past(White, s, i)]
      BY <1>1, <2>1, SamePast
    <3> QED BY <3>1 DEF ListCloses
  <2> HIDE DEF start
  <2>5. /\ InputParses(r, header)
             <=> /\ start <= Len(s) /\ s[start] = "("
                 /\ ListCloses(White, s)[start + 1]
        /\ InputParses(Common, header)
             <=> /\ start <= Len(s) /\ s[start] = "("
                 /\ ListCloses(White, s)[start + 1]
    BY <2>2, <2>3, <2>4 DEF InputParses, s, start
  <2> QED BY <2>5
<1> QED BY <1>1


-----------------------------------------------------------------------------
\* The three bytes of four values.
Byte1(a, b) == a * 4 + b \div 16
Byte2(b, c) == (b % 16) * 16 + c \div 4
Byte3(c, d) == (c % 4) * 64 + d

\* Four characters with the padding at the end, at most two, and the bits that it
\* leaves over zero.
Codes == 0 .. 64

WellPadded(a, b, c, d) ==
  /\ a # 64 /\ b # 64
  /\ c = 64 => d = 64 /\ b % 16 = 0
  /\ c # 64 /\ d = 64 => c % 4 = 0

\* The C port writes four characters again as it read them iff they are well padded.
LEMMA FourCharacters ==
  ASSUME NEW a \in Codes, NEW b \in Codes, NEW c \in Codes, NEW d \in Codes
  PROVE  Recoded(<<a, b, c, d>>) = <<a, b, c, d>> <=> WellPadded(a, b, c, d)
<1> DEFINE v == <<a, b, c, d>>
           w == [k \in 1 .. 4 |-> IF v[k] = 64 THEN 0 ELSE v[k]]
           pad == {k \in 1 .. 4 : v[k] = 64}
           one == \E k \in pad : TRUE
           two == \E j, k \in pad : j # k
           b1 == w[1] * 4 + w[2] \div 16
           b2 == IF two THEN 0 ELSE (w[2] % 16) * 16 + w[3] \div 4
           b3 == IF one THEN 0 ELSE (w[3] % 4) * 64 + w[4]
<1> USE DEF Codes, WellPadded
<1>1. w[1] \in 0 .. 63 /\ w[2] \in 0 .. 63 /\ w[3] \in 0 .. 63 /\ w[4] \in 0 .. 63
  OBVIOUS
<1>2. /\ (a # 64 => w[1] = a) /\ (b # 64 => w[2] = b)
      /\ (c # 64 => w[3] = c) /\ (d # 64 => w[4] = d)
  OBVIOUS
<1>3. one <=> a = 64 \/ b = 64 \/ c = 64 \/ d = 64
  OBVIOUS
<1>4. two <=> \/ a = 64 /\ (b = 64 \/ c = 64 \/ d = 64)
              \/ b = 64 /\ (c = 64 \/ d = 64)
              \/ c = 64 /\ d = 64
  OBVIOUS
<1>5. Recoded(v) = <<b1 \div 4, (b1 % 4) * 16 + b2 \div 16,
                         IF two THEN 64 ELSE (b2 % 16) * 4 + b3 \div 64,
                         IF one THEN 64 ELSE b3 % 64>>
  BY DEF Recoded, PAD
<1>6. PICK x \in 0 .. 63, y \in 0 .. 63, z \in 0 .. 63, u \in 0 .. 63 :
        x = w[1] /\ y = w[2] /\ z = w[3] /\ u = w[4]
  BY <1>1
<1> HIDE DEF w, one, two
<1>7. /\ b1 = Byte1(x, y)
      /\ b2 = (IF two THEN 0 ELSE Byte2(y, z))
      /\ b3 = (IF one THEN 0 ELSE Byte3(z, u))
  BY <1>6 DEF Byte1, Byte2, Byte3
<1>8. /\ Byte1(x, y) \div 4 = x
      /\ (Byte1(x, y) % 4) * 16 + Byte2(y, z) \div 16 = y
      /\ (Byte2(y, z) % 16) * 4 + Byte3(z, u) \div 64 = z
      /\ Byte3(z, u) % 64 = u
      /\ (Byte1(x, y) % 4) * 16 = (y \div 16) * 16
      /\ (Byte2(y, z) % 16) * 4 = (z \div 4) * 4
  <2>1. /\ (y \div 16) * 16 + (y % 16) = y
        /\ (z \div 4) * 4 + (z % 4) = z
    OBVIOUS
  <2>2. Byte1(x, y) \div 4 = x /\ Byte1(x, y) % 4 = y \div 16
    BY DEF Byte1
  <2>3. Byte2(y, z) \div 16 = y % 16 /\ Byte2(y, z) % 16 = z \div 4
    BY DEF Byte2
  <2>4. Byte3(z, u) \div 64 = z % 4 /\ Byte3(z, u) % 64 = u
    BY DEF Byte3
  <2> QED BY <2>1, <2>2, <2>3, <2>4
<1>9. (y \div 16) * 16 \in 0 .. 63 /\ (z \div 4) * 4 \in 0 .. 63
  OBVIOUS
<1> HIDE DEF b1, b2, b3
<1> DEFINE second == (b1 % 4) * 16 + b2 \div 16
           third == IF two THEN 64 ELSE (b2 % 16) * 4 + b3 \div 64
           fourth == IF one THEN 64 ELSE b3 % 64
<1>10. /\ b1 \div 4 = x
       /\ second = IF two THEN (y \div 16) * 16 ELSE y
       /\ third = IF two THEN 64 ELSE IF one THEN (z \div 4) * 4 ELSE z
       /\ fourth = IF one THEN 64 ELSE u
  <2>1. two => one
    BY <1>3, <1>4
  <2>2. 0 \div 16 = 0 /\ 0 \div 64 = 0
    OBVIOUS
  <2>3. second = IF two THEN (y \div 16) * 16 ELSE y
    <3>1. CASE two
      BY <1>7, <1>8, <1>9, <2>2, <3>1
    <3>2. CASE ~two
      BY <1>7, <1>8, <3>2
    <3> QED BY <3>1, <3>2
  <2>4. third = IF two THEN 64 ELSE IF one THEN (z \div 4) * 4 ELSE z
    <3>1. CASE ~two /\ one
      BY <1>7, <1>8, <1>9, <2>2, <3>1
    <3>2. CASE ~two /\ ~one
      BY <1>7, <1>8, <3>2
    <3> QED BY <3>1, <3>2
  <2> QED BY <1>7, <1>8, <2>3, <2>4
<1> HIDE DEF second, third, fourth
<1>11. Recoded(v) = <<x, second, third, fourth>>
  BY <1>5, <1>10 DEF second, third, fourth
<1>12. Recoded(v) = v <=> x = a /\ second = b /\ third = c /\ fourth = d
  BY <1>11
<1>13. /\ (y \div 16) * 16 = y <=> y % 16 = 0
       /\ (z \div 4) * 4 = z <=> z % 4 = 0
  OBVIOUS
<1>14. CASE a = 64 \/ b = 64
  BY <1>6, <1>9, <1>10, <1>12, <1>14
<1>15. CASE a # 64 /\ b # 64 /\ c = 64
  BY <1>2, <1>3, <1>4, <1>6, <1>10, <1>12, <1>13, <1>15
<1>16. CASE a # 64 /\ b # 64 /\ c # 64
  BY <1>2, <1>3, <1>4, <1>6, <1>10, <1>12, <1>13, <1>16
<1> QED BY <1>14, <1>15, <1>16

\* What stands for a character.
LEMMA CodeOf ==
  ASSUME NEW ch, ch \in DOMAIN Sextet \/ ch = "="
  PROVE  /\ Code(ch) \in 0 .. 64
         /\ Code(ch) = 64 <=> ch = "="
         /\ ch # "=" => ch \in DOMAIN Sextet /\ Code(ch) = Sextet[ch]
<1>1. ch \in DOMAIN Sextet => ch # "=" /\ Sextet[ch] \in 0 .. 63
  BY SextetAssumption
<1> QED BY <1>1 DEF Code, PAD

\* The C port's decoder and encoder give a text back iff it is what an encoder
\* writes, whatever its length and the values of the characters (b64_decode,
\* b64_encode and their comparison, runners/c/negative_v1.c:38-52).
THEOREM RoundTripsIsCanonical ==
  ASSUME NEW s, Text(s)
  PROVE  RoundTrips(s) <=> Canonical(s)
<1> DEFINE n == Len(s)
           m == n \div 4
           Legal == \A k \in 1 .. n : s[k] \in DOMAIN Sextet \/ (s[k] = "=" /\ k > n - 4)
           Quad(q) == <<Code(s[4 * q + 1]), Code(s[4 * q + 2]),
                        Code(s[4 * q + 3]), Code(s[4 * q + 4])>>
           Again(q) == Recoded(Quad(q)) = Quad(q)
           Padded(pads) ==
             /\ \A k \in 1 .. n - pads : s[k] \in DOMAIN Sextet
             /\ \A k \in n - pads + 1 .. n : s[k] = "="
             /\ pads = 1 => Sextet[s[n - pads]] % 4 = 0
             /\ pads = 2 => Sextet[s[n - pads]] % 16 = 0
<1>1. n \in Nat /\ DOMAIN s = 1 .. n
  BY DEF Text
<1>2. RoundTrips(s) <=> n % 4 = 0 /\ Legal /\ \A q \in 0 .. m - 1 : Again(q)
  BY <1>1 DEF RoundTrips
<1>3. Canonical(s) <=> n % 4 = 0 /\ \E pads \in {i \in 0 .. 2 : i <= n} : Padded(pads)
  BY DEF Canonical
<1> HIDE DEF Quad, n, m
<1>4. ASSUME n % 4 = 0, n = 0
      PROVE  RoundTrips(s) <=> Canonical(s)
  <2>1. Padded(0) /\ 0 \in {i \in 0 .. 2 : i <= n}
    BY <1>4
  <2>2. Legal /\ m - 1 = -1
    BY <1>4 DEF m
  <2>3. \A q \in 0 .. m - 1 : FALSE
    BY <2>2
  <2> HIDE DEF Legal, Padded, Again
  <2> QED BY <1>2, <1>3, <1>4, <2>1, <2>2, <2>3
<1>5. ASSUME n % 4 = 0, n # 0
      PROVE  RoundTrips(s) <=> Canonical(s)
  <2> DEFINE Closed ==
               /\ s[n - 3] # "=" /\ s[n - 2] # "="
               /\ s[n - 1] = "=" => s[n] = "=" /\ Sextet[s[n - 2]] % 16 = 0
               /\ s[n - 1] # "=" /\ s[n] = "=" => Sextet[s[n - 1]] % 4 = 0
  <2>1. m \in Nat /\ m >= 1 /\ n = 4 * m
    <3>1. \A x \in Nat : x % 4 = 0 /\ x # 0 =>
            x \div 4 \in Nat /\ x \div 4 >= 1 /\ x = 4 * (x \div 4)
      OBVIOUS
    <3> QED BY <1>1, <1>5, <3>1 DEF m
  <2>2. ASSUME Legal, NEW q \in 0 .. m - 1
        PROVE  Again(q) <=>
                 /\ s[4 * q + 1] # "=" /\ s[4 * q + 2] # "="
                 /\ s[4 * q + 3] = "=" =>
                      s[4 * q + 4] = "=" /\ Sextet[s[4 * q + 2]] % 16 = 0
                 /\ s[4 * q + 3] # "=" /\ s[4 * q + 4] = "=" =>
                      Sextet[s[4 * q + 3]] % 4 = 0
    <3>1. 4 * q + 1 \in 1 .. n /\ 4 * q + 2 \in 1 .. n /\ 4 * q + 3 \in 1 .. n
            /\ 4 * q + 4 \in 1 .. n
      BY <2>1, <2>2
    <3> DEFINE a == Code(s[4 * q + 1])
               b == Code(s[4 * q + 2])
               c == Code(s[4 * q + 3])
               d == Code(s[4 * q + 4])
    <3>2. \A k \in 1 .. n :
            /\ Code(s[k]) \in 0 .. 64
            /\ Code(s[k]) = 64 <=> s[k] = "="
            /\ s[k] # "=" => Code(s[k]) = Sextet[s[k]]
      BY <2>2, CodeOf
    <3>3. /\ a \in 0 .. 64 /\ b \in 0 .. 64 /\ c \in 0 .. 64 /\ d \in 0 .. 64
          /\ a = 64 <=> s[4 * q + 1] = "="
          /\ b = 64 <=> s[4 * q + 2] = "="
          /\ c = 64 <=> s[4 * q + 3] = "="
          /\ d = 64 <=> s[4 * q + 4] = "="
          /\ s[4 * q + 2] # "=" => b = Sextet[s[4 * q + 2]]
          /\ s[4 * q + 3] # "=" => c = Sextet[s[4 * q + 3]]
      BY <3>1, <3>2
    <3>4. Again(q) <=> Recoded(<<a, b, c, d>>) = <<a, b, c, d>>
      BY DEF Quad
    <3> HIDE DEF a, b, c, d, Again
    <3>5. Recoded(<<a, b, c, d>>) = <<a, b, c, d>> <=> WellPadded(a, b, c, d)
      <4>1. a \in Codes /\ b \in Codes /\ c \in Codes /\ d \in Codes
        BY <3>3 DEF Codes
      <4> QED BY <4>1, FourCharacters, Zenon
    <3> QED BY <3>3, <3>4, <3>5 DEF WellPadded
  <2> HIDE DEF Again
  <2>3. ASSUME Legal, NEW q \in 0 .. m - 1, q # m - 1
        PROVE  Again(q)
    <3>1. \A k \in 4 * q + 1 .. 4 * q + 4 : k \in 1 .. n /\ k <= n - 4
      BY <2>1, <2>3
    <3>2. \A k \in 4 * q + 1 .. 4 * q + 4 : s[k] # "="
      <4> TAKE k \in 4 * q + 1 .. 4 * q + 4
      <4>1. k \in 1 .. n /\ k <= n - 4 /\ n \in Nat
        BY <1>1, <3>1
      <4>2. k \in Int /\ ~ (k > n - 4)
        BY <4>1
      <4>3. s[k] \in DOMAIN Sextet
        BY <2>3, <4>1, <4>2
      <4> QED BY <4>3, SextetAssumption
    <3>3. /\ 4 * q + 1 \in 4 * q + 1 .. 4 * q + 4 /\ 4 * q + 2 \in 4 * q + 1 .. 4 * q + 4
          /\ 4 * q + 3 \in 4 * q + 1 .. 4 * q + 4 /\ 4 * q + 4 \in 4 * q + 1 .. 4 * q + 4
      BY <2>1
    <3>4. /\ s[4 * q + 1] # "=" /\ s[4 * q + 2] # "="
          /\ s[4 * q + 3] # "=" /\ s[4 * q + 4] # "="
      BY <3>2, <3>3
    <3> HIDE DEF Legal
    <3> QED BY <2>2, <2>3, <3>4
  <2>4. Legal => (Again(m - 1) <=> Closed)
    <3>1. /\ 4 * (m - 1) + 1 = n - 3 /\ 4 * (m - 1) + 2 = n - 2
          /\ 4 * (m - 1) + 3 = n - 1 /\ 4 * (m - 1) + 4 = n /\ m - 1 \in 0 .. m - 1
      BY <1>1, <2>1
    <3> HIDE DEF Legal
    <3> QED BY <2>2, <3>1
  <2>5. RoundTrips(s) <=> Legal /\ Closed
    <3>1. m - 1 \in 0 .. m - 1
      BY <2>1
    <3> HIDE DEF Legal, Closed
    <3> QED BY <1>2, <1>5, <2>3, <2>4, <3>1
  <2>6. /\ n - 3 \in 1 .. n /\ n - 2 \in 1 .. n /\ n - 1 \in 1 .. n /\ n \in 1 .. n
        /\ \A k \in 1 .. n : \/ k <= n - 4 \/ k = n - 3 \/ k = n - 2 \/ k = n - 1 \/ k = n
    BY <2>1
  <2>7. ASSUME Legal, Closed PROVE \E pads \in {i \in 0 .. 2 : i <= n} : Padded(pads)
    <3>1. CASE s[n - 1] = "="
      <4>1. \A k \in 1 .. n - 2 : s[k] \in DOMAIN Sextet
        <5> TAKE k \in 1 .. n - 2
        <5>1. k \in 1 .. n /\ (k <= n - 4 \/ k = n - 3 \/ k = n - 2)
          BY <1>1, <2>1
        <5> QED BY <1>1, <2>7, <5>1
      <4>2. \A k \in n - 2 + 1 .. n : s[k] = "="
        <5> TAKE k \in n - 2 + 1 .. n
        <5>1. k = n - 1 \/ k = n
          BY <1>1
        <5> QED BY <2>7, <3>1, <5>1
      <4>3. Padded(2) /\ 2 \in {i \in 0 .. 2 : i <= n}
        BY <2>1, <2>7, <3>1, <4>1, <4>2
      <4> HIDE DEF Padded
      <4> QED BY <4>3
    <3>2. CASE s[n - 1] # "=" /\ s[n] = "="
      <4>1. \A k \in 1 .. n - 1 : s[k] \in DOMAIN Sextet
        <5> TAKE k \in 1 .. n - 1
        <5>1. k \in 1 .. n /\ (k <= n - 4 \/ k = n - 3 \/ k = n - 2 \/ k = n - 1)
          BY <1>1, <2>1
        <5> QED BY <1>1, <2>7, <3>2, <5>1
      <4>2. \A k \in n - 1 + 1 .. n : s[k] = "="
        <5> TAKE k \in n - 1 + 1 .. n
        <5>1. k = n
          BY <1>1
        <5> QED BY <3>2, <5>1
      <4>3. Padded(1) /\ 1 \in {i \in 0 .. 2 : i <= n}
        BY <2>1, <2>7, <3>2, <4>1, <4>2
      <4> HIDE DEF Padded
      <4> QED BY <4>3
    <3>3. CASE s[n - 1] # "=" /\ s[n] # "="
      <4>1. \A k \in 1 .. n - 0 : s[k] \in DOMAIN Sextet
        <5> TAKE k \in 1 .. n - 0
        <5>1. k \in 1 .. n
          BY <1>1
        <5> QED BY <1>1, <2>6, <2>7, <3>3, <5>1
      <4>2. \A k \in n - 0 + 1 .. n : s[k] = "="
        BY <1>1
      <4>3. Padded(0) /\ 0 \in {i \in 0 .. 2 : i <= n}
        BY <2>1, <4>1, <4>2
      <4> HIDE DEF Padded
      <4> QED BY <4>3
    <3> QED BY <3>1, <3>2, <3>3
  <2>8. ASSUME NEW pads \in {i \in 0 .. 2 : i <= n}, Padded(pads) PROVE Legal /\ Closed
    <3>1. pads \in 0 .. 2
      OBVIOUS
    <3>2. \A k \in 1 .. n : s[k] = "=" <=> k > n - pads
      <4> TAKE k \in 1 .. n
      <4>1. k \in 1 .. n - pads \/ k \in n - pads + 1 .. n
        BY <1>1, <3>1
      <4>2. k \in 1 .. n - pads => s[k] # "=" /\ ~ (k > n - pads)
        BY <1>1, <2>8, <3>1, SextetAssumption
      <4>3. k \in n - pads + 1 .. n => s[k] = "=" /\ k > n - pads
        BY <1>1, <2>8, <3>1
      <4> QED BY <4>1, <4>2, <4>3
    <3>3. Legal
      <4> SUFFICES ASSUME NEW k \in 1 .. n
                   PROVE  s[k] \in DOMAIN Sextet \/ (s[k] = "=" /\ k > n - 4)
        OBVIOUS
      <4>1. k \in 1 .. n - pads \/ k \in n - pads + 1 .. n
        BY <1>1, <3>1
      <4> QED BY <1>1, <2>8, <3>1, <4>1
    <3>4. Closed
      <4>1. CASE pads = 0
        BY <1>1, <2>6, <3>2, <4>1
      <4>2. CASE pads = 1
        BY <1>1, <2>6, <2>8, <3>2, <4>2
      <4>3. CASE pads = 2
        BY <1>1, <2>6, <2>8, <3>2, <4>3
      <4> QED BY <3>1, <4>1, <4>2, <4>3
    <3> QED BY <3>3, <3>4
  <2> HIDE DEF Legal, Closed, Padded
  <2> QED BY <1>3, <1>5, <2>5, <2>7, <2>8
<1> QED BY <1>2, <1>3, <1>4, <1>5

\* The C port's base64 is the library's, so values are read alike.
LEMMA SameValueParse ==
  ASSUME NEW p, NEW q, p.blank \in Blanks, q.blank \in Blanks,
         p.trim \in Blanks, q.trim \in Blanks,
         NEW header, Text(header), NoOddSpace(header)
  PROVE  ValueParses(p, header) <=> ValueParses(q, header)
<1> DEFINE s == Trim(White, header)
           start == ValueStart(White, s)
           rest == Trim(White, SubSeq(s, start, Len(s)))
           inner == SubSeq(rest, 2, Len(rest) - 1)
           Shaped == Len(rest) >= 2 /\ rest[1] = ":" /\ rest[Len(rest)] = ":"
<1>1. Text(s) /\ NoOddSpace(s)
  BY TrimIsAText
<1> HIDE DEF s
<1>2. start \in 1 .. Len(s) + 1
  BY <1>1, SameValueStart DEF Blanks, White
<1> HIDE DEF start
<1>3. Text(SubSeq(s, start, Len(s))) /\ NoOddSpace(SubSeq(s, start, Len(s)))
  <2>1. Len(s) \in Nat /\ DOMAIN s = 1 .. Len(s)
    BY <1>1 DEF Text
  <2>2. \A i \in start .. Len(s) : s[i] \in STRING
    BY <1>1, <1>2, <2>1 DEF Text
  <2>3. \A k \in DOMAIN SubSeq(s, start, Len(s)) :
          SubSeq(s, start, Len(s))[k] = s[start + k - 1] /\ start + k - 1 \in DOMAIN s
    BY <1>1, <1>2, <2>1 DEF Text
  <2>4. NoOddSpace(SubSeq(s, start, Len(s)))
    BY <1>1, <2>3 DEF NoOddSpace
  <2> QED BY <1>1, <1>2, <2>1, <2>2, <2>4 DEF Text
<1>4. Text(rest)
  BY <1>3, TrimIsAText
<1> HIDE DEF rest
<1>5. ASSUME Shaped PROVE RoundTrips(inner) <=> Canonical(inner)
  <2>1. Len(rest) \in Nat /\ DOMAIN rest = 1 .. Len(rest)
    BY <1>4 DEF Text
  <2>2. \A i \in 2 .. Len(rest) - 1 : rest[i] \in STRING
    BY <1>4, <2>1 DEF Text
  <2>3. Text(inner)
    BY <1>4, <1>5, <2>1, <2>2 DEF Text
  <2> HIDE DEF inner
  <2> QED BY <2>3, RoundTripsIsCanonical
<1>6. ASSUME NEW r, r.blank \in Blanks, r.trim \in Blanks
      PROVE  ValueParses(r, header) <=> Shaped /\ Canonical(inner)
  <2>1. ValueStart(r.blank, s) = start
    BY <1>1, <1>6, SameValueStart DEF start
  <2>2. ValueParses(r, header)
          <=> Shaped /\ IF r.base64 = "own" THEN RoundTrips(inner) ELSE Canonical(inner)
    <3>1. Trim(r.trim, header) = s
      BY <1>6, SameTrim DEF s
    <3>2. Trim(r.trim, SubSeq(s, start, Len(s))) = rest
      BY <1>3, <1>6, SameTrim DEF rest
    <3> QED BY <2>1, <3>1, <3>2 DEF ValueParses
  <2> HIDE DEF Shaped, inner
  <2> QED BY <1>5, <2>2
<1> QED BY <1>6

-----------------------------------------------------------------------------
(* The runners of the core battery.                                         *)

NegativeNames ==
  {"signing_base", "signature_input_parse", "signature_value_parse", "keygate",
   "ed25519_verify", "ecdsa_verify", "rsa_verify"}

\* A header is a text.
NegativeShape(section, c) ==
  section \in {"signature_input_parse", "signature_value_parse"} => Text(c.header)

NegativeKind(p) ==
  /\ p.blank \in Blanks /\ p.trim \in Blanks /\ p.gate \in {"published", "ported"}
  /\ p.missing \in {"raise", "empty"} /\ p.unread \in {"fail", "empty"}

LEMMA NegativeRunnerKinds ==
  ASSUME NEW i \in DOMAIN NegativeRunners
  PROVE  NegativeKind(NegativeRunners[i])
<1>1. DOMAIN NegativeRunners = 1 .. 12
  BY DEF NegativeRunners
<1>2. White \in Blanks /\ OldWhite \in Blanks /\ {" "} \in Blanks
  BY DEF Blanks, White, OldWhite
<1>3. NegativeKind(Common) /\ NegativeKind(PythonRunner)
  BY <1>2 DEF NegativeKind, PythonRunner, Common
<1>4. NegativeKind(GoRunner) /\ NegativeKind(RustRunner)
  BY <1>2 DEF NegativeKind, GoRunner, RustRunner, PythonRunner, Common
<1>5. NegativeKind(CRunner) /\ NegativeKind(PhpRunner)
  BY <1>2 DEF NegativeKind, CRunner, PhpRunner, Common
<1>6. NegativeKind(JavaRunner) /\ NegativeKind(DotnetRunner)
  BY <1>2 DEF NegativeKind, JavaRunner, DotnetRunner, Common
<1>7. CASE i \in 1 .. 6
  BY <1>3, <1>4, <1>5, <1>6, <1>7 DEF NegativeRunners
<1>8. CASE i \in 7 .. 12
  BY <1>3, <1>5, <1>6, <1>8 DEF NegativeRunners
<1> QED BY <1>1, <1>7, <1>8

\* Texts that fit their buffers, and a status that is a number, make the same base
\* with any two ports.
LEMMA SameBases ==
  ASSUME NEW p, NEW q, NEW c, NegativeEmitted("signing_base", c)
  PROVE  /\ BaseMatches(p, c) = BaseMatches(q, c)
         /\ ~Overruns(p, c)
<1>1. /\ c.mode \in Modes /\ c.raw # "long"
      /\ \A k \in DOMAIN c.covered :
           LET name == Lower(c.covered[k]) IN
             /\ name # "longname"
             /\ Has(c.given, name) => c.given[name] # "long"
             /\ Has(c.headers, name) => c.headers[name] # "long"
             /\ name = "@status" /\ Has(c.given, name) => c.given[name] # "text"
  BY DEF NegativeEmitted
<1>2. ASSUME NEW r, NEW k \in DOMAIN c.covered
      PROVE  Found(r, c, k) <=>
               LET name == Lower(c.covered[k]) IN
                 \/ name \in Derived /\ Has(c.given, name)
                 \/ name \notin Derived \cup OtherDerived /\ Has(c.headers, name)
  <2> DEFINE name == Lower(c.covered[k])
  <2>1. Has(c.given, name) => Given(r, c, name) = c.given[name] /\ c.given[name] # Absent
    BY <1>1 DEF Given, Has
  <2> QED BY <2>1 DEF Found
<1>3. Buildable(p, c) = Buildable(q, c)
  <2>1. \A k \in DOMAIN c.covered : Found(p, c, k) <=> Found(q, c, k)
    BY <1>2
  <2> QED BY <2>1 DEF Buildable
<1>4. ASSUME NEW r, NEW k \in DOMAIN c.covered, Found(r, c, k)
      PROVE  LET name == Lower(c.covered[k])
                 text == IF name \in Derived THEN c.given[name] ELSE c.headers[name]
             IN  /\ RawOf(r, c, name) = text /\ text # "long"
                 /\ NameOf(r, name) = name
  <2> DEFINE name == Lower(c.covered[k])
  <2>1. CASE name \in Derived
    <3>1. Has(c.given, name)
      BY <1>2, <1>4, <2>1
    <3> QED BY <1>1, <2>1, <3>1 DEF RawOf, Given, NameOf
  <2>2. CASE name \notin Derived
    <3>1. Has(c.headers, name)
      BY <1>2, <1>4, <2>2
    <3> QED BY <1>1, <2>2, <3>1 DEF RawOf, NameOf
  <2> QED BY <2>1, <2>2
<1>5. ASSUME Buildable(p, c)
      PROVE  SigningBase(p, c) = SigningBase(q, c)
  <2>1. ASSUME NEW k \in DOMAIN c.covered
        PROVE  LET name == Lower(c.covered[k]) IN
                 /\ NameOf(p, name) = NameOf(q, name)
                 /\ ValueOf(p, c, name) = ValueOf(q, c, name)
    <3> DEFINE name == Lower(c.covered[k])
               text == IF name \in Derived THEN c.given[name] ELSE c.headers[name]
    <3>1. Found(p, c, k) /\ Found(q, c, k)
      BY <1>3, <1>5 DEF Buildable
    <3>2. /\ RawOf(p, c, name) = text /\ RawOf(q, c, name) = text /\ text # "long"
          /\ NameOf(p, name) = name /\ NameOf(q, name) = name
      BY <1>4, <3>1
    <3> HIDE DEF text
    <3> QED BY <3>2 DEF ValueOf, Held
  <2>2. Held(p, c, c.raw) = Held(q, c, c.raw)
    BY <1>1 DEF Held
  <2> QED BY <2>1, <2>2 DEF SigningBase
<1>6. ~Overruns(p, c)
  <2>1. ASSUME NEW k \in DOMAIN c.covered, Found(p, c, k)
        PROVE  RawOf(p, c, Lower(c.covered[k])) # "long"
    BY <1>4, <2>1
  <2> QED BY <1>1, <2>1 DEF Overruns
<1> QED BY <1>3, <1>5, <1>6 DEF BaseMatches

\* Every runner's gate rejects, and finds of small order, the keys that the
\* definition does.
LEMMA SameGate ==
  ASSUME KeysAsDefined, NEW p, NEW q, NEW key
  PROVE  /\ Rejected(p, key) = Rejected(q, key)
         /\ IsSmallOrder(p, key) = IsSmallOrder(q, key)
BY DEF KeysAsDefined, Rejected, IsSmallOrder

\* Given any case of the kinds that gen_negative_v1.py, v2 and v3 write, every runner
\* of the core battery matches it iff its expectation is what the reference stamps:
\* headers of any length and of any characters but white space other than the blank,
\* messages whose names and texts fit the C port's buffers.
THEOREM NegativePortsAgree ==
  ASSUME KeysAsDefined, NEW i \in DOMAIN NegativeRunners,
         NEW section \in NegativeNames, NEW c, NegativeShape(section, c),
         NegativeEmitted(section, c)
  PROVE  NegativeJudge(NegativeRunners[i], section, c) =
           IF NegativeCorrect(section, c) THEN "match" ELSE "mismatch"
<1> DEFINE p == NegativeRunners[i]
           python == PythonRunner
<1>1. /\ p.blank \in Blanks /\ python.blank \in Blanks
      /\ p.trim \in Blanks /\ python.trim \in Blanks
  <2>1. White \in Blanks
    BY DEF Blanks, White
  <2> QED BY <2>1, NegativeRunnerKinds DEF NegativeKind, PythonRunner, Common
<1> HIDE DEF p, python
<1>2. ~NegativeRaises(p, section, c)
  <2>1. section = "signing_base" => c.mode \in Modes /\ ~Overruns(p, c)
    BY SameBases DEF NegativeEmitted
  <2> QED BY <2>1 DEF NegativeRaises
<1>3. NegativeJudge(p, section, c) =
        IF NegativeMatches(p, section, c) THEN "match" ELSE "mismatch"
  BY <1>2 DEF NegativeJudge
<1>4. NegativeMatches(p, section, c) = NegativeMatches(python, section, c)
  <2>1. CASE section = "signing_base"
    <3>1. BaseMatches(p, c) = BaseMatches(python, c)
      BY <2>1, SameBases
    <3> QED BY <2>1, <3>1 DEF NegativeMatches
  <2>2. CASE section = "signature_input_parse"
    <3>1. Text(c.header) /\ NoOddSpace(c.header)
      BY <2>2 DEF NegativeShape, NegativeEmitted, NoOddSpace
    <3>2. InputParses(p, c.header) <=> InputParses(python, c.header)
      BY <1>1, <3>1, SameInputParse
    <3>3. InputParses(p, c.header) = InputParses(python, c.header)
      BY <3>2 DEF InputParses
    <3> QED BY <2>2, <3>3 DEF NegativeMatches
  <2>3. CASE section = "signature_value_parse"
    <3>1. Text(c.header) /\ NoOddSpace(c.header)
      BY <2>3 DEF NegativeShape, NegativeEmitted, NoOddSpace
    <3>2. ValueParses(p, c.header) <=> ValueParses(python, c.header)
      BY <1>1, <3>1, SameValueParse
    <3>3. ValueParses(p, c.header) = ValueParses(python, c.header)
      BY <3>2 DEF ValueParses
    <3> QED BY <2>3, <3>3 DEF NegativeMatches
  <2>4. CASE section = "keygate"
    <3>1. /\ Rejected(p, c.key) = Rejected(python, c.key)
          /\ IsSmallOrder(p, c.key) = IsSmallOrder(python, c.key)
      BY SameGate
    <3> QED BY <2>4, <3>1 DEF NegativeMatches
  <2>5. CASE section = "ed25519_verify"
    <3>1. Rejected(p, c.pk.key) = Rejected(python, c.pk.key)
      BY SameGate
    <3>2. Ed25519Valid(p, c) = Ed25519Valid(python, c)
      BY <3>1 DEF Ed25519Valid
    <3> QED BY <2>5, <3>2 DEF NegativeMatches
  <2>6. CASE section = "ecdsa_verify"
    BY <2>6 DEF NegativeMatches
  <2>7. CASE section = "rsa_verify"
    <3>1. c.sig.form # "zero first"
      BY <2>7 DEF NegativeEmitted
    <3>2. RsaValid(p, c) = RsaValid(python, c)
      BY <3>1 DEF RsaValid, RsaFormOk
    <3> QED BY <2>7, <3>2 DEF NegativeMatches
  <2> QED BY <2>1, <2>2, <2>3, <2>4, <2>5, <2>6, <2>7 DEF NegativeNames
<1> QED BY <1>3, <1>4 DEF NegativeCorrect, p, python

\* The python runner, which calls what the generators call, matches no case of
\* whatever kind that has another expectation.
THEOREM PythonIsTheReference ==
  ASSUME NEW section, NEW c, NegativeJudge(PythonRunner, section, c) = "match"
  PROVE  NegativeCorrect(section, c)
BY DEF NegativeJudge, NegativeCorrect, PythonRunner, Common

\* The messages of a corpus at the places of the hand-made bases have those bases.
Anchored(corpus) ==
  \A k \in DOMAIN HandMade \cap DOMAIN corpus["signing_base"] :
    LET c == corpus["signing_base"][k]
    IN  Buildable(PythonRunner, c) /\ SigningBase(PythonRunner, c) = HandMade[k]

\* check_kat.py passes every corpus, of messages that have the hand-made bases, that
\* the python runner matches: it holds nothing else against it.
THEOREM KatTakesTheReference ==
  ASSUME NEW corpus, Anchored(corpus), corpus["signing_base"] # Gone,
         \A n \in DOMAIN corpus["signing_base"] :
           NegativeJudge(PythonRunner, "signing_base", corpus["signing_base"][n]) = "match"
  PROVE  NegativeKatRederives(corpus)
<1> SUFFICES ASSUME NEW k \in DOMAIN HandMade \cap DOMAIN corpus["signing_base"]
             PROVE  corpus["signing_base"][k].base = HandMade[k]
  BY DEF NegativeKatRederives
<1> DEFINE c == corpus["signing_base"][k]
<1>1. Buildable(PythonRunner, c) /\ SigningBase(PythonRunner, c) = HandMade[k]
  BY DEF Anchored
<1>2. NegativeCorrect("signing_base", c)
  BY PythonIsTheReference
<1> HIDE DEF c
<1>3. BaseMatches(PythonRunner, c)
  BY <1>2 DEF NegativeCorrect, NegativeMatches
<1> QED BY <1>1, <1>3 DEF BaseMatches, c

\* The first of the runners is the python one, and strict.
LEMMA NegativeRunnersAreTwelve ==
  /\ DOMAIN NegativeRunners = 1 .. 12 /\ NegativeRunners[1] = PythonRunner
  /\ PythonRunner.missing = "raise" /\ PythonRunner.unread = "fail"
<1>1. DOMAIN NegativeRunners = 1 .. 12 /\ NegativeRunners[1] = PythonRunner
  BY DEF NegativeRunners
<1>2. PythonRunner.missing = "raise" /\ PythonRunner.unread = "fail"
  BY DEF PythonRunner, Common
<1> QED BY <1>1, <1>2
=============================================================================
