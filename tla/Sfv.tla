-------------------------------- MODULE Sfv --------------------------------
(***************************************************************************)
(* The structured-field suite: the recursive-descent parser and canonical  *)
(* serializer of tools/oracle_sfv.py over a text that is a sequence of      *)
(* characters.                                                             *)
(*                                                                         *)
(* A parsing operator takes the text and the cursor, and gives the cursor   *)
(* behind what it read together with the value, or Failed.  The digit       *)
(* limits are parameters.  A number is its digits without the zeros that    *)
(* do not count, and a byte sequence its base64 with the unused bits        *)
(* cleared, so that equal values are equal here.                            *)
(***************************************************************************)
EXTENDS Integers, Sequences, SequencesExt

CONSTANTS
  Digit, Lcalpha, Ucalpha,  \* classes of characters
  Tchar,           \* what else a token may go on with
  Base64Sign,      \* "+" and "/"
  Printable,       \* 0x20 to 0x7E
  Ascii,
  Tab,
  IntDigits,       \* 15
  WholeDigits,     \* 12, before the point of a decimal
  FractionDigits,  \* 3, behind it
  DecimalChars,    \* 16, with the point
  Cleared(_, _)    \* base64 character and number of pads: the character with
                   \* the bits that no byte takes cleared

ASSUME SfvAssumption ==
  /\ {"0", "1"} \subseteq Digit
  /\ Digit \cup Lcalpha \cup Ucalpha \cup {" ", "=", "(", ",", ";"} \subseteq Printable
  /\ Printable \cup {Tab} \subseteq Ascii
  /\ {IntDigits, WholeDigits, FractionDigits, DecimalChars} \subseteq Nat \ {0}

TokenTail == Lcalpha \cup Ucalpha \cup Digit \cup Tchar \cup {":", "/", "*"}
KeyTail == Lcalpha \cup Digit \cup {"_", "-", ".", "*"}
Base64Char == Lcalpha \cup Ucalpha \cup Digit \cup Base64Sign \cup {"="}
Ows == {" ", Tab}

-----------------------------------------------------------------------------
(* Reading.                                                                *)

\* The character at the cursor.
At(s, i) == IF i <= Len(s) THEN s[i] ELSE "end"

\* Where the run of characters of a class that starts at i ends.
Past(s, i, class) ==
  CHOOSE j \in i .. Len(s) + 1 :
    /\ \A k \in i .. j - 1 : s[k] \in class
    /\ At(s, j) \notin class

Found(i, v) == [at |-> i, val |-> v]
Failed == Found(0, <<>>)

Then(r, Rest(_, _)) == IF r.at = 0 THEN Failed ELSE Rest(r.at, r.val)

Zero(digits) == \A k \in DOMAIN digits : digits[k] = "0"

\* Digits without leading, and without trailing, zeros; at least one stays.
StripLeft(digits) ==
  IF Zero(digits) THEN <<"0">> ELSE SubSeq(digits, Past(digits, 1, {"0"}), Len(digits))

StripRight(digits) == Reverse(StripLeft(Reverse(digits)))

\* Digits, with a point after the first of them for a decimal.  Zero has no
\* sign.
Number(s, i) ==
  LET first    == IF At(s, i) = "-" THEN i + 1 ELSE i
      point    == Past(s, first, Digit)
      end      == Past(s, point + 1, Digit)
      whole    == SubSeq(s, first, point - 1)
      fraction == SubSeq(s, point + 1, end - 1)
  IN  CASE At(s, point) # "." /\ Len(whole) \in 1 .. IntDigits ->
             Found(point, [kind |-> "integer", whole |-> StripLeft(whole),
                           negative |-> first > i /\ ~Zero(whole)])
        [] /\ At(s, point) = "."
           /\ Len(whole) \in 1 .. WholeDigits
           /\ Len(fraction) \in 1 .. FractionDigits
           /\ end - first <= DecimalChars ->
             Found(end, [kind |-> "decimal", whole |-> StripLeft(whole),
                         fraction |-> StripRight(fraction),
                         negative |-> first > i /\ ~Zero(whole \o fraction)])
        [] OTHER -> Failed

Escaped == {"\"", "\\"}

\* The characters of a string up to its closing quote.
RECURSIVE Quoted(_, _, _)
Quoted(s, i, read) ==
  CASE At(s, i) = "\"" ->
         Found(i + 1, [kind |-> "string", text |-> read])
    [] At(s, i) = "\\" /\ At(s, i + 1) \in Escaped ->
         Quoted(s, i + 2, Append(read, s[i + 1]))
    [] At(s, i) \in Printable \ Escaped ->
         Quoted(s, i + 1, Append(read, s[i]))
    [] OTHER -> Failed

Token(s, i) ==
  LET end == Past(s, i + 1, TokenTail) IN
    Found(end, [kind |-> "token", text |-> SubSeq(s, i, end - 1)])

\* b64decode with validation, as it is from CPython 3.12.4 on: whole quanta,
\* padded at the end (before, padding in excess went through, as in :AAAA=:).
Decodable(b) ==
  /\ Len(b) % 4 = 0
  /\ \A k \in DOMAIN b :
       b[k] = "=" => k > Len(b) - 2 /\ \A j \in k .. Len(b) : b[j] = "="

\* What decoding and encoding again give.
Recoded(b) ==
  LET pads == Len(SelectSeq(b, LAMBDA x : x = "="))
      last == Len(b) - pads
  IN  [k \in DOMAIN b |-> IF k = last THEN Cleared(b[k], pads) ELSE b[k]]

ByteSequence(s, i) ==
  LET end == Past(s, i + 1, Base64Char)
      b   == SubSeq(s, i + 1, end - 1)
  IN  IF At(s, end) = ":" /\ Decodable(b)
        THEN Found(end + 1, [kind |-> "bytes", text |-> Recoded(b)])
        ELSE Failed

Boolean(b) == [kind |-> "boolean", is |-> b]

Truth(s, i) ==
  IF At(s, i + 1) \in {"0", "1"}
    THEN Found(i + 2, Boolean(s[i + 1] = "1")) ELSE Failed

BareItem(s, i) ==
  CASE At(s, i) \in Digit \cup {"-"} -> Number(s, i)
    [] At(s, i) = "\"" -> Quoted(s, i + 1, <<>>)
    [] At(s, i) = ":"  -> ByteSequence(s, i)
    [] At(s, i) = "?"  -> Truth(s, i)
    [] At(s, i) \in Lcalpha \cup Ucalpha \cup {"*"} -> Token(s, i)
    [] OTHER -> Failed

Key(s, i) ==
  IF At(s, i) \in Lcalpha \cup {"*"}
    THEN LET end == Past(s, i + 1, KeyTail) IN Found(end, SubSeq(s, i, end - 1))
    ELSE Failed

\* Mutant: a repeated key moves to the end.
Put_Moves(entries, key, value) ==
  Append(SelectSeq(entries, LAMBDA e : e.key # key), [key |-> key, value |-> value])

\* A repeated key keeps its place and takes the new value.
Put(entries, key, value) ==
  IF \E k \in DOMAIN entries : entries[k].key = key
    THEN [k \in DOMAIN entries |->
            IF entries[k].key = key THEN [key |-> key, value |-> value] ELSE entries[k]]
    ELSE Append(entries, [key |-> key, value |-> value])

RECURSIVE Parameters(_, _, _)
Parameters(s, i, read) ==
  IF At(s, i) # ";" THEN Found(i, read)
  ELSE Then(Key(s, Past(s, i + 1, {" "})), LAMBDA j, key :
         Then(IF At(s, j) = "=" THEN BareItem(s, j + 1) ELSE Found(j, Boolean(TRUE)),
              LAMBDA end, value : Parameters(s, end, Put(read, key, value))))

Item(s, i) ==
  Then(BareItem(s, i), LAMBDA j, bare :
    Then(Parameters(s, j, <<>>), LAMBDA end, params :
      Found(end, [form |-> "item", bare |-> bare, params |-> params])))

\* Items up to the closing parenthesis, and the parameters of the list.
RECURSIVE InnerList(_, _, _)
InnerList(s, i, read) ==
  LET j == Past(s, i, {" "}) IN
    IF At(s, j) = ")"
      THEN Then(Parameters(s, j + 1, <<>>), LAMBDA end, params :
             Found(end, [form |-> "inner_list", members |-> read, params |-> params]))
      ELSE Then(Item(s, j), LAMBDA end, item :
             IF At(s, end) \in {" ", ")"}
               THEN InnerList(s, end, Append(read, item)) ELSE Failed)

ItemOrInnerList(s, i) ==
  IF At(s, i) = "(" THEN InnerList(s, i + 1, <<>>) ELSE Item(s, i)

\* A dictionary's member; a key alone is true and may have parameters.
Entry(s, i) ==
  Then(Key(s, i), LAMBDA j, key :
    Then(IF At(s, j) = "=" THEN ItemOrInnerList(s, j + 1)
           ELSE Then(Parameters(s, j, <<>>), LAMBDA k, params :
                  Found(k, [form |-> "item", bare |-> Boolean(TRUE), params |-> params])),
         LAMBDA end, value : Found(end, [key |-> key, value |-> value])))

\* The members of a list or a dictionary from the cursor on.
RECURSIVE Members(_, _, _, _)
Members(type, s, i, read) ==
  Then(IF type = "list" THEN ItemOrInnerList(s, i) ELSE Entry(s, i), LAMBDA end, m :
    LET all   == IF type = "list" THEN Append(read, m) ELSE Put(read, m.key, m.value)
        comma == Past(s, end, Ows)
        next  == Past(s, comma + 1, Ows)
    IN  CASE comma > Len(s) -> Found(comma, all)
          [] At(s, comma) = "," /\ next <= Len(s) -> Members(type, s, next, all)
          [] OTHER -> Failed)

\* Mutant: tabs may follow, too.
Parse_TabsFollow(type, s) ==
  LET first == Past(s, 1, {" "})
      r == CASE type = "item" -> Item(s, first)
             [] type # "item" /\ first > Len(s) -> Found(first, <<>>)
             [] OTHER -> Members(type, s, first, <<>>)
  IN  IF (\A k \in DOMAIN s : s[k] \in Ascii) /\ r.at # 0 /\ Past(s, r.at, Ows) > Len(s)
        THEN r ELSE Failed

\* A whole field value: nothing but blanks may follow.
Parse(type, s) ==
  LET first == Past(s, 1, {" "})
      r == CASE type = "item" -> Item(s, first)
             [] type # "item" /\ first > Len(s) -> Found(first, <<>>)
             [] OTHER -> Members(type, s, first, <<>>)
  IN  IF (\A k \in DOMAIN s : s[k] \in Ascii) /\ r.at # 0 /\ Past(s, r.at, {" "}) > Len(s)
        THEN r ELSE Failed

-----------------------------------------------------------------------------
(* Writing.                                                                *)

Joined(parts, separator) ==
  FoldLeft(LAMBDA text, part : IF text = <<>> THEN part ELSE text \o separator \o part,
           <<>>, parts)

Mapped(Op(_), seq) == [k \in DOMAIN seq |-> Op(seq[k])]

Sign(negative) == IF negative THEN <<"-">> ELSE <<>>

SerBare(b) ==
  CASE b.kind = "integer" ->
         Sign(b.negative) \o b.whole
    [] b.kind = "decimal" ->
         Sign(b.negative) \o b.whole \o <<".">> \o b.fraction
    [] b.kind = "string" ->
         <<"\"">>
           \o FlattenSeq(Mapped(LAMBDA c : IF c \in Escaped THEN <<"\\", c>> ELSE <<c>>, b.text))
           \o <<"\"">>
    [] b.kind = "token" -> b.text
    [] b.kind = "bytes" -> <<":">> \o b.text \o <<":">>
    [] b.kind = "boolean" -> <<"?", IF b.is THEN "1" ELSE "0">>

IsTrue(b) == b.kind = "boolean" /\ b.is

SerParams(params) ==
  FlattenSeq(Mapped(LAMBDA p : <<";">> \o p.key \o
                      IF IsTrue(p.value) THEN <<>> ELSE <<"=">> \o SerBare(p.value), params))

SerItem(m) == SerBare(m.bare) \o SerParams(m.params)

SerMember(m) ==
  IF m.form = "item" THEN SerItem(m)
  ELSE <<"(">> \o Joined(Mapped(SerItem, m.members), <<" ">>) \o <<")">> \o SerParams(m.params)

\* Mutant: a true member is written without its parameters.
SerEntry_Bare(e) ==
  IF e.value.form = "item" /\ IsTrue(e.value.bare)
    THEN e.key ELSE e.key \o <<"=">> \o SerMember(e.value)

SerEntry(e) ==
  IF e.value.form = "item" /\ IsTrue(e.value.bare)
    THEN e.key \o SerParams(e.value.params)
    ELSE e.key \o <<"=">> \o SerMember(e.value)

Serialize(type, v) ==
  CASE type = "item" -> SerMember(v)
    [] type = "list" -> Joined(Mapped(SerMember, v), <<",", " ">>)
    [] type = "dictionary" -> Joined(Mapped(SerEntry, v), <<",", " ">>)

\* What the generator stamps on a case.
Verdict(type, s) ==
  LET r == Parse(type, s) IN
    IF r.at = 0 THEN [ok |-> FALSE, canonical |-> <<>>]
    ELSE [ok |-> TRUE, canonical |-> Serialize(type, r.val)]
=============================================================================
