------------------------------- MODULE MCSfv -------------------------------
(***************************************************************************)
(* Texts put together from pieces, a family of pieces at a time so that    *)
(* each rule is met with what surrounds it, under each field type.  The    *)
(* parser is compared with the grammar of RFC 8941, which is written here  *)
(* as which whole texts are of a kind, without a cursor and without        *)
(* taking the longest match.                                               *)
(***************************************************************************)
EXTENDS Sfv

CONSTANT Limit   \* [family -> length from which a text grows no longer]

VARIABLES family, type, text

MCPrintable ==
  Digit \cup Lcalpha \cup Ucalpha \cup Tchar \cup Base64Sign
    \cup {" ", "=", "(", ")", ",", ";", ":", "/", "*", "?", "\"", "\\"}

MCAscii == MCPrintable \cup {Tab}

\* "A" is six zero bits, "B" ends in a one.
MCCleared(c, pads) == IF c = "B" /\ pads > 0 THEN "A" ELSE c

MCLimit ==
  [f \in {"numbers", "strings", "bytes", "tokens", "parameters", "lists", "members"} |->
     CASE f = "numbers" -> 6 [] f = "strings" -> 5 [] f = "bytes" -> 7
       [] f = "tokens" -> 4 [] f = "parameters" -> 7 [] f = "lists" -> 5 [] f = "members" -> 7]

Str(c) == <<c>>

Pieces(f) ==
  CASE f = "numbers" -> {Str("-"), Str("0"), Str("1"), Str("."), Str(" ")}
    [] f = "strings" ->
         {Str("\""), Str("\\"), Str("a"), Str(","), Str(Tab), Str("~e")}
    [] f = "bytes"   ->
         {Str(":"), Str("="), Str("!"), Str("A"), <<"A", "B">>}
    [] f = "tokens"  ->
         {Str("a"), Str("A"), Str("*"), Str("/"), Str("?"), Str("1"), Str(";"),
          Str("="), Str("_")}
    [] f = "parameters" ->
         {Str("1"), <<";", "a">>, <<";", "b">>, <<"=", "0">>, <<"=", "?", "1">>,
          Str(";"), Str(" ")}
    [] f = "lists"   ->
         {Str("1"), Str("a"), Str("("), Str(")"), Str(","), Str(" "), Str(Tab),
          <<";", "b">>}
    [] f = "members" ->
         {Str("a"), Str("b"), <<"=", "0">>, <<"=", "?", "1">>, Str(","),
          <<" ", ",", Tab>>, <<";", "b">>, <<"=", "(", "1", ")">>}

\* The bare items as items alone.
Init ==
  /\ family \in DOMAIN Limit
  /\ type \in IF family \in {"numbers", "strings", "bytes"}
                THEN {"item"} ELSE {"item", "list", "dictionary"}
  /\ text = <<>>

\* The text is a piece longer; what has a character that no structured field
\* has is not.
Extend ==
  /\ Len(text) < Limit[family]
  /\ \A k \in DOMAIN text : text[k] \in Ascii
  /\ \E piece \in Pieces(family) : text' = text \o piece
  /\ UNCHANGED <<family, type>>

Spec == Init /\ [][Extend]_<<family, type, text>>

-----------------------------------------------------------------------------
(* The grammar.                                                            *)

\* The ways to cut a text in two.
Cuts(s) == {<<SubSeq(s, 1, k), SubSeq(s, k + 1, Len(s))>> : k \in 0 .. Len(s)}

All(s, class) == \A k \in DOMAIN s : s[k] \in class

Begins(s, first) == s # <<>> /\ s[1] \in first

IsDigits(s, most) == s # <<>> /\ All(s, Digit) /\ Len(s) <= most

IsNumber(s) ==
  LET unsigned == IF Begins(s, {"-"}) THEN Tail(s) ELSE s IN
    \/ IsDigits(unsigned, IntDigits)
    \/ \E c \in Cuts(unsigned) :
         /\ IsDigits(c[1], WholeDigits)
         /\ Begins(c[2], {"."}) /\ IsDigits(Tail(c[2]), FractionDigits)

RECURSIVE IsChars(_)
IsChars(s) ==
  \/ s = <<>>
  \/ Begins(s, Printable \ Escaped) /\ IsChars(Tail(s))
  \/ Begins(s, {"\\"}) /\ Begins(Tail(s), Escaped) /\ IsChars(Tail(Tail(s)))

IsString(s) ==
  /\ Len(s) > 1 /\ s[1] = "\"" /\ s[Len(s)] = "\""
  /\ IsChars(SubSeq(s, 2, Len(s) - 1))

IsToken(s) ==
  Begins(s, Lcalpha \cup Ucalpha \cup {"*"}) /\ All(Tail(s), TokenTail)

\* Between the colons, whole quanta of four of which the last is padded.
IsBytes(s) ==
  /\ Len(s) > 1 /\ s[1] = ":" /\ s[Len(s)] = ":" /\ (Len(s) - 2) % 4 = 0
  /\ \E pads \in {<<>>, <<"=">>, <<"=", "=">>} :
       \E c \in Cuts(SubSeq(s, 2, Len(s) - 1)) :
         /\ All(c[1], Base64Char \ {"="}) /\ c[2] = pads
         /\ pads # <<>> => c[1] # <<>>

IsBareItem(s) ==
  \/ IsNumber(s) \/ IsString(s) \/ IsToken(s) \/ IsBytes(s)
  \/ s \in {<<"?", "0">>, <<"?", "1">>}

IsKey(s) == Begins(s, Lcalpha \cup {"*"}) /\ All(Tail(s), KeyTail)

IsParameter(s) ==
  /\ Begins(s, {";"})
  /\ \E c \in Cuts(Tail(s)) :
       /\ All(c[1], {" "})
       /\ \/ IsKey(c[2])
          \/ \E d \in Cuts(c[2]) :
               IsKey(d[1]) /\ Begins(d[2], {"="}) /\ IsBareItem(Tail(d[2]))

RECURSIVE IsParameters(_)
IsParameters(s) ==
  s = <<>> \/ \E c \in Cuts(s) : IsParameter(c[1]) /\ IsParameters(c[2])

IsItem(s) == \E c \in Cuts(s) : IsBareItem(c[1]) /\ IsParameters(c[2])

\* Items apart by blanks, blanks around them.
RECURSIVE IsItems(_)
IsItems(s) ==
  \/ All(s, {" "})
  \/ Begins(s, {" "}) /\ IsItems(Tail(s))
  \/ \E c \in Cuts(s) :
       /\ IsItem(c[1])
       /\ c[2] = <<>> \/ (Begins(c[2], {" "}) /\ IsItems(c[2]))

IsMember(s) ==
  \/ IsItem(s)
  \/ /\ Begins(s, {"("})
     /\ \E c \in Cuts(Tail(s)) :
          IsItems(c[1]) /\ Begins(c[2], {")"}) /\ IsParameters(Tail(c[2]))

IsEntry(s) ==
  \E c \in Cuts(s) :
    /\ IsKey(c[1])
    /\ \/ IsParameters(c[2])
       \/ Begins(c[2], {"="}) /\ IsMember(Tail(c[2]))

\* Members apart by commas, optional white space around these.
RECURSIVE IsSeparated(_, _)
IsSeparated(t, s) ==
  \E c \in Cuts(s) :
    /\ IF t = "list" THEN IsMember(c[1]) ELSE IsEntry(c[1])
    /\ \/ All(c[2], Ows)
       \/ \E d \in Cuts(c[2]) :
            /\ All(d[1], Ows) /\ Begins(d[2], {","})
            /\ \E e \in Cuts(Tail(d[2])) : All(e[1], Ows) /\ IsSeparated(t, e[2])

IsField(t, s) ==
  \E c \in Cuts(s) :
    /\ All(c[1], {" "})
    /\ IF t = "item"
         THEN \E d \in Cuts(c[2]) : IsItem(d[1]) /\ All(d[2], {" "})
         ELSE c[2] = <<>> \/ IsSeparated(t, c[2])

-----------------------------------------------------------------------------
(* Properties.                                                             *)

Accepted(t, s) == Parse(t, s).at # 0

\* The parser accepts exactly the texts of the grammar, although it never
\* looks back (oracle_sfv.py: parse).
AcceptsTheGrammar == Accepted(type, text) <=> IsField(type, text)

\* The canonical text of an accepted value is accepted and reads as that
\* value: the serializer loses nothing and writes nothing that the parser
\* refuses or reads otherwise (serialize after parse; the last arm of verdict
\* is never taken).
CanonicalKeepsValue ==
  Accepted(type, text) =>
    LET v == Parse(type, text).val
        r == Parse(type, Serialize(type, v))
    IN  r.at # 0 /\ r.val = v

\* The entries of l, with the values of r for the keys that r has, and then
\* what r adds.
Merged(l, r) ==
  [k \in DOMAIN l |->
     IF \E j \in DOMAIN r : r[j].key = l[k].key
       THEN CHOOSE e \in Range(r) : e.key = l[k].key ELSE l[k]]
    \o SelectSeq(r, LAMBDA e : \A k \in DOMAIN l : l[k].key # e.key)

\* A dictionary that is two dictionaries with a comma between them is the
\* merge of the two, and likewise for parameters: wherever a key is repeated,
\* its first place and its last value count (parameters, parse_dictionary).
ReadsAsMerge ==
  \A k \in DOMAIN text :
    LET left  == SubSeq(text, 1, k - 1)
        right == SubSeq(text, k + 1, Len(text))
        item  == <<"1">> \o SubSeq(text, k, Len(text))
    IN  /\ /\ type = "dictionary" /\ text[k] = "," /\ Accepted(type, text)
           /\ Accepted(type, left) /\ Accepted(type, right)
           => Parse(type, text).val = Merged(Parse(type, left).val, Parse(type, right).val)
        /\ /\ type = "item" /\ text[k] = ";" /\ Accepted(type, text)
           /\ Accepted(type, left) /\ Accepted(type, item)
           => Parse(type, text).val.params
                = Merged(Parse(type, left).val.params, Parse(type, item).val.params)
=============================================================================
