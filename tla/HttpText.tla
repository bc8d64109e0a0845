------------------------------ MODULE HttpText ------------------------------
(***************************************************************************)
(* The string functions of more_string.c and the dictionaries of           *)
(* dictionary.c.  A string is a sequence of bytes; codes from 256 on stand *)
(* for words that no function looks into, an even code for the word in     *)
(* lower case and the next one for another spelling of it.                 *)
(***************************************************************************)
EXTENDS Integers, Sequences, SequencesExt

CONSTANTS
  NULL,
  INT_MAX   \* the largest int

ASSUME IntAssumption == INT_MAX \in Nat /\ INT_MAX > 0

CR == 13
LF == 10
SP == 32
HASH == 35
PERCENT == 37
AMP == 38
PLUS == 43
MINUS == 45
COLON == 58
SEMI == 59
EQUALS == 61
QUERY == 63

tolower(c) == IF c >= 256 THEN c - (c % 2) ELSE IF c \in 65..90 THEN c + 32 ELSE c
strcasecmp(s, t) == [i \in DOMAIN s |-> tolower(s[i])] # [i \in DOMAIN t |-> tolower(t[i])]
isspace(c) == c \in {9, LF, CR, SP}

(* The least index of s from i on whose byte is in set, or 0. *)
strchr(s, i, set) ==
  LET at == {k \in i..Len(s) : s[k] \in set}
  IN  IF at = {} THEN 0 ELSE CHOOSE k \in at : \A m \in at : k <= m

From(s, i) == SubSeq(s, i, Len(s))
Before(s, i) == IF i = 0 THEN s ELSE SubSeq(s, 1, i - 1)

-----------------------------------------------------------------------------
(* Dictionaries: count is the length of keys. *)

make_dictionary(insens) == [insens |-> insens, alloc |-> 0, keys |-> <<>>, values |-> <<>>]

(* mutant: headers compared as they are spelled *)
same_key_exact(d, key1, key2) == key1 = key2

same_key(d, key1, key2) == IF d.insens THEN ~strcasecmp(key1, key2) ELSE key1 = key2
Index(d, key) == {i \in DOMAIN d.keys : same_key(d, key, d.keys[i])}

dictionary_set(d, key, value) ==
  LET set(e, at) ==
        IF at # {}
        THEN [e EXCEPT !.values[CHOOSE i \in at : \A j \in at : i <= j] = value]
        ELSE [e EXCEPT !.alloc = IF Len(e.keys) = e.alloc THEN 2 * (e.alloc + 1) ELSE e.alloc,
                       !.keys = Append(@, key), !.values = Append(@, value)]
  IN  CHOOSE r \in {set(e, Index(e, key)) : e \in {d}} : TRUE   \* d is evaluated once

dictionary_get(d, key) ==
  IF Index(d, key) = {} THEN NULL
  ELSE d.values[CHOOSE i \in Index(d, key) : \A j \in Index(d, key) : i <= j]

-----------------------------------------------------------------------------
(* parse_three with no further space allowed: the three words of a request *)
(* line, or NULL.                                                          *)
parse_request_line(buf) ==
  LET len == Len(buf)
      s1 == strchr(buf, 1, {SP})
      s2 == IF s1 = 0 THEN 0 ELSE strchr(buf, s1 + 1, {SP})
  IN  IF len < 2 \/ s1 = 0 \/ s2 = 0 THEN NULL
      ELSE IF buf[len - 1] # CR \/ buf[len] # LF \/ strchr(buf, s2 + 1, {SP}) # 0 THEN NULL
      ELSE [method |-> SubSeq(buf, 1, s1 - 1), uri |-> SubSeq(buf, s1 + 1, s2 - 1),
            version |-> SubSeq(buf, s2 + 1, len - 2)]

Trim(s) ==
  LET ink == {i \in DOMAIN s : ~isspace(s[i])}
      least == CHOOSE i \in ink : \A j \in ink : i <= j
      last == CHOOSE i \in ink : \A j \in ink : j <= i
  IN  IF ink = {} THEN <<>> ELSE SubSeq(s, least, last)

parse_header_line(buf, d) ==
  LET s == strchr(buf, 1, {COLON})
  IN  IF s = 0 THEN d ELSE dictionary_set(d, SubSeq(buf, 1, s - 1), Trim(From(buf, s + 1)))

ishexdigit(v) == v \in 48..57 \/ v \in 65..70 \/ v \in 97..102
hex_value(v) == IF v \in 48..57 THEN v - 48 ELSE IF v \in 65..70 THEN v - 55 ELSE v - 87
hex_digit(v) == IF v < 10 THEN 48 + v ELSE 97 + (v - 10)

(* mutant: an escape is taken for one byte of the source *)
query_decode_short(data) ==
  LET dec[i \in 1..(Len(data) + 1)] ==
        IF i > Len(data) THEN <<>>
        ELSE IF data[i] = PERCENT /\ i + 2 <= Len(data) /\ ishexdigit(data[i + 1]) /\ ishexdigit(data[i + 2])
        THEN <<hex_value(data[i + 1]) * 16 + hex_value(data[i + 2])>> \o dec[i + 1]
        ELSE <<IF data[i] = PLUS THEN SP ELSE data[i]>> \o dec[i + 1]
  IN  dec[1]

query_decode(data) ==
  LET dec[i \in 1..(Len(data) + 1)] ==
        IF i > Len(data) THEN <<>>
        ELSE IF data[i] = PERCENT /\ i + 2 <= Len(data) /\ ishexdigit(data[i + 1]) /\ ishexdigit(data[i + 2])
        THEN <<hex_value(data[i + 1]) * 16 + hex_value(data[i + 2])>> \o dec[i + 3]
        ELSE <<IF data[i] = PLUS THEN SP ELSE data[i]>> \o dec[i + 1]
  IN  dec[1]

query_encode(data) ==
  FlattenSeq([i \in DOMAIN data |->
    IF data[i] \in 97..122 \cup 65..90 \cup 48..57 THEN <<data[i]>>
    ELSE <<PERCENT, hex_digit(data[i] \div 16), hex_digit(data[i] % 16)>>])

(* The pieces between separators; nothing follows a separator at the end.  *)
Pieces(s) ==
  LET cut(i) == i \in {0, Len(s) + 1} \/ s[i] \in {AMP, SEMI}
      cuts == SelectSeq([i \in 1..(Len(s) + 2) |-> i - 1], cut)
      pieces == [k \in 1..(Len(cuts) - 1) |-> SubSeq(s, cuts[k] + 1, cuts[k + 1] - 1)]
  IN  IF Last(pieces) = <<>> THEN Front(pieces) ELSE pieces

(* parse_query stops at a NUL or '#'.  The key is the name as it was sent, *)
(* not d_name.                                                             *)
parse_query(buf, d) ==
  LET set(e, piece) ==
        LET eq == strchr(piece, 1, {EQUALS})
        IN  dictionary_set(e, Before(piece, eq),
                           query_decode(IF eq = 0 THEN <<>> ELSE From(piece, eq + 1)))
  IN  FoldLeft(set, d, Pieces(Before(buf, strchr(buf, 1, {0, HASH}))))

parse_uriquery(buf, d) ==
  LET s == strchr(buf, 1, {QUERY})
  IN  IF s = 0 THEN d ELSE parse_query(From(buf, s + 1), d)

(* atoi of digits after an optional sign: strtol's long, cut to an int. *)
ToInt(n) == ((n + INT_MAX + 1) % (2 * (INT_MAX + 1))) - (INT_MAX + 1)
Decimal(s) == FoldLeft(LAMBDA n, c : 10 * n + (c - 48), 0, s)
atoi(s) == ToInt(IF s # <<>> /\ s[1] = MINUS THEN -Decimal(Tail(s)) ELSE Decimal(s))
=============================================================================
