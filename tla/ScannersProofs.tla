--------------------------- MODULE ScannersProofs ---------------------------
(***************************************************************************)
(* Proofs about the two programs that read text.  For the parser of whoosh *)
(* scripts and every script: the buffer pointer never leaves the line,     *)
(* what is parsed is well formed, and the table of variables gives every   *)
(* name one variable.  For matchlab and every command line: which          *)
(* arguments are still what was given when their turn comes.               *)
(***************************************************************************)
EXTENDS Parse, Matchlab, WellFoundedInduction, TLAPS

Text == Seq(Int)
Ints == (-(INT_MAX + 1))..INT_MAX
Arguments(n) == [kind : {"LITERAL"}, value : Text] \cup [kind : {"VARIABLE"}, value : 1..n]
Commands(n) == [program : Text, arguments : Seq(Arguments(n)), pid_to : 1..n \cup {NONE}]
Groups(n) == [mode : {"SINGLE", "AND", "OR"}, repeats : Ints, result_to : 1..n \cup {NONE},
              commands : Seq(Commands(n))]

(* buffer stays between the first character of the line and its            *)
(* terminator, and every variable that a group, a command or an argument   *)
(* names is in the table.                                                  *)
Parsed ==
  /\ file \in Seq(Text) /\ lines \in 0..Len(file)
  /\ text \in Text /\ at \in 1..(Len(text) + 1)
  /\ names \in Seq(Text)
  /\ groups \in Seq(Groups(Len(names)))
  /\ step \in {"command", "argument", "combiner"} => group \in Groups(Len(names))
  /\ step = "argument" => command \in Commands(Len(names))

(* v is the first variable of the table whose name begins with name. *)
FirstMatch(name, v, table) ==
  /\ name \in Text /\ v \in DOMAIN table /\ IsPrefix(name, table[v])
  /\ \A w \in DOMAIN table : IsPrefix(name, table[w]) => v <= w

(* Each name read is still looked up to the variable it was given, and     *)
(* each variable was first read under its own name.                        *)
NamesIn(read, table) ==
  /\ \A r \in read : r = <<r[1], r[2]>> /\ FirstMatch(r[1], r[2], table)
  /\ \A v \in DOMAIN table : <<table[v], v>> \in read
Named == NamesIn(refs, names)

ParseInv == Parsed /\ Named

-----------------------------------------------------------------------------
LEMMA LeastNat ==
  ASSUME NEW T \in SUBSET Nat, T # {}
  PROVE  \E n \in T : \A m \in T : n <= m
  <1>1. PICK n \in T : \A m \in T : ~(<<m, n>> \in OpToRel(<, Nat))
    BY WFMin, NatLessThanWellFounded, Zenon
  <1>2. \A m \in T : ~(m < n)
    BY <1>1 DEF OpToRel
  <1>3. QED
    BY <1>2

(* A scan that stops at the terminator at the latest stops in the line. *)
LEMMA ScanStops ==
  ASSUME NEW n \in Nat, NEW i \in 1..(n + 1), NEW S, n + 1 \notin S
  PROVE  \E k \in i..(n + 1) : k \notin S /\ \A m \in i..(k - 1) : m \in S
  <1> DEFINE T == {k \in i..(n + 1) : k \notin S}
  <1>1. T \in SUBSET Nat /\ n + 1 \in T
    OBVIOUS
  <1>2. PICK k \in T : \A m \in T : k <= m
    <2> HIDE DEF T
    <2>1. QED
      BY <1>1, LeastNat
  <1>3. ASSUME NEW m \in i..(k - 1) PROVE m \in S
    <2>1. m \in i..(n + 1) /\ ~(k <= m)
      OBVIOUS
    <2>2. QED
      BY <2>1, <1>2
  <1>4. QED
    BY <1>2, <1>3

LEMMA SkipSpaceStops ==
  ASSUME NEW s \in Text, NEW i \in 1..(Len(s) + 1)
  PROVE  skip_space(s, i) \in i..(Len(s) + 1) /\ skip_space(s, i) \in 1..(Len(s) + 1)
  <1> DEFINE S == {m \in 1..Len(s) : isblank(s[m])}
             Stops(k) == ~isblank(Char(s, k)) /\ \A m \in i..(k - 1) : isblank(s[m])
  <1>1. Len(s) \in Nat /\ Len(s) + 1 \notin S
    BY DEF Text
  <1>2. PICK k \in i..(Len(s) + 1) : k \notin S /\ \A m \in i..(k - 1) : m \in S
    <2> HIDE DEF S
    <2>1. QED
      BY <1>1, ScanStops
  <1>3. Stops(k)
    BY <1>1, <1>2 DEF Char, Text, isblank, SPACE
  <1>4. skip_space(s, i) = CHOOSE j \in i..(Len(s) + 1) : Stops(j)
    BY DEF skip_space
  <1> HIDE DEF Stops
  <1>5. skip_space(s, i) \in i..(Len(s) + 1)
    BY <1>3, <1>4
  <1>6. QED
    BY <1>5, <1>1

LEMMA SkipNumberStops ==
  ASSUME NEW s \in Text, NEW i \in 1..(Len(s) + 1)
  PROVE  /\ SkipNumber(s, i) \in i..(Len(s) + 1)
         /\ \A m \in i..(SkipNumber(s, i) - 1) : isnumber(s[m])
  <1> DEFINE S == {m \in 1..Len(s) : isnumber(s[m])}
             Stops(k) == ~isnumber(Char(s, k)) /\ \A m \in i..(k - 1) : isnumber(s[m])
  <1>1. Len(s) \in Nat /\ Len(s) + 1 \notin S
    BY DEF Text
  <1>2. PICK k \in i..(Len(s) + 1) : k \notin S /\ \A m \in i..(k - 1) : m \in S
    <2> HIDE DEF S
    <2>1. QED
      BY <1>1, ScanStops
  <1>3. Stops(k)
    BY <1>1, <1>2 DEF Char, Text, isnumber
  <1>4. SkipNumber(s, i) = CHOOSE j \in i..(Len(s) + 1) : Stops(j)
    BY DEF SkipNumber
  <1>5. SkipNumber(s, i) \in i..(Len(s) + 1) /\ Stops(SkipNumber(s, i))
    <2> HIDE DEF Stops
    <2>1. QED
      BY <1>3, <1>4
  <1>6. QED
    BY <1>5

LEMMA SkipNameStops ==
  ASSUME NEW s \in Text, NEW i \in 1..(Len(s) + 1)
  PROVE  SkipName(s, i) \in i..(Len(s) + 1)
  <1> DEFINE S == {m \in 1..Len(s) : isletter(s[m]) \/ isnumber(s[m])}
             Stops(k) == /\ ~isletter(Char(s, k)) /\ ~isnumber(Char(s, k))
                         /\ \A m \in i..(k - 1) : isletter(s[m]) \/ isnumber(s[m])
  <1>1. Len(s) \in Nat /\ Len(s) + 1 \notin S
    BY DEF Text
  <1>2. PICK k \in i..(Len(s) + 1) : k \notin S /\ \A m \in i..(k - 1) : m \in S
    <2> HIDE DEF S
    <2>1. QED
      BY <1>1, ScanStops
  <1>3. Stops(k)
    <2>1. \A m \in i..(k - 1) : isletter(s[m]) \/ isnumber(s[m])
      BY <1>2
    <2>2. k \in 1..(Len(s) + 1) /\ DOMAIN s = 1..Len(s)
      BY <1>1 DEF Text
    <2>3. CASE k = Len(s) + 1
      <3>1. Char(s, k) = 0
        BY <2>2, <2>3, <1>1 DEF Char
      <3>2. QED
        BY <2>1, <3>1 DEF isnumber, isletter, repeat
    <2>4. CASE k \in 1..Len(s)
      <3>1. Char(s, k) = s[k]
        BY <2>2, <2>4 DEF Char
      <3>2. ~isletter(s[k]) /\ ~isnumber(s[k])
        BY <1>2, <2>4
      <3>3. QED
        BY <2>1, <3>1, <3>2
    <2>5. QED
      BY <2>2, <2>3, <2>4, <1>1
  <1>4. SkipName(s, i) = CHOOSE j \in i..(Len(s) + 1) : Stops(j)
    BY DEF SkipName
  <1> HIDE DEF Stops
  <1>5. QED
    BY <1>3, <1>4

(* A character that is not the terminator is in the line. *)
LEMMA CharInLine ==
  ASSUME NEW s \in Text, NEW i, Char(s, i) # 0
  PROVE  /\ i \in 1..Len(s) /\ i + 1 \in 1..(Len(s) + 1)
         /\ i \in 1..(Len(s) + 1) /\ s[i] \in Int /\ Char(s, i) = s[i]
  BY DEF Char, Text

-----------------------------------------------------------------------------
(* Recursive functions.  Each has a predicate that says a function is the  *)
(* one defined, a proof that there is one, and what its value is.          *)
NumberRec(s, i, k, f) == f = [n \in i..k |-> IF n = i THEN 0 ELSE ToInt(10 * f[n - 1] + (s[n - 1] - 48))]

LEMMA NumberRecExists ==
  ASSUME NEW s, NEW i \in Nat, NEW k \in Nat, i <= k
  PROVE  \E f : NumberRec(s, i, k, f)
  <1> DEFINE T == {m \in Nat : i <= m /\ ~\E f : NumberRec(s, i, m, f)}
  <1> SUFFICES ASSUME T # {} PROVE FALSE
    OBVIOUS
  <1>1. PICK m \in T : \A n \in T : m <= n
    <2>1. T \in SUBSET Nat
      OBVIOUS
    <2> HIDE DEF T
    <2>2. QED
      BY <2>1, LeastNat
  <1>2. m # i
    <2>1. NumberRec(s, i, i, [n \in i..i |-> 0])
      BY DEF NumberRec
    <2>2. QED
      BY <2>1
  <1>3. m - 1 \in Nat /\ i <= m - 1 /\ m - 1 \notin T
    BY <1>1, <1>2
  <1>4. PICK f : NumberRec(s, i, m - 1, f)
    BY <1>3
  <1> DEFINE g == [n \in i..m |-> IF n = m THEN ToInt(10 * f[m - 1] + (s[m - 1] - 48)) ELSE f[n]]
             body(h, n) == IF n = i THEN 0 ELSE ToInt(10 * h[n - 1] + (s[n - 1] - 48))
  <1>5. \A n \in i..(m - 1) : f[n] = body(f, n)
    <2>1. f = [n \in i..(m - 1) |-> body(f, n)]
      BY <1>4 DEF NumberRec
    <2> HIDE DEF body
    <2>2. QED
      BY <2>1
  <1>6. ASSUME NEW n \in i..m PROVE g[n] = body(g, n)
    <2>1. CASE n = m
      BY <2>1, <1>2, <1>3
    <2>2. CASE n # m
      <3>1. /\ n \in i..(m - 1) /\ g[n] = f[n]
            /\ n # i => n - 1 \in i..m /\ n - 1 # m /\ g[n - 1] = f[n - 1]
        BY <2>2
      <3>2. f[n] = body(f, n)
        BY <3>1, <1>5
      <3> HIDE DEF g
      <3>3. QED
        BY <3>1, <3>2
    <2>3. QED
      BY <2>1, <2>2
  <1>7. NumberRec(s, i, m, g)
    <2>1. g = [n \in i..m |-> g[n]]
      OBVIOUS
    <2> HIDE DEF g, body
    <2>2. g = [n \in i..m |-> body(g, n)]
      BY <1>6, <2>1
    <2>3. QED
      BY <2>2 DEF NumberRec, body
  <1>8. QED
    BY <1>7

(* Every int is one. *)
LEMMA ToIntIsInt ==
  ASSUME NEW n \in Int
  PROVE  ToInt(n) \in Ints
  <1> DEFINE w == 2 * (INT_MAX + 1)
             q == n + INT_MAX + 1
  <1>1. INT_MAX \in Nat /\ w \in Nat \ {0} /\ q \in Int /\ w = 2 * (INT_MAX + 1)
    BY IntAssumption
  <1>2. ToInt(n) = (q % w) - (INT_MAX + 1)
    BY DEF ToInt
  <1> HIDE DEF w, q
  <1>3. q % w \in 0..(w - 1)
    BY <1>1
  <1>4. QED
    BY <1>1, <1>2, <1>3 DEF Ints

LEMMA NumberIsInt ==
  ASSUME NEW s \in Text, NEW i \in 1..(Len(s) + 1), NEW k \in i..(Len(s) + 1),
         \A m \in i..(k - 1) : isnumber(s[m])
  PROVE  Number(s, i, k) \in Ints
  <1> DEFINE f == CHOOSE f : NumberRec(s, i, k, f)
             body(n) == IF n = i THEN 0 ELSE ToInt(10 * f[n - 1] + (s[n - 1] - 48))
  <1>a. Len(s) \in Nat /\ i \in Nat /\ k \in Nat /\ i <= k
    BY DEF Text
  <1>1. NumberRec(s, i, k, f)
    BY <1>a, NumberRecExists, Zenon
  <1>2. Number(s, i, k) = f[k]
    BY Zenon DEF Number, NumberRec
  <1> HIDE DEF f
  <1>3. f = [n \in i..k |-> body(n)]
    BY <1>1 DEF NumberRec
  <1>4. \A n \in i..k : f[n] = body(n)
    <2> HIDE DEF body
    <2>1. QED
      BY <1>3
  <1> DEFINE T == {n \in i..k : f[n] \notin Ints}
  <1>5. T = {}
    <2> SUFFICES ASSUME T # {} PROVE FALSE
      OBVIOUS
    <2>1. PICK m \in T : \A n \in T : m <= n
      <3>1. T \in SUBSET Nat
        BY <1>a
      <3> HIDE DEF T
      <3>2. QED
        BY <3>1, LeastNat
    <2>2. m \in i..k /\ f[m] \notin Ints /\ f[m] = body(m)
      BY <1>4
    <2>3. m # i
      BY <2>2, IntAssumption DEF Ints
    <2>4. m - 1 \in i..k /\ m - 1 \in i..(k - 1) /\ m - 1 \notin T
      BY <2>1, <2>2, <2>3, <1>a
    <2>5. f[m - 1] \in Ints /\ s[m - 1] \in 48..57
      BY <2>4 DEF isnumber
    <2>6. f[m] = ToInt(10 * f[m - 1] + (s[m - 1] - 48))
      BY <2>2, <2>3
    <2>7. 10 * f[m - 1] + (s[m - 1] - 48) \in Int
      <3>1. \A a \in Ints, c \in 48..57 : 10 * a + (c - 48) \in Int
        BY IntAssumption DEF Ints
      <3>2. QED
        BY ONLY <2>5, <3>1
    <2>8. f[m] \in Ints
      BY <2>6, <2>7, ToIntIsInt
    <2>9. QED
      BY <2>2, <2>8
  <1>6. QED
    BY <1>2, <1>5, <1>a

(* What printf("%d") writes. *)
DecimalRec(n, f) ==
  f = [m \in 0..n |-> IF m < 10 THEN <<48 + m>> ELSE f[m \div 10] \o <<48 + (m % 10)>>]

LEMMA DecimalRecExists ==
  ASSUME NEW n \in Nat
  PROVE  \E f : DecimalRec(n, f)
  <1> DEFINE T == {m \in Nat : ~\E f : DecimalRec(m, f)}
  <1> SUFFICES ASSUME T # {} PROVE FALSE
    OBVIOUS
  <1>1. PICK m \in T : \A k \in T : m <= k
    <2>1. T \in SUBSET Nat
      OBVIOUS
    <2> HIDE DEF T
    <2>2. QED
      BY <2>1, LeastNat
  <1> DEFINE body(h, k) == IF k < 10 THEN <<48 + k>> ELSE h[k \div 10] \o <<48 + (k % 10)>>
  <1>2. m # 0
    <2> DEFINE g == [k \in 0..0 |-> <<48 + k>>]
    <2>1. g = [k \in 0..0 |-> body(g, k)]
      OBVIOUS
    <2> HIDE DEF g
    <2>2. DecimalRec(0, g)
      BY <2>1 DEF DecimalRec
    <2>3. QED
      BY <2>2
  <1>3. m - 1 \in Nat /\ m - 1 \notin T
    BY <1>1, <1>2
  <1>4. PICK f : DecimalRec(m - 1, f)
    BY <1>3
  <1> DEFINE g == [k \in 0..m |-> IF k = m THEN body(f, m) ELSE f[k]]
  <1>5. \A k \in 0..(m - 1) : f[k] = body(f, k)
    <2>1. f = [k \in 0..(m - 1) |-> body(f, k)]
      BY <1>4 DEF DecimalRec
    <2> HIDE DEF body
    <2>2. QED
      BY <2>1
  <1>6. ASSUME NEW k \in 0..m PROVE g[k] = body(g, k)
    <2>1. k >= 10 => k \div 10 \in 0..(k - 1)
      OBVIOUS
    <2>2. k >= 10 => g[k \div 10] = f[k \div 10]
      BY <2>1
    <2>3. body(g, k) = body(f, k)
      <3> HIDE DEF g
      <3>1. CASE k < 10
        BY <3>1
      <3>2. CASE k >= 10
        BY <3>2, <2>2
      <3>3. QED
        BY <3>1, <3>2
    <2>4. g[k] = body(f, k)
      <3> HIDE DEF body
      <3>1. QED
        BY <1>5, <1>3
    <2>5. QED
      BY <2>3, <2>4
  <1>7. DecimalRec(m, g)
    <2>1. g = [k \in 0..m |-> g[k]]
      OBVIOUS
    <2> HIDE DEF g, body
    <2>2. g = [k \in 0..m |-> body(g, k)]
      BY <1>6, <2>1
    <2>3. QED
      BY <2>2 DEF DecimalRec, body
  <1>8. QED
    BY <1>7

LEMMA DecimalIsText ==
  ASSUME NEW n \in Nat
  PROVE  Decimal(n) \in Text
  <1> DEFINE f == CHOOSE f : DecimalRec(n, f)
             body(m) == IF m < 10 THEN <<48 + m>> ELSE f[m \div 10] \o <<48 + (m % 10)>>
  <1>1. DecimalRec(n, f)
    BY DecimalRecExists, Zenon
  <1>2. Decimal(n) = f[n]
    BY Zenon DEF Decimal, DecimalRec
  <1> HIDE DEF f
  <1>3. f = [m \in 0..n |-> body(m)]
    BY <1>1 DEF DecimalRec
  <1>4. \A m \in 0..n : f[m] = body(m)
    <2> HIDE DEF body
    <2>1. QED
      BY <1>3
  <1> DEFINE T == {m \in 0..n : f[m] \notin Text}
  <1>5. T = {}
    <2> SUFFICES ASSUME T # {} PROVE FALSE
      OBVIOUS
    <2>1. PICK m \in T : \A k \in T : m <= k
      <3>1. T \in SUBSET Nat
        OBVIOUS
      <3> HIDE DEF T
      <3>2. QED
        BY <3>1, LeastNat
    <2>2. m \in 0..n /\ f[m] \notin Text /\ f[m] = body(m)
      BY <1>4
    <2>3. m >= 10
      BY <2>2 DEF Text
    <2>4. m \div 10 \in 0..n /\ ~(m <= m \div 10) /\ 48 + (m % 10) \in Int
      BY <2>2, <2>3
    <2>5. f[m \div 10] \in Text
      BY <2>1, <2>4
    <2>6. QED
      BY <2>2, <2>3, <2>4, <2>5 DEF Text
  <1>6. QED
    BY <1>2, <1>5

LEMMA PrintNumberIsText ==
  ASSUME NEW n \in Ints
  PROVE  PrintNumber(n) \in Text
  <1>1. CASE n < 0
    <2>1. -n \in Nat
      BY <1>1, IntAssumption DEF Ints
    <2>2. Decimal(-n) \in Text /\ <<MINUS>> \in Text
      BY <2>1, DecimalIsText DEF Text, MINUS
    <2>3. QED
      BY <1>1, <2>2 DEF PrintNumber, Text
  <1>2. CASE ~(n < 0)
    <2>1. n \in Nat
      BY <1>2, IntAssumption DEF Ints
    <2>2. QED
      BY <1>2, <2>1, DecimalIsText DEF PrintNumber
  <1>3. QED
    BY <1>1, <1>2

(* The concatenation of texts is a text. *)
FlattenRec(seqs, n, f) == f = [i \in 1..n |-> IF i = 1 THEN seqs[i] ELSE f[i - 1] \o seqs[i]]

LEMMA FlattenRecExists ==
  ASSUME NEW seqs, NEW n \in Nat, 1 <= n
  PROVE  \E f : FlattenRec(seqs, n, f)
  <1> DEFINE T == {m \in Nat : 1 <= m /\ ~\E f : FlattenRec(seqs, m, f)}
  <1> SUFFICES ASSUME T # {} PROVE FALSE
    OBVIOUS
  <1>1. PICK m \in T : \A k \in T : m <= k
    <2>1. T \in SUBSET Nat
      OBVIOUS
    <2> HIDE DEF T
    <2>2. QED
      BY <2>1, LeastNat
  <1>2. m # 1
    <2>1. FlattenRec(seqs, 1, [i \in 1..1 |-> seqs[1]])
      BY DEF FlattenRec
    <2>2. QED
      BY <2>1
  <1>3. m - 1 \in Nat /\ 1 <= m - 1 /\ m - 1 \notin T
    BY <1>1, <1>2
  <1>4. PICK f : FlattenRec(seqs, m - 1, f)
    BY <1>3
  <1> DEFINE g == [i \in 1..m |-> IF i = m THEN f[m - 1] \o seqs[m] ELSE f[i]]
             body(h, i) == IF i = 1 THEN seqs[i] ELSE h[i - 1] \o seqs[i]
  <1>5. \A i \in 1..(m - 1) : f[i] = body(f, i)
    <2>1. f = [i \in 1..(m - 1) |-> body(f, i)]
      BY <1>4 DEF FlattenRec
    <2> HIDE DEF body
    <2>2. QED
      BY <2>1
  <1>6. ASSUME NEW i \in 1..m PROVE g[i] = body(g, i)
    <2>1. CASE i = m
      <3> DEFINE last == f[m - 1] \o seqs[m]
      <3>1. m - 1 \in 1..m /\ m - 1 # m /\ g[m - 1] = f[m - 1] /\ g[m] = f[m - 1] \o seqs[m]
        <4> HIDE DEF last
        <4>1. g = [j \in 1..m |-> IF j = m THEN last ELSE f[j]]
          BY DEF last
        <4> HIDE DEF g
        <4>2. m - 1 \in 1..m /\ m - 1 # m /\ m \in 1..m
          BY <1>3
        <4>3. g[m - 1] = f[m - 1] /\ g[m] = last
          BY <4>1, <4>2
        <4>4. QED
          BY <4>2, <4>3 DEF last
      <3> HIDE DEF g
      <3>2. QED
        BY <3>1, <2>1, <1>2
    <2>2. CASE i # m
      <3>1. /\ i \in 1..(m - 1) /\ g[i] = f[i]
            /\ i # 1 => i - 1 \in 1..m /\ i - 1 # m /\ g[i - 1] = f[i - 1]
        BY <2>2
      <3>2. f[i] = body(f, i)
        BY <3>1, <1>5
      <3> HIDE DEF g
      <3>3. QED
        BY <3>1, <3>2
    <2>3. QED
      BY <2>1, <2>2
  <1>7. FlattenRec(seqs, m, g)
    <2>1. g = [i \in 1..m |-> g[i]]
      OBVIOUS
    <2> HIDE DEF g, body
    <2>2. g = [i \in 1..m |-> body(g, i)]
      BY <1>6, <2>1
    <2>3. QED
      BY <2>2 DEF FlattenRec, body
  <1>8. QED
    BY <1>7

LEMMA FlattenIsText ==
  ASSUME NEW seqs \in Seq(Text)
  PROVE  FlattenSeq(seqs) \in Text
  <1> DEFINE n == Len(seqs)
             f == CHOOSE f : FlattenRec(seqs, n, f)
             body(i) == IF i = 1 THEN seqs[i] ELSE f[i - 1] \o seqs[i]
  <1>a. n \in Nat /\ \A i \in 1..n : seqs[i] \in Text
    OBVIOUS
  <1>b. CASE n = 0
    <2>1. seqs = <<>> /\ FlattenSeq(seqs) = seqs
      BY <1>b DEF FlattenSeq
    <2>2. <<>> \in Text
      BY DEF Text
    <2>3. QED
      BY ONLY <2>1, <2>2
  <1>c. CASE n # 0
    <2>1. FlattenRec(seqs, n, f)
      <3>1. 1 <= n
        BY <1>a, <1>c
      <3>2. QED
        BY <3>1, <1>a, FlattenRecExists, Zenon
    <2>2. FlattenSeq(seqs) = f[n]
      BY <1>c, Zenon DEF FlattenSeq, FlattenRec
    <2> HIDE DEF f
    <2>3. f = [i \in 1..n |-> body(i)]
      BY <2>1 DEF FlattenRec
    <2>4. \A i \in 1..n : f[i] = body(i)
      <3> HIDE DEF body
      <3>1. QED
        BY <2>3
    <2> DEFINE T == {i \in 1..n : f[i] \notin Text}
    <2>5. T = {}
      <3> SUFFICES ASSUME T # {} PROVE FALSE
        OBVIOUS
      <3>1. PICK m \in T : \A k \in T : m <= k
        <4>1. T \in SUBSET Nat
          OBVIOUS
        <4> HIDE DEF T
        <4>2. QED
          BY <4>1, LeastNat
      <3>2. m \in 1..n /\ f[m] \notin Text /\ f[m] = body(m)
        BY <2>4
      <3>3. m # 1
        BY <3>2, <1>a
      <3>4. m - 1 \in 1..n /\ m - 1 \notin T
        BY <3>1, <3>2, <3>3, <1>a
      <3>5. f[m - 1] \in Text /\ seqs[m] \in Text /\ f[m] = f[m - 1] \o seqs[m]
        BY <3>2, <3>3, <3>4, <1>a
      <3>6. f[m] \in Text
        BY ONLY <3>5 DEF Text
      <3>7. QED
        BY <3>2, <3>6
    <2>6. n \in 1..n
      BY <1>a, <1>c
    <2>7. QED
      BY <2>2, <2>5, <2>6
  <1>d. QED
    BY <1>b, <1>c

-----------------------------------------------------------------------------
(* Literals. *)
Closing(s, k) == {q \in (k + 1)..Len(s) : s[q] = QUOTE}
LitAt(s, k, f) ==
  CASE Char(s, k) = QUOTE /\ Closing(s, k) # {} ->
         LET q == CHOOSE q \in Closing(s, k) : \A r \in Closing(s, k) : q <= r
         IN  [f[q + 1] EXCEPT !.text = SubSeq(s, k + 1, q - 1) \o @]
    [] isliteral(Char(s, k)) -> [f[k + 1] EXCEPT !.text = <<s[k]>> \o @]
    [] OTHER -> [end |-> k, text |-> <<>>, ok |-> Ends(Char(s, k))]
LitRec(s, i, f) == f = [k \in i..(Len(s) + 1) |-> LitAt(s, k, f)]

(* The three ways a literal goes on. *)
LEMMA LitCases ==
  ASSUME NEW s \in Text, NEW k \in 1..(Len(s) + 1)
  PROVE  \/ \E q \in (k + 1)..Len(s) : \A f :
              LitAt(s, k, f) = [f[q + 1] EXCEPT !.text = SubSeq(s, k + 1, q - 1) \o @]
         \/ k <= Len(s) /\ \A f : LitAt(s, k, f) = [f[k + 1] EXCEPT !.text = <<s[k]>> \o @]
         \/ \A f : LitAt(s, k, f) = [end |-> k, text |-> <<>>, ok |-> Ends(Char(s, k))]
  <1>a. Len(s) \in Nat
    BY DEF Text
  <1> DEFINE quote == Char(s, k) = QUOTE /\ Closing(s, k) # {}
             q == CHOOSE q \in Closing(s, k) : \A r \in Closing(s, k) : q <= r
  <1>1. CASE quote
    <2>1. Closing(s, k) \in SUBSET Nat
      BY <1>a DEF Closing
    <2>2. \E p \in Closing(s, k) : \A r \in Closing(s, k) : p <= r
      BY <1>1, <2>1, LeastNat
    <2>3. q \in Closing(s, k)
      BY <2>2, Zenon
    <2>4. ~isliteral(Char(s, k))
      BY <1>1 DEF isliteral, isletter, isnumber, QUOTE, MINUS, EQUAL, repeat
    <2>5. \A f : LitAt(s, k, f) = [f[q + 1] EXCEPT !.text = SubSeq(s, k + 1, q - 1) \o @]
      <3> TAKE f
      <3> DEFINE v == [f[q + 1] EXCEPT !.text = SubSeq(s, k + 1, q - 1) \o @]
                 w == [f[k + 1] EXCEPT !.text = <<s[k]>> \o @]
                 z == [end |-> k, text |-> <<>>, ok |-> Ends(Char(s, k))]
      <3>1. LitAt(s, k, f) = CASE quote -> v [] isliteral(Char(s, k)) -> w [] OTHER -> z
        BY DEF LitAt
      <3> HIDE DEF v, w, z, quote
      <3>2. LitAt(s, k, f) = v
        BY <3>1, <1>1, <2>4
      <3>3. QED
        BY <3>2 DEF v
    <2> HIDE DEF q
    <2>6. q \in (k + 1)..Len(s)
      BY <2>3 DEF Closing
    <2>7. QED
      BY <2>5, <2>6, Zenon
  <1>2. CASE ~quote /\ isliteral(Char(s, k))
    <2>1. Char(s, k) # 0
      <3>1. ~isliteral(0)
        BY DEF isliteral, isletter, isnumber, EQUAL, MINUS, repeat
      <3>2. QED
        BY <3>1, <1>2
    <2>2. k <= Len(s)
      BY <2>1, <1>a, CharInLine
    <2>3. \A f : LitAt(s, k, f) = [f[k + 1] EXCEPT !.text = <<s[k]>> \o @]
      <3> TAKE f
      <3> DEFINE v == [f[q + 1] EXCEPT !.text = SubSeq(s, k + 1, q - 1) \o @]
                 w == [f[k + 1] EXCEPT !.text = <<s[k]>> \o @]
                 z == [end |-> k, text |-> <<>>, ok |-> Ends(Char(s, k))]
      <3>1. LitAt(s, k, f) = CASE quote -> v [] isliteral(Char(s, k)) -> w [] OTHER -> z
        BY DEF LitAt
      <3> HIDE DEF v, w, z, quote
      <3>2. LitAt(s, k, f) = w
        BY <3>1, <1>2
      <3>3. QED
        BY <3>2 DEF w
    <2>4. QED
      BY <2>2, <2>3, Zenon
  <1>3. CASE ~quote /\ ~isliteral(Char(s, k))
    <2>1. \A f : LitAt(s, k, f) = [end |-> k, text |-> <<>>, ok |-> Ends(Char(s, k))]
      <3> TAKE f
      <3> DEFINE v == [f[q + 1] EXCEPT !.text = SubSeq(s, k + 1, q - 1) \o @]
                 w == [f[k + 1] EXCEPT !.text = <<s[k]>> \o @]
                 z == [end |-> k, text |-> <<>>, ok |-> Ends(Char(s, k))]
      <3>1. LitAt(s, k, f) = CASE quote -> v [] isliteral(Char(s, k)) -> w [] OTHER -> z
        BY DEF LitAt
      <3> HIDE DEF v, w, z, quote
      <3>2. LitAt(s, k, f) = z
        BY <3>1, <1>3
      <3>3. QED
        BY <3>2 DEF z
    <2>2. QED
      BY <2>1, Zenon
  <1>4. QED
    BY <1>1, <1>2, <1>3, Zenon

LEMMA LitAgrees ==
  ASSUME NEW s \in Text, NEW k \in 1..(Len(s) + 1), NEW f, NEW g,
         \A m \in (k + 1)..(Len(s) + 1) : f[m] = g[m]
  PROVE  LitAt(s, k, f) = LitAt(s, k, g)
  <1>a. Len(s) \in Nat
    BY DEF Text
  <1>1. CASE \E q \in (k + 1)..Len(s) : \A h :
               LitAt(s, k, h) = [h[q + 1] EXCEPT !.text = SubSeq(s, k + 1, q - 1) \o @]
    <2>1. PICK q \in (k + 1)..Len(s) : \A h :
                 LitAt(s, k, h) = [h[q + 1] EXCEPT !.text = SubSeq(s, k + 1, q - 1) \o @]
      BY <1>1, Zenon
    <2>2. f[q + 1] = g[q + 1]
      BY <1>a
    <2>3. QED
      BY <2>1, <2>2, Zenon
  <1>2. CASE k <= Len(s) /\ \A h : LitAt(s, k, h) = [h[k + 1] EXCEPT !.text = <<s[k]>> \o @]
    <2>1. k <= Len(s)
      BY <1>2, Zenon
    <2>2. f[k + 1] = g[k + 1]
      BY ONLY <2>1, <1>a, k \in 1..(Len(s) + 1), \A m \in (k + 1)..(Len(s) + 1) : f[m] = g[m]
    <2>3. QED
      BY <1>2, <2>2, Zenon
  <1>3. CASE \A h : LitAt(s, k, h) = [end |-> k, text |-> <<>>, ok |-> Ends(Char(s, k))]
    BY <1>3, Zenon
  <1>4. QED
    BY <1>1, <1>2, <1>3, LitCases, Zenon

LEMMA LitRecExists ==
  ASSUME NEW s \in Text, NEW i \in 1..(Len(s) + 1)
  PROVE  \E f : LitRec(s, i, f)
  <1> DEFINE n == Len(s) + 1
             T == {d \in Nat : d < n /\ ~\E f : LitRec(s, n - d, f)}
  <1>a. n \in Nat /\ n > 0
    BY DEF Text
  <1> SUFFICES ASSUME T # {} PROVE FALSE
    <2>1. n - i \in Nat /\ n - i < n /\ n - (n - i) = i
      BY <1>a
    <2> HIDE DEF n
    <2>2. QED
      BY <2>1
  <1>1. PICK d \in T : \A e \in T : d <= e
    <2>1. T \in SUBSET Nat
      OBVIOUS
    <2> HIDE DEF T
    <2>2. QED
      BY <2>1, LeastNat
  <1> DEFINE j == n - d
  <1>b. j \in 1..n /\ d \in Nat /\ ~\E f : LitRec(s, j, f)
    BY <1>a
  <1>2. \E f : \A k \in (j + 1)..n : f[k] = LitAt(s, k, f)
    <2>1. CASE d = 0
      <3>1. \A k \in (j + 1)..n : FALSE
        BY <2>1, <1>a
      <3>2. QED
        BY <3>1
    <2>2. CASE d # 0
      <3>1. d - 1 \in Nat /\ d - 1 < n /\ ~(d <= d - 1) /\ n - (d - 1) = j + 1
        BY <2>2, <1>a, <1>b
      <3>2. PICK f : LitRec(s, j + 1, f)
        BY <3>1, <1>1
      <3>3. f = [k \in (j + 1)..n |-> LitAt(s, k, f)]
        BY <3>2 DEF LitRec
      <3> HIDE DEF n, j, T
      <3>4. \A k \in (j + 1)..n : f[k] = LitAt(s, k, f)
        BY <3>3
      <3>5. QED
        BY <3>4, Zenon
    <2>3. QED
      BY <2>1, <2>2
  <1>3. PICK f : \A k \in (j + 1)..n : f[k] = LitAt(s, k, f)
    BY <1>2, Zenon
  <1> DEFINE g == [k \in j..n |-> IF k = j THEN LitAt(s, j, f) ELSE f[k]]
  <1> HIDE DEF T, j
  <1>4. \A k \in (j + 1)..n : k \in j..n /\ k # j /\ f[k] = g[k]
    BY <1>a, <1>b
  <1>5. ASSUME NEW k \in j..n PROVE g[k] = LitAt(s, k, g)
    <2>1. \A m \in (k + 1)..n : f[m] = g[m]
      BY <1>4, <1>b, <1>a
    <2>2. k \in 1..n
      BY <1>b, <1>a
    <2>3. LitAt(s, k, f) = LitAt(s, k, g)
      <3> HIDE DEF g
      <3>1. QED
        BY <2>1, <2>2, LitAgrees
    <2>4. CASE k = j
      <3>1. g[j] = LitAt(s, j, f)
        BY <1>b, <1>a
      <3> HIDE DEF g
      <3>2. QED
        BY <2>3, <2>4, <3>1
    <2>5. CASE k # j
      <3>1. k \in (j + 1)..n
        BY <2>5, <1>b, <1>a
      <3> HIDE DEF g
      <3>2. QED
        BY <3>1, <1>3, <1>4, <2>3
    <2>6. QED
      BY <2>4, <2>5
  <1>6. g = [k \in j..n |-> g[k]]
    OBVIOUS
  <1> HIDE DEF g
  <1>7. g = [k \in j..n |-> LitAt(s, k, g)]
    BY <1>5, <1>6
  <1>8. LitRec(s, j, g)
    BY <1>7 DEF LitRec
  <1>9. QED
    BY <1>8, <1>b

Literals(s) == [end : 1..(Len(s) + 1), text : Text, ok : BOOLEAN]

LEMMA LongerLiteral ==
  ASSUME NEW s, NEW r \in Literals(s), NEW u \in Text
  PROVE  [r EXCEPT !.text = u \o @] \in Literals(s)
  <1>1. r = [end |-> r.end, text |-> r.text, ok |-> r.ok]
    BY DEF Literals
  <1>2. r.end \in 1..(Len(s) + 1) /\ r.text \in Text /\ r.ok \in BOOLEAN
    BY DEF Literals
  <1>3. u \o r.text \in Text
    BY <1>2 DEF Text
  <1> DEFINE longer == u \o r.text
  <1> HIDE DEF longer
  <1>4. [r EXCEPT !.text = longer] = [end |-> r.end, text |-> longer, ok |-> r.ok]
    BY <1>1
  <1>5. [end |-> r.end, text |-> longer, ok |-> r.ok] \in Literals(s)
    BY <1>2, <1>3 DEF Literals, longer
  <1>6. QED
    BY <1>4, <1>5 DEF longer

(* parse_literal stops in the line and gives a text. *)
LEMMA LiteralParsed ==
  ASSUME NEW s \in Text, NEW i \in 1..(Len(s) + 1)
  PROVE  parse_literal(s, i) \in Literals(s)
  <1> DEFINE n == Len(s) + 1
             f == CHOOSE f : LitRec(s, i, f)
             T == {d \in Nat : d <= n - i /\ f[n - d] \notin Literals(s)}
  <1>a. n \in Nat /\ n > 0 /\ Len(s) \in Nat
    BY DEF Text
  <1>1. LitRec(s, i, f)
    BY LitRecExists, Zenon
  <1>2. parse_literal(s, i) = f[i]
    BY Zenon DEF parse_literal, LitRec, LitAt, Closing
  <1> HIDE DEF f
  <1>3. \A k \in i..n : f[k] = LitAt(s, k, f)
    <2>1. f = [k \in i..n |-> LitAt(s, k, f)]
      BY <1>1 DEF LitRec
    <2>2. QED
      BY <2>1
  <1>4. T = {}
    <2> SUFFICES ASSUME T # {} PROVE FALSE
      OBVIOUS
    <2>1. PICK d \in T : \A e \in T : d <= e
      <3>1. T \in SUBSET Nat
        OBVIOUS
      <3> HIDE DEF T
      <3>2. QED
        BY <3>1, LeastNat
    <2> DEFINE k == n - d
    <2>2. k \in i..n /\ k \in 1..n /\ f[k] \notin Literals(s) /\ d \in Nat
      BY <1>a
    <2>3. ASSUME NEW m \in (k + 1)..n PROVE f[m] \in Literals(s)
      <3>1. n - m \in Nat /\ n - m <= n - i /\ ~(d <= n - m) /\ n - (n - m) = m
        BY <1>a, <2>2
      <3> HIDE DEF n
      <3>2. QED
        BY <3>1, <2>1
    <2> HIDE DEF T, k
    <2>4. f[k] = LitAt(s, k, f)
      BY <2>2, <1>3
    <2>5. CASE \E q \in (k + 1)..Len(s) : \A h :
                 LitAt(s, k, h) = [h[q + 1] EXCEPT !.text = SubSeq(s, k + 1, q - 1) \o @]
      <3>1. PICK q \in (k + 1)..Len(s) : \A h :
                   LitAt(s, k, h) = [h[q + 1] EXCEPT !.text = SubSeq(s, k + 1, q - 1) \o @]
        BY <2>5, Zenon
      <3>2. f[k] = [f[q + 1] EXCEPT !.text = SubSeq(s, k + 1, q - 1) \o @]
        BY <3>1, <2>4, Zenon
      <3>3. q + 1 \in (k + 1)..n
        BY <1>a, <2>2
      <3>4. f[q + 1] \in Literals(s)
        BY <2>3, <3>3
      <3>5. SubSeq(s, k + 1, q - 1) \in Text
        BY <1>a, <2>2 DEF Text
      <3> DEFINE r == f[q + 1]
                 u == SubSeq(s, k + 1, q - 1)
      <3>6. r \in Literals(s) /\ u \in Text /\ f[k] = [r EXCEPT !.text = u \o @]
        BY <3>2, <3>4, <3>5
      <3> HIDE DEF r, u
      <3>7. f[k] \in Literals(s)
        BY ONLY <3>6, LongerLiteral
      <3>8. QED
        BY <3>7, <2>2
    <2>6. CASE k <= Len(s) /\ \A h : LitAt(s, k, h) = [h[k + 1] EXCEPT !.text = <<s[k]>> \o @]
      <3>1. f[k] = [f[k + 1] EXCEPT !.text = <<s[k]>> \o @]
        BY <2>4, <2>6, Zenon
      <3>2. k + 1 \in (k + 1)..n /\ <<s[k]>> \in Text
        BY <1>a, <2>2, <2>6 DEF Text
      <3>3. f[k + 1] \in Literals(s)
        BY <2>3, <3>2
      <3> DEFINE r == f[k + 1]
                 u == <<s[k]>>
      <3>4. r \in Literals(s) /\ u \in Text /\ f[k] = [r EXCEPT !.text = u \o @]
        BY <3>1, <3>2, <3>3
      <3> HIDE DEF r, u
      <3>5. f[k] \in Literals(s)
        BY ONLY <3>4, LongerLiteral
      <3>6. QED
        BY <3>5, <2>2
    <2>7. CASE \A h : LitAt(s, k, h) = [end |-> k, text |-> <<>>, ok |-> Ends(Char(s, k))]
      <3>1. f[k] = [end |-> k, text |-> <<>>, ok |-> Ends(Char(s, k))]
        BY <2>4, <2>7, Zenon
      <3>2. Ends(Char(s, k)) \in BOOLEAN /\ <<>> \in Text
        BY DEF Ends, isblank, issep, Text
      <3>3. QED
        BY <3>1, <3>2, <2>2 DEF Literals
    <2>8. QED
      BY <2>2, <2>5, <2>6, <2>7, LitCases, Zenon
  <1>5. QED
    <2>1. n - i \in Nat /\ n - i <= n - i /\ n - (n - i) = i
      BY <1>a
    <2> HIDE DEF n
    <2>2. QED
      BY <1>2, <1>4, <2>1

-----------------------------------------------------------------------------
(* The table of variables. *)
LEMMA PrefixOfItself ==
  ASSUME NEW s \in Text
  PROVE  IsPrefix(s, s)
  <1>1. Len(s) \in Nat
    BY DEF Text
  <1>2. QED
    BY <1>1 DEF IsPrefix

(* What parse_variable does to the table: a name that begins the name of a *)
(* variable finds the first such one, any other name is a new variable.    *)
Looked(v, table) ==
  /\ v.name \in Text
  /\ \/ v.names = table /\ FirstMatch(v.name, v.var, table)
     \/ /\ v.names = Append(table, v.name) /\ v.var = Len(table) + 1
        /\ \A w \in DOMAIN table : ~IsPrefix(v.name, table[w])

LEMMA VariableParsed ==
  ASSUME NEW s \in Text, NEW i, Char(s, i) # 0, NEW table \in Seq(Text)
  PROVE  /\ parse_variable(s, i, table).end \in 1..(Len(s) + 1)
         /\ Looked(parse_variable(s, i, table), table)
  <1> DEFINE k == SkipName(s, i + 1)
             name == SubSeq(s, i + 1, k - 1)
             found == {v \in DOMAIN table : Matches(name, table[v])}
             least == CHOOSE v \in found : \A w \in found : v <= w
             v == parse_variable(s, i, table)
  <1>a. Len(s) \in Nat /\ i \in 1..Len(s) /\ i + 1 \in 1..(Len(s) + 1)
    BY CharInLine DEF Text
  <1>1. k \in (i + 1)..(Len(s) + 1)
    BY <1>a, SkipNameStops
  <1>2. /\ v.end = k /\ v.name = name
        /\ v.var = IF found = {} THEN Len(table) + 1 ELSE least
        /\ v.names = IF found = {} THEN Append(table, name) ELSE table
    BY DEF parse_variable
  <1> HIDE DEF k, v
  <1>3. name \in Text /\ k \in 1..(Len(s) + 1)
    BY <1>a, <1>1 DEF Text
  <1> HIDE DEF name
  <1>4. found = {w \in DOMAIN table : IsPrefix(name, table[w])}
    BY DEF Matches
  <1>5. CASE found = {}
    <2>1. \A w \in DOMAIN table : ~IsPrefix(name, table[w])
      BY <1>4, <1>5
    <2> HIDE DEF found, least
    <2>2. QED
      BY <1>2, <1>3, <1>5, <2>1 DEF Looked, v
  <1>6. CASE found # {}
    <2>1. found \in SUBSET Nat
      OBVIOUS
    <2>2. \E w \in found : \A x \in found : w <= x
      <3> HIDE DEF found
      <3>1. QED
        BY <2>1, <1>6, LeastNat
    <2>3. least \in found /\ \A x \in found : least <= x
      BY <2>2, Zenon
    <2> HIDE DEF least
    <2>4. FirstMatch(name, least, table)
      BY <1>3, <1>4, <2>3 DEF FirstMatch
    <2> HIDE DEF found
    <2>5. QED
      BY <1>2, <1>3, <1>6, <2>4 DEF Looked, v
  <1>7. QED
    BY <1>5, <1>6

LEMMA TableGrows ==
  ASSUME NEW table \in Seq(Text), NEW v, Looked(v, table)
  PROVE  /\ v.names \in Seq(Text) /\ Len(v.names) \in Nat /\ Len(table) \in Nat
         /\ Len(table) <= Len(v.names) /\ v.var \in 1..Len(v.names)
  <1>1. CASE v.names = table /\ FirstMatch(v.name, v.var, table)
    BY <1>1 DEF FirstMatch
  <1>2. CASE v.names = Append(table, v.name) /\ v.var = Len(table) + 1
    <2>1. v.name \in Text
      BY DEF Looked
    <2>2. QED
      BY <1>2, <2>1
  <1>3. QED
    BY <1>1, <1>2 DEF Looked

(* A lookup leaves the meaning of the names read before as it was. *)
LEMMA NamesKept ==
  ASSUME NEW table \in Seq(Text), NEW v, Looked(v, table), NEW read, NamesIn(read, table)
  PROVE  NamesIn(read \cup {<<v.name, v.var>>}, v.names)
  <1> DEFINE new == <<v.name, v.var>>
  <1>a. new = <<new[1], new[2]>> /\ new[1] = v.name /\ new[2] = v.var
    OBVIOUS
  <1>1. CASE v.names = table /\ FirstMatch(v.name, v.var, table)
    <2> HIDE DEF new
    <2>1. \A r \in read \cup {new} : r = <<r[1], r[2]>> /\ FirstMatch(r[1], r[2], table)
      BY <1>1, <1>a DEF NamesIn
    <2>2. \A w \in DOMAIN table : <<table[w], w>> \in read \cup {new}
      BY DEF NamesIn
    <2>3. NamesIn(read \cup {new}, table)
      BY <2>1, <2>2, Zenon DEF NamesIn
    <2>4. QED
      BY <2>3, <1>1 DEF new
  <1>2. CASE /\ v.names = Append(table, v.name) /\ v.var = Len(table) + 1
             /\ \A w \in DOMAIN table : ~IsPrefix(v.name, table[w])
    <2> DEFINE longer == Append(table, v.name)
               n == Len(table) + 1
    <2>1. v.name \in Text
      BY DEF Looked
    <2>2. /\ n \in Nat /\ n \in 1..n /\ DOMAIN table = 1..(n - 1) /\ DOMAIN longer = 1..n /\ longer[n] = v.name
          /\ \A w \in 1..(n - 1) : longer[w] = table[w]
      BY <2>1
    <2> HIDE DEF longer, n, new
    <2>3. IsPrefix(v.name, v.name)
      BY <2>1, PrefixOfItself
    <2>4. FirstMatch(v.name, n, longer)
      <3>1. \A w \in 1..n : IsPrefix(v.name, longer[w]) => n <= w
        BY <2>2, <1>2
      <3>2. QED
        BY <2>1, <2>2, <2>3, <3>1 DEF FirstMatch
    <2>5. ASSUME NEW r \in read PROVE r = <<r[1], r[2]>> /\ FirstMatch(r[1], r[2], longer)
      <3>1. r = <<r[1], r[2]>> /\ FirstMatch(r[1], r[2], table)
        BY DEF NamesIn
      <3>2. /\ r[1] \in Text /\ r[2] \in 1..(n - 1) /\ IsPrefix(r[1], table[r[2]])
            /\ \A w \in 1..(n - 1) : IsPrefix(r[1], table[w]) => r[2] <= w
        BY <3>1, <2>2 DEF FirstMatch
      <3>3. \A w \in 1..n : IsPrefix(r[1], longer[w]) => r[2] <= w
        BY <3>2, <2>2
      <3>4. r[2] \in 1..n /\ IsPrefix(r[1], longer[r[2]])
        BY <3>2, <2>2
      <3>5. QED
        BY <3>1, <3>2, <3>3, <3>4, <2>2 DEF FirstMatch
    <2>6. v.var = n
      BY <1>2 DEF n
    <2>7. \A r \in read \cup {new} : r = <<r[1], r[2]>> /\ FirstMatch(r[1], r[2], longer)
      BY <2>4, <2>5, <2>6, <1>a
    <2>8. ASSUME NEW w \in DOMAIN longer PROVE <<longer[w], w>> \in read \cup {new}
      <3>1. CASE w = n
        BY <3>1, <2>2, <2>6 DEF new
      <3>2. CASE w # n
        <4>1. w \in 1..(n - 1) /\ longer[w] = table[w]
          BY <3>2, <2>2
        <4>2. <<table[w], w>> \in read
          BY <4>1, <2>2 DEF NamesIn
        <4>3. QED
          BY <4>1, <4>2
      <3>3. QED
        BY <3>1, <3>2
    <2>9. NamesIn(read \cup {new}, longer)
      BY <2>7, <2>8, Zenon DEF NamesIn
    <2>10. QED
      BY <2>9, <1>2 DEF new, longer
  <1>3. QED
    BY <1>1, <1>2 DEF Looked

-----------------------------------------------------------------------------
(* What is parsed stays well formed when the table grows, and is printed   *)
(* as a text.                                                              *)
LEMMA LargerTable ==
  ASSUME NEW m \in Nat, NEW n \in Nat, m <= n
  PROVE  Commands(m) \subseteq Commands(n) /\ Groups(m) \subseteq Groups(n)
  <1>1. Arguments(m) \subseteq Arguments(n)
    BY DEF Arguments
  <1>2. Seq(Arguments(m)) \subseteq Seq(Arguments(n))
    BY <1>1
  <1>3. 1..m \cup {NONE} \subseteq 1..n \cup {NONE}
    OBVIOUS
  <1>4. Commands(m) \subseteq Commands(n)
    BY <1>2, <1>3 DEF Commands
  <1>5. Seq(Commands(m)) \subseteq Seq(Commands(n))
    BY <1>4
  <1>6. Groups(m) \subseteq Groups(n)
    BY <1>3, <1>5 DEF Groups
  <1>7. QED
    BY <1>4, <1>6

LEMMA JoinedTexts ==
  ASSUME NEW s \in Text, NEW t \in Text
  PROVE  s \o t \in Text
  BY DEF Text

LEMMA VariablePrinted ==
  ASSUME NEW table \in Seq(Text), NEW v \in 1..Len(table)
  PROVE  Variable(v, table) \in Text
  <1>1. <<DOLLAR>> \in Text /\ table[v] \in Text
    BY DEF Text, DOLLAR
  <1>2. QED
    BY <1>1, JoinedTexts DEF Variable

LEMMA QuotedIsText ==
  ASSUME NEW s \in Text
  PROVE  Quoted(s) \in Text
  <1>1. <<QUOTE>> \in Text
    BY DEF Text, QUOTE
  <1>2. QED
    BY <1>1, JoinedTexts DEF Quoted

LEMMA CommandPrinted ==
  ASSUME NEW table \in Seq(Text), NEW c \in Commands(Len(table))
  PROVE  PrintCommand(c, table) \in Text
  <1> DEFINE given == c.arguments
             n == Len(table)
             piece(k) == <<SPACE>> \o IF given[k].kind = "LITERAL" THEN Quoted(given[k].value)
                                      ELSE Variable(given[k].value, table)
             pieces == [k \in DOMAIN given |-> piece(k)]
             pid == IF c.pid_to = NONE THEN <<>> ELSE <<SPACE, AT, SPACE>> \o Variable(c.pid_to, table)
  <1>1. /\ c.program \in Text /\ given \in Seq(Arguments(n)) /\ c.pid_to \in 1..n \cup {NONE}
    BY DEF Commands
  <1>2. ASSUME NEW k \in DOMAIN given PROVE piece(k) \in Text
    <2>1. given[k] \in Arguments(n)
      BY <1>1
    <2>2. <<SPACE>> \in Text
      BY DEF Text, SPACE
    <2>3. CASE given[k].kind = "LITERAL"
      <3>1. given[k].value \in Text
        BY <2>1, <2>3 DEF Arguments
      <3>2. Quoted(given[k].value) \in Text
        BY <3>1, QuotedIsText
      <3>3. QED
        BY <2>2, <2>3, <3>2, JoinedTexts
    <2>4. CASE given[k].kind # "LITERAL"
      <3>1. given[k].value \in 1..n
        BY <2>1, <2>4 DEF Arguments
      <3>2. Variable(given[k].value, table) \in Text
        BY <3>1, VariablePrinted
      <3>3. QED
        BY <2>2, <2>4, <3>2, JoinedTexts
    <2>5. QED
      BY <2>3, <2>4
  <1>3. pieces \in Seq(Text)
    <2>1. Len(given) \in Nat /\ DOMAIN given = 1..Len(given)
      BY <1>1
    <2> HIDE DEF piece
    <2>2. QED
      BY <1>2, <2>1
  <1>4. FlattenSeq(pieces) \in Text
    <2> HIDE DEF pieces
    <2>1. QED
      BY <1>3, FlattenIsText
  <1>5. pid \in Text
    <2>1. CASE c.pid_to = NONE
      BY <2>1 DEF Text
    <2>2. CASE c.pid_to # NONE
      <3>1. Variable(c.pid_to, table) \in Text
        BY <2>2, <1>1, VariablePrinted
      <3>2. <<SPACE, AT, SPACE>> \in Text
        BY DEF Text, SPACE, AT
      <3>3. QED
        BY <2>2, <3>1, <3>2, JoinedTexts
    <2>3. QED
      BY <2>1, <2>2
  <1>6. PrintCommand(c, table) = Quoted(c.program) \o FlattenSeq(pieces) \o pid
    BY DEF PrintCommand
  <1>7. Quoted(c.program) \in Text
    BY <1>1, QuotedIsText
  <1> HIDE DEF pieces, pid
  <1>8. Quoted(c.program) \o FlattenSeq(pieces) \in Text
    BY <1>4, <1>7, JoinedTexts
  <1>9. QED
    BY <1>5, <1>6, <1>8, JoinedTexts

LEMMA GroupPrinted ==
  ASSUME NEW table \in Seq(Text), NEW g \in Groups(Len(table))
  PROVE  PrintGroup(g, table) \in Text
  <1> DEFINE n == Len(table)
             times == IF g.repeats = 1 THEN <<>> ELSE <<repeat, SPACE>> \o PrintNumber(g.repeats) \o <<SPACE>>
             result == IF g.result_to = NONE THEN <<>>
                       ELSE Variable(g.result_to, table) \o <<SPACE, EQUAL, SPACE>>
             combiner(j) == IF j = 1 THEN <<>>
                            ELSE IF g.mode = "AND" THEN <<SPACE, BAR, SPACE>> ELSE <<SPACE, BAR, BAR, SPACE>>
             piece(j) == combiner(j) \o PrintCommand(g.commands[j], table)
             pieces == [j \in DOMAIN g.commands |-> piece(j)]
  <1>1. /\ g.repeats \in Ints /\ g.result_to \in 1..n \cup {NONE} /\ g.commands \in Seq(Commands(n))
    BY DEF Groups
  <1>2. /\ <<>> \in Text /\ <<repeat, SPACE>> \in Text /\ <<SPACE>> \in Text /\ <<SPACE, EQUAL, SPACE>> \in Text
        /\ <<SPACE, BAR, SPACE>> \in Text /\ <<SPACE, BAR, BAR, SPACE>> \in Text
    BY DEF Text, SPACE, EQUAL, BAR, repeat
  <1>3. times \in Text
    <2>1. PrintNumber(g.repeats) \in Text
      BY <1>1, PrintNumberIsText
    <2>2. <<repeat, SPACE>> \o PrintNumber(g.repeats) \in Text
      BY <2>1, <1>2, JoinedTexts
    <2>3. <<repeat, SPACE>> \o PrintNumber(g.repeats) \o <<SPACE>> \in Text
      BY <2>2, <1>2, JoinedTexts
    <2>4. QED
      BY <2>3, <1>2
  <1>4. result \in Text
    <2>1. CASE g.result_to = NONE
      BY <2>1, <1>2
    <2>2. CASE g.result_to # NONE
      <3>1. Variable(g.result_to, table) \in Text
        BY <2>2, <1>1, VariablePrinted
      <3>2. QED
        BY <2>2, <3>1, <1>2, JoinedTexts
    <2>3. QED
      BY <2>1, <2>2
  <1>5. ASSUME NEW j \in DOMAIN g.commands PROVE piece(j) \in Text
    <2>1. g.commands[j] \in Commands(n)
      BY <1>1
    <2>2. PrintCommand(g.commands[j], table) \in Text
      BY <2>1, CommandPrinted
    <2>3. combiner(j) \in Text
      BY <1>2
    <2> HIDE DEF combiner
    <2>4. QED
      BY <2>2, <2>3, JoinedTexts
  <1>6. pieces \in Seq(Text)
    <2>1. Len(g.commands) \in Nat /\ DOMAIN g.commands = 1..Len(g.commands)
      BY <1>1
    <2> HIDE DEF piece
    <2>2. QED
      BY <1>5, <2>1
  <1>7. FlattenSeq(pieces) \in Text
    <2> HIDE DEF pieces
    <2>1. QED
      BY <1>6, FlattenIsText
  <1>8. PrintGroup(g, table) = times \o result \o FlattenSeq(pieces)
    BY DEF PrintGroup
  <1> HIDE DEF times, result, pieces
  <1>9. times \o result \in Text
    BY <1>3, <1>4, JoinedTexts
  <1>10. QED
    BY <1>7, <1>8, <1>9, JoinedTexts

LEMMA ScriptPrinted ==
  ASSUME NEW table \in Seq(Text), NEW scr \in Seq(Groups(Len(table)))
  PROVE  print_script(scr, table) \in Seq(Text)
  <1>1. ASSUME NEW i \in DOMAIN scr PROVE PrintGroup(scr[i], table) \in Text
    <2>1. scr[i] \in Groups(Len(table))
      OBVIOUS
    <2>2. QED
      BY <2>1, GroupPrinted
  <1>2. Len(scr) \in Nat /\ DOMAIN scr = 1..Len(scr)
    OBVIOUS
  <1>3. QED
    BY <1>1, <1>2 DEF print_script

-----------------------------------------------------------------------------
(* The steps of the parser. *)
LEMMA ParseInitially ==
  ASSUME ParseInit
  PROVE  ParseInv
  <1>1. file \in Seq(Text)
    BY ScriptAssumption DEF ParseInit, Text
  <1>2. Parsed
    BY <1>1 DEF Parsed, ParseInit, ParseIdle, Text
  <1>3. Named
    BY DEF Named, NamesIn, ParseInit, ParseIdle
  <1>4. QED
    BY <1>2, <1>3 DEF ParseInv

LEMMA FailsKeeps ==
  ASSUME ParseInv, Fails
  PROVE  ParseInv'
  <1>1. Parsed'
    BY DEF ParseInv, Parsed, Fails
  <1>2. Named'
    BY DEF ParseInv, Named, NamesIn, FirstMatch, Fails
  <1>3. QED
    BY <1>1, <1>2 DEF ParseInv

(* A step that does not look a name up leaves the names as they are. *)
LEMMA NamedUnchanged ==
  ASSUME Named, UNCHANGED <<names, refs>>
  PROVE  Named'
  BY DEF Named, NamesIn, FirstMatch

LEMMA ReadLineKeeps ==
  ASSUME ParseInv, ReadLine
  PROVE  ParseInv'
  <1> DEFINE line == file[lines + 1]
             b == skip_space(line, 1)
  <1>a. Parsed /\ Named
    BY DEF ParseInv
  <1>1. line \in Text /\ lines + 1 \in 0..Len(file)
    BY <1>a DEF Parsed, ReadLine
  <1>2. b \in 1..(Len(line) + 1)
    <2>1. 1 \in 1..(Len(line) + 1)
      BY <1>1 DEF Text
    <2> HIDE DEF line
    <2>2. QED
      BY <1>1, <2>1, SkipSpaceStops
  <1>3. CASE ~Fails
    <2>1. /\ lines' = lines + 1
          /\ \/ UNCHANGED <<text, at, step>>
             \/ text' = line /\ at' = b /\ step' = "group"
          /\ UNCHANGED <<file, names, refs, group, command, groups, printed>>
      BY <1>3 DEF ReadLine
    <2> HIDE DEF line, b
    <2>2. Parsed'
      BY <1>1, <1>2, <1>a, <2>1 DEF Parsed
    <2>3. QED
      BY <2>1, <2>2, <1>a, NamedUnchanged DEF ParseInv
  <1>4. QED
    BY <1>3, FailsKeeps

LEMMA EndOfFileKeeps ==
  ASSUME ParseInv, EndOfFile
  PROVE  ParseInv'
  <1>1. Parsed'
    BY DEF ParseInv, Parsed, EndOfFile
  <1>2. QED
    BY <1>1, NamedUnchanged DEF ParseInv, EndOfFile

(* The parts of Parsed that depend on the table, for the table after a     *)
(* lookup.                                                                 *)
LEMMA LookupKeeps ==
  ASSUME ParseInv, NEW v, Looked(v, names), names' = v.names, refs' = refs \cup {<<v.name, v.var>>}
  PROVE  /\ Named' /\ names' \in Seq(Text) /\ v.var \in 1..Len(names')
         /\ Groups(Len(names)) \subseteq Groups(Len(names'))
         /\ Commands(Len(names)) \subseteq Commands(Len(names'))
  <1>1. names \in Seq(Text) /\ NamesIn(refs, names)
    BY DEF ParseInv, Parsed, Named
  <1>2. NamesIn(refs \cup {<<v.name, v.var>>}, v.names)
    BY <1>1, NamesKept
  <1>3. Named'
    BY <1>2 DEF Named, NamesIn, FirstMatch
  <1>4. /\ v.names \in Seq(Text) /\ Len(v.names) \in Nat /\ Len(names) \in Nat
        /\ Len(names) <= Len(v.names) /\ v.var \in 1..Len(v.names)
    BY <1>1, TableGrows
  <1>5. QED
    BY <1>3, <1>4, LargerTable

LEMMA StartGroupKeeps ==
  ASSUME ParseInv, StartGroup
  PROVE  ParseInv'
  <1> DEFINE repeated == Char(text, at) = repeat /\ Char(text, at + 1) = SPACE
             digits == skip_space(text, at + 2)
             after == SkipNumber(text, digits)
             number == digits < after /\ isblank(Char(text, after))
             b == IF repeated THEN skip_space(text, after) ELSE at
             v == parse_variable(text, b, names)
             eq == skip_space(text, v.end)
             start == IF Char(text, b) = DOLLAR THEN skip_space(text, eq + 1) ELSE b
             times == IF repeated THEN Number(text, digits, after) ELSE 1
             opened(result) ==
               /\ group' = [mode |-> "SINGLE", repeats |-> times, result_to |-> result, commands |-> <<>>]
               /\ at' = start /\ step' = "command"
  <1>a. /\ Parsed /\ Named
        /\ text \in Text /\ Len(text) \in Nat /\ at \in 1..(Len(text) + 1) /\ names \in Seq(Text)
    BY DEF ParseInv, Parsed, Text
  <1>1. b \in 1..(Len(text) + 1) /\ times \in Ints
    <2>1. CASE repeated
      <3>1. Char(text, at + 1) # 0
        BY <2>1 DEF SPACE
      <3>2. (at + 1) + 1 \in 1..(Len(text) + 1)
        <4> DEFINE next == at + 1
        <4>1. Char(text, next) # 0
          BY <3>1
        <4> HIDE DEF next
        <4>2. next + 1 \in 1..(Len(text) + 1)
          BY <4>1, <1>a, CharInLine
        <4>3. QED
          BY <4>2 DEF next
      <3>3. at + 2 \in 1..(Len(text) + 1)
        BY <3>2, <1>a
      <3>4. digits \in 1..(Len(text) + 1)
        BY <3>3, <1>a, SkipSpaceStops
      <3> HIDE DEF digits
      <3>5. after \in digits..(Len(text) + 1) /\ \A m \in digits..(after - 1) : isnumber(text[m])
        BY <3>4, <1>a, SkipNumberStops
      <3> HIDE DEF after
      <3>6. after \in 1..(Len(text) + 1)
        BY <3>4, <3>5, <1>a
      <3>7. skip_space(text, after) \in 1..(Len(text) + 1)
        BY <3>6, <1>a, SkipSpaceStops
      <3>8. Number(text, digits, after) \in Ints
        BY <3>4, <3>5, <1>a, NumberIsInt
      <3>9. QED
        BY <2>1, <3>7, <3>8
    <2>2. CASE ~repeated
      BY <2>2, <1>a, IntAssumption DEF Ints
    <2>3. QED
      BY <2>1, <2>2
  <1>2. \/ Fails
        \/ /\ Char(text, b) = DOLLAR /\ Char(text, eq) = EQUAL
           /\ names' = v.names /\ refs' = refs \cup {<<v.name, v.var>>}
           /\ opened(v.var)
           /\ UNCHANGED <<file, lines, text, command, groups, printed>>
        \/ /\ Char(text, b) # DOLLAR
           /\ opened(NONE) /\ UNCHANGED <<file, lines, text, names, refs, command, groups, printed>>
    BY DEF StartGroup
  <1> HIDE DEF repeated, digits, after, number, times, b
  <1>3. CASE /\ Char(text, b) = DOLLAR /\ Char(text, eq) = EQUAL
             /\ names' = v.names /\ refs' = refs \cup {<<v.name, v.var>>}
             /\ opened(v.var)
             /\ UNCHANGED <<file, lines, text, command, groups, printed>>
    <2>1. Char(text, b) # 0 /\ Char(text, eq) # 0
      BY <1>3 DEF DOLLAR, EQUAL
    <2>2. v.end \in 1..(Len(text) + 1) /\ Looked(v, names)
      BY <2>1, <1>a, VariableParsed
    <2> HIDE DEF v
    <2>3. eq + 1 \in 1..(Len(text) + 1)
      <3> HIDE DEF eq
      <3>1. QED
        BY <2>1, <1>a, CharInLine
    <2>4. start \in 1..(Len(text) + 1)
      <3> HIDE DEF eq
      <3>1. skip_space(text, eq + 1) \in 1..(Len(text) + 1)
        BY <2>3, <1>a, SkipSpaceStops
      <3>2. QED
        BY <3>1, <1>3
    <2>5. /\ Named' /\ names' \in Seq(Text) /\ v.var \in 1..Len(names')
          /\ Groups(Len(names)) \subseteq Groups(Len(names'))
      <3>1. names' = v.names /\ refs' = refs \cup {<<v.name, v.var>>}
        BY <1>3
      <3>2. QED
        BY <2>2, <3>1, LookupKeeps
    <2> HIDE DEF start, eq
    <2>6. group' \in Groups(Len(names'))
      <3>1. v.var \in 1..Len(names') \cup {NONE} /\ <<>> \in Seq(Commands(Len(names')))
        BY <2>5
      <3>2. group' = [mode |-> "SINGLE", repeats |-> times, result_to |-> v.var, commands |-> <<>>]
        BY <1>3
      <3>3. QED
        BY <3>1, <3>2, <1>1 DEF Groups
    <2>7. groups' \in Seq(Groups(Len(names')))
      <3>1. groups' \in Seq(Groups(Len(names)))
        BY <1>3, <1>a DEF Parsed
      <3>2. QED
        BY <3>1, <2>5
    <2>8. step' = "command" /\ at' = start /\ UNCHANGED <<file, lines, text>>
      BY <1>3
    <2>9. Parsed'
      BY <1>a, <2>4, <2>5, <2>6, <2>7, <2>8 DEF Parsed
    <2>10. QED
      BY <2>5, <2>9 DEF ParseInv
  <1>4. CASE /\ Char(text, b) # DOLLAR
             /\ opened(NONE) /\ UNCHANGED <<file, lines, text, names, refs, command, groups, printed>>
    <2>1. /\ group' = [mode |-> "SINGLE", repeats |-> times, result_to |-> NONE, commands |-> <<>>]
          /\ at' = b /\ step' = "command"
          /\ UNCHANGED <<file, lines, text, names, refs, groups>>
      BY <1>4
    <2>2. group' \in Groups(Len(names'))
      <3>1. <<>> \in Seq(Commands(Len(names')))
        OBVIOUS
      <3>2. QED
        BY <2>1, <3>1, <1>1 DEF Groups
    <2>3. Parsed'
      BY <1>a, <1>1, <2>1, <2>2 DEF Parsed
    <2>4. QED
      BY <2>1, <2>3, <1>a, NamedUnchanged DEF ParseInv
  <1>5. QED
    BY <1>2, <1>3, <1>4, FailsKeeps

LEMMA StartCommandKeeps ==
  ASSUME ParseInv, StartCommand
  PROVE  ParseInv'
  <1> DEFINE lit == parse_literal(text, at)
             n == Len(names)
  <1>a. /\ Parsed /\ Named /\ step = "command"
        /\ text \in Text /\ at \in 1..(Len(text) + 1)
    BY DEF ParseInv, Parsed, StartCommand
  <1>1. lit \in Literals(text)
    BY <1>a, LiteralParsed
  <1>2. \/ Fails
        \/ /\ command' = [program |-> lit.text, arguments |-> <<>>, pid_to |-> NONE]
           /\ at' = skip_space(text, lit.end) /\ step' = "argument"
           /\ UNCHANGED <<file, lines, text, names, refs, group, groups, printed>>
    BY DEF StartCommand
  <1> HIDE DEF lit
  <1>3. CASE /\ command' = [program |-> lit.text, arguments |-> <<>>, pid_to |-> NONE]
             /\ at' = skip_space(text, lit.end) /\ step' = "argument"
             /\ UNCHANGED <<file, lines, text, names, refs, group, groups, printed>>
    <2>1. lit.text \in Text /\ lit.end \in 1..(Len(text) + 1)
      BY <1>1 DEF Literals
    <2>2. at' \in 1..(Len(text) + 1)
      BY <1>3, <1>a, <2>1, SkipSpaceStops
    <2>3. command' \in Commands(n)
      <3>1. <<>> \in Seq(Arguments(n))
        OBVIOUS
      <3>2. QED
        BY <1>3, <2>1, <3>1 DEF Commands
    <2>4. Parsed'
      BY <1>3, <1>a, <2>2, <2>3 DEF Parsed
    <2>5. QED
      BY <1>3, <1>a, <2>4, NamedUnchanged DEF ParseInv
  <1>4. QED
    BY <1>2, <1>3, FailsKeeps

LEMMA CommandAdded ==
  ASSUME NEW n, NEW g \in Groups(n), NEW c \in Commands(n)
  PROVE  [g EXCEPT !.commands = Append(@, c)] \in Groups(n)
  <1>1. g = [mode |-> g.mode, repeats |-> g.repeats, result_to |-> g.result_to, commands |-> g.commands]
    BY DEF Groups
  <1>2. /\ g.mode \in {"SINGLE", "AND", "OR"} /\ g.repeats \in Ints /\ g.result_to \in 1..n \cup {NONE}
        /\ g.commands \in Seq(Commands(n))
    BY DEF Groups
  <1> DEFINE longer == Append(g.commands, c)
  <1>3. longer \in Seq(Commands(n))
    BY <1>2
  <1> HIDE DEF longer
  <1>4. [g EXCEPT !.commands = longer] =
          [mode |-> g.mode, repeats |-> g.repeats, result_to |-> g.result_to, commands |-> longer]
    BY <1>1
  <1>5. [mode |-> g.mode, repeats |-> g.repeats, result_to |-> g.result_to, commands |-> longer] \in Groups(n)
    BY <1>2, <1>3 DEF Groups
  <1>6. QED
    BY <1>4, <1>5 DEF longer

LEMMA ModeSet ==
  ASSUME NEW n, NEW g \in Groups(n), NEW combined \in {"AND", "OR"}
  PROVE  [g EXCEPT !.mode = combined] \in Groups(n)
  BY DEF Groups

LEMMA ArgumentAdded ==
  ASSUME NEW n, NEW c \in Commands(n), NEW a \in Arguments(n)
  PROVE  [c EXCEPT !.arguments = Append(@, a)] \in Commands(n)
  <1>1. c = [program |-> c.program, arguments |-> c.arguments, pid_to |-> c.pid_to]
    BY DEF Commands
  <1>2. c.program \in Text /\ c.arguments \in Seq(Arguments(n)) /\ c.pid_to \in 1..n \cup {NONE}
    BY DEF Commands
  <1> DEFINE longer == Append(c.arguments, a)
  <1>3. longer \in Seq(Arguments(n))
    BY <1>2
  <1> HIDE DEF longer
  <1>4. [c EXCEPT !.arguments = longer] = [program |-> c.program, arguments |-> longer, pid_to |-> c.pid_to]
    BY <1>1
  <1>5. [program |-> c.program, arguments |-> longer, pid_to |-> c.pid_to] \in Commands(n)
    BY <1>2, <1>3 DEF Commands
  <1>6. QED
    BY <1>4, <1>5 DEF longer

LEMMA PidSet ==
  ASSUME NEW n, NEW c \in Commands(n), NEW v \in 1..n
  PROVE  [c EXCEPT !.pid_to = v] \in Commands(n)
  BY DEF Commands

LEMMA EndCommandKeeps ==
  ASSUME Parsed, step = "argument", Named', names' \in Seq(Text),
         Groups(Len(names)) \subseteq Groups(Len(names')),
         NEW c \in Commands(Len(names')), NEW b \in 1..(Len(text) + 1), EndCommand(c, b)
  PROVE  ParseInv'
  <1>1. skip_space(text, b) \in 1..(Len(text) + 1)
    BY SkipSpaceStops DEF Parsed
  <1>2. group \in Groups(Len(names')) /\ groups \in Seq(Groups(Len(names')))
    BY DEF Parsed
  <1>3. [group EXCEPT !.commands = Append(@, c)] \in Groups(Len(names'))
    <2> DEFINE n == Len(names')
    <2>1. group \in Groups(n) /\ c \in Commands(n)
      BY <1>2
    <2> HIDE DEF n
    <2>2. [group EXCEPT !.commands = Append(@, c)] \in Groups(n)
      BY <2>1, CommandAdded
    <2>3. QED
      BY <2>2 DEF n
  <1>4. /\ group' \in Groups(Len(names')) /\ at' = skip_space(text, b) /\ step' = "combiner"
        /\ UNCHANGED <<file, lines, text, command, groups, printed>>
    BY <1>3 DEF EndCommand
  <1>5. Parsed'
    BY <1>1, <1>2, <1>4 DEF Parsed
  <1>6. QED
    BY <1>5 DEF ParseInv

LEMMA ArgumentKeeps ==
  ASSUME Parsed, step = "argument", Named', names' \in Seq(Text),
         Groups(Len(names)) \subseteq Groups(Len(names')),
         Commands(Len(names)) \subseteq Commands(Len(names')),
         NEW a \in Arguments(Len(names')), NEW b \in 1..(Len(text) + 1), Argument(a, b)
  PROVE  ParseInv'
  <1>1. skip_space(text, b) \in 1..(Len(text) + 1)
    BY SkipSpaceStops DEF Parsed
  <1>2. /\ group \in Groups(Len(names')) /\ groups \in Seq(Groups(Len(names')))
        /\ command \in Commands(Len(names'))
    BY DEF Parsed
  <1>3. [command EXCEPT !.arguments = Append(@, a)] \in Commands(Len(names'))
    <2> DEFINE n == Len(names')
    <2>1. command \in Commands(n) /\ a \in Arguments(n)
      BY <1>2
    <2> HIDE DEF n
    <2>2. [command EXCEPT !.arguments = Append(@, a)] \in Commands(n)
      BY <2>1, ArgumentAdded
    <2>3. QED
      BY <2>2 DEF n
  <1>4. /\ command' \in Commands(Len(names')) /\ at' = skip_space(text, b)
        /\ UNCHANGED <<file, lines, text, group, groups, step, printed>>
    BY <1>3 DEF Argument
  <1>5. Parsed'
    BY <1>1, <1>2, <1>4 DEF Parsed
  <1>6. QED
    BY <1>5 DEF ParseInv

LEMMA NextArgumentKeeps ==
  ASSUME ParseInv, NextArgument
  PROVE  ParseInv'
  <1> DEFINE dest == skip_space(text, at + 1)
             from == IF Char(text, at) = AT THEN dest ELSE at
             v == parse_variable(text, from, names)
             lit == parse_literal(text, at)
             noted == names' = v.names /\ refs' = refs \cup {<<v.name, v.var>>}
             dollar == noted /\ Argument([kind |-> "VARIABLE", value |-> v.var], v.end)
             target == /\ Char(text, dest) = DOLLAR
                       /\ noted /\ EndCommand([command EXCEPT !.pid_to = v.var], v.end)
             literal == /\ UNCHANGED <<names, refs>>
                        /\ \/ EndCommand(command, at)
                           \/ Argument([kind |-> "LITERAL", value |-> lit.text], lit.end)
  <1>a. /\ Parsed /\ Named /\ step = "argument"
        /\ text \in Text /\ at \in 1..(Len(text) + 1) /\ names \in Seq(Text)
        /\ command \in Commands(Len(names))
    BY DEF ParseInv, Parsed, NextArgument
  <1>1. \/ Fails
        \/ Char(text, at) = DOLLAR /\ dollar
        \/ Char(text, at) = AT /\ target
        \/ literal
    <2>1. CASE Char(text, at) = DOLLAR
      <3>1. Char(text, at) # AT
        BY <2>1 DEF DOLLAR, AT
      <3>2. QED
        BY <2>1, <3>1 DEF NextArgument
    <2>2. CASE Char(text, at) = AT
      <3>1. Char(text, at) # DOLLAR
        BY <2>2 DEF DOLLAR, AT
      <3>2. QED
        BY <2>2, <3>1 DEF NextArgument
    <2>3. CASE Char(text, at) # AT /\ Char(text, at) # DOLLAR
      BY <2>3 DEF NextArgument
    <2>4. QED
      BY <2>1, <2>2, <2>3
  <1> HIDE DEF dest
  <1>2. ASSUME Char(text, from) = DOLLAR, noted
        PROVE  /\ v.end \in 1..(Len(text) + 1) /\ v.var \in 1..Len(names')
               /\ Named' /\ names' \in Seq(Text)
               /\ Groups(Len(names)) \subseteq Groups(Len(names'))
               /\ Commands(Len(names)) \subseteq Commands(Len(names'))
    <2>1. Char(text, from) # 0
      BY <1>2 DEF DOLLAR
    <2> HIDE DEF from
    <2>2. v.end \in 1..(Len(text) + 1) /\ Looked(v, names)
      BY <2>1, <1>a, VariableParsed
    <2>3. names' = v.names /\ refs' = refs \cup {<<v.name, v.var>>}
      BY <1>2
    <2> HIDE DEF v
    <2>4. QED
      BY <2>2, <2>3, LookupKeeps
  <1>3. CASE Char(text, at) = DOLLAR /\ dollar
    <2>1. from = at /\ noted
      BY <1>3 DEF DOLLAR, AT
    <2>2. /\ v.end \in 1..(Len(text) + 1) /\ v.var \in 1..Len(names')
          /\ Named' /\ names' \in Seq(Text)
          /\ Groups(Len(names)) \subseteq Groups(Len(names'))
          /\ Commands(Len(names)) \subseteq Commands(Len(names'))
      <3>1. Char(text, from) = DOLLAR
        BY <2>1, <1>3
      <3> HIDE DEF from, v, noted
      <3>2. QED
        BY <2>1, <3>1, <1>2
    <2>3. Argument([kind |-> "VARIABLE", value |-> v.var], v.end)
      BY <1>3
    <2> HIDE DEF v, from
    <2>4. [kind |-> "VARIABLE", value |-> v.var] \in Arguments(Len(names'))
      BY <2>2 DEF Arguments
    <2> DEFINE a == [kind |-> "VARIABLE", value |-> v.var]
    <2> HIDE DEF a
    <2>5. a \in Arguments(Len(names')) /\ Argument(a, v.end)
      BY <2>3, <2>4 DEF a
    <2>6. QED
      BY <1>a, <2>2, <2>5, ArgumentKeeps
  <1>4. CASE Char(text, at) = AT /\ target
    <2>1. from = dest /\ noted /\ Char(text, from) = DOLLAR
      BY <1>4
    <2>2. /\ v.end \in 1..(Len(text) + 1) /\ v.var \in 1..Len(names')
          /\ Named' /\ names' \in Seq(Text)
          /\ Groups(Len(names)) \subseteq Groups(Len(names'))
          /\ Commands(Len(names)) \subseteq Commands(Len(names'))
      <3> HIDE DEF from, v, noted
      <3>1. QED
        BY <2>1, <1>2
    <2>3. EndCommand([command EXCEPT !.pid_to = v.var], v.end)
      BY <1>4
    <2> HIDE DEF v, from
    <2> DEFINE n == Len(names')
               c == [command EXCEPT !.pid_to = v.var]
    <2>4. c \in Commands(n)
      <3>1. command \in Commands(n) /\ v.var \in 1..n
        BY <1>a, <2>2
      <3> HIDE DEF n
      <3>2. QED
        BY <3>1, PidSet
    <2> HIDE DEF c
    <2>5. c \in Commands(Len(names')) /\ EndCommand(c, v.end)
      BY <2>3, <2>4 DEF c
    <2>6. QED
      BY <1>a, <2>2, <2>5, EndCommandKeeps
  <1>5. CASE literal
    <2>1. lit \in Literals(text)
      BY <1>a, LiteralParsed
    <2>2. lit.text \in Text /\ lit.end \in 1..(Len(text) + 1)
      BY <2>1 DEF Literals
    <2> HIDE DEF lit
    <2>3. Named' /\ names' = names
      BY <1>5, <1>a, NamedUnchanged
    <2>4. CASE EndCommand(command, at)
      BY <1>a, <2>3, <2>4, EndCommandKeeps
    <2>5. CASE Argument([kind |-> "LITERAL", value |-> lit.text], lit.end)
      <3> DEFINE a == [kind |-> "LITERAL", value |-> lit.text]
      <3>1. a \in Arguments(Len(names'))
        BY <2>2 DEF Arguments
      <3> HIDE DEF a
      <3>2. Argument(a, lit.end)
        BY <2>5 DEF a
      <3>3. QED
        BY <1>a, <2>2, <2>3, <3>1, <3>2, ArgumentKeeps
    <2>6. QED
      BY <1>5, <2>4, <2>5
  <1>6. QED
    BY <1>1, <1>3, <1>4, <1>5, FailsKeeps

LEMMA NextCombinerKeeps ==
  ASSUME ParseInv, NextCombiner
  PROVE  ParseInv'
  <1> DEFINE or == Char(text, at + 1) = BAR
             combined == IF or THEN "OR" ELSE "AND"
             b == skip_space(text, IF or THEN at + 2 ELSE at + 1)
             n == Len(names)
  <1>a. /\ Parsed /\ Named /\ step = "combiner"
        /\ text \in Text /\ Len(text) \in Nat /\ at \in 1..(Len(text) + 1)
        /\ group \in Groups(n) /\ groups \in Seq(Groups(n))
    BY DEF ParseInv, Parsed, NextCombiner, Text
  <1>1. \/ Fails
        \/ /\ groups' = Append(groups, group) /\ step' = "line"
           /\ UNCHANGED <<file, lines, text, at, names, refs, group, command, printed>>
        \/ /\ Char(text, at) = BAR
           /\ group' = [group EXCEPT !.mode = combined]
           /\ at' = b /\ step' = "command"
           /\ UNCHANGED <<file, lines, text, names, refs, command, groups, printed>>
    BY DEF NextCombiner
  <1>2. CASE /\ groups' = Append(groups, group) /\ step' = "line"
             /\ UNCHANGED <<file, lines, text, at, names, refs, group, command, printed>>
    <2>1. groups' \in Seq(Groups(n))
      BY <1>2, <1>a
    <2>2. Parsed'
      BY <1>2, <1>a, <2>1 DEF Parsed
    <2>3. QED
      BY <1>2, <1>a, <2>2, NamedUnchanged DEF ParseInv
  <1>3. CASE /\ Char(text, at) = BAR
             /\ group' = [group EXCEPT !.mode = combined]
             /\ at' = b /\ step' = "command"
             /\ UNCHANGED <<file, lines, text, names, refs, command, groups, printed>>
    <2>1. at + 1 \in 1..(Len(text) + 1)
      <3>1. Char(text, at) # 0
        BY <1>3 DEF BAR
      <3>2. QED
        BY <3>1, <1>a, CharInLine
    <2>2. or => at + 2 \in 1..(Len(text) + 1)
      <3> SUFFICES ASSUME or PROVE at + 2 \in 1..(Len(text) + 1)
        OBVIOUS
      <3> DEFINE next == at + 1
      <3>1. Char(text, next) # 0
        BY DEF BAR
      <3> HIDE DEF next
      <3>2. next + 1 \in 1..(Len(text) + 1)
        BY <3>1, <1>a, CharInLine
      <3>3. QED
        BY <3>2, <1>a DEF next
    <2>3. b \in 1..(Len(text) + 1)
      <3>1. (IF or THEN at + 2 ELSE at + 1) \in 1..(Len(text) + 1)
        BY <2>1, <2>2
      <3>2. QED
        BY <3>1, <1>a, SkipSpaceStops
    <2>4. combined \in {"AND", "OR"}
      OBVIOUS
    <2> HIDE DEF combined, b, or
    <2>5. group' \in Groups(n)
      BY <1>3, <1>a, <2>4, ModeSet
    <2>6. Parsed'
      BY <1>3, <1>a, <2>3, <2>5 DEF Parsed
    <2>7. QED
      BY <1>3, <1>a, <2>6, NamedUnchanged DEF ParseInv
  <1>4. QED
    BY <1>1, <1>2, <1>3, FailsKeeps

LEMMA ParsePrintedKeeps ==
  ASSUME ParseInv, ParsePrinted
  PROVE  ParseInv'
  <1>a. Parsed
    BY DEF ParseInv
  <1>1. print_script(groups, names) \in Seq(Text)
    BY <1>a, ScriptPrinted DEF Parsed
  <1>2. /\ file' \in Seq(Text) /\ step' = "line" /\ lines' = 0
        /\ names' = <<>> /\ refs' = {} /\ groups' = <<>> /\ UNCHANGED <<text, at>>
    BY <1>1 DEF ParsePrinted
  <1>3. Parsed'
    BY <1>a, <1>2 DEF Parsed
  <1>4. Named'
    BY <1>2 DEF Named, NamesIn
  <1>5. QED
    BY <1>3, <1>4 DEF ParseInv

LEMMA ParseStep ==
  ASSUME ParseInv, [ParseNext]_parseVars
  PROVE  ParseInv'
  <1>1. CASE UNCHANGED parseVars
    <2>1. Parsed'
      BY <1>1 DEF ParseInv, Parsed, parseVars
    <2>2. QED
      BY <1>1, <2>1, NamedUnchanged DEF ParseInv, parseVars
  <1>2. QED
    BY <1>1, ReadLineKeeps, EndOfFileKeeps, StartGroupKeeps, StartCommandKeeps, NextArgumentKeeps,
       NextCombinerKeeps, ParsePrintedKeeps DEF ParseNext

(* Whatever the script, buffer never leaves the line it points into, from  *)
(* the first character to the terminator (parse.c:44-177), also where the  *)
(* parser steps over a keyword, a quote or a combiner; every group,        *)
(* command and argument is well formed and refers to variables of the      *)
(* table only; and every name is looked up as it was the first time.       *)
THEOREM ParseCorrect == ParseSpec => []ParseInv
  <1>1. ParseInit => ParseInv
    BY ParseInitially
  <1>2. ParseInv /\ [ParseNext]_parseVars => ParseInv'
    BY ParseStep
  <1>3. QED
    BY <1>1, <1>2, PTL DEF ParseSpec

(* One name means one variable in the whole script, and two names share a  *)
(* variable only when both begin the name it was first read with           *)
(* (parse.c:197-202).                                                      *)
THEOREM NamesCorrect == ParseSpec => []NamesStable
  <1>1. ParseInv => NamesStable
    <2> SUFFICES ASSUME ParseInv, NEW r \in refs, NEW s \in refs
                 PROVE  /\ r[1] = s[1] => r[2] = s[2]
                        /\ r[2] = s[2] => \A name \in {r[1], s[1]} : IsPrefix(name, names[r[2]])
                        /\ <<names[r[2]], r[2]>> \in refs
      BY DEF NamesStable
    <2>1. names \in Seq(Text) /\ DOMAIN names \in SUBSET Nat
      BY DEF ParseInv, Parsed
    <2>2. FirstMatch(r[1], r[2], names) /\ FirstMatch(s[1], s[2], names)
      BY DEF ParseInv, Named, NamesIn
    <2>3. r[1] = s[1] => r[2] <= s[2] /\ s[2] <= r[2]
      BY <2>2 DEF FirstMatch
    <2>4. r[2] \in Nat /\ s[2] \in Nat
      BY <2>1, <2>2 DEF FirstMatch
    <2>5. r[1] = s[1] => r[2] = s[2]
      BY <2>3, <2>4
    <2>6. r[2] = s[2] => \A name \in {r[1], s[1]} : IsPrefix(name, names[r[2]])
      BY <2>2 DEF FirstMatch
    <2>7. <<names[r[2]], r[2]>> \in refs
      BY <2>2 DEF FirstMatch, ParseInv, Named, NamesIn
    <2>8. QED
      BY <2>5, <2>6, <2>7
  <1>2. QED
    BY <1>1, ParseCorrect, PTL

-----------------------------------------------------------------------------
(* matchlab: the arguments in memory. *)
Chars == 1..255
Strings == Seq(Chars)
Size(list) == Len(Layout(list))

(* Argument k of the list is where execve put it, with its terminator. *)
Holds(m, list, k) ==
  /\ \A i \in 1..Len(list[k]) : m[Start(list, k) + (i - 1)] = list[k][i]
  /\ m[Start(list, k) + Len(list[k])] = 0

(* The conversion of s under -c moves bytes behind its end. *)
Reaches(s) ==
  /\ Indices(s) # {} /\ Fits(flag_c, s)
  /\ Min(Indices(s)) >= 3 \/ Max(Indices(s)) >= 5

ConvertsC == mode = [model |-> flag_c, convert |-> TRUE]
Moved == ConvertsC /\ \E j \in DOMAIN output : Reaches(output[j].seen)

(* Until an argument has reached its successor, every argument that is     *)
(* still to come is intact.                                                *)
ArgumentsHeld ==
  /\ mem = [k \in 1..Size(args) |-> mem[k]]
  /\ \A k \in DOMAIN args : k >= argno => Holds(mem, args, k)

MatchTypes ==
  /\ args \in Seq(Strings) /\ argno \in Nat \ {0}
  /\ \E S : output \in Seq(S)
  /\ matching = "main" => output = <<>> /\ argno = 1
  /\ matching = "loop" => mode = [model |-> mode.model, convert |-> mode.convert] /\ mode.convert \in BOOLEAN

MatchInv == MatchTypes /\ (Moved \/ ArgumentsHeld) /\ ArgumentsKept

LEMMA FlattenValue ==
  ASSUME NEW seqs, NEW n \in Nat, 1 <= n, Len(seqs) = n
  PROVE  \E f : FlattenRec(seqs, n, f) /\ FlattenSeq(seqs) = f[n]
  <1> DEFINE f == CHOOSE f : FlattenRec(seqs, n, f)
  <1>1. FlattenRec(seqs, n, f)
    BY FlattenRecExists, Zenon
  <1>2. Len(seqs) # 0
    OBVIOUS
  <1>3. FlattenSeq(seqs) = f[n]
    BY <1>2, Zenon DEF FlattenSeq, FlattenRec
  <1>4. QED
    BY <1>1, <1>3, Zenon

LEMMA FlattenRecAt ==
  ASSUME NEW seqs, NEW n \in Nat, NEW f, FlattenRec(seqs, n, f), NEW i \in 1..n
  PROVE  f[i] = IF i = 1 THEN seqs[i] ELSE f[i - 1] \o seqs[i]
  <1> DEFINE body(j) == IF j = 1 THEN seqs[j] ELSE f[j - 1] \o seqs[j]
  <1>1. f = [j \in 1..n |-> body(j)]
    BY DEF FlattenRec
  <1> HIDE DEF body
  <1>2. f[i] = body(i)
    BY <1>1
  <1>3. QED
    BY <1>2 DEF body

LEMMA FlattenAgree ==
  ASSUME NEW s, NEW t, NEW m \in Nat, NEW n \in Nat, NEW k \in 1..m, k <= n,
         NEW f, FlattenRec(s, m, f), NEW g, FlattenRec(t, n, g), \A i \in 1..k : s[i] = t[i]
  PROVE  f[k] = g[k]
  <1> DEFINE T == {i \in 1..k : f[i] # g[i]}
  <1>1. T = {}
    <2> SUFFICES ASSUME T # {} PROVE FALSE
      OBVIOUS
    <2>1. PICK i \in T : \A j \in T : i <= j
      <3>1. T \in SUBSET Nat
        OBVIOUS
      <3> HIDE DEF T
      <3>2. QED
        BY <3>1, LeastNat
    <2>2. i \in 1..k /\ f[i] # g[i] /\ i \in 1..m /\ i \in 1..n /\ s[i] = t[i]
      OBVIOUS
    <2>3. f[i] = (IF i = 1 THEN s[i] ELSE f[i - 1] \o s[i])
      BY <2>2, FlattenRecAt
    <2>4. g[i] = (IF i = 1 THEN t[i] ELSE g[i - 1] \o t[i])
      BY <2>2, FlattenRecAt
    <2>5. i # 1
      BY <2>2, <2>3, <2>4
    <2>6. i - 1 \in 1..k /\ i - 1 \notin T
      BY <2>1, <2>2, <2>5
    <2>7. f[i - 1] = g[i - 1]
      BY <2>6
    <2>8. QED
      BY <2>2, <2>3, <2>4, <2>5, <2>7
  <1>2. QED
    BY <1>1

-----------------------------------------------------------------------------
(* What execve puts in front of argument k + 1. *)
Octets == 0..255
Bytes == Seq(Octets)
Laid(list, k) == FlattenSeq([j \in 1..k |-> Append(list[j], 0)])

LEMMA CharsAreOctets == Chars \subseteq Octets /\ 0 \in Octets
  BY DEF Chars, Octets

LEMMA LaidStep ==
  ASSUME NEW list \in Seq(Strings), NEW k \in 1..Len(list), Laid(list, k - 1) \in Bytes
  PROVE  Laid(list, k) = Laid(list, k - 1) \o Append(list[k], 0) /\ Append(list[k], 0) \in Bytes
  <1> DEFINE s == [j \in 1..k |-> Append(list[j], 0)]
             t == [j \in 1..(k - 1) |-> Append(list[j], 0)]
             last == Append(list[k], 0)
  <1>1. last \in Bytes
    <2>1. list[k] \in Seq(Chars)
      BY DEF Strings
    <2>2. QED
      BY <2>1, CharsAreOctets DEF Bytes
  <1>2. Len(s) = k /\ s[k] = last /\ k \in Nat /\ 1 <= k
    OBVIOUS
  <1>3. \A i \in 1..(k - 1) : s[i] = t[i]
    OBVIOUS
  <1>4. Laid(list, k) = FlattenSeq(s) /\ Laid(list, k - 1) = FlattenSeq(t)
    BY DEF Laid
  <1>5. Len(t) = k - 1 /\ k - 1 \in Nat
    OBVIOUS
  <1> HIDE DEF s, t, last
  <1>6. PICK f : FlattenRec(s, k, f) /\ FlattenSeq(s) = f[k]
    BY <1>2, FlattenValue
  <1>7. f[k] = (IF k = 1 THEN s[k] ELSE f[k - 1] \o s[k])
    BY <1>2, <1>6, FlattenRecAt
  <1>8. CASE k = 1
    <2>1. f[k] = last
      BY <1>2, <1>7, <1>8
    <2>2. t = <<>> /\ FlattenSeq(t) = t
      BY <1>8, <1>5 DEF FlattenSeq, t
    <2>3. <<>> \o last = last
      BY <1>1 DEF Bytes
    <2>4. QED
      BY <1>1, <1>4, <1>6, <2>1, <2>2, <2>3 DEF last
  <1>9. CASE k # 1
    <2>1. 1 <= k - 1
      BY <1>9, <1>2
    <2>2. PICK g : FlattenRec(t, k - 1, g) /\ FlattenSeq(t) = g[k - 1]
      BY <1>5, <2>1, FlattenValue
    <2>3. f[k - 1] = g[k - 1]
      <3>1. k - 1 \in 1..k /\ k - 1 <= k - 1
        BY <1>2, <2>1
      <3>2. QED
        BY <1>2, <1>3, <1>5, <1>6, <2>2, <3>1, FlattenAgree
    <2>4. QED
      BY <1>1, <1>2, <1>4, <1>6, <1>7, <1>9, <2>2, <2>3 DEF last
  <1>10. QED
    BY <1>8, <1>9

LEMMA LaidIsBytes ==
  ASSUME NEW list \in Seq(Strings), NEW k \in 0..Len(list)
  PROVE  Laid(list, k) \in Bytes
  <1> DEFINE T == {i \in 0..Len(list) : Laid(list, i) \notin Bytes}
  <1> SUFFICES ASSUME T # {} PROVE FALSE
    OBVIOUS
  <1>1. PICK i \in T : \A j \in T : i <= j
    <2>1. T \in SUBSET Nat
      OBVIOUS
    <2> HIDE DEF T
    <2>2. QED
      BY <2>1, LeastNat
  <1>2. i # 0
    <2>1. Laid(list, 0) = <<>>
      BY DEF Laid, FlattenSeq
    <2>2. <<>> \in Bytes
      BY DEF Bytes
    <2>3. QED
      BY <2>1, <2>2
  <1>3. i \in 1..Len(list) /\ i - 1 \in 0..Len(list) /\ i - 1 \notin T
    BY <1>1, <1>2
  <1>4. Laid(list, i - 1) \in Bytes
    BY <1>3
  <1>5. Laid(list, i) = Laid(list, i - 1) \o Append(list[i], 0) /\ Append(list[i], 0) \in Bytes
    BY <1>3, <1>4, LaidStep
  <1>6. Laid(list, i) \in Bytes
    BY <1>4, <1>5 DEF Bytes
  <1>7. QED
    BY <1>6

LEMMA JoinedBytes ==
  ASSUME NEW u \in Bytes, NEW v \in Bytes
  PROVE  /\ Len(u \o v) = Len(u) + Len(v) /\ Len(u) \in Nat
         /\ \A i \in 1..Len(u) : (u \o v)[i] = u[i]
         /\ \A i \in 1..Len(v) : (u \o v)[Len(u) + i] = v[i]
  <1>1. u \in Seq(Octets) /\ v \in Seq(Octets)
    BY DEF Bytes
  <1>2. Len(u \o v) = Len(u) + Len(v) /\ Len(u) \in Nat /\ Len(v) \in Nat
    BY <1>1
  <1>3. ASSUME NEW i \in 1..Len(u) PROVE (u \o v)[i] = u[i]
    BY <1>1
  <1>4. ASSUME NEW i \in 1..Len(v) PROVE (u \o v)[Len(u) + i] = v[i]
    <2>1. Len(u) + i \in 1..(Len(u) + Len(v)) /\ ~(Len(u) + i <= Len(u)) /\ (Len(u) + i) - Len(u) = i
      BY <1>2
    <2> DEFINE j == Len(u) + i
    <2> HIDE DEF j
    <2>2. j \in 1..(Len(u) + Len(v)) /\ ~(j <= Len(u)) => (u \o v)[j] = v[j - Len(u)]
      BY <1>1
    <2>3. QED
      BY <2>1, <2>2 DEF j
  <1>5. QED
    BY <1>2, <1>3, <1>4

(* Argument k and its terminator follow those before it. *)
LEMMA LaidNext ==
  ASSUME NEW list \in Seq(Strings), NEW k \in 1..Len(list)
  PROVE  /\ Laid(list, k - 1) \in Bytes /\ Laid(list, k) \in Bytes /\ Len(list[k]) \in Nat
         /\ Len(Laid(list, k)) = Len(Laid(list, k - 1)) + Len(list[k]) + 1
         /\ \A i \in 1..Len(Laid(list, k - 1)) : Laid(list, k)[i] = Laid(list, k - 1)[i]
         /\ \A i \in 1..Len(list[k]) : Laid(list, k)[Len(Laid(list, k - 1)) + i] = list[k][i]
         /\ Laid(list, k)[Len(Laid(list, k - 1)) + (Len(list[k]) + 1)] = 0
  <1>1. Laid(list, k - 1) \in Bytes /\ Laid(list, k) \in Bytes
    BY LaidIsBytes
  <1>2. Laid(list, k) = Laid(list, k - 1) \o Append(list[k], 0) /\ Append(list[k], 0) \in Bytes
    BY <1>1, LaidStep
  <1> DEFINE u == Laid(list, k - 1)
             w == list[k]
             v == Append(w, 0)
  <1>3. w \in Seq(Chars)
    BY DEF Strings
  <1> HIDE DEF w
  <1>4. /\ v \in Bytes /\ Len(w) \in Nat /\ Len(v) = Len(w) + 1 /\ v[Len(w) + 1] = 0
        /\ \A i \in 1..Len(w) : v[i] = w[i]
    <2>1. v \in Bytes
      BY <1>3, CharsAreOctets DEF Bytes
    <2>2. QED
      BY <1>3, <2>1
  <1>5. u \in Bytes /\ Laid(list, k) = u \o v
    BY <1>1, <1>2 DEF w
  <1> HIDE DEF u, v
  <1>6. /\ Len(u \o v) = Len(u) + Len(v) /\ Len(u) \in Nat
        /\ \A i \in 1..Len(u) : (u \o v)[i] = u[i]
        /\ \A i \in 1..Len(v) : (u \o v)[Len(u) + i] = v[i]
    <2>1. u \in Bytes /\ v \in Bytes
      BY <1>4, <1>5
    <2>2. QED
      BY ONLY <2>1, JoinedBytes
  <1> DEFINE x == u \o v
  <1>7. /\ Len(x) = Len(u) + Len(w) + 1
        /\ \A i \in 1..Len(u) : x[i] = u[i]
        /\ \A i \in 1..Len(w) : x[Len(u) + i] = w[i]
        /\ x[Len(u) + (Len(w) + 1)] = 0
    <2> HIDE DEF x
    <2>1. /\ Len(x) = Len(u) + Len(v) /\ Len(u) \in Nat
          /\ \A i \in 1..Len(u) : x[i] = u[i]
          /\ \A i \in 1..Len(v) : x[Len(u) + i] = v[i]
      BY <1>6 DEF x
    <2>2. QED
      BY <1>4, <2>1
  <1>8. QED
    BY <1>1, <1>4, <1>5, <1>7 DEF u, w

(* Arguments are laid out in order and stay in front of later ones. *)
LEMMA LaidBefore ==
  ASSUME NEW list \in Seq(Strings), NEW k \in 0..Len(list), NEW n \in k..Len(list)
  PROVE  /\ Laid(list, k) \in Bytes /\ Laid(list, n) \in Bytes
         /\ Len(Laid(list, k)) <= Len(Laid(list, n))
         /\ \A i \in 1..Len(Laid(list, k)) : Laid(list, n)[i] = Laid(list, k)[i]
  <1> DEFINE Before1(m) == /\ Len(Laid(list, k)) <= Len(Laid(list, m))
                           /\ \A i \in 1..Len(Laid(list, k)) : Laid(list, m)[i] = Laid(list, k)[i]
             T == {m \in k..Len(list) : ~Before1(m)}
  <1>a. /\ \A m \in 0..Len(list) : Laid(list, m) \in Bytes /\ Len(Laid(list, m)) \in Nat
        /\ Len(list) \in Nat
    BY LaidIsBytes DEF Bytes
  <1>1. T = {}
    <2> SUFFICES ASSUME T # {} PROVE FALSE
      OBVIOUS
    <2>1. PICK m \in T : \A j \in T : m <= j
      <3>1. T \in SUBSET Nat
        OBVIOUS
      <3> HIDE DEF T
      <3>2. QED
        BY <3>1, LeastNat
    <2>2. m # k
      BY <1>a
    <2>3. m - 1 \in k..Len(list) /\ m - 1 \in 0..Len(list) /\ m \in 1..Len(list) /\ m - 1 \notin T
      BY <2>1, <2>2
    <2>4. Before1(m - 1)
      BY <2>3
    <2> DEFINE u == Laid(list, m - 1)
               w == Laid(list, m)
               x == Laid(list, k)
    <2>5. /\ Len(w) = Len(u) + Len(list[m]) + 1 /\ Len(list[m]) \in Nat
          /\ \A i \in 1..Len(u) : w[i] = u[i]
      BY <2>3, LaidNext
    <2>6. Len(u) \in Nat /\ Len(x) \in Nat /\ Len(x) <= Len(u) /\ \A i \in 1..Len(x) : u[i] = x[i]
      BY <2>3, <2>4, <1>a
    <2>7. ~(Len(x) <= Len(w) /\ \A i \in 1..Len(x) : w[i] = x[i])
      BY <2>1
    <2> HIDE DEF u, w, x, T, Before1
    <2>8. QED
      BY <2>5, <2>6, <2>7
  <1>2. Before1(n)
    BY <1>1
  <1>3. n \in 0..Len(list)
    OBVIOUS
  <1>4. QED
    BY <1>2, <1>3, <1>a

LEMMA BytesLen ==
  ASSUME NEW u \in Bytes
  PROVE  Len(u) \in Nat
  BY DEF Bytes

LEMMA Places ==
  ASSUME NEW list \in Seq(Strings), NEW k \in 1..Len(list)
  PROVE  /\ Start(list, k) \in Nat \ {0} /\ Len(list[k]) \in Nat /\ Size(list) \in Nat
         /\ Start(list, k) + Len(list[k]) <= Size(list)
         /\ \A j \in (k + 1)..Len(list) : Start(list, k) + Len(list[k]) < Start(list, j)
         /\ Holds(Layout(list), list, k)
  <1> DEFINE n == Len(list)
             u == Laid(list, k - 1)
             w == Laid(list, k)
             x == Laid(list, n)
             s == list[k]
             p == Start(list, k)
             env == Environment
  <1>a. n \in Nat /\ k \in 1..n /\ k - 1 \in 0..n /\ n \in k..n /\ k \in 0..n
    OBVIOUS
  <1>1. \A j \in 1..n : Start(list, j) = 1 + Len(Laid(list, j - 1))
    BY DEF Start, Laid
  <1>2. Layout(list) = x \o env
    <2>1. DOMAIN list = 1..n
      OBVIOUS
    <2>2. QED
      BY <2>1 DEF Layout, Laid
  <1>3. /\ u \in Bytes /\ w \in Bytes /\ Len(s) \in Nat
        /\ Len(w) = Len(u) + Len(s) + 1
        /\ \A i \in 1..Len(s) : w[Len(u) + i] = s[i]
        /\ w[Len(u) + (Len(s) + 1)] = 0
    BY LaidNext
  <1>4. x \in Bytes /\ Len(w) <= Len(x) /\ \A i \in 1..Len(w) : x[i] = w[i]
    BY <1>a, LaidBefore
  <1>5. ASSUME NEW j \in (k + 1)..n PROVE p + Len(s) < Start(list, j)
    <2>1. j - 1 \in k..n /\ j \in 1..n
      BY <1>a
    <2>2. Laid(list, j - 1) \in Bytes /\ Len(w) <= Len(Laid(list, j - 1))
      BY <1>a, <2>1, LaidBefore
    <2>3. Start(list, j) = 1 + Len(Laid(list, j - 1)) /\ p = 1 + Len(u)
      BY <1>1, <1>a, <2>1
    <2>4. Len(Laid(list, j - 1)) \in Nat /\ Len(u) \in Nat /\ Len(w) \in Nat
      BY <2>2, <1>3, BytesLen
    <2> HIDE DEF p, u, w, s
    <2>5. QED
      BY <1>3, <2>2, <2>3, <2>4
  <1>6. p = 1 + Len(u) /\ Len(u) \in Nat /\ Len(w) \in Nat /\ Len(x) \in Nat
    <2>1. p = 1 + Len(u)
      BY <1>1, <1>a
    <2>2. QED
      BY <2>1, <1>3, <1>4, BytesLen
  <1>7. env \in Bytes
    BY BytesAssumption DEF Bytes, Octets
  <1> DEFINE all == x \o env
  <1> HIDE DEF u, w, x, env, p, s
  <1>8. Len(all) = Len(x) + Len(env) /\ \A i \in 1..Len(x) : all[i] = x[i]
    BY <1>4, <1>7, JoinedBytes
  <1>9. Len(env) \in Nat
    BY <1>7 DEF Bytes
  <1> HIDE DEF all
  <1>10. Len(all) \in Nat /\ p \in Nat \ {0} /\ p + Len(s) <= Len(all)
    BY <1>3, <1>4, <1>6, <1>8, <1>9
  <1>11. ASSUME NEW i \in 1..Len(s) PROVE all[p + (i - 1)] = s[i]
    <2>1. p + (i - 1) = Len(u) + i /\ Len(u) + i \in 1..Len(w) /\ Len(u) + i \in 1..Len(x)
      BY <1>3, <1>4, <1>6
    <2>2. QED
      BY <2>1, <1>3, <1>4, <1>8
  <1>12. all[p + Len(s)] = 0
    <2>1. /\ p + Len(s) = Len(u) + (Len(s) + 1)
          /\ p + Len(s) \in 1..Len(w) /\ p + Len(s) \in 1..Len(x)
      BY <1>3, <1>4, <1>6
    <2>2. QED
      BY <2>1, <1>3, <1>4, <1>8
  <1>13. Layout(list) = all
    BY <1>2 DEF all
  <1>14. QED
    BY <1>3, <1>5, <1>10, <1>11, <1>12, <1>13 DEF Holds, Size, p, s

LEMMA LayoutIs ==
  ASSUME NEW list \in Seq(Strings)
  PROVE  Layout(list) = [i \in 1..Size(list) |-> Layout(list)[i]]
  <1> DEFINE n == Len(list)
             x == Laid(list, n)
  <1>1. x \in Bytes /\ Environment \in Bytes
    BY LaidIsBytes, BytesAssumption DEF Bytes, Octets
  <1>2. Layout(list) = x \o Environment
    <2>1. DOMAIN list = 1..n
      OBVIOUS
    <2>2. QED
      BY <2>1 DEF Layout, Laid
  <1> HIDE DEF x
  <1> DEFINE all == x \o Environment
  <1>3. all \in Bytes
    BY <1>1 DEF Bytes
  <1> HIDE DEF all
  <1>4. all = [i \in 1..Len(all) |-> all[i]]
    BY <1>3 DEF Bytes
  <1>5. QED
    BY <1>2, <1>4 DEF Size, all

LEMMA MinIs ==
  ASSUME NEW S \in SUBSET Int, NEW x \in S, \A y \in S : x <= y
  PROVE  Min(S) = x
  <1> DEFINE Least(z) == \A y \in S : z <= y
  <1>1. Min(S) = CHOOSE z \in S : Least(z)
    BY DEF Min
  <1>2. Least(x)
    OBVIOUS
  <1>3. Min(S) \in S /\ Least(Min(S))
    <2> HIDE DEF Least
    <2>1. QED
      BY <1>1, <1>2
  <1>4. x <= Min(S) /\ Min(S) <= x
    BY <1>3
  <1>5. Min(S) \in Int /\ x \in Int
    BY <1>3
  <1>6. QED
    BY <1>4, <1>5

(* A string ends at its first 0. *)
LEMMA StrlenIs ==
  ASSUME NEW m, NEW size \in Nat, m = [i \in 1..size |-> m[i]], NEW p \in Nat \ {0}, NEW n \in Nat,
         p + n <= size, m[p + n] = 0, \A i \in 0..(n - 1) : m[p + i] # 0
  PROVE  strlen(m, p) = n
  <1> DEFINE S == {i \in p..Len(m) : m[i] = 0}
  <1>1. Len(m) = size
    OBVIOUS
  <1>2. p + n \in S
    BY <1>1
  <1>3. ASSUME NEW y \in S PROVE p + n <= y
    <2>1. CASE y < p + n
      <3>1. y - p \in 0..(n - 1) /\ p + (y - p) = y
        BY <2>1, <1>1
      <3>2. m[y] # 0
        BY <3>1
      <3>3. QED
        BY <3>2
    <2>2. QED
      BY <2>1, <1>1
  <1>4. S \in SUBSET Int
    BY <1>1
  <1>5. strlen(m, p) = Min(S) - p
    BY DEF strlen
  <1> HIDE DEF S
  <1>6. Min(S) = p + n
    BY <1>2, <1>3, <1>4, MinIs
  <1>7. QED
    BY <1>5, <1>6

LEMMA NoZeros ==
  ASSUME NEW s \in Strings
  PROVE  \A x \in 1..Len(s) : s[x] # 0
  <1>1. \A x \in 1..Len(s) : s[x] \in Chars
    BY DEF Strings
  <1>2. \A y \in Chars : y # 0
    BY DEF Chars
  <1>3. QED
    BY <1>1, <1>2

LEMMA HeldString ==
  ASSUME NEW list \in Seq(Strings), NEW k \in 1..Len(list),
         NEW m, m = [i \in 1..Size(list) |-> m[i]], Holds(m, list, k)
  PROVE  strlen(m, Start(list, k)) = Len(list[k]) /\ Str(m, Start(list, k)) = list[k]
  <1> DEFINE p == Start(list, k)
             s == list[k]
             n == Len(s)
             size == Size(list)
  <1>1. p \in Nat \ {0} /\ n \in Nat /\ size \in Nat /\ p + n <= size
    BY Places
  <1>2. s \in Seq(Chars)
    BY DEF Strings
  <1>b. \A x \in 1..Len(s) : s[x] # 0
    <2>1. s \in Strings
      OBVIOUS
    <2> HIDE DEF s
    <2>2. QED
      BY ONLY <2>1, NoZeros
  <1>3. (\A i \in 1..n : m[p + (i - 1)] = s[i]) /\ m[p + n] = 0
    BY DEF Holds
  <1>4. m = [i \in 1..size |-> m[i]]
    OBVIOUS
  <1>5. strlen(m, p) = strlen(m, Start(list, k)) /\ Str(m, p) = Str(m, Start(list, k))
    OBVIOUS
  <1> HIDE DEF p, s, size
  <1>6. \A i \in 0..(n - 1) : m[p + i] # 0
    <2> TAKE i \in 0..(n - 1)
    <2> DEFINE j == i + 1
    <2>1. j \in 1..n /\ p + (j - 1) = p + i
      BY <1>1
    <2> HIDE DEF j, n
    <2>2. m[p + (j - 1)] = s[j]
      BY ONLY <2>1, <1>3
    <2>3. QED
      BY ONLY <1>b, <2>1, <2>2, Zenon DEF n
  <1>7. strlen(m, p) = n
    BY <1>1, <1>3, <1>4, <1>6, StrlenIs
  <1>8. Str(m, p) = SubSeq(m, p, (p + n) - 1)
    <2>1. Str(m, p) = SubSeq(m, p, p + strlen(m, p) - 1)
      BY DEF Str
    <2>2. p + strlen(m, p) - 1 = (p + n) - 1
      BY ONLY <1>1, <1>7
    <2>3. QED
      BY ONLY <2>1, <2>2
  <1>9. SubSeq(m, p, (p + n) - 1) = [i \in 1..n |-> m[p + (i - 1)]]
    <2> DEFINE S == {m[i] : i \in 1..size}
    <2>1. \A i \in 1..size : m[i] \in S
      OBVIOUS
    <2> HIDE DEF S, n
    <2>2. m \in [1..size -> S]
      BY ONLY <1>4, <2>1
    <2>3. m \in Seq(S)
      BY ONLY <1>1, <2>2
    <2>4. Len(m) = size
      BY ONLY <1>1, <2>2
    <2>5. p \in Int /\ (p + n) - 1 \in Int /\ 1 <= p /\ (p + n) - 1 <= size /\ ((p + n) - 1) - p + 1 = n
      BY ONLY <1>1
    <2> DEFINE q == (p + n) - 1
    <2> HIDE DEF q
    <2>6. SubSeq(m, p, q) = [i \in 1..((q - p) + 1) |-> m[(i + p) - 1]]
      BY ONLY <2>3, <2>4, <2>5 DEF q
    <2>7. (q - p) + 1 = n /\ \A i \in 1..n : (i + p) - 1 = p + (i - 1)
      BY ONLY <1>1, <2>5 DEF q
    <2>8. SubSeq(m, p, q) = [i \in 1..n |-> m[p + (i - 1)]]
      BY ONLY <2>6, <2>7
    <2>9. QED
      BY <2>8 DEF q
  <1>10. [i \in 1..n |-> m[p + (i - 1)]] = [i \in 1..n |-> s[i]]
    BY <1>3
  <1>11. s = [i \in 1..n |-> s[i]]
    BY <1>2
  <1>12. QED
    BY <1>5, <1>7, <1>8, <1>9, <1>10, <1>11 DEF s

-----------------------------------------------------------------------------
(* The model of -c: what is_c_model accepts has the shape. *)
LEMMA MinLeast ==
  ASSUME NEW S \in SUBSET Nat, S # {}
  PROVE  Min(S) \in S /\ \A y \in S : Min(S) <= y
  <1>1. PICK x \in S : \A y \in S : x <= y
    BY LeastNat
  <1>2. S \in SUBSET Int
    OBVIOUS
  <1>3. Min(S) = x
    BY <1>1, <1>2, MinIs
  <1>4. QED
    BY <1>1, <1>3

LEMMA SkipStops ==
  ASSUME NEW s, Len(s) \in Nat, NEW i \in 1..(Len(s) + 1), NEW class
  PROVE  Skip(s, i, class) \in i..(Len(s) + 1) /\ \A m \in i..(Skip(s, i, class) - 1) : s[m] \in class
  <1> DEFINE T == {k \in i..Len(s) : s[k] \notin class} \cup {Len(s) + 1}
             k == Min(T)
  <1>1. T \in SUBSET Nat /\ T # {} /\ T \subseteq i..(Len(s) + 1)
    OBVIOUS
  <1>2. Skip(s, i, class) = k
    BY DEF Skip
  <1>3. k \in T /\ \A y \in T : k <= y
    <2> HIDE DEF T
    <2>1. QED
      BY <1>1, MinLeast
  <1> HIDE DEF k
  <1>4. k \in i..(Len(s) + 1)
    BY <1>1, <1>3
  <1>5. ASSUME NEW m \in i..(k - 1) PROVE s[m] \in class
    <2>1. m \in i..Len(s) /\ ~(k <= m)
      BY <1>4
    <2>2. m \notin T
      BY <1>3, <2>1
    <2>3. QED
      BY <2>1, <2>2
  <1>6. QED
    BY <1>2, <1>4, <1>5

OffsetRec(lens, n, f) == f = [k \in 1..n |-> IF k = 1 THEN 0 ELSE f[k - 1] + lens[k - 1]]

LEMMA OffsetRecExists ==
  ASSUME NEW lens, NEW n \in Nat, 1 <= n
  PROVE  \E f : OffsetRec(lens, n, f)
  <1> DEFINE T == {m \in Nat : 1 <= m /\ ~\E f : OffsetRec(lens, m, f)}
  <1> SUFFICES ASSUME T # {} PROVE FALSE
    OBVIOUS
  <1>1. PICK m \in T : \A k \in T : m <= k
    <2>1. T \in SUBSET Nat
      OBVIOUS
    <2> HIDE DEF T
    <2>2. QED
      BY <2>1, LeastNat
  <1>2. m # 1
    <2>1. OffsetRec(lens, 1, [k \in 1..1 |-> 0])
      BY DEF OffsetRec
    <2>2. QED
      BY <2>1
  <1>3. m - 1 \in Nat /\ 1 <= m - 1 /\ m - 1 \notin T
    BY <1>1, <1>2
  <1>4. PICK f : OffsetRec(lens, m - 1, f)
    BY <1>3
  <1> DEFINE g == [k \in 1..m |-> IF k = m THEN f[m - 1] + lens[m - 1] ELSE f[k]]
             body(h, k) == IF k = 1 THEN 0 ELSE h[k - 1] + lens[k - 1]
  <1>5. \A k \in 1..(m - 1) : f[k] = body(f, k)
    <2>1. f = [k \in 1..(m - 1) |-> body(f, k)]
      BY <1>4 DEF OffsetRec
    <2> HIDE DEF body
    <2>2. QED
      BY <2>1
  <1>6. ASSUME NEW k \in 1..m PROVE g[k] = body(g, k)
    <2>1. CASE k = m
      BY <2>1, <1>2, <1>3
    <2>2. CASE k # m
      <3>1. /\ k \in 1..(m - 1) /\ g[k] = f[k]
            /\ k # 1 => k - 1 \in 1..m /\ k - 1 # m /\ g[k - 1] = f[k - 1]
        BY <2>2
      <3>2. f[k] = body(f, k)
        BY <3>1, <1>5
      <3> HIDE DEF g
      <3>3. QED
        BY <3>1, <3>2
    <2>3. QED
      BY <2>1, <2>2
  <1>7. OffsetRec(lens, m, g)
    <2>1. g = [k \in 1..m |-> g[k]]
      OBVIOUS
    <2> HIDE DEF g, body
    <2>2. g = [k \in 1..m |-> body(g, k)]
      BY <1>6, <2>1
    <2>3. QED
      BY <2>2 DEF OffsetRec, body
  <1>8. QED
    BY <1>7

LEMMA OffsetIs ==
  ASSUME NEW lens, NEW n \in Nat, 1 <= n
  PROVE  \E f : Offset(lens, n) = f[n] /\ f[1] = 0 /\ \A k \in 2..n : f[k] = f[k - 1] + lens[k - 1]
  <1> DEFINE f == CHOOSE f : OffsetRec(lens, n, f)
             body(k) == IF k = 1 THEN 0 ELSE f[k - 1] + lens[k - 1]
  <1>1. OffsetRec(lens, n, f)
    BY OffsetRecExists, Zenon
  <1>2. Offset(lens, n) = f[n]
    BY Zenon DEF Offset, OffsetRec
  <1> HIDE DEF f
  <1>3. f = [k \in 1..n |-> body(k)]
    BY <1>1 DEF OffsetRec
  <1>4. \A k \in 1..n : f[k] = body(k)
    <2> HIDE DEF body
    <2>1. QED
      BY <1>3
  <1>5. f[1] = 0 /\ \A k \in 2..n : f[k] = f[k - 1] + lens[k - 1]
    BY <1>4
  <1>6. QED
    BY <1>2, <1>5, Zenon

FiveSums(lens, a1, a2, a3, a4, a5) ==
  /\ Offset(lens, 1) = 0 /\ Offset(lens, 2) = a1 /\ Offset(lens, 3) = a1 + a2
  /\ Offset(lens, 4) = a1 + a2 + a3 /\ Offset(lens, 5) = a1 + a2 + a3 + a4
  /\ Offset(lens, 6) = a1 + a2 + a3 + a4 + a5

LEMMA FiveOffsets ==
  ASSUME NEW a1 \in Nat, NEW a2 \in Nat, NEW a3 \in Nat, NEW a4 \in Nat, NEW a5 \in Nat
  PROVE  FiveSums(<<a1, a2, a3, a4, a5>>, a1, a2, a3, a4, a5)
  <1> DEFINE lens == <<a1, a2, a3, a4, a5>>
  <1>a. lens[1] = a1 /\ lens[2] = a2 /\ lens[3] = a3 /\ lens[4] = a4 /\ lens[5] = a5
    OBVIOUS
  <1> HIDE DEF lens
  <1>1. ASSUME NEW n \in 1..6
        PROVE \E f : /\ Offset(lens, n) = f[n] /\ f[1] = 0
                     /\ n >= 2 => f[2] = f[1] + a1
                     /\ n >= 3 => f[3] = f[2] + a2
                     /\ n >= 4 => f[4] = f[3] + a3
                     /\ n >= 5 => f[5] = f[4] + a4
                     /\ n >= 6 => f[6] = f[5] + a5
    <2>1. PICK f : Offset(lens, n) = f[n] /\ f[1] = 0 /\ \A k \in 2..n : f[k] = f[k - 1] + lens[k - 1]
      BY OffsetIs
    <2>2. /\ n >= 2 => f[2] = f[1] + a1
          /\ n >= 3 => f[3] = f[2] + a2
          /\ n >= 4 => f[4] = f[3] + a3
          /\ n >= 5 => f[5] = f[4] + a4
          /\ n >= 6 => f[6] = f[5] + a5
      BY <2>1, <1>a
    <2>3. QED
      BY <2>1, <2>2, Zenon
  <1>2. Offset(lens, 1) = 0
    BY <1>1
  <1>3. Offset(lens, 2) = a1
    <2>1. PICK f : Offset(lens, 2) = f[2] /\ f[1] = 0 /\ f[2] = f[1] + a1
      BY <1>1
    <2>2. QED
      BY <2>1
  <1>4. Offset(lens, 3) = a1 + a2
    <2>1. PICK f : Offset(lens, 3) = f[3] /\ f[1] = 0 /\ f[2] = f[1] + a1 /\ f[3] = f[2] + a2
      BY <1>1
    <2>2. QED
      BY <2>1
  <1>5. Offset(lens, 4) = a1 + a2 + a3
    <2>1. PICK f : /\ Offset(lens, 4) = f[4] /\ f[1] = 0 /\ f[2] = f[1] + a1 /\ f[3] = f[2] + a2
                   /\ f[4] = f[3] + a3
      BY <1>1
    <2>2. QED
      BY <2>1
  <1>6. Offset(lens, 5) = a1 + a2 + a3 + a4
    <2>1. PICK f : /\ Offset(lens, 5) = f[5] /\ f[1] = 0 /\ f[2] = f[1] + a1 /\ f[3] = f[2] + a2
                   /\ f[4] = f[3] + a3 /\ f[5] = f[4] + a4
      BY <1>1
    <2>2. QED
      BY <2>1
  <1>7. Offset(lens, 6) = a1 + a2 + a3 + a4 + a5
    <2>1. PICK f : /\ Offset(lens, 6) = f[6] /\ f[1] = 0 /\ f[2] = f[1] + a1 /\ f[3] = f[2] + a2
                   /\ f[4] = f[3] + a3 /\ f[5] = f[4] + a4 /\ f[6] = f[5] + a5
      BY <1>1
    <2>2. QED
      BY <2>1
  <1>8. QED
    BY <1>2, <1>3, <1>4, <1>5, <1>6, <1>7 DEF FiveSums, lens

LEMMA SubSeqIs ==
  ASSUME NEW S, NEW s \in Seq(S), NEW i \in 1..(Len(s) + 1), NEW j \in (i - 1)..Len(s)
  PROVE  /\ SubSeq(s, i, j) \in Seq(S) /\ Len(SubSeq(s, i, j)) = (j - i) + 1
         /\ DOMAIN SubSeq(s, i, j) = 1..((j - i) + 1)
         /\ \A x \in 1..((j - i) + 1) : SubSeq(s, i, j)[x] = s[(x + i) - 1]
  <1>1. i \in Int /\ j \in Int /\ Len(s) \in Nat /\ (j - i) + 1 \in Nat
    OBVIOUS
  <1>2. SubSeq(s, i, j) \in Seq(S)
    BY <1>1
  <1>3. SubSeq(s, i, j) = [x \in 1..((j - i) + 1) |-> s[(x + i) - 1]]
    BY <1>1
  <1>4. QED
    BY <1>1, <1>2, <1>3

(* All characters of a part of a string that a loop went over. *)
LEMMA PartOfClass ==
  ASSUME NEW s \in Strings, NEW i \in 1..(Len(s) + 1), NEW j \in i..(Len(s) + 1), NEW class,
         \A m \in i..(j - 1) : s[m] \in class
  PROVE  ToSet(SubSeq(s, i, j - 1)) \subseteq class
  <1>a. Len(s) \in Nat
    BY DEF Strings
  <1> DEFINE q == j - 1
             r == SubSeq(s, i, q)
  <1>1. q \in (i - 1)..Len(s)
    BY <1>a
  <1> HIDE DEF q
  <1>2. DOMAIN r = 1..((q - i) + 1) /\ \A x \in 1..((q - i) + 1) : r[x] = s[(x + i) - 1]
    BY <1>1, SubSeqIs DEF Strings
  <1> HIDE DEF r
  <1>3. ASSUME NEW x \in DOMAIN r PROVE r[x] \in class
    <2> DEFINE m == (x + i) - 1
    <2>1. x \in 1..((q - i) + 1) /\ m \in i..(j - 1)
      BY <1>a, <1>1, <1>2 DEF q
    <2> HIDE DEF m
    <2>2. r[x] = s[m]
      BY <1>2, <2>1 DEF m
    <2>3. QED
      BY <2>1, <2>2
  <1>4. ToSet(r) \subseteq class
    BY <1>3 DEF ToSet
  <1>5. QED
    BY <1>4 DEF r, q

LEMMA CModelFits ==
  ASSUME NEW s \in Strings, is_c_model(s)
  PROVE  Fits(flag_c, s)
  <1> DEFINE n == Len(s)
             f == Skip(s, 1, {ch_f})
             up == Skip(s, f, Upper)
             p == Skip(s, up, {ch_p})
             e == Skip(s, p, Upper)
  <1>a. n \in Nat
    BY DEF Strings
  <1>1. /\ odd(f - 1) /\ f < n
        /\ odd(up - f) /\ up < n
        /\ p - up >= 2 /\ p < n
        /\ SubSeq(s, p, e - 1) = deal_positioned(SubSeq(s, f, up - 1))
        /\ n + 1 - e \in 1..3 /\ Skip(s, e, Digit) = n + 1
    BY DEF is_c_model
  <1>2. f \in 1..(n + 1) /\ \A m \in 1..(f - 1) : s[m] \in {ch_f}
    <2>1. 1 \in 1..(n + 1)
      BY <1>a
    <2>2. QED
      BY <1>a, <2>1, SkipStops
  <1> HIDE DEF f
  <1>3. up \in f..(n + 1) /\ up \in 1..(n + 1) /\ \A m \in f..(up - 1) : s[m] \in Upper
    <2>1. up \in f..(n + 1) /\ \A m \in f..(up - 1) : s[m] \in Upper
      BY <1>a, <1>2, SkipStops
    <2>2. QED
      BY <2>1, <1>a, <1>2
  <1> HIDE DEF up
  <1>4. p \in up..(n + 1) /\ p \in 1..(n + 1) /\ \A m \in up..(p - 1) : s[m] \in {ch_p}
    <2>1. p \in up..(n + 1) /\ \A m \in up..(p - 1) : s[m] \in {ch_p}
      BY <1>a, <1>3, SkipStops
    <2> HIDE DEF p
    <2>2. p \in up..(n + 1) /\ up \in 1..(n + 1)
      BY <2>1, <1>3
    <2>3. p \in 1..(n + 1)
      BY ONLY <2>2, <1>a
    <2>4. QED
      BY <2>1, <2>3
  <1> HIDE DEF p
  <1>5. e \in p..(n + 1) /\ e \in 1..(n + 1) /\ \A m \in p..(e - 1) : s[m] \in Upper
    <2>1. e \in p..(n + 1) /\ \A m \in p..(e - 1) : s[m] \in Upper
      BY <1>a, <1>4, SkipStops
    <2>2. QED
      BY <2>1, <1>a, <1>4
  <1> HIDE DEF e
  <1>6. \A m \in e..n : s[m] \in Digit
    <2>1. \A m \in e..(Skip(s, e, Digit) - 1) : s[m] \in Digit
      BY <1>a, <1>5, SkipStops
    <2>2. QED
      BY <2>1, <1>1, <1>a, <1>5
  <1> DEFINE F == f - 1
             E == up - f
             P == p - up
             X == (E + 1) \div 2
             D == (n + 1) - e
             lens == <<F, E, P, X, D>>
             half == SubSeq(s, f, up - 1)
             again == SubSeq(s, p, e - 1)
  <1>7. /\ half \in Seq(Chars) /\ Len(half) = E /\ again \in Seq(Chars) /\ Len(again) = e - p
    <2> DEFINE q == up - 1
               r == e - 1
    <2>1. q \in (f - 1)..n /\ r \in (p - 1)..n /\ (q - f) + 1 = up - f /\ (r - p) + 1 = e - p
      BY <1>a, <1>2, <1>3, <1>4, <1>5
    <2> HIDE DEF q, r
    <2>2. SubSeq(s, f, q) \in Seq(Chars) /\ Len(SubSeq(s, f, q)) = (q - f) + 1
      BY <1>2, <2>1, SubSeqIs DEF Strings
    <2>3. SubSeq(s, p, r) \in Seq(Chars) /\ Len(SubSeq(s, p, r)) = (r - p) + 1
      BY <1>4, <2>1, SubSeqIs DEF Strings
    <2>4. QED
      BY <2>1, <2>2, <2>3 DEF q, r
  <1> HIDE DEF half, again
  <1>b. E \in Nat /\ E % 2 = 1
    BY <1>1, <1>2, <1>3, <1>a DEF odd
  <1>8. X = 1 + (E \div 2) /\ X \in Nat
    <2> HIDE DEF E
    <2>1. QED
      BY <1>b
  <1>9. /\ again = [k \in 1..(1 + (E \div 2)) |-> half[2 * k - 1]]
        /\ e - p = X
    <2>1. again = deal_positioned(half)
      BY <1>1 DEF half, again
    <2>2. again = [k \in 1..(1 + (Len(half) \div 2)) |-> half[2 * k - 1]]
      BY <2>1 DEF deal_positioned
    <2> HIDE DEF E, X
    <2>3. again = [k \in 1..(1 + (E \div 2)) |-> half[2 * k - 1]]
      BY <2>2, <1>7
    <2>4. Len(again) = 1 + (E \div 2)
      BY <2>3, <1>b, <1>8
    <2>5. QED
      BY <2>3, <2>4, <1>7, <1>8
  <1>10. /\ F \in Nat /\ P \in Nat /\ D \in 1..3 /\ P >= 2 /\ F % 2 = 1
         /\ F + E = up - 1 /\ F + E + P = p - 1 /\ F + E + P + X = e - 1 /\ F + E + P + X + D = n
         /\ F \in 1..n /\ E \in 1..n /\ P \in 2..n
    <2> HIDE DEF X
    <2>1. F \in Nat /\ F % 2 = 1 /\ F >= 1
      BY <1>1, <1>2, <1>a DEF odd
    <2>2. E >= 1
      BY <1>b
    <2>3. (n + 1) - e = n + 1 - e
      BY <1>a, <1>5
    <2>4. QED
      BY <1>1, <1>2, <1>3, <1>4, <1>5, <1>8, <1>9, <1>a, <1>b, <2>1, <2>2, <2>3
  <1>11. /\ Offset(lens, 1) = 0 /\ Offset(lens, 2) = f - 1 /\ Offset(lens, 3) = up - 1
         /\ Offset(lens, 4) = p - 1 /\ Offset(lens, 5) = e - 1 /\ Offset(lens, 6) = n
    <2>1. D \in Nat /\ F = f - 1
      BY <1>10, SMTT(30)
    <2> HIDE DEF F, E, P, X, D
    <2>2. /\ Offset(lens, 1) = 0 /\ Offset(lens, 2) = F /\ Offset(lens, 3) = F + E
          /\ Offset(lens, 4) = F + E + P /\ Offset(lens, 5) = F + E + P + X
          /\ Offset(lens, 6) = F + E + P + X + D
      <3>1. F \in Nat /\ E \in Nat /\ P \in Nat /\ X \in Nat /\ D \in Nat
        BY <1>8, <1>10, <1>b, <2>1
      <3>2. FiveSums(lens, F, E, P, X, D)
        BY ONLY <3>1, FiveOffsets
      <3> HIDE DEF lens
      <3>3. QED
        BY ONLY <3>2 DEF FiveSums
    <2>3. QED
      BY <1>10, <2>1, <2>2
  <1>12. /\ Part(s, lens, 1) = SubSeq(s, 1, f - 1) /\ Part(s, lens, 2) = SubSeq(s, f, up - 1)
         /\ Part(s, lens, 3) = SubSeq(s, up, p - 1) /\ Part(s, lens, 4) = SubSeq(s, p, e - 1)
         /\ Part(s, lens, 5) = SubSeq(s, e, n)
    <2> HIDE DEF lens
    <2>1. (f - 1) + 1 = f /\ (up - 1) + 1 = up /\ (p - 1) + 1 = p /\ (e - 1) + 1 = e
      BY <1>2, <1>3, <1>4, <1>5
    <2>2. \A k : Part(s, lens, k) = SubSeq(s, Offset(lens, k) + 1, Offset(lens, k + 1))
      BY DEF Part
    <2>3. 1 + 1 = 2 /\ 2 + 1 = 3 /\ 3 + 1 = 4 /\ 4 + 1 = 5 /\ 5 + 1 = 6 /\ 0 + 1 = 1
      OBVIOUS
    <2>4. QED
      BY ONLY <1>11, <2>1, <2>2, <2>3
  <1>13. /\ ToSet(Part(s, lens, 1)) \subseteq {ch_f} /\ ToSet(Part(s, lens, 2)) \subseteq Upper
         /\ ToSet(Part(s, lens, 3)) \subseteq {ch_p} /\ ToSet(Part(s, lens, 4)) \subseteq Upper
         /\ ToSet(Part(s, lens, 5)) \subseteq Digit
    <2> HIDE DEF lens
    <2>1. ToSet(SubSeq(s, 1, f - 1)) \subseteq {ch_f}
      <3>1. 1 \in 1..(n + 1) /\ f \in 1..(n + 1)
        BY <1>2, <1>a
      <3>2. QED
        BY <3>1, <1>2, PartOfClass
    <2>2. ToSet(SubSeq(s, f, up - 1)) \subseteq Upper
      BY <1>2, <1>3, PartOfClass
    <2>3. ToSet(SubSeq(s, up, p - 1)) \subseteq {ch_p}
      BY <1>3, <1>4, PartOfClass
    <2>4. ToSet(SubSeq(s, p, e - 1)) \subseteq Upper
      BY <1>4, <1>5, PartOfClass
    <2>5. ToSet(SubSeq(s, e, n)) \subseteq Digit
      <3> DEFINE j == n + 1
      <3>1. j \in e..(n + 1) /\ j - 1 = n
        BY <1>5, <1>a
      <3> HIDE DEF j
      <3>2. \A m \in e..(j - 1) : s[m] \in Digit
        BY <3>1, <1>6
      <3>3. ToSet(SubSeq(s, e, j - 1)) \subseteq Digit
        BY <3>1, <3>2, <1>5, PartOfClass
      <3>4. QED
        BY <3>1, <3>3
    <2>6. QED
      BY <1>12, <2>1, <2>2, <2>3, <2>4, <2>5
  <1> DEFINE classes == <<{ch_f}, Upper, {ch_p}, Upper, Digit>>
  <1>14. Shape(s, lens, classes)
    <2>1. Len(lens) + 1 = 6 /\ DOMAIN lens = 1..5
      OBVIOUS
    <2>2. /\ classes[1] = {ch_f} /\ classes[2] = Upper /\ classes[3] = {ch_p} /\ classes[4] = Upper
          /\ classes[5] = Digit
      OBVIOUS
    <2> HIDE DEF lens, classes
    <2>3. ASSUME NEW part \in DOMAIN lens PROVE ToSet(Part(s, lens, part)) \subseteq classes[part]
      <3>1. part = 1 \/ part = 2 \/ part = 3 \/ part = 4 \/ part = 5
        BY <2>1
      <3>2. QED
        BY <3>1, <2>2, <1>13, Zenon
    <2>4. n = Offset(lens, Len(lens) + 1)
      BY <2>1, <1>11
    <2>5. QED
      BY <2>3, <2>4, Zenon DEF Shape
  <1>15. \A k \in 1..X : Part(s, lens, 4)[k] = Part(s, lens, 2)[2 * k - 1]
    <2>1. Part(s, lens, 4) = again /\ Part(s, lens, 2) = half
      BY <1>12 DEF again, half
    <2> HIDE DEF lens, X, E
    <2>2. \A k \in 1..X : again[k] = half[2 * k - 1]
      BY <1>8, <1>9
    <2>3. QED
      BY <2>1, <2>2
  <1>16. /\ F \in {m \in DOMAIN s : odd(m)} /\ E \in {m \in DOMAIN s : odd(m)}
         /\ P \in 2..Len(s) /\ D \in 1..3
    <2>1. DOMAIN s = 1..n
      BY DEF Strings
    <2>2. QED
      BY <2>1, <1>10, <1>b DEF odd
  <1> DEFINE Good(f1, e1, p1, d1) ==
               LET l == <<f1, e1, p1, (e1 + 1) \div 2, d1>>
               IN  /\ Shape(s, l, classes)
                   /\ \A k \in 1..((e1 + 1) \div 2) : Part(s, l, 4)[k] = Part(s, l, 2)[2 * k - 1]
  <1>17. Good(F, E, P, D)
    BY <1>14, <1>15
  <1>18. \E f1, e1 \in {m \in DOMAIN s : odd(m)}, p1 \in 2..Len(s), d1 \in 1..3 : Good(f1, e1, p1, d1)
    <2> HIDE DEF F, E, P, D, Good
    <2>1. QED
      BY <1>16, <1>17, Zenon
  <1>19. flag_c # flag_a /\ flag_c # flag_b
    BY DEF flag_a, flag_b, flag_c
  <1> DEFINE a_case == \E l \in 0..3, t \in 1..5, d \in 1..3 : Shape(s, <<l, t, d>>, <<{ch_l}, {ch_t}, Digit>>)
             b_case == \E i \in 2..Len(s), d \in 1..3, u, e1 \in {m \in DOMAIN s : odd(m)} :
                         LET l == <<i, d, u, d, e1>>
                         IN  Shape(s, l, <<{ch_i}, Digit, {ch_u}, Digit, Upper>>)
                               /\ Part(s, l, 4) = Reverse(Part(s, l, 2))
             c_case == \E f1, e1 \in {m \in DOMAIN s : odd(m)}, p1 \in 2..Len(s), d1 \in 1..3 : Good(f1, e1, p1, d1)
  <1>20. Fits(flag_c, s) = CASE flag_c = flag_a -> a_case [] flag_c = flag_b -> b_case [] flag_c = flag_c -> c_case
    BY Zenon DEF Fits
  <1> HIDE DEF a_case, b_case, Good
  <1>21. c_case
    BY <1>18
  <1> HIDE DEF c_case
  <1>22. QED
    BY <1>19, <1>20, <1>21

-----------------------------------------------------------------------------
(* What a conversion does to the arguments behind the converted one. *)
KeepsLater(m, r, list, k) ==
  /\ r = [i \in 1..Size(list) |-> r[i]]
  /\ \A i \in 1..Size(list) : i > Start(list, k) + Len(list[k]) => r[i] = m[i]

LEMMA LaterHeld ==
  ASSUME NEW list \in Seq(Strings), NEW k \in 1..Len(list), NEW j \in 1..Len(list), k < j,
         NEW m, NEW r, KeepsLater(m, r, list, k), Holds(m, list, j)
  PROVE  Holds(r, list, j)
  <1> DEFINE p == Start(list, k)
             n == Len(list[k])
             q == Start(list, j)
             s == list[j]
             size == Size(list)
  <1>1. p \in Nat /\ n \in Nat /\ size \in Nat /\ p + n < q
    <2>1. j \in (k + 1)..Len(list)
      OBVIOUS
    <2>2. QED
      BY <2>1, Places
  <1>2. q \in Nat /\ Len(s) \in Nat /\ q + Len(s) <= size
    BY Places
  <1>3. \A i \in 1..size : i > p + n => r[i] = m[i]
    BY DEF KeepsLater
  <1>4. (\A i \in 1..Len(s) : m[q + (i - 1)] = s[i]) /\ m[q + Len(s)] = 0
    BY DEF Holds
  <1>5. (\A i \in 1..Len(s) : r[q + (i - 1)] = s[i]) /\ r[q + Len(s)] = 0
    <2> HIDE DEF p, n, q, s, size
    <2>1. \A i \in 1..Len(s) : q + (i - 1) \in 1..size /\ q + (i - 1) > p + n
      BY ONLY <1>1, <1>2
    <2>2. q + Len(s) \in 1..size /\ q + Len(s) > p + n
      BY ONLY <1>1, <1>2
    <2>3. ASSUME NEW i \in 1..Len(s) PROVE r[q + (i - 1)] = s[i]
      <3> DEFINE x == q + (i - 1)
      <3>1. x \in 1..size /\ x > p + n
        BY <2>1
      <3>2. m[x] = s[i]
        BY <1>4
      <3> HIDE DEF x
      <3>3. r[x] = s[i]
        BY ONLY <1>3, <3>1, <3>2
      <3>4. QED
        BY <3>3 DEF x
    <2>4. QED
      BY <2>2, <2>3, <1>3, <1>4
  <1>6. QED
    BY <1>5 DEF Holds

Memory(m, size) == m = [i \in 1..size |-> m[i]]

(* r is m with the bytes from low to high moved down by one. *)
Shifted(m, r, size, low, high) ==
  /\ \A i \in 1..size : i < low \/ i > high => r[i] = m[i]
  /\ \A i \in 1..size : low <= i /\ i <= high => r[i] = m[i + 1]

EndsAt(m, p, n) == m[p + n] = 0 /\ \A i \in 0..(n - 1) : m[p + i] # 0

LEMMA StrlenOf ==
  ASSUME NEW m, NEW size \in Nat, Memory(m, size), NEW p \in Nat \ {0}, NEW n \in Nat,
         p + n <= size, EndsAt(m, p, n)
  PROVE  strlen(m, p) = n
  BY StrlenIs DEF Memory, EndsAt

LEMMA RemoveShifts ==
  ASSUME NEW m, NEW size \in Nat, Memory(m, size), NEW p \in Nat, NEW index \in Int,
         NEW n \in Int, strlen(m, p) = n
  PROVE  /\ Memory(remove_char_at_index(m, p, index), size)
         /\ Shifted(m, remove_char_at_index(m, p, index), size, p + index, ((p + index) + n) - 2)
  <1> USE DEF Memory
  <1> DEFINE r == remove_char_at_index(m, p, index)
             l == p + index
             h == p + index + (n - 1) - 1
  <1>1. DOMAIN m = 1..size
    OBVIOUS
  <1>2. r = [i \in DOMAIN m |-> IF i \in l..h THEN m[i + 1] ELSE m[i]]
    BY DEF remove_char_at_index
  <1>3. l \in Int /\ h \in Int /\ h = ((p + index) + n) - 2
    OBVIOUS
  <1> HIDE DEF r, l, h
  <1>4. r = [i \in 1..size |-> IF i \in l..h THEN m[i + 1] ELSE m[i]]
    BY ONLY <1>1, <1>2
  <1>5. \A i \in 1..size : r[i] = IF i \in l..h THEN m[i + 1] ELSE m[i]
    BY ONLY <1>4
  <1>6. r = [i \in 1..size |-> r[i]]
    BY ONLY <1>4
  <1>7. Shifted(m, r, size, l, h)
    BY ONLY <1>3, <1>5, size \in Nat DEF Shifted
  <1>8. QED
    BY <1>3, <1>6, <1>7 DEF r, l

LEMMA IndicesIn ==
  ASSUME NEW s \in Strings, Indices(s) # {}
  PROVE  /\ Len(s) \in Nat
         /\ Min(Indices(s)) \in 0..(Len(s) - 1) /\ Max(Indices(s)) \in 0..(Len(s) - 1)
  <1> DEFINE found == Indices(s)
             n == Len(s)
             T == {n - x : x \in found}
             Greatest(x) == \A y \in found : x >= y
  <1>a. n \in Nat /\ DOMAIN s = 1..n
    BY DEF Strings
  <1>1. found \subseteq 0..(n - 1)
    BY <1>a DEF Indices
  <1> HIDE DEF found
  <1>2. found \in SUBSET Nat /\ found # {}
    BY <1>1, <1>a DEF found
  <1>3. Min(found) \in found
    BY <1>2, MinLeast
  <1>4. T \in SUBSET Nat /\ T # {}
    <2>1. ASSUME NEW x \in found PROVE n - x \in Nat
      BY <1>1, <1>a
    <2>2. QED
      BY <2>1, <1>2
  <1>5. PICK t \in T : \A y \in T : t <= y
    <2> HIDE DEF T
    <2>1. QED
      BY <1>4, LeastNat
  <1>6. PICK x \in found : t = n - x
    OBVIOUS
  <1>7. Greatest(x)
    <2> TAKE y \in found
    <2>1. n - x <= n - y
      BY <1>5, <1>6
    <2>2. x \in Nat /\ y \in Nat
      BY <1>2
    <2>3. QED
      BY <2>1, <2>2, <1>a
  <1>8. Max(found) = CHOOSE z \in found : Greatest(z)
    BY DEF Max
  <1> HIDE DEF Greatest, T
  <1>9. Max(found) \in found
    BY <1>7, <1>8
  <1>10. QED
    BY <1>1, <1>3, <1>9, <1>a DEF found

LEMMA ConversionOfC ==
  ASSUME NEW list \in Seq(Strings), NEW k \in 1..Len(list),
         NEW m, m = [i \in 1..Size(list) |-> m[i]], Holds(m, list, k),
         Indices(list[k]) # {} => Min(Indices(list[k])) < 3 /\ Max(Indices(list[k])) < 5
  PROVE  KeepsLater(m, c_model_conversion(m, Start(list, k)), list, k)
  <1> DEFINE p == Start(list, k)
             s == list[k]
             n == Len(s)
             size == Size(list)
             found == Indices(s)
             first == IF found = {} THEN 0 ELSE Min(found)
             last == Max(found)
             m1 == remove_char_at_index(m, p, first)
             m2 == remove_char_at_index(m1, p, last - 1)
             r == c_model_conversion(m, p)
  <1>1. strlen(m, p) = n /\ Str(m, p) = s
    BY HeldString
  <1>2. p \in Nat \ {0} /\ n \in Nat /\ size \in Nat /\ p + n <= size
    BY Places
  <1>3. r = IF first = 0 THEN m ELSE m2
    <2>1. r = LET g == Indices(Str(m, p))
                  x == IF g = {} THEN 0 ELSE Min(g)
                  y == Max(g)
              IN  IF x = 0 THEN m ELSE remove_char_at_index(remove_char_at_index(m, p, x), p, y - 1)
      BY DEF c_model_conversion
    <2> HIDE DEF r, p, s
    <2>2. QED
      BY ONLY <2>1, <1>1, Zenon
  <1>b. m = [i \in 1..size |-> m[i]]
    OBVIOUS
  <1>c. s \in Strings
    OBVIOUS
  <1>h. (\A i \in 1..n : m[p + (i - 1)] = s[i]) /\ m[p + n] = 0
    BY DEF Holds
  <1>d. found # {} => Min(found) < 3 /\ Max(found) < 5
    OBVIOUS
  <1>4. KeepsLater(m, r, list, k) = (/\ r = [i \in 1..size |-> r[i]]
                                     /\ \A i \in 1..size : i > p + n => r[i] = m[i])
    BY DEF KeepsLater
  <1> HIDE DEF p, s, size, r
  <1>5. CASE first = 0
    <2>1. r = m
      BY <1>3, <1>5
    <2>2. QED
      BY ONLY <2>1, <1>4, <1>b DEF r, p
  <1>6. CASE first # 0
    <2>1. found # {} /\ first = Min(found)
      BY ONLY <1>6
    <2>2. first \in 0..(n - 1) /\ last \in 0..(n - 1) /\ first < 3 /\ last < 5
      BY ONLY <2>1, <1>c, <1>d, IndicesIn
    <2> HIDE DEF first, last, found
    <2>3. first \in 1..2 /\ first <= n - 1 /\ last \in 0..4
      BY ONLY <2>2, <1>2, <1>6
    <2> DEFINE h1 == ((p + first) + n) - 2
               l2 == last - 1
               n1 == n - 1
               h2 == ((p + l2) + n1) - 2
    <2>4. /\ first \in Int /\ n \in Int /\ p \in Nat /\ l2 \in Int /\ n1 \in Nat /\ p + n1 <= size
          /\ h1 \in Int /\ h1 <= p + n /\ h2 \in Int /\ h2 <= p + n
      BY ONLY <2>3, <1>2
    <2>m. Memory(m, size)
      BY <1>b DEF Memory
    <2>5. Memory(m1, size) /\ Shifted(m, m1, size, p + first, h1)
      BY ONLY <2>4, <2>m, <1>1, <1>2, RemoveShifts
    <2> HIDE DEF m1
    <2>6. EndsAt(m1, p, n1)
      <3>1. m1[p + n1] = 0
        <4> DEFINE i == p + n1
        <4>1. i \in 1..size /\ p + first <= i /\ i <= h1 /\ i + 1 = p + n
          BY ONLY <2>3, <1>2
        <4> HIDE DEF i
        <4>2. m1[i] = m[i + 1]
          BY ONLY <4>1, <2>5 DEF Shifted
        <4>3. QED
          BY ONLY <4>1, <4>2, <1>h DEF i
      <3>2. ASSUME NEW i \in 0..(n1 - 1) PROVE m1[p + i] # 0
        <4> DEFINE x == p + i
                   j1 == i + 1
                   j2 == i + 2
        <4>1. /\ i \in Int /\ x \in 1..size /\ x + 1 \in 1..size /\ j1 \in 1..n /\ j2 \in 1..n
              /\ x = p + (j1 - 1) /\ x + 1 = p + (j2 - 1)
          BY ONLY <2>3, <1>2, i \in 0..(n1 - 1)
        <4>a. x < p + first \/ (p + first <= x /\ x <= h1)
          BY ONLY <2>3, <1>2, i \in 0..(n1 - 1)
        <4> HIDE DEF x, j1, j2, h1
        <4>2. m[x] = s[j1] /\ m[x + 1] = s[j2]
          BY ONLY <4>1, <1>h
        <4>3. m[x] # 0 /\ m[x + 1] # 0
          BY ONLY <4>1, <4>2, <1>c, NoZeros
        <4>4. m1[x] = m[x] \/ m1[x] = m[x + 1]
          BY ONLY <4>a, <4>1, <2>5 DEF Shifted
        <4>5. QED
          BY ONLY <4>3, <4>4 DEF x
      <3>3. QED
        BY ONLY <3>1, <3>2 DEF EndsAt
    <2> HIDE DEF h1, l2, n1, h2
    <2>7. strlen(m1, p) = n1
      BY ONLY <2>4, <2>5, <2>6, <1>2, StrlenOf
    <2>8. Memory(m2, size) /\ Shifted(m1, m2, size, p + l2, h2)
      <3>1. n1 \in Int
        BY ONLY <2>4
      <3>2. /\ Memory(remove_char_at_index(m1, p, l2), size)
            /\ Shifted(m1, remove_char_at_index(m1, p, l2), size, p + l2, ((p + l2) + n1) - 2)
        BY ONLY <3>1, <2>4, <2>5, <2>7, <1>2, RemoveShifts
      <3>3. QED
        BY ONLY <3>2 DEF l2, h2
    <2> HIDE DEF m2
    <2>9. r = m2
      BY ONLY <1>3, <1>6 DEF first
    <2>10. ASSUME NEW i \in 1..size, i > p + n PROVE m2[i] = m[i]
      <3>1. i > h1 /\ i > h2
        BY ONLY <2>4, <2>10, <1>2
      <3>2. m2[i] = m1[i] /\ m1[i] = m[i]
        BY ONLY <3>1, <2>5, <2>8, i \in 1..size DEF Shifted
      <3>3. QED
        BY ONLY <3>2
    <2>11. /\ r = [i \in 1..size |-> r[i]]
           /\ \A i \in 1..size : i > p + n => r[i] = m[i]
      BY ONLY <2>8, <2>9, <2>10 DEF Memory
    <2>12. QED
      BY ONLY <2>11, <1>4 DEF r, p
  <1>7. QED
    BY ONLY <1>5, <1>6

LEMMA ConversionOfA ==
  ASSUME NEW list \in Seq(Strings), NEW k \in 1..Len(list),
         NEW m, m = [i \in 1..Size(list) |-> m[i]], Holds(m, list, k)
  PROVE  KeepsLater(m, a_model_conversion(m, Start(list, k)), list, k)
  <1> DEFINE p == Start(list, k)
             n == Len(list[k])
             size == Size(list)
             r == a_model_conversion(m, p)
             swap(i) == IF m[i] = ch_D THEN ch_F ELSE IF m[i] = ch_F THEN ch_D ELSE m[i]
  <1>1. strlen(m, p) = n
    BY HeldString
  <1>2. p \in Nat \ {0} /\ n \in Nat /\ size \in Nat /\ p + n <= size
    BY Places
  <1>3. r = [i \in DOMAIN m |-> IF i \notin p..(p + strlen(m, p) - 1) THEN m[i] ELSE swap(i)]
    BY DEF a_model_conversion
  <1>4. DOMAIN m = 1..size
    OBVIOUS
  <1>5. KeepsLater(m, r, list, k) = (/\ r = [i \in 1..size |-> r[i]]
                                     /\ \A i \in 1..size : i > p + n => r[i] = m[i])
    BY DEF KeepsLater
  <1> HIDE DEF r, p, n, size, swap
  <1>6. r = [i \in 1..size |-> IF i \notin p..(p + n - 1) THEN m[i] ELSE swap(i)]
    BY ONLY <1>1, <1>3, <1>4
  <1>7. r = [i \in 1..size |-> r[i]]
    BY ONLY <1>6
  <1>8. \A i \in 1..size : r[i] = IF i \notin p..(p + n - 1) THEN m[i] ELSE swap(i)
    BY ONLY <1>6
  <1>9. \A i \in 1..size : i > p + n => r[i] = m[i]
    BY ONLY <1>2, <1>8
  <1>10. QED
    BY ONLY <1>5, <1>7, <1>9 DEF r, p

LEMMA MatchInitially ==
  ASSUME MatchInit
  PROVE  MatchInv
  <1>1. args \in Seq(Strings) /\ mem = Layout(args) /\ argno = 1 /\ output = <<>> /\ matching = "main"
    BY BytesAssumption DEF MatchInit, MatchIdle, Strings, Chars
  <1>2. MatchTypes
    <2>1. output \in Seq({})
      BY <1>1
    <2>2. QED
      BY <1>1, <2>1 DEF MatchTypes
  <1>3. ArgumentsHeld
    <2>1. mem = [k \in 1..Size(args) |-> mem[k]]
      BY <1>1, LayoutIs
    <2>2. ASSUME NEW k \in DOMAIN args
          PROVE  Holds(mem, args, k)
      <3>1. k \in 1..Len(args)
        BY <1>1
      <3>2. QED
        BY ONLY <1>1, <3>1, Places
    <2>3. QED
      BY ONLY <2>1, <2>2 DEF ArgumentsHeld
  <1>4. ArgumentsKept
    BY <1>1 DEF ArgumentsKept
  <1>5. QED
    BY <1>2, <1>3, <1>4 DEF MatchInv

(* An entry of the output is the argument, or an earlier one reached it. *)
Entry(out, list, converts, k) ==
  \/ out[k].seen = list[out[k].arg]
  \/ converts /\ \E j \in 1..(k - 1) : Reaches(out[j].seen)

LEMMA KeptEntries ==
  ArgumentsKept <=> \A k \in DOMAIN output : Entry(output, args, ConvertsC, k)
  BY Zenon DEF ArgumentsKept, Entry, ConvertsC, Reaches

LEMMA KeptEntriesNext ==
  ArgumentsKept' <=> \A k \in DOMAIN output' : Entry(output', args', ConvertsC', k)
  BY Zenon DEF ArgumentsKept, Entry, ConvertsC, Reaches

(* What the three loops of main do with one argument. *)
LEMMA Answered ==
  ASSUME MatchInv, matching = "loop", matching' = "loop", argno <= Len(args),
         args' = args, mode' = mode, argno' = argno + 1,
         NEW said,
         output' = Append(output, [arg |-> argno, seen |-> Str(mem, Start(args, argno)), said |-> said]),
         ArgumentsHeld => \/ mem' = mem
                          \/ KeepsLater(mem, mem', args, argno)
                          \/ ConvertsC /\ Reaches(args[argno])
  PROVE  MatchInv'
  <1> DEFINE e == [arg |-> argno, seen |-> Str(mem, Start(args, argno)), said |-> said]
             n == Len(output)
  <1>1. PICK S : output \in Seq(S)
    BY DEF MatchInv, MatchTypes
  <1>2. args \in Seq(Strings) /\ argno \in 1..Len(args) /\ argno \in Nat /\ DOMAIN args = 1..Len(args)
    BY DEF MatchInv, MatchTypes
  <1>3. e.arg = argno /\ e.seen = Str(mem, Start(args, argno))
    OBVIOUS
  <1>o. output' = Append(output, e)
    OBVIOUS
  <1> HIDE DEF e
  <1>4. /\ n \in Nat /\ DOMAIN output = 1..n /\ DOMAIN output' = 1..(n + 1)
        /\ \A k \in 1..n : output'[k] = output[k]
        /\ output'[n + 1] = e /\ output' \in Seq(S \cup {e})
    <2>1. output \in Seq(S \cup {e})
      BY <1>1
    <2>2. e \in S \cup {e}
      OBVIOUS
    <2>3. QED
      BY ONLY <1>o, <2>1, <2>2
  <1>5. MatchTypes'
    <2>1. args' \in Seq(Strings) /\ argno' \in Nat \ {0}
      BY <1>2
    <2>2. \E T : output' \in Seq(T)
      BY <1>4
    <2>3. mode = [model |-> mode.model, convert |-> mode.convert] /\ mode.convert \in BOOLEAN
      BY Zenon DEF MatchInv, MatchTypes
    <2>4. mode' = [model |-> mode'.model, convert |-> mode'.convert] /\ mode'.convert \in BOOLEAN
      BY ONLY <2>3, mode' = mode, Zenon
    <2>5. QED
      BY ONLY <2>1, <2>2, <2>4, matching' = "loop" DEF MatchTypes
  <1>6. ConvertsC' <=> ConvertsC
    BY ONLY mode' = mode DEF ConvertsC
  <1>7. \A k \in 1..n : Entry(output, args, ConvertsC, k)
    BY <1>4, KeptEntries DEF MatchInv
  <1>8. ASSUME NEW k \in 1..n
        PROVE  Entry(output', args', ConvertsC', k)
    <2>1. output'[k] = output[k] /\ \A j \in 1..(k - 1) : output'[j] = output[j]
      BY <1>4
    <2>2. Entry(output, args, ConvertsC, k)
      BY <1>7
    <2>3. QED
      BY ONLY <2>1, <2>2, <1>6, args' = args DEF Entry
  <1>9. ASSUME Entry(output', args', ConvertsC', n + 1)
        PROVE  ArgumentsKept'
    <2>1. \A k \in DOMAIN output' : Entry(output', args', ConvertsC', k)
      BY <1>4, <1>8, <1>9
    <2>2. QED
      BY <2>1, KeptEntriesNext
  <1>10. CASE Moved
    <2>1. PICK j \in 1..n : ConvertsC /\ Reaches(output[j].seen)
      BY <1>10, <1>4 DEF Moved
    <2>2. output'[j].seen = output[j].seen /\ j \in 1..((n + 1) - 1) /\ j \in DOMAIN output'
      BY <1>4
    <2>3. Moved'
      <3>1. Reaches(output'[j].seen)
        BY ONLY <2>1, <2>2
      <3>2. QED
        BY ONLY <3>1, <2>1, <2>2, <1>6 DEF Moved, Reaches
    <2>4. Entry(output', args', ConvertsC', n + 1)
      BY ONLY <2>1, <2>2, <1>6 DEF Entry
    <2>5. QED
      BY <1>5, <1>9, <2>3, <2>4 DEF MatchInv
  <1>11. CASE ArgumentsHeld
    <2>1. /\ mem = [k \in 1..Size(args) |-> mem[k]]
          /\ \A k \in DOMAIN args : k >= argno => Holds(mem, args, k)
      BY ONLY <1>11 DEF ArgumentsHeld
    <2>2. Holds(mem, args, argno)
      BY ONLY <1>2, <2>1
    <2>3. e.seen = args[argno]
      BY ONLY <1>2, <1>3, <2>1, <2>2, HeldString
    <2>4. output'[n + 1].seen = args'[output'[n + 1].arg]
      BY ONLY <2>3, <1>3, <1>4, args' = args
    <2>5. Entry(output', args', ConvertsC', n + 1)
      BY ONLY <2>4 DEF Entry
    <2>6. CASE ConvertsC /\ Reaches(args[argno])
      <3>1. Reaches(output'[n + 1].seen) /\ n + 1 \in DOMAIN output'
        BY ONLY <2>6, <2>3, <1>4
      <3>2. Moved'
        BY ONLY <3>1, <2>6, <1>6 DEF Moved, Reaches
      <3>3. QED
        BY <1>5, <1>9, <2>5, <3>2 DEF MatchInv
    <2>7. CASE mem' = mem \/ KeepsLater(mem, mem', args, argno)
      <3>1. mem' = [k \in 1..Size(args) |-> mem'[k]]
        BY ONLY <2>1, <2>7 DEF KeepsLater
      <3>2. ASSUME NEW k \in DOMAIN args, k >= argno + 1
            PROVE  Holds(mem', args, k)
        <4>1. k \in 1..Len(args) /\ argno < k /\ k >= argno
          BY ONLY <1>2, <3>2
        <4>2. Holds(mem, args, k)
          BY ONLY <2>1, <4>1, <3>2
        <4>3. CASE mem' = mem
          BY ONLY <4>2, <4>3
        <4>4. CASE KeepsLater(mem, mem', args, argno)
          BY ONLY <1>2, <4>1, <4>2, <4>4, LaterHeld
        <4>5. QED
          BY ONLY <2>7, <4>3, <4>4
      <3>3. ArgumentsHeld'
        BY ONLY <3>1, <3>2, args' = args, argno' = argno + 1 DEF ArgumentsHeld, Size, Holds
      <3>4. QED
        BY <1>5, <1>9, <2>5, <3>3 DEF MatchInv
    <2>8. QED
      BY <1>11, <2>6, <2>7, Zenon
  <1>12. QED
    BY <1>10, <1>11 DEF MatchInv

LEMMA ArgumentInPlace ==
  ASSUME MatchInv, ArgumentsHeld, argno <= Len(args)
  PROVE  /\ args \in Seq(Strings) /\ argno \in 1..Len(args) /\ Holds(mem, args, argno)
         /\ mem = [i \in 1..Size(args) |-> mem[i]]
  <1>1. args \in Seq(Strings) /\ argno \in 1..Len(args) /\ argno \in DOMAIN args /\ argno >= argno
    BY DEF MatchInv, MatchTypes
  <1>2. QED
    BY <1>1, Zenon DEF ArgumentsHeld

LEMMA IndexBounds ==
  ASSUME NEW s \in Strings,
         Indices(s) # {} => ~(Min(Indices(s)) >= 3) /\ ~(Max(Indices(s)) >= 5)
  PROVE  Indices(s) # {} => Min(Indices(s)) < 3 /\ Max(Indices(s)) < 5
  <1> DEFINE low == Min(Indices(s))
             high == Max(Indices(s))
  <1>1. CASE Indices(s) = {}
    BY <1>1
  <1>2. CASE Indices(s) # {}
    <2>1. low \in 0..(Len(s) - 1) /\ high \in 0..(Len(s) - 1) /\ Len(s) \in Nat
      BY ONLY <1>2, IndicesIn, s \in Strings
    <2>2. ~(low >= 3) /\ ~(high >= 5)
      BY <1>2
    <2> HIDE DEF low, high
    <2>3. low < 3 /\ high < 5
      BY ONLY <2>1, <2>2
    <2>4. QED
      BY ONLY <2>3 DEF low, high
  <1>3. QED
    BY <1>1, <1>2

LEMMA EachAKeeps ==
  ASSUME MatchInv, EachA
  PROVE  MatchInv'
  <1> DEFINE p == Start(args, argno)
             m == a_model_conversion(mem, p)
             s == Str(mem, p)
  <1>1. /\ matching = "loop" /\ matching' = "loop" /\ argno <= Len(args)
        /\ args' = args /\ mode' = mode
    BY DEF EachA, Each
  <1>2. Answer(s, is_a_model(s), m, Str(m, p))
    BY DEF EachA
  <1>3. argno' = argno + 1 /\ (mem' = m \/ mem' = mem)
    BY <1>2, Zenon DEF Answer
  <1>4. PICK said : output' = Append(output, [arg |-> argno, seen |-> s, said |-> said])
    BY <1>2, Zenon DEF Answer
  <1>5. ASSUME ArgumentsHeld
        PROVE  KeepsLater(mem, m, args, argno)
    BY <1>1, <1>5, ConversionOfA, ArgumentInPlace
  <1>6. QED
    BY <1>1, <1>3, <1>4, <1>5, Answered

LEMMA EachBKeeps ==
  ASSUME MatchInv, EachB
  PROVE  MatchInv'
  <1> DEFINE s == Str(mem, Start(args, argno))
  <1>1. /\ matching = "loop" /\ matching' = "loop" /\ argno <= Len(args)
        /\ args' = args /\ mode' = mode
    BY DEF EachB, Each
  <1>2. PICK matches, converted : Answer(s, matches, mem, converted)
    BY Zenon DEF EachB
  <1>3. argno' = argno + 1 /\ mem' = mem
    BY <1>2, Zenon DEF Answer
  <1>4. PICK said : output' = Append(output, [arg |-> argno, seen |-> s, said |-> said])
    BY <1>2, Zenon DEF Answer
  <1>5. QED
    BY <1>1, <1>3, <1>4, Answered

(* A matching argument that is converted has the form of the model, and    *)
(* its conversion keeps to its own bytes unless it reaches the next one.   *)
LEMMA EachCKeeps ==
  ASSUME MatchInv, EachC
  PROVE  MatchInv'
  <1> DEFINE p == Start(args, argno)
             s == Str(mem, p)
             c == c_model_conversion(mem, p)
             converts == mode.convert /\ is_c_model(s)
             m == IF converts THEN c ELSE mem
  <1>1. /\ matching = "loop" /\ matching' = "loop" /\ argno <= Len(args)
        /\ args' = args /\ mode' = mode /\ mode.model = flag_c
    BY DEF EachC, Each
  <1>2. Answer(s, is_c_model(s), m, Str(m, p))
    BY DEF EachC
  <1>3. argno' = argno + 1 /\ (mem' = mem \/ (converts /\ mem' = c))
    BY <1>2, Zenon DEF Answer
  <1>4. PICK said : output' = Append(output, [arg |-> argno, seen |-> s, said |-> said])
    BY <1>2, Zenon DEF Answer
  <1>5. ASSUME ArgumentsHeld, converts, ~Reaches(args[argno])
        PROVE  KeepsLater(mem, c, args, argno)
    <2> DEFINE t == args[argno]
    <2>1. /\ args \in Seq(Strings) /\ argno \in 1..Len(args) /\ Holds(mem, args, argno)
          /\ mem = [i \in 1..Size(args) |-> mem[i]]
      BY <1>1, <1>5, ArgumentInPlace
    <2>2. s = t
      BY ONLY <2>1, HeldString
    <2>3. t \in Strings
      BY ONLY <2>1
    <2>4. is_c_model(t)
      BY <1>5, <2>2
    <2>5. Fits(flag_c, t)
      BY ONLY <2>3, <2>4, CModelFits
    <2>6. Indices(t) # {} => ~(Min(Indices(t)) >= 3) /\ ~(Max(Indices(t)) >= 5)
      BY <1>5, <2>5, Zenon DEF Reaches
    <2>7. Indices(t) # {} => Min(Indices(t)) < 3 /\ Max(Indices(t)) < 5
      BY <2>3, <2>6, IndexBounds
    <2>8. QED
      BY ONLY <2>1, <2>7, ConversionOfC
  <1>6. ASSUME converts
        PROVE  ConvertsC
    <2>1. mode = [model |-> mode.model, convert |-> mode.convert] /\ mode.convert \in BOOLEAN
      BY <1>1, Zenon DEF MatchInv, MatchTypes
    <2>2. mode.convert = TRUE
      BY <1>6, <2>1
    <2>3. QED
      BY <1>1, <2>1, <2>2, Zenon DEF ConvertsC
  <1>7. QED
    BY <1>1, <1>3, <1>4, <1>5, <1>6, Answered, Zenon

LEMMA MainKeeps ==
  ASSUME MatchInv, main
  PROVE  MatchInv'
  <1>1. /\ matching = "main" /\ argno = 1 /\ output = <<>> /\ output' = <<>> /\ args' = args /\ mem' = mem
        /\ args \in Seq(Strings) 
    BY DEF MatchInv, MatchTypes, main
  <1>2. \/ \E model : \E convert \in BOOLEAN, from \in 1..3 : Loop(model, convert, from)
        \/ \E result \in {"done", "crashed"} : Stop(result)
    <2>1. 1 \in 1..3 /\ 2 \in 1..3 /\ 3 \in 1..3 /\ TRUE \in BOOLEAN /\ FALSE \in BOOLEAN
      OBVIOUS
    <2>2. QED
      BY <2>1, Zenon DEF main
  <1>3. MatchTypes'
    <2>1. output' \in Seq({})
      BY <1>1
    <2>2. CASE \E model : \E convert \in BOOLEAN, from \in 1..3 : Loop(model, convert, from)
      <3>0. PICK model : \E convert \in BOOLEAN, from \in 1..3 : Loop(model, convert, from)
        BY <2>2, Zenon
      <3>1. PICK convert \in BOOLEAN, from \in 1..3 : Loop(model, convert, from)
        BY <3>0, Zenon
      <3>2. mode' = [model |-> model, convert |-> convert] /\ argno' = from /\ matching' = "loop"
        BY <3>1 DEF Loop
      <3>3. mode'.model = model /\ mode'.convert = convert
        BY <3>2
      <3>4. QED
        BY <1>1, <2>1, <3>2, <3>3 DEF MatchTypes
    <2>3. CASE \E result \in {"done", "crashed"} : Stop(result)
      <3>1. matching' # "loop" /\ argno' = argno
        BY <2>3 DEF Stop
      <3>2. QED
        BY <1>1, <2>1, <3>1 DEF MatchTypes
    <2>4. QED
      BY <1>2, <2>2, <2>3
  <1>4. ArgumentsKept'
    BY <1>1 DEF ArgumentsKept
  <1>5. ArgumentsHeld'
    <2>1. ArgumentsHeld
      BY <1>1 DEF MatchInv, Moved
    <2>2. /\ mem = [k \in 1..Size(args) |-> mem[k]]
          /\ \A k \in DOMAIN args : k >= 1 => Holds(mem, args, k)
      BY ONLY <1>1, <2>1 DEF ArgumentsHeld
    <2>3. ASSUME NEW k \in DOMAIN args, k >= argno'
          PROVE  Holds(mem, args, k)
      <3>1. k >= 1
        BY <1>1, <2>3
      <3>2. QED
        BY ONLY <2>2, <3>1, <2>3
    <2>4. QED
      BY ONLY <1>1, <2>2, <2>3 DEF ArgumentsHeld, Size, Holds
  <1>6. QED
    BY <1>3, <1>4, <1>5 DEF MatchInv

(* The steps that end the program change nothing else. *)
LEMMA OnlyMatchingChanges ==
  ASSUME MatchInv, UNCHANGED <<args, mem, argno, mode, output>>,
         matching' = matching \/ matching' \in {"crashed", "overrun", "done"}
  PROVE  MatchInv'
  <1>1. MatchTypes'
    <2>1. /\ args' \in Seq(Strings) /\ argno' \in Nat \ {0}
          /\ \E S : output' \in Seq(S)
      BY DEF MatchInv, MatchTypes
    <2>2. matching' = "main" => output' = <<>> /\ argno' = 1
      BY DEF MatchInv, MatchTypes
    <2>3. ASSUME matching' = "loop"
          PROVE  mode = [model |-> mode.model, convert |-> mode.convert] /\ mode.convert \in BOOLEAN
      <3>1. matching = "loop"
        BY <2>3
      <3>2. QED
        BY <3>1, Zenon DEF MatchInv, MatchTypes
    <2>4. mode' = mode
      OBVIOUS
    <2>5. QED
      BY ONLY <2>1, <2>2, <2>3, <2>4 DEF MatchTypes
  <1>2. mem' = mem /\ args' = args /\ argno' = argno /\ mode' = mode /\ output' = output
    OBVIOUS
  <1>3. ArgumentsKept'
    BY <1>2, KeptEntries, KeptEntriesNext DEF MatchInv, ConvertsC
  <1>4. Moved => Moved'
    BY ONLY <1>2 DEF Moved, ConvertsC, Reaches
  <1>5. ArgumentsHeld => ArgumentsHeld'
    BY ONLY <1>2, Zenon DEF ArgumentsHeld, Size, Holds
  <1>6. QED
    BY <1>1, <1>3, <1>4, <1>5 DEF MatchInv

LEMMA MatchStep ==
  ASSUME MatchInv, [MatchNext]_matchVars
  PROVE  MatchInv'
  <1>1. CASE UNCHANGED matchVars
    BY <1>1, OnlyMatchingChanges DEF matchVars
  <1>2. CASE EmptyArgument
    BY <1>2, OnlyMatchingChanges DEF EmptyArgument
  <1>3. CASE Return
    BY <1>3, OnlyMatchingChanges DEF Return
  <1>4. CASE Overrun
    BY <1>4, OnlyMatchingChanges DEF Overrun
  <1>5. QED
    BY <1>1, <1>2, <1>3, <1>4, MainKeeps, EachAKeeps, EachBKeeps, EachCKeeps DEF MatchNext

(* For every command line: in the loop of main, the arguments that are     *)
(* still to come lie in memory as execve laid them out, with their         *)
(* terminators, after the in-place conversions of a_model_conversion and   *)
(* of c_model_conversion (matchlab.c:58, 314), until one of the latter    *)
(* removes an 'A' at index 3 or more first, or 5 or more last.             *)
THEOREM MatchCorrect == MatchSpec => []MatchInv
  <1>1. MatchInit => MatchInv
    BY MatchInitially
  <1>2. MatchInv /\ [MatchNext]_matchVars => MatchInv'
    BY MatchStep
  <1>3. QED
    BY <1>1, <1>2, PTL DEF MatchSpec

(* Each argument is read as it was given on the command line, unless the   *)
(* memmove of remove_char_at_index (matchlab.c:311) has run over the end   *)
(* of an earlier one.                                                      *)
THEOREM ArgumentsCorrect == MatchSpec => []ArgumentsKept
  <1>1. MatchInv => ArgumentsKept
    BY DEF MatchInv
  <1>2. QED
    BY <1>1, MatchCorrect, PTL
=============================================================================
