--------------------------- MODULE HttpTextProofs ---------------------------
(***************************************************************************)
(* Proofs about the text codecs, for texts of every length.  The codecs    *)
(* are recursive functions over 0 .. n.  What such a function computes is  *)
(* proved by induction in a form without operator parameters: a set that   *)
(* contains 0, and with each number its successor, contains 0 .. n.  This  *)
(* comes from the well-foundedness of the natural numbers (WFMin).         *)
(***************************************************************************)
EXTENDS HttpText, FiniteSetTheorems, SequenceTheorems, WellFoundedInduction, TLAPS

LEMMA LeastNat ==
  ASSUME NEW T \in SUBSET Nat, T # {} PROVE \E x \in T : \A y \in T : x <= y
<1> DEFINE R == {ss \in Nat \X Nat : ss[1] < ss[2]}
<1>1. IsWellFoundedOn(R, Nat)
  BY NatLessThanWellFounded DEF OpToRel
<1>2. \A x, y \in Nat : <<y, x>> \notin R => x <= y
  OBVIOUS
<1> HIDE DEF R
<1>3. PICK x \in T : \A y \in T : <<y, x>> \notin R
  BY <1>1, WFMin
<1>4. \A y \in T : x <= y
  BY <1>2, <1>3
<1> QED BY <1>4

LEMMA Induction ==
  ASSUME NEW n \in Nat, NEW T, 0 \in T, \A i \in 1 .. n : i - 1 \in T => i \in T
  PROVE  0 .. n \subseteq T
<1> DEFINE M == (0 .. n) \ T
<1> SUFFICES ASSUME M # {} PROVE FALSE
  OBVIOUS
<1>1. M \in SUBSET Nat
  OBVIOUS
<1> HIDE DEF M
<1>2. PICK i \in M : \A j \in M : i <= j
  BY <1>1, LeastNat
<1> USE DEF M
<1>3. i \in 1 .. n /\ i \notin T
  BY <1>2
<1>4. i - 1 \in T
  BY <1>2, <1>3
<1> QED BY <1>3, <1>4

(* A recursion over 0 .. n: the value at i comes from an earlier one, that *)
(* at d[i], by g[i].                                                       *)
IsRecursion(n, S, a, d, g) ==
  /\ n \in Nat /\ a \in S
  /\ \A i \in 1 .. n : d[i] \in 0 .. i - 1 /\ \A x \in S : g[i][x] \in S
Computes(f, n, a, d, g) == f[0] = a /\ \A i \in 1 .. n : f[i] = g[i][f[d[i]]]

LEMMA RecursionExists ==
  ASSUME NEW n, NEW S, NEW a, NEW d, NEW g, IsRecursion(n, S, a, d, g)
  PROVE  \E f \in [0 .. n -> S] : Computes(f, n, a, d, g)
<1> USE DEF IsRecursion
<1> DEFINE Upto(k, f) == /\ f \in [0 .. n -> S] /\ f[0] = a
                         /\ \A i \in 1 .. k : f[i] = g[i][f[d[i]]]
           T == {k \in 0 .. n : \E f \in [0 .. n -> S] : Upto(k, f)}
<1>0. \A i \in 1 .. n : d[i] \in 0 .. i - 1 /\ d[i] \in 0 .. n
  OBVIOUS
<1>1. 0 \in T
  <2> DEFINE f == [i \in 0 .. n |-> a]
  <2>1. f \in [0 .. n -> S] /\ f[0] = a
    OBVIOUS
  <2> HIDE DEF f
  <2>2. Upto(0, f)
    BY <2>1
  <2> QED BY <2>1, <2>2
<1>2. ASSUME NEW k \in 1 .. n, k - 1 \in T PROVE k \in T
  <2>1. PICK f \in [0 .. n -> S] : Upto(k - 1, f)
    BY <1>2
  <2> DEFINE h == [f EXCEPT ![k] = g[k][f[d[k]]]]
  <2>2. g[k][f[d[k]]] \in S
    <3>1. f[d[k]] \in S
      BY <2>1, <1>0
    <3> QED BY <3>1
  <2>3. h \in [0 .. n -> S] /\ h[0] = a /\ h[k] = g[k][f[d[k]]]
    BY <2>1, <2>2
  <2>4. \A i \in 0 .. k - 1 : h[i] = f[i]
    BY <2>1
  <2> HIDE DEF h
  <2>5. \A i \in 1 .. k : h[i] = g[i][h[d[i]]]
    <3> TAKE i \in 1 .. k
    <3>1. CASE i = k
      <4>1. h[d[k]] = f[d[k]]
        BY <1>0, <2>4
      <4> QED BY <2>3, <3>1, <4>1
    <3>2. CASE i # k
      <4>1. i \in 1 .. k - 1 /\ d[i] \in 0 .. k - 1 /\ i \in 0 .. k - 1
        BY <1>0, <3>2
      <4>2. h[i] = f[i] /\ h[d[i]] = f[d[i]] /\ f[i] = g[i][f[d[i]]]
        BY <2>1, <2>4, <4>1
      <4> QED BY <4>2
    <3> QED BY <3>1, <3>2
  <2>6. Upto(k, h)
    BY <2>3, <2>5
  <2>7. k \in 0 .. n
    OBVIOUS
  <2> HIDE DEF Upto
  <2> QED BY <2>3, <2>6, <2>7
<1>3. n \in T
  <2> HIDE DEF T
  <2>1. \A i \in 1 .. n : i - 1 \in T => i \in T
    BY <1>2
  <2>2. 0 .. n \subseteq T
    BY <1>1, <2>1, Induction
  <2> QED BY <2>2
<1> QED BY <1>3 DEF Computes

-----------------------------------------------------------------------------
(* The hexadecimal digits have the values 0 to 15.                         *)
LEMMA HexDigits ==
  /\ \A w \in DOMAIN hex2dec : hex2dec[w] \in 0 .. 15
  /\ DOMAIN DigitValue \subseteq DOMAIN hex2dec
<1> DEFINE upper == {<<UpperDigits[d], d - 1>> : d \in 1 .. 16}
           lower == {<<LowerDigits[d], d + 9>> : d \in 1 .. 6}
           decimal == {<<Digits[d], d - 1>> : d \in 1 .. 10}
<1>1. /\ hex2dec = TableOf(upper \cup lower) /\ DigitValue = TableOf(decimal)
  BY DEF hex2dec, DigitValue
<1>2. \A p \in upper \cup lower : p[2] \in 0 .. 15
  OBVIOUS
<1>3. ASSUME NEW d \in 1 .. 10 PROVE <<Digits[d], d - 1>> \in upper
  <2>1. UpperDigits[d] = Digits[d]
    BY DEF UpperDigits, Digits
  <2> QED BY <2>1
<1>4. decimal \subseteq upper
  BY <1>3
<1> HIDE DEF upper, lower, decimal
<1>5. ASSUME NEW w \in DOMAIN hex2dec PROVE hex2dec[w] \in 0 .. 15
  <2> DEFINE p == CHOOSE p \in upper \cup lower : p[1] = w
  <2>1. w \in {p1[1] : p1 \in upper \cup lower} /\ hex2dec[w] = p[2]
    BY <1>1, Zenon DEF TableOf
  <2>2. p \in upper \cup lower
    BY <2>1, Zenon
  <2> QED BY <1>2, <2>1, <2>2
<1>6. DOMAIN DigitValue \subseteq DOMAIN hex2dec
  BY <1>1, <1>4, Zenon DEF TableOf
<1> QED BY <1>5, <1>6

(* Digits stand for a natural number, in every base.                       *)
LEMMA NumberInNat ==
  ASSUME NEW base \in Nat, NEW s \in Seq(DOMAIN hex2dec)
  PROVE  NumberIn(base, s) \in Nat
<1> DEFINE n == Len(s)
           IsValue(f) == f = [i \in 0 .. n |-> IF i = 0 THEN 0
                                               ELSE f[i - 1] * base + hex2dec[s[i]]]
           d == [i \in 1 .. n |-> i - 1]
           g == [i \in 1 .. n |-> [x \in Nat |-> x * base + hex2dec[s[i]]]]
<1>0. n \in Nat
  OBVIOUS
<1>1. \A i \in 1 .. n : d[i] = i - 1 /\ d[i] \in 0 .. i - 1
  OBVIOUS
<1>2. ASSUME NEW i \in 1 .. n, NEW x \in Nat
      PROVE  g[i][x] \in Nat /\ g[i][x] = x * base + hex2dec[s[i]]
  <2>1. hex2dec[s[i]] \in Nat
    BY HexDigits
  <2> QED BY <2>1
<1>3. \A i \in 1 .. n : \A x \in Nat : g[i][x] \in Nat
  BY <1>2
<1> HIDE DEF d, g, n
<1>4. PICK f \in [0 .. n -> Nat] :
        f[0] = 0 /\ \A i \in 1 .. n : f[i] = g[i][f[d[i]]]
  <2>1. IsRecursion(n, Nat, 0, d, g)
    BY <1>0, <1>1, <1>3 DEF IsRecursion
  <2> QED BY <2>1, RecursionExists DEF Computes
<1>5. \A i \in 0 .. n : f[i] \in Nat
  BY <1>4
<1>7. IsValue(f)
  <2>1. ASSUME NEW i \in 0 .. n
        PROVE  f[i] = IF i = 0 THEN 0 ELSE f[i - 1] * base + hex2dec[s[i]]
    <3>1. CASE i = 0
      BY <1>4, <3>1
    <3>2. CASE i # 0
      <4>1. i \in 1 .. n /\ i - 1 \in 0 .. n
        BY <1>0, <3>2
      <4>2. f[i] = g[i][f[i - 1]]
        BY <1>1, <1>4, <4>1
      <4> QED BY <1>2, <1>5, <3>2, <4>1, <4>2
    <3> QED BY <3>1, <3>2
  <2> QED BY <1>4, <2>1
<1> DEFINE value == CHOOSE v : IsValue(v)
<1>8. IsValue(value)
  <2> HIDE DEF IsValue
  <2> QED BY <1>7
<1> HIDE DEF value
<1>9. 0 .. n \subseteq {i \in 0 .. n : value[i] \in Nat}
  <2> DEFINE V == {i \in 0 .. n : value[i] \in Nat}
  <2>1. 0 \in V
    BY <1>0, <1>8
  <2>2. ASSUME NEW i \in 1 .. n, i - 1 \in V PROVE i \in V
    <3>1. hex2dec[s[i]] \in Nat
      BY HexDigits DEF n
    <3>2. value[i] = value[i - 1] * base + hex2dec[s[i]]
      BY <1>0, <1>8
    <3>3. \A x, y, z \in Nat : x * y + z \in Nat
      OBVIOUS
    <3>4. value[i - 1] \in Nat
      BY <2>2
    <3>5. value[i - 1] * base + hex2dec[s[i]] \in Nat
      BY <3>1, <3>3, <3>4, Zenon
    <3> QED BY <3>2, <3>5
  <2>3. \A i \in 1 .. n : i - 1 \in V => i \in V
    BY <2>2
  <2> HIDE DEF V
  <2>4. 0 .. n \subseteq V
    BY <1>0, <2>1, <2>3, Induction
  <2> QED BY <2>4 DEF V
<1>10. NumberIn(base, s) = value[n]
  BY Zenon DEF NumberIn, n, value
<1> QED BY <1>0, <1>9, <1>10

-----------------------------------------------------------------------------
(* A part of a text, and that part of a longer text.                       *)
LEMMA PieceType ==
  ASSUME NEW S, NEW s \in Seq(S), NEW m \in Int, NEW n \in Int, 1 <= m, n <= Len(s)
  PROVE  /\ SubSeq(s, m, n) \in Seq(S)
         /\ Len(SubSeq(s, m, n)) = IF m <= n THEN n - m + 1 ELSE 0
         /\ \A i \in 1 .. n - m + 1 : SubSeq(s, m, n)[i] = s[m + i - 1]
<1>1. \A i \in m .. n : s[i] \in S
  OBVIOUS
<1> QED BY <1>1, SubSeqProperties

LEMMA PieceKept ==
  ASSUME NEW S, NEW s \in Seq(S), NEW x \in Seq(S), NEW m \in Int, NEW n \in Int,
         1 <= m, n <= Len(s)
  PROVE  SubSeq(s \o x, m, n) = SubSeq(s, m, n)
<1>1. CASE n < m
  <2>1. SubSeq(s \o x, m, n) = <<>> /\ SubSeq(s, m, n) = <<>>
    BY <1>1, SubSeqEmpty
  <2> QED BY <2>1
<1>2. CASE m <= n
  <2>1. m \in 1 .. Len(s) /\ n \in 1 .. Len(s)
    BY <1>2
  <2> QED BY <2>1, SubSeqOfConcat1
<1> QED BY <1>1, <1>2

LEMMA RestType ==
  ASSUME NEW S, NEW s \in Seq(S), NEW i \in Nat \ {0}
  PROVE  /\ From(s, i) \in Seq(S)
         /\ Len(From(s, i)) = IF i <= Len(s) THEN Len(s) - i + 1 ELSE 0
<1>1. i \in Int /\ 1 <= i /\ Len(s) \in Int /\ Len(s) <= Len(s)
  OBVIOUS
<1>2. /\ From(s, i) \in Seq(S)
      /\ Len(From(s, i)) = IF i <= Len(s) THEN Len(s) - i + 1 ELSE 0
  BY <1>1, PieceType DEF From
<1> QED BY <1>2

(* The first place of a text in another.                                   *)
Hit(s, t, i) == SubSeq(s, i, i + Len(t) - 1) = t

LEMMA FindFacts ==
  ASSUME NEW S, NEW s \in Seq(S), NEW t \in Seq(S)
  PROVE  /\ Find(s, t) \in 0 .. Len(s) + 1
         /\ Find(s, t) > 0 => /\ Find(s, t) <= Len(s) - Len(t) + 1
                              /\ Hit(s, t, Find(s, t))
                              /\ \A j \in 1 .. Find(s, t) - 1 : ~Hit(s, t, j)
         /\ Find(s, t) = 0 => \A j \in 1 .. Len(s) - Len(t) + 1 : ~Hit(s, t, j)
<1> DEFINE hits == {i \in 1 .. Len(s) - Len(t) + 1 : Hit(s, t, i)}
           first == CHOOSE i \in hits : \A j \in hits : i <= j
<1>0. Len(s) \in Nat /\ Len(t) \in Nat
  OBVIOUS
<1>1. Find(s, t) = IF hits = {} THEN 0 ELSE first
  BY Zenon DEF Find, Hit
<1>2. CASE hits = {}
  BY <1>0, <1>1, <1>2
<1>3. CASE hits # {}
  <2>1. hits \in SUBSET Nat
    BY <1>0
  <2>2. \E i \in hits : \A j \in hits : i <= j
    <3> HIDE DEF hits
    <3> QED BY <1>3, <2>1, LeastNat
  <2>3. first \in hits /\ \A j \in hits : first <= j
    <3> HIDE DEF hits
    <3> QED BY <2>2
  <2> HIDE DEF first
  <2>4. Find(s, t) = first
    BY <1>1, <1>3
  <2>5. first \in 1 .. Len(s) - Len(t) + 1 /\ Hit(s, t, first)
    BY <2>3
  <2>6. \A j \in 1 .. first - 1 : ~Hit(s, t, j)
    BY <1>0, <2>3, <2>5
  <2>7. first \in 0 .. Len(s) + 1 /\ first > 0 /\ first <= Len(s) - Len(t) + 1
    BY <1>0, <2>5
  <2> HIDE DEF hits
  <2> QED BY <2>4, <2>5, <2>6, <2>7
<1> QED BY <1>2, <1>3

(* A text that was found stays where it is when more arrives.              *)
LEMMA FindKept ==
  ASSUME NEW S, NEW s \in Seq(S), NEW x \in Seq(S), NEW t \in Seq(S), Find(s, t) > 0
  PROVE  Find(s \o x, t) = Find(s, t)
<1> DEFINE f == Find(s, t)
           g == Find(s \o x, t)
<1>0. /\ Len(s) \in Nat /\ Len(t) \in Nat /\ Len(x) \in Nat
      /\ s \o x \in Seq(S) /\ Len(s \o x) = Len(s) + Len(x)
  BY ConcatProperties
<1>1. /\ f \in 0 .. Len(s) + 1 /\ f > 0 /\ f <= Len(s) - Len(t) + 1
      /\ Hit(s, t, f) /\ \A j \in 1 .. f - 1 : ~Hit(s, t, j)
  BY FindFacts
<1>2. /\ g \in 0 .. Len(s \o x) + 1
      /\ g > 0 => /\ g <= Len(s \o x) - Len(t) + 1
                  /\ Hit(s \o x, t, g)
                  /\ \A j \in 1 .. g - 1 : ~Hit(s \o x, t, j)
      /\ g = 0 => \A j \in 1 .. Len(s \o x) - Len(t) + 1 : ~Hit(s \o x, t, j)
  BY <1>0, FindFacts
<1> HIDE DEF f, g
<1>3. \A j \in 1 .. Len(s) - Len(t) + 1 : Hit(s \o x, t, j) <=> Hit(s, t, j)
  <2> TAKE j \in 1 .. Len(s) - Len(t) + 1
  <2>1. j \in Int /\ j + Len(t) - 1 \in Int /\ 1 <= j /\ j + Len(t) - 1 <= Len(s)
    BY <1>0
  <2>2. SubSeq(s \o x, j, j + Len(t) - 1) = SubSeq(s, j, j + Len(t) - 1)
    BY <2>1, PieceKept
  <2> QED BY <2>2 DEF Hit
<1>4. f \in 1 .. Len(s) - Len(t) + 1 /\ f \in 1 .. Len(s \o x) - Len(t) + 1
      /\ Hit(s \o x, t, f)
  BY <1>0, <1>1, <1>3
<1>5. g # 0
  BY <1>2, <1>4
<1>6. ~(f < g)
  BY <1>0, <1>1, <1>2, <1>4, <1>5
<1>7. ASSUME g < f PROVE FALSE
  <2>1. g \in 1 .. f - 1 /\ g \in 1 .. Len(s) - Len(t) + 1
    BY <1>0, <1>1, <1>2, <1>5, <1>7
  <2> QED BY <1>1, <1>2, <1>3, <2>1
<1>8. f = g
  BY <1>0, <1>1, <1>2, <1>6, <1>7
<1> QED BY <1>8 DEF f, g

LEMMA StartKept ==
  ASSUME NEW S, NEW s \in Seq(S), NEW x \in Seq(S), NEW t \in Seq(S), Len(t) <= Len(s)
  PROVE  StartsWith(s \o x, t) <=> StartsWith(s, t)
<1>1. Len(t) \in Int /\ Len(s \o x) = Len(s) + Len(x) /\ Len(x) \in Nat /\ Len(s) \in Nat
  BY ConcatProperties
<1>2. SubSeq(s \o x, 1, Len(t)) = SubSeq(s, 1, Len(t))
  BY <1>1, PieceKept
<1> QED BY <1>1, <1>2 DEF StartsWith

Blank == " "

LEMMA SkipSpacesType ==
  ASSUME NEW S, NEW s \in Seq(S) PROVE SkipSpaces(s) \in Seq(S)
<1> DEFINE rest == {i \in DOMAIN s : s[i] # Blank}
           first == CHOOSE i \in rest : \A j \in rest : i <= j
<1>1. SkipSpaces(s) = IF rest = {} THEN <<>> ELSE From(s, first)
  BY Zenon DEF SkipSpaces, Blank
<1>2. rest \in SUBSET (Nat \ {0})
  OBVIOUS
<1> HIDE DEF rest
<1>3. CASE rest = {}
  BY <1>1, <1>3
<1>4. CASE rest # {}
  <2>1. \E i \in rest : \A j \in rest : i <= j
    BY <1>2, <1>4, LeastNat
  <2>2. first \in Nat \ {0}
    BY <1>2, <2>1
  <2> QED BY <1>1, <1>4, <2>2, RestType
<1> QED BY <1>3, <1>4

(* A header line has a name and a value.                                   *)
LEMMA FieldTypes ==
  ASSUME NEW S, ":" \in S, Blank \in S, NEW line \in Seq(S), Find(line, <<":">>) > 0
  PROVE  FieldName(line) \in Seq(S) /\ FieldValue(line) \in Seq(S)
<1> DEFINE colon == Find(line, <<":">>)
           space == Find(From(line, colon), <<Blank>>)
           start == IF space = 0 THEN colon + 1 ELSE colon + space - 1
<1>1. <<":">> \in Seq(S) /\ <<Blank>> \in Seq(S) /\ Len(<<":">>) = 1 /\ Len(line) \in Nat
  OBVIOUS
<1>2. colon \in 0 .. Len(line) + 1 /\ colon > 0 /\ colon <= Len(line) - Len(<<":">>) + 1
  BY <1>1, FindFacts
<1> HIDE DEF colon
<1>3. colon \in Nat \ {0} /\ colon <= Len(line)
  BY <1>1, <1>2
<1>4. FieldName(line) \in Seq(S)
  <2>1. colon - 1 \in Int /\ colon - 1 <= Len(line) /\ 1 \in Int /\ 1 <= 1
    BY <1>3
  <2>2. SubSeq(line, 1, colon - 1) \in Seq(S)
    BY <2>1, PieceType
  <2> QED BY <2>2 DEF FieldName, colon
<1>5. From(line, colon) \in Seq(S)
  BY <1>3, RestType
<1>6. space \in Nat
  <2> DEFINE u == From(line, colon)
  <2>1. u \in Seq(S) /\ Len(u) \in Nat
    BY <1>5
  <2> HIDE DEF u
  <2>2. Find(u, <<Blank>>) \in 0 .. Len(u) + 1
    BY <1>1, <2>1, FindFacts
  <2>3. Find(u, <<Blank>>) \in Nat
    BY <2>1, <2>2
  <2> QED BY <2>3 DEF u
<1> HIDE DEF space
<1>7. start \in Nat \ {0}
  BY <1>3, <1>6
<1>8. SkipSpaces(From(line, start)) \in Seq(S)
  <2> HIDE DEF start
  <2> QED BY <1>7, RestType, SkipSpacesType
<1>9. FieldValue(line) \in Seq(S)
  BY <1>8, Zenon DEF FieldValue, start, space, colon, Blank
<1> QED BY <1>4, <1>9

(* std::stoul finds digits, so that there is a number.                     *)
LEMMA LeadingDigitsType ==
  ASSUME NEW S, NEW s \in Seq(S) PROVE LeadingDigits(s) \in Seq(DOMAIN hex2dec)
<1> DEFINE others == {i \in DOMAIN s : s[i] \notin DOMAIN DigitValue}
           first == CHOOSE i \in others : \A j \in others : i <= j
<1>1. LeadingDigits(s) = IF others = {} THEN s ELSE SubSeq(s, 1, first - 1)
  BY Zenon DEF LeadingDigits
<1>2. others \in SUBSET (1 .. Len(s)) /\ others \in SUBSET Nat
  OBVIOUS
<1>3. \A i \in 1 .. Len(s) : i \notin others => s[i] \in DOMAIN hex2dec
  BY HexDigits
<1> HIDE DEF others
<1>4. CASE others = {}
  BY <1>1, <1>3, <1>4
<1>5. CASE others # {}
  <2>1. \E i \in others : \A j \in others : i <= j
    BY <1>2, <1>5, LeastNat
  <2>2. first \in 1 .. Len(s) /\ \A j \in others : first <= j
    BY <1>2, <2>1
  <2> HIDE DEF first
  <2>3. \A i \in 1 .. first - 1 : s[i] \in DOMAIN hex2dec
    BY <1>2, <1>3, <2>2
  <2>4. SubSeq(s, 1, first - 1) \in Seq(DOMAIN hex2dec)
    <3>1. 1 \in Int /\ first - 1 \in Int
      BY <2>2
    <3> QED BY <2>3, <3>1, SubSeqProperties
  <2> QED BY <1>1, <1>5, <2>4
<1> QED BY <1>4, <1>5

LEMMA SizeOfChunkType ==
  ASSUME NEW S, NEW s \in Seq(S) PROVE hexString2Int(s) \in Nat \cup {-1}
<1>1. CASE \E i \in DOMAIN s : s[i] \notin DOMAIN hex2dec
  BY <1>1 DEF hexString2Int
<1>2. CASE \A i \in DOMAIN s : s[i] \in DOMAIN hex2dec
  <2>1. s \in Seq(DOMAIN hex2dec)
    BY <1>2
  <2>2. NumberIn(10, s) \in Nat
    BY <2>1, NumberInNat
  <2> QED BY <1>2, <2>2 DEF hexString2Int
<1> QED BY <1>1, <1>2

LEMMA RestKept ==
  ASSUME NEW S, NEW s \in Seq(S), NEW x \in Seq(S), NEW i \in 1 .. Len(s) + 1
  PROVE  From(s \o x, i) = From(s, i) \o x
<1> DEFINE sx == s \o x
<1>1. sx \in Seq(S) /\ Len(sx) = Len(s) + Len(x) /\ Len(s) \in Nat /\ Len(x) \in Nat
  BY ConcatProperties
<1>2. SubSeq(sx, i, Len(s)) = SubSeq(s, i, Len(s))
  <2>1. i \in Int /\ Len(s) \in Int /\ 1 <= i /\ Len(s) <= Len(s)
    BY <1>1
  <2> QED BY <2>1, PieceKept
<1>3. SubSeq(sx, Len(s) + 1, Len(sx)) = x
  <2>1. CASE Len(x) = 0
    <3>1. Len(s) + 1 \in Int /\ Len(sx) \in Int /\ Len(sx) < Len(s) + 1
      BY <1>1, <2>1
    <3>2. SubSeq(sx, Len(s) + 1, Len(sx)) = <<>>
      BY <3>1, SubSeqEmpty
    <3> QED BY <2>1, <3>2
  <2>2. CASE Len(x) # 0
    <3>1. /\ Len(s) + 1 \in Len(s) + 1 .. Len(s) + Len(x)
          /\ Len(sx) \in Len(s) + 1 .. Len(s) + Len(x)
          /\ Len(s) + 1 - Len(s) = 1 /\ Len(sx) - Len(s) = Len(x)
      BY <1>1, <2>2
    <3>2. SubSeq(sx, Len(s) + 1, Len(sx)) = SubSeq(x, 1, Len(x))
      BY <3>1, SubSeqOfConcat2
    <3> QED BY <3>2, SubSeqFull
  <2> QED BY <2>1, <2>2
<1>4. i \in 1 .. Len(sx) + 1 /\ Len(s) \in i - 1 .. Len(sx) /\ Len(sx) \in Len(s) .. Len(sx)
  BY <1>1
<1> HIDE DEF sx
<1>5. SubSeq(sx, i, Len(s)) \o SubSeq(sx, Len(s) + 1, Len(sx)) = SubSeq(sx, i, Len(sx))
  BY <1>1, <1>4, ConcatAdjacentSubSeq
<1> QED BY <1>2, <1>3, <1>5 DEF From, sx

-----------------------------------------------------------------------------
IsConcatenation(u, n, piece) ==
  u = [i \in 0 .. n |-> IF i = 0 THEN <<>> ELSE u[i - 1] \o piece[i]]

LEMMA Concatenation ==
  ASSUME NEW S, NEW n \in Nat, NEW piece, \A i \in 1 .. n : piece[i] \in Seq(S)
  PROVE  /\ \E u : IsConcatenation(u, n, piece)
         /\ \A u : IsConcatenation(u, n, piece) => \A i \in 0 .. n : u[i] \in Seq(S)
<1> DEFINE d == [i \in 1 .. n |-> i - 1]
           g == [i \in 1 .. n |-> [x \in Seq(S) |-> x \o piece[i]]]
<1>1. \A i \in 1 .. n : d[i] = i - 1 /\ d[i] \in 0 .. i - 1
  OBVIOUS
<1>2. ASSUME NEW i \in 1 .. n, NEW x \in Seq(S)
      PROVE  g[i][x] \in Seq(S) /\ g[i][x] = x \o piece[i]
  <2>1. piece[i] \in Seq(S)
    OBVIOUS
  <2>2. x \o piece[i] \in Seq(S)
    BY <2>1, ConcatProperties
  <2> QED BY <2>2
<1>3. <<>> \in Seq(S)
  OBVIOUS
<1>4. \A i \in 1 .. n : \A x \in Seq(S) : g[i][x] \in Seq(S) /\ g[i][x] = x \o piece[i]
  BY <1>2
<1> HIDE DEF d, g
<1>5. IsRecursion(n, Seq(S), <<>>, d, g)
  BY <1>1, <1>3, <1>4 DEF IsRecursion
<1>6. \E u : IsConcatenation(u, n, piece)
  <2> PICK u \in [0 .. n -> Seq(S)] : Computes(u, n, <<>>, d, g)
    BY <1>5, RecursionExists
  <2>1. ASSUME NEW i \in 0 .. n PROVE u[i] = IF i = 0 THEN <<>> ELSE u[i - 1] \o piece[i]
    <3>1. CASE i = 0
      BY <3>1 DEF Computes
    <3>2. CASE i # 0
      <4>1. i \in 1 .. n /\ i - 1 \in 0 .. n
        BY <3>2
      <4>2. u[i] = g[i][u[i - 1]] /\ u[i - 1] \in Seq(S)
        BY <1>1, <4>1 DEF Computes
      <4> QED BY <1>4, <3>2, <4>1, <4>2
    <3> QED BY <3>1, <3>2
  <2>2. u = [i \in 0 .. n |-> IF i = 0 THEN <<>> ELSE u[i - 1] \o piece[i]]
    BY <2>1
  <2> QED BY <2>2 DEF IsConcatenation
<1>7. ASSUME NEW u, IsConcatenation(u, n, piece) PROVE \A i \in 0 .. n : u[i] \in Seq(S)
  <2> DEFINE T == {i \in 0 .. n : u[i] \in Seq(S)}
  <2>0. 0 \in 0 .. n /\ \A i \in 1 .. n : i \in 0 .. n /\ i # 0
    OBVIOUS
  <2>1. \A i \in 0 .. n : u[i] = IF i = 0 THEN <<>> ELSE u[i - 1] \o piece[i]
    BY <1>7, Zenon DEF IsConcatenation
  <2>2. 0 \in T
    BY <1>3, <2>0, <2>1
  <2>3. ASSUME NEW i \in 1 .. n, i - 1 \in T PROVE i \in T
    <3>1. u[i - 1] \in Seq(S) /\ piece[i] \in Seq(S)
      BY <2>3
    <3>3. i \in 0 .. n /\ u[i] = u[i - 1] \o piece[i]
      BY <2>0, <2>1, Zenon
    <3>2. u[i - 1] \o piece[i] \in Seq(S)
      BY <3>1, ConcatProperties
    <3> QED BY <3>2, <3>3
  <2>4. \A i \in 1 .. n : i - 1 \in T => i \in T
    BY <2>3
  <2> HIDE DEF T
  <2>5. 0 .. n \subseteq T
    BY <2>2, <2>4, Induction
  <2> QED BY <2>5 DEF T
<1> QED BY <1>6, <1>7

(* What is decoded consists of symbols of the text and of encoded ones.    *)
LEMMA DecodedType ==
  ASSUME NEW S, DOMAIN CodeOf \subseteq S, Blank \in S, "byte" \in S, NEW s \in Seq(S)
  PROVE  urlDecode(s) \in Seq(S)
<1> DEFINE n == Len(s)
           piece == [i \in 1 .. n |-> DecodedSymbol(s, i)]
           Is(u) == u = [i \in 0 .. n |-> IF i = 0 THEN <<>>
                                          ELSE u[i - 1] \o DecodedSymbol(s, i)]
           escaped == CHOOSE u : Is(u)
<1>0. n \in Nat
  OBVIOUS
<1>1. ASSUME NEW i \in 1 .. n PROVE DecodedSymbol(s, i) \in Seq(S)
  <2>1. \A high, low : ByteOf(high, low) \in S
    <3> TAKE high, low
    <3> DEFINE bytes == {c \in DOMAIN CodeOf : CodeOf[c] = 16 * hex2dec[high] + hex2dec[low]}
    <3>1. ByteOf(high, low) = IF bytes = {} THEN "byte" ELSE CHOOSE c \in bytes : TRUE
      BY Zenon DEF ByteOf
    <3>2. bytes \subseteq S
      OBVIOUS
    <3> HIDE DEF bytes
    <3> QED BY <3>1, <3>2
  <2>2. \/ DecodedSymbol(s, i) = <<ByteOf(s[i - 1], s[i])>>
        \/ DecodedSymbol(s, i) = <<>>
        \/ DecodedSymbol(s, i) = <<Blank>>
        \/ DecodedSymbol(s, i) = <<s[i]>>
    BY Zenon DEF DecodedSymbol, Blank
  <2>3. s[i] \in S
    OBVIOUS
  <2>4. <<>> \in Seq(S) /\ \A x \in S : <<x>> \in Seq(S)
    OBVIOUS
  <2> QED BY <2>1, <2>2, <2>3, <2>4, Zenon
<1>2. \A i \in 1 .. n : piece[i] = DecodedSymbol(s, i) /\ piece[i] \in Seq(S)
  BY <1>1
<1> HIDE DEF n, piece
<1>3. \A u : Is(u) <=> IsConcatenation(u, n, piece)
  <2> TAKE u
  <2>1. \A i \in 0 .. n : (IF i = 0 THEN <<>> ELSE u[i - 1] \o DecodedSymbol(s, i))
                          = IF i = 0 THEN <<>> ELSE u[i - 1] \o piece[i]
    BY <1>0, <1>2
  <2> QED BY <2>1 DEF IsConcatenation
<1>4. Is(escaped)
  <2>1. \E u : Is(u)
    <3> HIDE DEF Is
    <3> QED BY <1>0, <1>2, <1>3, Concatenation
  <2> HIDE DEF Is
  <2> QED BY <2>1
<1>5. urlDecode(s) = IF BadEscape(s) THEN <<>> ELSE escaped[n]
  BY Zenon DEF urlDecode, n
<1> HIDE DEF escaped, Is
<1>6. escaped[n] \in Seq(S)
  <2>1. IsConcatenation(escaped, n, piece)
    BY <1>3, <1>4
  <2>2. \A i \in 0 .. n : escaped[i] \in Seq(S)
    BY <1>0, <1>2, <2>1, Concatenation
  <2> QED BY <1>0, <2>2
<1> QED BY <1>5, <1>6

Maps(K, V) == UNION {[D -> V] : D \in SUBSET K}
LowerWords == {LowerOf[w] : w \in DOMAIN LowerOf}
CookieSet(S) ==
  [map : Maps(Seq(S \cup LowerWords), Seq(S)), secure : BOOLEAN, httpOnly : BOOLEAN,
   domain : Seq(S), path : Seq(S), expires : Seq(S), maxAge : Nat, sessionId : Seq(S)]

LEMMA LowersType ==
  ASSUME NEW S, NEW s \in Seq(S) PROVE toLowers(s) \in Seq(S \cup LowerWords)
<1>1. \A i \in 1 .. Len(s) : s[i] \in S
  OBVIOUS
<1>2. \A w : (IF w \in DOMAIN LowerOf THEN LowerOf[w] ELSE w) \in LowerWords \cup {w}
  BY DEF LowerWords
<1>3. DOMAIN s = 1 .. Len(s) /\ Len(s) \in Nat
  OBVIOUS
<1>4. toLowers(s) \in [1 .. Len(s) -> S \cup LowerWords]
  BY <1>1, <1>2, <1>3 DEF toLowers
<1> QED BY <1>3, <1>4, SeqDef

LEMMA KeyedAttributeType ==
  ASSUME NEW S, NEW c \in CookieSet(S), NEW key \in Seq(S), NEW val \in Seq(S)
  PROVE  KeyedAttribute(c, key, val) \in CookieSet(S)
<1> DEFINE attr == toLowers(key)
           n == NumberIn(10, LeadingDigits(val))
           m == Put(c.map, attr, val)
           K == Seq(S \cup LowerWords)
<1>1. n \in Nat
  BY LeadingDigitsType, NumberInNat
<1>2. m \in Maps(K, Seq(S))
  <2>1. c.map \in Maps(K, Seq(S)) /\ attr \in K
    BY LowersType DEF CookieSet
  <2> HIDE DEF attr, K
  <2> PICK D \in SUBSET K : c.map \in [D -> Seq(S)]
    BY <2>1 DEF Maps
  <2>2. m \in [D \cup {attr} -> Seq(S)] /\ D \cup {attr} \in SUBSET K
    BY <2>1 DEF Put
  <2> QED BY <2>2 DEF Maps
<1>3. \/ KeyedAttribute(c, key, val) = [c EXCEPT !.domain = val]
      \/ KeyedAttribute(c, key, val) = [c EXCEPT !.path = val]
      \/ KeyedAttribute(c, key, val) = [c EXCEPT !.expires = val]
      \/ KeyedAttribute(c, key, val) = [c EXCEPT !.maxAge = n]
      \/ KeyedAttribute(c, key, val) = [c EXCEPT !.sessionId = val]
      \/ KeyedAttribute(c, key, val) = [c EXCEPT !.map = m]
  BY SMT DEF KeyedAttribute
<1> HIDE DEF n, m
<1>4. /\ [c EXCEPT !.domain = val] \in CookieSet(S)
      /\ [c EXCEPT !.path = val] \in CookieSet(S)
      /\ [c EXCEPT !.expires = val] \in CookieSet(S)
      /\ [c EXCEPT !.maxAge = n] \in CookieSet(S)
      /\ [c EXCEPT !.sessionId = val] \in CookieSet(S)
      /\ [c EXCEPT !.map = m] \in CookieSet(S)
  BY <1>1, <1>2 DEF CookieSet
<1> QED BY <1>3, <1>4, Zenon

LEMMA AttributeType ==
  ASSUME NEW S, NEW c \in CookieSet(S), NEW attr
  PROVE  Attribute(c, attr) \in CookieSet(S)
<1>1. Attribute(c, attr) \in {c, [c EXCEPT !.secure = TRUE], [c EXCEPT !.httpOnly = TRUE]}
  BY SMT DEF Attribute
<1>2. [c EXCEPT !.secure = TRUE] \in CookieSet(S) /\ [c EXCEPT !.httpOnly = TRUE] \in CookieSet(S)
  BY DEF CookieSet
<1> QED BY <1>1, <1>2, Zenon

(* The state of the loop over a cookie's text.                             *)
CookieLoop(S) ==
  [i : Nat \ {0}, j : Nat \ {0}, key : Seq(S), cookie : CookieSet(S)]

LEMMA SkipSpacesShorter ==
  ASSUME NEW S, NEW s \in Seq(S) PROVE Len(SkipSpaces(s)) <= Len(s)
<1> DEFINE rest == {i \in DOMAIN s : s[i] # Blank}
           first == CHOOSE i \in rest : \A j \in rest : i <= j
<1>1. SkipSpaces(s) = IF rest = {} THEN <<>> ELSE From(s, first)
  BY Zenon DEF SkipSpaces, Blank
<1>2. rest \in SUBSET (Nat \ {0}) /\ Len(s) \in Nat
  OBVIOUS
<1> HIDE DEF rest
<1>3. CASE rest = {}
  BY <1>1, <1>2, <1>3
<1>4. CASE rest # {}
  <2>1. \E i \in rest : \A j \in rest : i <= j
    BY <1>2, <1>4, LeastNat
  <2>2. first \in Nat \ {0}
    BY <1>2, <2>1
  <2> HIDE DEF first
  <2>3. Len(From(s, first)) = IF first <= Len(s) THEN Len(s) - first + 1 ELSE 0
    BY <2>2, RestType
  <2> QED BY <1>1, <1>2, <1>4, <2>2, <2>3
<1> QED BY <1>3, <1>4

LEMMA CookieStepType ==
  ASSUME NEW S, NEW s \in Seq(S), NEW l \in CookieLoop(S)
  PROVE  CookieStep(l, s) \in CookieLoop(S)
<1> DEFINE end == IF s[l.i] = ";" THEN l.i ELSE l.i + 1
           val == SubSeq(s, l.j, end - 1)
           next == Len(s) + 1 - Len(SkipSpaces(From(s, end + 1)))
           c == IF l.key = <<>> THEN Attribute(l.cookie, toLowers(val))
                                ELSE KeyedAttribute(l.cookie, l.key, val)
           key == SubSeq(s, l.j, l.i - 1)
           l1 == [i |-> next, j |-> next, key |-> <<>>, cookie |-> c]
           l2 == [l EXCEPT !.i = l.i + 1, !.j = l.i + 1, !.key = key]
           l3 == [l EXCEPT !.i = l.i + 1]
<1>1. CookieStep(l, s) = IF l.i > Len(s) THEN l
                         ELSE IF l.i = Len(s) \/ s[l.i] = ";" THEN l1
                         ELSE IF s[l.i] = "=" THEN l2 ELSE l3
  BY Zenon DEF CookieStep
<1>2. /\ l.i \in Nat \ {0} /\ l.j \in Nat \ {0} /\ l.key \in Seq(S) /\ l.cookie \in CookieSet(S)
      /\ Len(s) \in Nat
  BY DEF CookieLoop
<1>3. end \in Nat \ {0} /\ end - 1 \in Int /\ end <= l.i + 1 /\ end + 1 \in Nat \ {0}
      /\ (l.i <= Len(s) => end - 1 <= Len(s)) /\ (~(l.i > Len(s)) => l.i <= Len(s))
  <2>1. end \in {l.i, l.i + 1}
    BY Zenon
  <2> HIDE DEF end
  <2>2. \A i, n \in Nat : i # 0 => \A e \in {i, i + 1} :
          /\ e \in Nat \ {0} /\ e - 1 \in Int /\ e <= i + 1 /\ e + 1 \in Nat \ {0}
          /\ (i <= n => e - 1 <= n) /\ (~(i > n) => i <= n)
    OBVIOUS
  <2> QED BY <1>2, <2>1, <2>2
<1>4. l3 \in CookieLoop(S)
  BY <1>2 DEF CookieLoop
<1>5. ASSUME l.i <= Len(s) PROVE l2 \in CookieLoop(S)
  <2>1. l.j \in Int /\ 1 <= l.j /\ l.i - 1 \in Int /\ l.i - 1 <= Len(s)
    BY <1>2, <1>5
  <2>2. key \in Seq(S)
    BY <2>1, PieceType
  <2>3. l.i + 1 \in Nat \ {0}
    BY <1>2
  <2> HIDE DEF key
  <2> DEFINE i == l.i + 1
  <2>4. i \in Nat \ {0}
    BY <2>3
  <2> HIDE DEF i
  <2>5. [l EXCEPT !.i = i, !.j = i, !.key = key] \in CookieLoop(S)
    BY <2>2, <2>4 DEF CookieLoop
  <2> QED BY <2>5 DEF i
<1>6. ASSUME l.i <= Len(s) PROVE l1 \in CookieLoop(S)
  <2>1. l.j \in Int /\ 1 <= l.j /\ end - 1 \in Int /\ end - 1 <= Len(s)
    <3>1. \A x \in Nat \ {0} : x \in Int /\ 1 <= x
      OBVIOUS
    <3> HIDE DEF end
    <3> QED BY <1>2, <1>3, <1>6, <3>1
  <2>2. val \in Seq(S)
    <3> HIDE DEF end
    <3> QED BY <2>1, PieceType
  <2>3. next \in Nat \ {0}
    <3>1. end + 1 \in Nat \ {0} /\ end \in Nat
      BY <1>3, Zenon
    <3> DEFINE w == From(s, end + 1)
    <3> HIDE DEF end
    <3>2. w \in Seq(S) /\ Len(w) = IF end + 1 <= Len(s) THEN Len(s) - (end + 1) + 1 ELSE 0
      BY <3>1, RestType
    <3>3. Len(w) <= Len(s) /\ Len(w) \in Nat
      BY <1>2, <1>3, <3>1, <3>2
    <3> HIDE DEF w
    <3>4. SkipSpaces(w) \in Seq(S) /\ Len(SkipSpaces(w)) <= Len(w)
      BY <3>2, SkipSpacesType, SkipSpacesShorter
    <3>5. Len(s) + 1 - Len(SkipSpaces(w)) \in Nat \ {0}
      BY <1>2, <3>3, <3>4
    <3> QED BY <3>5 DEF w
  <2> HIDE DEF val, next
  <2>4. c \in CookieSet(S)
    BY <1>2, <2>2, AttributeType, KeyedAttributeType
  <2> HIDE DEF c
  <2> QED BY <2>3, <2>4 DEF CookieLoop
<1> HIDE DEF l1, l2, l3
<1> QED BY <1>1, <1>3, <1>4, <1>5, <1>6, Zenon

LEMMA CookieType ==
  ASSUME NEW S, DOMAIN CodeOf \subseteq S, Blank \in S, "byte" \in S, NEW str \in Seq(S)
  PROVE  HttpCookie(str) \in CookieSet(S)
<1> DEFINE s == urlDecode(str)
           n == Len(s)
           a == [i |-> 1, j |-> 1, key |-> <<>>, cookie |-> NoCookie]
           d == [k \in 1 .. n |-> k - 1]
           g == [k \in 1 .. n |-> [l \in CookieLoop(S) |-> CookieStep(l, s)]]
           Is(u) == u = [k \in 0 .. n |-> IF k = 0 THEN a ELSE CookieStep(u[k - 1], s)]
           after == CHOOSE u : Is(u)
<1>1. s \in Seq(S)
  BY DecodedType
<1>2. HttpCookie(str) = after[n].cookie
  BY Zenon DEF HttpCookie
<1>3. a \in CookieLoop(S)
  <2>1. NoCookie \in CookieSet(S)
    <3>1. EmptyMap \in Maps(Seq(S \cup LowerWords), Seq(S))
      <4>1. EmptyMap \in [{} -> Seq(S)]
        BY DEF EmptyMap
      <4>2. {} \in SUBSET Seq(S \cup LowerWords)
        OBVIOUS
      <4> QED BY <4>1, <4>2, Zenon DEF Maps
    <3> HIDE DEF EmptyMap
    <3> QED BY <3>1 DEF NoCookie, CookieSet
  <2> QED BY <2>1 DEF CookieLoop
<1> HIDE DEF a, s
<1>4. n \in Nat
  BY <1>1
<1>5. \A k \in 1 .. n : d[k] = k - 1 /\ d[k] \in 0 .. k - 1
  OBVIOUS
<1>6. \A k \in 1 .. n : \A l \in CookieLoop(S) :
        g[k][l] = CookieStep(l, s) /\ g[k][l] \in CookieLoop(S)
  BY <1>1, CookieStepType
<1> HIDE DEF n, d, g
<1>7. IsRecursion(n, CookieLoop(S), a, d, g)
  BY <1>3, <1>4, <1>5, <1>6 DEF IsRecursion
<1>8. \E u : Is(u)
  <2> PICK u \in [0 .. n -> CookieLoop(S)] : Computes(u, n, a, d, g)
    BY <1>7, RecursionExists
  <2>1. ASSUME NEW k \in 0 .. n PROVE u[k] = IF k = 0 THEN a ELSE CookieStep(u[k - 1], s)
    <3>1. CASE k = 0
      BY <3>1 DEF Computes
    <3>2. CASE k # 0
      <4>1. k \in 1 .. n /\ k - 1 \in 0 .. n
        BY <1>4, <3>2
      <4>2. u[k] = g[k][u[k - 1]] /\ u[k - 1] \in CookieLoop(S)
        BY <1>5, <4>1 DEF Computes
      <4> QED BY <1>6, <3>2, <4>1, <4>2
    <3> QED BY <3>1, <3>2
  <2>2. u = [k \in 0 .. n |-> IF k = 0 THEN a ELSE CookieStep(u[k - 1], s)]
    BY <2>1
  <2> QED BY <2>2
<1>9. Is(after)
  <2> HIDE DEF Is
  <2> QED BY <1>8
<1> HIDE DEF after
<1>10. 0 .. n \subseteq {k \in 0 .. n : after[k] \in CookieLoop(S)}
  <2> DEFINE T == {k \in 0 .. n : after[k] \in CookieLoop(S)}
  <2>1. \A k \in 0 .. n : after[k] = IF k = 0 THEN a ELSE CookieStep(after[k - 1], s)
    BY <1>9, Zenon
  <2>2. 0 \in T
    BY <1>3, <1>4, <2>1
  <2>3. ASSUME NEW k \in 1 .. n, k - 1 \in T PROVE k \in T
    <3>1. k \in 0 .. n /\ k # 0
      OBVIOUS
    <3>2. after[k] = CookieStep(after[k - 1], s)
      BY <2>1, <3>1, Zenon
    <3> QED BY <1>1, <2>3, <3>1, <3>2, CookieStepType
  <2>4. \A k \in 1 .. n : k - 1 \in T => k \in T
    BY <2>3
  <2> HIDE DEF T
  <2> QED BY <1>4, <2>2, <2>4, Induction DEF T
<1>11. after[n] \in CookieLoop(S)
  BY <1>4, <1>10
<1> QED BY <1>2, <1>11 DEF CookieLoop

(* A number is written in digits.                                          *)
HexDigit == {UpperDigits[i] : i \in 1 .. 16}

LEMMA HexTextType ==
  ASSUME NEW n \in Nat PROVE int2HexString(n) \in Seq(HexDigit)
<1> DEFINE d == [k \in 1 .. n |-> k \div 10]
           g == [k \in 1 .. n |-> [x \in Seq(HexDigit) |-> Append(x, dec2hex(k % 10))]]
           Is(u) == u = [k \in 0 .. n |-> IF k = 0 THEN <<>>
                                          ELSE Append(u[k \div 10], dec2hex(k % 10))]
           hex == CHOOSE u : Is(u)
<1>1. int2HexString(n) = hex[n]
  BY Zenon DEF int2HexString
<1>2. \A k \in 1 .. n : d[k] = k \div 10 /\ d[k] \in 0 .. k - 1
  OBVIOUS
<1>3. \A k \in 1 .. n : dec2hex(k % 10) \in HexDigit
  <2> TAKE k \in 1 .. n
  <2>1. (k % 10) + 1 \in 1 .. 16
    OBVIOUS
  <2> QED BY <2>1 DEF dec2hex, HexDigit
<1>4. \A k \in 1 .. n : \A x \in Seq(HexDigit) :
        g[k][x] = Append(x, dec2hex(k % 10)) /\ g[k][x] \in Seq(HexDigit)
  BY <1>3
<1>5. <<>> \in Seq(HexDigit)
  OBVIOUS
<1> HIDE DEF d, g
<1>6. IsRecursion(n, Seq(HexDigit), <<>>, d, g)
  BY <1>2, <1>4, <1>5 DEF IsRecursion
<1>7. \E u : Is(u)
  <2> PICK u \in [0 .. n -> Seq(HexDigit)] : Computes(u, n, <<>>, d, g)
    BY <1>6, RecursionExists
  <2>1. ASSUME NEW k \in 0 .. n
        PROVE  u[k] = IF k = 0 THEN <<>> ELSE Append(u[k \div 10], dec2hex(k % 10))
    <3>1. CASE k = 0
      BY <3>1 DEF Computes
    <3>2. CASE k # 0
      <4>1. k \in 1 .. n
        BY <3>2
      <4>2. k \div 10 \in 0 .. n
        BY <1>2, <4>1
      <4>3. u[k] = g[k][u[k \div 10]] /\ u[k \div 10] \in Seq(HexDigit)
        BY <1>2, <4>1, <4>2 DEF Computes
      <4> QED BY <1>4, <3>2, <4>1, <4>3
    <3> QED BY <3>1, <3>2
  <2>2. u = [k \in 0 .. n |-> IF k = 0 THEN <<>> ELSE Append(u[k \div 10], dec2hex(k % 10))]
    BY <2>1
  <2> QED BY <2>2
<1>8. Is(hex)
  <2> HIDE DEF Is
  <2> QED BY <1>7
<1> HIDE DEF hex
<1>9. 0 .. n \subseteq {k \in 0 .. n : \A i \in 0 .. k : hex[i] \in Seq(HexDigit)}
  <2> DEFINE T == {k \in 0 .. n : \A i \in 0 .. k : hex[i] \in Seq(HexDigit)}
  <2>1. \A k \in 0 .. n : hex[k] = IF k = 0 THEN <<>> ELSE Append(hex[k \div 10], dec2hex(k % 10))
    BY <1>8, Zenon
  <2>2. 0 \in T
    <3>1. 0 \in 0 .. n /\ \A i \in 0 .. 0 : i = 0
      OBVIOUS
    <3>2. hex[0] = <<>>
      BY <2>1, <3>1, Zenon
    <3> QED BY <1>5, <3>1, <3>2, Zenon
  <2>3. ASSUME NEW k \in 1 .. n, k - 1 \in T PROVE k \in T
    <3>1. k \in 0 .. n /\ k # 0 /\ k \div 10 \in 0 .. k - 1
      BY <1>2
    <3>2. hex[k] = Append(hex[k \div 10], dec2hex(k % 10))
      BY <2>1, <3>1, Zenon
    <3>3. hex[k \div 10] \in Seq(HexDigit) /\ dec2hex(k % 10) \in HexDigit
      BY <1>3, <2>3, <3>1
    <3>4. hex[k] \in Seq(HexDigit)
      BY <3>2, <3>3
    <3>5. \A i \in 0 .. k : i = k \/ i \in 0 .. k - 1
      OBVIOUS
    <3> QED BY <2>3, <3>1, <3>4, <3>5
  <2>4. \A k \in 1 .. n : k - 1 \in T => k \in T
    BY <2>3
  <2> HIDE DEF T
  <2> QED BY <2>2, <2>4, Induction DEF T
<1> QED BY <1>1, <1>9

LEMMA DecimalType ==
  ASSUME NEW n \in Nat PROVE Decimal(n) \in Seq(HexDigit)
<1>1. UpperDigits[1] = "0"
  BY DEF UpperDigits, Digits
<1>2. <<"0">> \in Seq(HexDigit)
  BY <1>1 DEF HexDigit
<1> QED BY <1>2, HexTextType DEF Decimal

LEMMA SetOfOneToSeq ==
  ASSUME NEW x PROVE SetToSeq({x}) = <<x>>
<1> DEFINE f == [i \in 1 .. 1 |-> x]
<1>1. Cardinality({x}) = 1
  BY FS_Singleton
<1>2. f \in [1 .. 1 -> {x}] /\ IsInjective(f)
  BY DEF IsInjective
<1>3. SetToSeq({x}) \in [1 .. 1 -> {x}]
  <2>1. SetToSeq({x}) = CHOOSE h \in [1 .. 1 -> {x}] : IsInjective(h)
    BY <1>1, Zenon DEF SetToSeq
  <2> HIDE DEF f
  <2> QED BY <1>2, <2>1
<1>4. \A h \in [1 .. 1 -> {x}] : h = <<x>>
  OBVIOUS
<1> QED BY <1>3, <1>4

(* A single text is joined to itself.                                      *)
LEMMA JoinedOne ==
  ASSUME NEW S, NEW x \in Seq(S), NEW split PROVE Joined(<<x>>, split) = x
<1> DEFINE texts == <<x>>
           Is(u) == u = [i \in 0 .. Len(texts) |->
                           IF i = 0 THEN <<>>
                           ELSE u[i - 1] \o (IF i = 1 THEN <<>> ELSE split) \o texts[i]]
           upto == CHOOSE u : Is(u)
<1>1. Joined(<<x>>, split) = upto[Len(texts)]
  BY Zenon DEF Joined
<1>2. Len(texts) = 1 /\ texts[1] = x
  OBVIOUS
<1>3. <<>> \o <<>> \o x = x
  BY ConcatEmptySeq
<1> DEFINE u == [i \in 0 .. 1 |-> IF i = 0 THEN <<>> ELSE x]
<1>4. u[0] = <<>> /\ u[1] = x
  OBVIOUS
<1>5. Is(u)
  <2>1. ASSUME NEW i \in 0 .. 1
        PROVE  (IF i = 0 THEN <<>> ELSE x)
                 = IF i = 0 THEN <<>>
                   ELSE u[i - 1] \o (IF i = 1 THEN <<>> ELSE split) \o texts[i]
    <3> HIDE DEF u, texts
    <3>1. i = 0 \/ (i = 1 /\ i - 1 = 0 /\ i # 0)
      OBVIOUS
    <3>2. CASE i = 0
      BY <3>2
    <3>3. CASE i = 1 /\ i - 1 = 0 /\ i # 0
      <4>1. u[i - 1] \o (IF i = 1 THEN <<>> ELSE split) \o texts[i] = <<>> \o <<>> \o x
        BY <1>2, <1>4, <3>3, Zenon
      <4> QED BY <1>3, <3>3, <4>1, Zenon
    <3> QED BY <3>1, <3>2, <3>3
  <2> QED BY <1>2, <2>1, Zenon
<1>6. Is(upto)
  <2> HIDE DEF Is, u
  <2> QED BY <1>5
<1>7. upto[1] = upto[0] \o <<>> \o x /\ upto[0] = <<>>
  <2>1. 1 \in 0 .. 1 /\ 0 \in 0 .. 1 /\ 1 # 0 /\ 1 - 1 = 0
    OBVIOUS
  <2>2. upto = [i \in 0 .. 1 |->
                  IF i = 0 THEN <<>>
                  ELSE upto[i - 1] \o (IF i = 1 THEN <<>> ELSE split) \o texts[i]]
    BY <1>2, <1>6, Zenon
  <2> HIDE DEF upto, Is, texts
  <2>3. \A i \in 0 .. 1 : upto[i] = IF i = 0 THEN <<>>
                  ELSE upto[i - 1] \o (IF i = 1 THEN <<>> ELSE split) \o texts[i]
    BY <2>2, Zenon
  <2>4. upto[0] = <<>>
    BY <2>1, <2>3, Zenon
  <2>5. upto[1] = upto[1 - 1] \o <<>> \o x
    BY <1>2, <2>1, <2>3, Zenon
  <2> QED BY <2>1, <2>4, <2>5, Zenon
<1> QED BY <1>1, <1>2, <1>3, <1>7, Zenon

LEMMA SessionKeyLower == toLowers(<<"SESSIONID">>) = <<"sessionid">>
<1> DEFINE pairs ==
  {<<"Connection", "connection">>, <<"Content-Type", "content-type">>,
   <<"Content-Length", "content-length">>, <<"Transfer-Encoding", "transfer-encoding">>,
   <<"Accept-Encoding", "accept-encoding">>, <<"Cookie", "cookie">>,
   <<"Close", "close">>, <<"Keep-Alive", "keep-alive">>, <<"Secure", "secure">>,
   <<"HttpOnly", "httponly">>, <<"Path", "path">>, <<"Domain", "domain">>,
   <<"Expires", "expires">>, <<"Max-Age", "max-age">>, <<"SESSIONID", "sessionid">>}
<1>1. LowerOf = TableOf(pairs)
  BY Zenon DEF LowerOf
<1>2. <<"SESSIONID", "sessionid">> \in pairs
  OBVIOUS
<1>3. \A p \in pairs : p[1] = "SESSIONID" => p[2] = "sessionid"
  OBVIOUS
<1>4. <<"SESSIONID", "sessionid">>[1] = "SESSIONID"
  OBVIOUS
<1> HIDE DEF pairs
<1>5. "SESSIONID" \in DOMAIN LowerOf /\ LowerOf["SESSIONID"] = "sessionid"
  <2>1. DOMAIN LowerOf = {p[1] : p \in pairs}
    BY <1>1 DEF TableOf
  <2>2. "SESSIONID" \in {p[1] : p \in pairs}
    BY <1>2, <1>4
  <2>3. LowerOf["SESSIONID"] = (CHOOSE p \in pairs : p[1] = "SESSIONID")[2]
    BY <1>1, <2>2, Zenon DEF TableOf
  <2>4. (CHOOSE p \in pairs : p[1] = "SESSIONID") \in pairs
        /\ (CHOOSE p \in pairs : p[1] = "SESSIONID")[1] = "SESSIONID"
    BY <1>2, <1>4, Zenon
  <2> QED BY <1>3, <2>1, <2>2, <2>3, <2>4
<1>6. DOMAIN <<"SESSIONID">> = 1 .. 1 /\ <<"SESSIONID">>[1] = "SESSIONID"
  OBVIOUS
<1>7. toLowers(<<"SESSIONID">>) = [i \in 1 .. 1 |-> "sessionid"]
  <2>1. \A i \in 1 .. 1 : i = 1
    OBVIOUS
  <2> QED BY <1>5, <1>6, <2>1 DEF toLowers
<1> QED BY <1>7

LEMMA TableHas ==
  ASSUME NEW pairs, NEW a, NEW b, <<a, b>> \in pairs PROVE a \in DOMAIN TableOf(pairs)
<1>1. <<a, b>>[1] = a
  OBVIOUS
<1> QED BY <1>1 DEF TableOf

LEMMA CodedSymbols == Blank \in DOMAIN CodeOf /\ {":", ";", "="} \subseteq DOMAIN CodeOf
<1> DEFINE pairs == {<<Blank, 32>>, <<"%", 37>>, <<"&", 38>>, <<"+", 43>>, <<"/", 47>>,
                     <<":", 58>>, <<";", 59>>, <<"=", 61>>, <<"?", 63>>}
<1>1. <<Blank, 32>> \in pairs /\ <<":", 58>> \in pairs /\ <<";", 59>> \in pairs
      /\ <<"=", 61>> \in pairs
  BY Zenon
<1>2. CodeOf = TableOf(pairs)
  BY Zenon DEF CodeOf, Blank
<1> HIDE DEF pairs
<1>3. Blank \in DOMAIN CodeOf /\ ":" \in DOMAIN CodeOf /\ ";" \in DOMAIN CodeOf
      /\ "=" \in DOMAIN CodeOf
  BY <1>1, <1>2, TableHas, Zenon
<1> QED BY <1>3, Zenon

LEMMA SequenceOfFour ==
  ASSUME NEW S, NEW a \in S, NEW b \in S, NEW c \in S, NEW d \in S
  PROVE  <<a>> \in Seq(S) /\ <<a, b, c, d>> \in Seq(S)
OBVIOUS

LEMMA SequencesGrow ==
  ASSUME NEW S, NEW T, S \subseteq T PROVE Seq(S) \subseteq Seq(T) /\ <<>> \in Seq(T)
OBVIOUS

LEMMA OneKey ==
  ASSUME NEW k, NEW id PROVE Put(EmptyMap, k, id) = [key \in {k} |-> id]
<1>1. DOMAIN EmptyMap = {}
  BY SMT DEF EmptyMap
<1>2. {k} \cup DOMAIN EmptyMap = {k}
  BY <1>1
<1>3. Put(EmptyMap, k, id)
        = [key \in {k} \cup DOMAIN EmptyMap |-> IF key = k THEN id ELSE EmptyMap[key]]
  BY Zenon DEF Put
<1>4. Put(EmptyMap, k, id) = [key \in {k} |-> IF key = k THEN id ELSE EmptyMap[key]]
  BY <1>2, <1>3
<1> HIDE DEF EmptyMap
<1> QED BY <1>4

LEMMA OnePair ==
  ASSUME NEW k, NEW id, NEW map, map = [key \in {k} |-> id], NEW e
  PROVE  {key \o e \o map[key] : key \in DOMAIN map} = {k \o e \o id}
OBVIOUS

(* The parts of a cookie that are not there.                               *)
LEMMA PlainCookieText ==
  ASSUME NEW map, NEW n,
         NEW c, c = [NoCookie EXCEPT !.map = map, !.maxAge = n]
  PROVE  CookieText(c) =
           Joined(SetToSeq({key \o <<"=">> \o map[key] : key \in DOMAIN map}), <<";", Blank>>)
           \o <<>> \o <<>> \o <<>>
           \o (IF (IF n > 0 THEN int2HexString(n) ELSE <<>>) = <<>> THEN <<>>
               ELSE <<";", Blank, "Max-Age", "=">> \o (IF n > 0 THEN int2HexString(n) ELSE <<>>))
           \o <<>> \o <<>>
<1>1. /\ c.map = map /\ c.maxAge = n /\ c.secure = FALSE /\ c.httpOnly = FALSE
      /\ c.expires = <<>> /\ c.domain = <<>> /\ c.path = <<>>
  BY SMT DEF NoCookie
<1> HIDE DEF NoCookie
<1> DEFINE age == IF n > 0 THEN int2HexString(n) ELSE <<>>
<1>2. (IF c.maxAge > 0 THEN int2HexString(c.maxAge) ELSE <<>>) = age
  BY <1>1, SMT
<1> DEFINE shown == IF c.maxAge > 0 THEN int2HexString(c.maxAge) ELSE <<>>
<1>3. CookieText(c) =
        Joined(SetToSeq({key \o <<"=">> \o c.map[key] : key \in DOMAIN c.map}), <<";", Blank>>)
        \o <<>> \o <<>> \o <<>>
        \o (IF age = <<>> THEN <<>> ELSE <<";", Blank, "Max-Age", "=">> \o age)
        \o <<>> \o <<>>
  <2> DEFINE keyed(name, value) ==
               IF value = <<>> THEN <<>> ELSE <<";", Blank, name, "=">> \o value
             flag(name, on) == IF on THEN <<";", Blank, name>> ELSE <<>>
             pairs == SetToSeq({key \o <<"=">> \o c.map[key] : key \in DOMAIN c.map})
  <2>1. CookieText(c) =
          Joined(pairs, <<";", Blank>>)
          \o keyed("Expires", c.expires) \o keyed("Domain", c.domain)
          \o keyed("Path", c.path)
          \o keyed("Max-Age", shown)
          \o flag("Secure", c.secure) \o flag("HttpOnly", c.httpOnly)
    BY Zenon DEF CookieText, Blank
  <2> HIDE DEF pairs, age, shown
  <2>2. /\ keyed("Expires", c.expires) = <<>> /\ keyed("Domain", c.domain) = <<>>
        /\ keyed("Path", c.path) = <<>>
        /\ flag("Secure", c.secure) = <<>> /\ flag("HttpOnly", c.httpOnly) = <<>>
    BY <1>1, Zenon
  <2>a. shown = age
    BY <1>2, Zenon DEF shown, age
  <2>3. keyed("Max-Age", shown)
          = IF age = <<>> THEN <<>> ELSE <<";", Blank, "Max-Age", "=">> \o age
    BY <2>a, Zenon
  <2> HIDE DEF keyed, flag
  <2>4. CookieText(c) =
          Joined(pairs, <<";", Blank>>) \o <<>> \o <<>> \o <<>>
          \o (IF age = <<>> THEN <<>> ELSE <<";", Blank, "Max-Age", "=">> \o age)
          \o <<>> \o <<>>
    BY <2>1, <2>2, <2>3, Zenon
  <2> QED BY <2>4, Zenon DEF pairs
<1> QED BY <1>1, <1>3, Zenon

LEMMA SessionMap ==
  ASSUME NEW id
  PROVE  Put(EmptyMap, toLowers(<<"SESSIONID">>), id) = [key \in {<<"sessionid">>} |-> id]
<1>1. Put(EmptyMap, <<"sessionid">>, id) = [key \in {<<"sessionid">>} |-> id]
  BY OneKey, Zenon
<1> QED BY <1>1, SessionKeyLower, Zenon

(* The cookie a response carries: the session's id.                        *)
LEMMA SessionCookieText ==
  ASSUME NEW S, HexDigit \subseteq S, DOMAIN CodeOf \subseteq S,
         "sessionid" \in S, "Max-Age" \in S, NEW id \in Seq(S), NEW n \in Nat
  PROVE  CookieText([NoCookie EXCEPT !.map = Put(EmptyMap, toLowers(<<"SESSIONID">>), id),
                                     !.maxAge = n]) \in Seq(S)
<1> DEFINE k == <<"sessionid">>
           e == <<"=">>
           map == Put(EmptyMap, toLowers(<<"SESSIONID">>), id)
           c == [NoCookie EXCEPT !.map = map, !.maxAge = n]
           split == <<";", Blank>>
           text == Joined(SetToSeq({key \o e \o map[key] : key \in DOMAIN map}), split)
           age == IF n > 0 THEN int2HexString(n) ELSE <<>>
           field == <<";", Blank, "Max-Age", "=">>
           a == IF age = <<>> THEN <<>> ELSE field \o age
<1>1. map = [key \in {k} |-> id]
  BY SessionMap, Zenon
<1>2. k \in Seq(S)
  BY SequenceOfFour, Zenon
<1>3. e \in Seq(S) /\ field \in Seq(S)
  <2>1. "=" \in S /\ ";" \in S /\ Blank \in S
    BY CodedSymbols, Zenon
  <2> QED BY <2>1, SequenceOfFour, Zenon
<1>4. CookieText(c) = text \o <<>> \o <<>> \o <<>> \o a \o <<>> \o <<>>
  BY PlainCookieText, Zenon
<1> HIDE DEF split
<1>5. text = k \o e \o id
  <2> HIDE DEF k, e
  <2>1. k \o e \o id \in Seq(S)
    BY <1>2, <1>3, ConcatProperties
  <2> HIDE DEF map
  <2>2. {key \o e \o map[key] : key \in DOMAIN map} = {k \o e \o id}
    BY <1>1, OnePair, Zenon
  <2> QED BY <2>1, <2>2, SetOfOneToSeq, JoinedOne, Zenon
<1> HIDE DEF text, k, e, field, map
<1>6. a \in Seq(S)
  <2>1. Seq(HexDigit) \subseteq Seq(S) /\ <<>> \in Seq(S)
    BY SequencesGrow, Zenon
  <2>2. int2HexString(n) \in Seq(HexDigit)
    BY HexTextType, Zenon
  <2>3. age \in Seq(S)
    BY <2>1, <2>2, Zenon
  <2> HIDE DEF age
  <2>4. field \o age \in Seq(S)
    BY <1>3, <2>3, ConcatProperties, Zenon
  <2> QED BY <2>1, <2>4, Zenon
<1> HIDE DEF a
<1>7. text \in Seq(S)
  <2>1. k \o e \in Seq(S)
    BY <1>2, <1>3, ConcatProperties, Zenon
  <2> QED BY <1>5, <2>1, ConcatProperties, Zenon
<1>8. text \o a \in Seq(S)
  BY <1>6, <1>7, ConcatProperties, Zenon
<1>9. CookieText(c) = text \o a
  BY <1>4, <1>7, <1>8, ConcatEmptySeq, Zenon
<1> QED BY <1>8, <1>9, Zenon DEF map

-----------------------------------------------------------------------------
(* The first place of a text in another.                                   *)
LEMMA FindIs ==
  ASSUME NEW S, NEW s \in Seq(S), NEW t \in Seq(S), NEW k \in 1 .. Len(s) - Len(t) + 1,
         Hit(s, t, k), \A j \in 1 .. k - 1 : ~Hit(s, t, j)
  PROVE  Find(s, t) = k
<1> DEFINE f == Find(s, t)
<1>1. /\ f \in 0 .. Len(s) + 1
      /\ f > 0 => Hit(s, t, f) /\ \A j \in 1 .. f - 1 : ~Hit(s, t, j)
      /\ f = 0 => \A j \in 1 .. Len(s) - Len(t) + 1 : ~Hit(s, t, j)
  BY FindFacts
<1> HIDE DEF f
<1>2. f # 0
  BY <1>1
<1>3. f \in Nat /\ f > 0 /\ k \in Nat /\ k > 0
  <2>1. Len(s) \in Nat /\ Len(t) \in Nat
    OBVIOUS
  <2> QED BY <1>1, <1>2, <2>1
<1>4. ~(f < k)
  <2> SUFFICES ASSUME f < k PROVE FALSE
    OBVIOUS
  <2>1. f \in 1 .. k - 1
    BY <1>3
  <2> QED BY <1>1, <1>3, <2>1
<1>5. ~(k < f)
  <2> SUFFICES ASSUME k < f PROVE FALSE
    OBVIOUS
  <2>1. k \in 1 .. f - 1
    BY <1>3
  <2> QED BY <1>1, <1>3, <2>1
<1> QED BY <1>3, <1>4, <1>5 DEF f

(* What is at a place where a text is found.                               *)
LEMMA HitHas ==
  ASSUME NEW S, NEW s \in Seq(S), NEW t \in Seq(S), NEW i \in Nat \ {0},
         i + Len(t) - 1 <= Len(s)
  PROVE  Hit(s, t, i) <=> \A k \in 1 .. Len(t) : s[i + k - 1] = t[k]
<1> DEFINE n == i + Len(t) - 1
           u == SubSeq(s, i, n)
<1>1. Len(t) \in Nat /\ n \in Int /\ i \in Int /\ 1 <= i /\ n <= Len(s)
  OBVIOUS
<1>2. n - i + 1 = Len(t) /\ (IF i <= n THEN n - i + 1 ELSE 0) = Len(t)
  BY <1>1
<1> HIDE DEF n
<1>3. /\ u \in Seq(S) /\ Len(u) = Len(t)
      /\ \A k \in 1 .. Len(t) : u[k] = s[i + k - 1]
  BY <1>1, <1>2, PieceType
<1> HIDE DEF u
<1>4. u = t <=> \A k \in 1 .. Len(t) : u[k] = t[k]
  BY <1>3, SeqEqual
<1> QED BY <1>3, <1>4 DEF Hit, u, n

(* A text in which no line is empty: behind every end of a line in it      *)
(* there is something that ends no line.                                   *)
NoGap(S, s) ==
  s \in Seq(S) /\ \A i \in 1 .. Len(s) : s[i] = "CR" => i + 2 <= Len(s) /\ s[i + 2] # "CR"

LEMMA NoGapPiece ==
  ASSUME NEW S, NEW t \in Seq(S), \A i \in 1 .. Len(t) : t[i] # "CR" PROVE NoGap(S, t)
BY DEF NoGap

LEMMA NoGapWithin ==
  ASSUME NEW S, NEW s, NoGap(S, s), NEW t, NoGap(S, t) PROVE NoGap(S, s \o t)
<1> DEFINE u == s \o t
<1>1. s \in Seq(S) /\ t \in Seq(S) /\ Len(s) \in Nat /\ Len(t) \in Nat
  BY DEF NoGap
<1>2. /\ u \in Seq(S) /\ Len(u) = Len(s) + Len(t)
      /\ \A i \in 1 .. Len(s) + Len(t) : u[i] = IF i <= Len(s) THEN s[i] ELSE t[i - Len(s)]
  BY <1>1, ConcatProperties
<1> HIDE DEF u
<1>3. ASSUME NEW i \in 1 .. Len(u), u[i] = "CR" PROVE i + 2 <= Len(u) /\ u[i + 2] # "CR"
  <2>1. CASE i <= Len(s)
    <3>1. s[i] = "CR" /\ i \in 1 .. Len(s)
      BY <1>1, <1>2, <1>3, <2>1
    <3>2. i + 2 <= Len(s) /\ s[i + 2] # "CR"
      BY <3>1 DEF NoGap
    <3> QED BY <1>1, <1>2, <3>2
  <2>2. CASE ~(i <= Len(s))
    <3> DEFINE j == i - Len(s)
    <3>1. j \in 1 .. Len(t) /\ u[i] = t[j]
      BY <1>1, <1>2, <2>2
    <3>2. j + 2 <= Len(t) /\ t[j + 2] # "CR"
      BY <1>3, <3>1 DEF NoGap
    <3>3. i + 2 \in 1 .. Len(s) + Len(t) /\ ~(i + 2 <= Len(s)) /\ (i + 2) - Len(s) = j + 2
      BY <1>1, <1>2, <2>2, <3>2
    <3>4. u[i + 2] = t[j + 2]
      <4> HIDE DEF j
      <4> QED BY <1>2, <3>3
    <3> QED BY <1>2, <3>2, <3>3, <3>4
  <2> QED BY <2>1, <2>2
<1> QED BY <1>2, <1>3 DEF NoGap, u

(* The next line.                                                          *)
LEMMA NoGapLine ==
  ASSUME NEW S, "CR" \in S, "LF" \in S, NEW s, NoGap(S, s),
         NEW t, NoGap(S, t), Len(t) > 0, t[1] # "CR"
  PROVE  NoGap(S, (s \o CRLF) \o t)
<1> DEFINE l == CRLF \o t
<1>1. s \in Seq(S) /\ t \in Seq(S) /\ Len(t) \in Nat
  BY DEF NoGap
<1>2. CRLF \in Seq(S) /\ Len(CRLF) = 2 /\ CRLF[1] = "CR" /\ CRLF[2] = "LF"
  BY DEF CRLF
<1>3. /\ l \in Seq(S) /\ Len(l) = 2 + Len(t)
      /\ \A i \in 1 .. 2 + Len(t) : l[i] = IF i <= 2 THEN CRLF[i] ELSE t[i - 2]
  <2>1. /\ l \in Seq(S) /\ Len(l) = Len(CRLF) + Len(t)
        /\ \A i \in 1 .. Len(CRLF) + Len(t) :
             l[i] = IF i <= Len(CRLF) THEN CRLF[i] ELSE t[i - Len(CRLF)]
    BY <1>1, <1>2, ConcatProperties, Zenon
  <2> HIDE DEF l
  <2> QED BY <1>2, <2>1
<1> HIDE DEF l
<1>4. ASSUME NEW i \in 1 .. Len(l), l[i] = "CR" PROVE i + 2 <= Len(l) /\ l[i + 2] # "CR"
  <2>1. i = 1 \/ i = 2 \/ i - 2 \in 1 .. Len(t)
    BY <1>1, <1>3
  <2>2. CASE i = 1
    <3>1. 3 \in 1 .. 2 + Len(t) /\ ~(3 <= 2) /\ 3 - 2 = 1
      BY <1>1
    <3>2. l[3] = t[1]
      BY <1>3, <3>1
    <3> QED BY <1>3, <2>2, <3>1, <3>2
  <2>3. CASE i = 2
    <3>1. l[2] = "LF"
      BY <1>2, <1>3, <2>3
    <3> QED BY <1>4, <2>3, <3>1
  <2>4. CASE i - 2 \in 1 .. Len(t)
    <3> DEFINE j == i - 2
    <3>1. j \in 1 .. Len(t) /\ l[i] = t[j] /\ i \in Nat
      BY <1>1, <1>3, <2>4
    <3>2. j + 2 <= Len(t) /\ t[j + 2] # "CR"
      BY <1>4, <3>1 DEF NoGap
    <3>3. i + 2 \in 1 .. 2 + Len(t) /\ ~(i + 2 <= 2) /\ (i + 2) - 2 = j + 2
      BY <1>1, <2>4, <3>1, <3>2
    <3>4. l[i + 2] = t[j + 2]
      <4> HIDE DEF j
      <4> QED BY <1>3, <3>3
    <3> QED BY <1>3, <3>2, <3>3, <3>4
  <2> QED BY <2>1, <2>2, <2>3, <2>4
<1>5. NoGap(S, l)
  BY <1>3, <1>4 DEF NoGap
<1>6. (s \o CRLF) \o t = s \o l
  BY <1>1, <1>2, ConcatAssociative DEF l
<1> QED BY <1>5, <1>6, NoGapWithin

(* The first empty line is the one behind such a text.                     *)
LEMMA GapFound ==
  ASSUME NEW S, "CR" \in S, "LF" \in S, NEW s, NoGap(S, s), NEW t \in Seq(S)
  PROVE  LET text == ((s \o CRLF) \o CRLF) \o t
         IN /\ Find(text, CRLF \o CRLF) = Len(s) + 1
            /\ From(text, Len(s) + 1 + 4) = t
<1> DEFINE gap == CRLF \o CRLF
           text == ((s \o CRLF) \o CRLF) \o t
           n == Len(s)
<1>1. s \in Seq(S) /\ n \in Nat /\ Len(t) \in Nat
  BY DEF NoGap
<1>3. CRLF \in Seq(S) /\ Len(CRLF) = 2 /\ CRLF[1] = "CR"
  BY DEF CRLF
<1>4. gap \in Seq(S) /\ Len(gap) = 4 /\ gap[1] = "CR" /\ gap[3] = "CR"
  <2>1. /\ gap \in Seq(S) /\ Len(gap) = Len(CRLF) + Len(CRLF)
        /\ \A i \in 1 .. Len(CRLF) + Len(CRLF) :
             gap[i] = IF i <= Len(CRLF) THEN CRLF[i] ELSE CRLF[i - Len(CRLF)]
    BY <1>3, ConcatProperties, Zenon
  <2> HIDE DEF gap
  <2> QED BY <1>3, <2>1
<1>5. text = (s \o gap) \o t
  BY <1>1, <1>3, ConcatAssociative
<1> DEFINE x == s \o gap
<1> HIDE DEF gap, text
<1>6. /\ x \in Seq(S) /\ Len(x) = n + 4
      /\ \A i \in 1 .. n + 4 : x[i] = IF i <= n THEN s[i] ELSE gap[i - n]
  <2>1. /\ x \in Seq(S) /\ Len(x) = n + Len(gap)
        /\ \A i \in 1 .. n + Len(gap) : x[i] = IF i <= n THEN s[i] ELSE gap[i - n]
    BY <1>1, <1>4, ConcatProperties, Zenon
  <2> HIDE DEF x, n
  <2> QED BY <1>4, <2>1
<1> HIDE DEF x
<1>7. /\ text \in Seq(S) /\ Len(text) = n + 4 + Len(t)
      /\ \A i \in 1 .. n + 4 + Len(t) : text[i] = IF i <= n + 4 THEN x[i] ELSE t[i - (n + 4)]
  <2>1. /\ x \o t \in Seq(S) /\ Len(x \o t) = (n + 4) + Len(t)
        /\ \A i \in 1 .. (n + 4) + Len(t) :
             (x \o t)[i] = IF i <= n + 4 THEN x[i] ELSE t[i - (n + 4)]
    <3>1. /\ x \o t \in Seq(S) /\ Len(x \o t) = Len(x) + Len(t)
          /\ \A i \in 1 .. Len(x) + Len(t) :
               (x \o t)[i] = IF i <= Len(x) THEN x[i] ELSE t[i - Len(x)]
      <4>1. x \in Seq(S) /\ t \in Seq(S)
        BY <1>6
      <4> QED BY <4>1, ConcatProperties, Zenon
    <3> QED BY <1>6, <3>1
  <2> QED BY <1>5, <1>6, <2>1 DEF x
<1> HIDE DEF n
<1>8. Hit(text, gap, n + 1)
  <2>1. \A k \in 1 .. 4 : /\ (n + 1) + k - 1 \in 1 .. n + 4
                          /\ (n + 1) + k - 1 \in 1 .. n + 4 + Len(t)
                          /\ ~((n + 1) + k - 1 <= n) /\ ((n + 1) + k - 1) - n = k
    BY <1>1
  <2>2. \A k \in 1 .. 4 : text[(n + 1) + k - 1] = gap[k]
    <3> TAKE k \in 1 .. 4
    <3> DEFINE i == (n + 1) + k - 1
    <3>1. i \in 1 .. n + 4 /\ i \in 1 .. n + 4 + Len(t) /\ ~(i <= n) /\ i - n = k /\ i <= n + 4
      BY <2>1
    <3> HIDE DEF i
    <3>2. text[i] = x[i] /\ x[i] = gap[i - n]
      BY <1>6, <1>7, <3>1
    <3> QED BY <3>1, <3>2 DEF i
  <2>3. n + 1 \in Nat \ {0} /\ (n + 1) + Len(gap) - 1 <= Len(text)
    BY <1>1, <1>4, <1>7
  <2>4. \A k \in 1 .. Len(gap) : text[(n + 1) + k - 1] = gap[k]
    BY <1>4, <2>2
  <2> QED BY <1>4, <1>7, <2>3, <2>4, HitHas, Zenon
<1>9. \A j \in 1 .. (n + 1) - 1 : ~Hit(text, gap, j)
  <2> SUFFICES ASSUME NEW j \in 1 .. n, Hit(text, gap, j) PROVE FALSE
    BY <1>1
  <2>1. j \in Nat \ {0} /\ j + Len(gap) - 1 <= Len(text)
    BY <1>1, <1>4, <1>7
  <2>2. \A k \in 1 .. 4 : text[j + k - 1] = gap[k]
    <3>1. \A k \in 1 .. Len(gap) : text[j + k - 1] = gap[k]
      <4>1. text \in Seq(S) /\ gap \in Seq(S) /\ Hit(text, gap, j)
        BY <1>4, <1>7
      <4> QED BY <2>1, <4>1, HitHas
    <3> QED BY <1>4, <3>1
  <2>3. text[j] = "CR" /\ text[j + 2] = "CR"
    <3>1. j + 1 - 1 = j /\ j + 3 - 1 = j + 2 /\ 1 \in 1 .. 4 /\ 3 \in 1 .. 4
      BY <2>1
    <3>2. text[j + 1 - 1] = gap[1] /\ text[j + 3 - 1] = gap[3]
      BY <2>2
    <3> QED BY <1>4, <3>1, <3>2
  <2>4. s[j] = "CR"
    BY <1>1, <1>6, <1>7, <2>3
  <2>5. j + 2 <= n /\ s[j + 2] # "CR"
    BY <2>4 DEF NoGap, n
  <2>6. text[j + 2] = s[j + 2]
    <3>1. j + 2 \in 1 .. n + 4 + Len(t) /\ j + 2 \in 1 .. n + 4
      BY <1>1, <2>5
    <3> QED BY <1>1, <1>6, <1>7, <2>5, <3>1
  <2> QED BY <2>3, <2>5, <2>6
<1>10. Find(text, gap) = n + 1
  <2>1. n + 1 \in 1 .. Len(text) - Len(gap) + 1
    BY <1>1, <1>4, <1>7
  <2> QED BY <1>4, <1>7, <1>8, <1>9, <2>1, FindIs
<1>11. From(text, n + 1 + 4) = t
  <2>1. (n + 4) + 1 \in 1 .. Len(x) + 1 /\ n + 1 + 4 = (n + 4) + 1
    BY <1>1, <1>6
  <2>2. From(x \o t, n + 1 + 4) = From(x, n + 1 + 4) \o t
    BY <1>6, <2>1, RestKept
  <2>3. From(x, n + 1 + 4) = <<>>
    <3>1. n + 1 + 4 \in Int /\ Len(x) \in Int /\ Len(x) < n + 1 + 4
      BY <1>1, <1>6
    <3> QED BY <3>1, SubSeqEmpty DEF From
  <2> QED BY <1>5, <2>2, <2>3, ConcatEmptySeq DEF x
<1> QED BY <1>10, <1>11 DEF text, gap, n

(* A text without an end of line is what the first line begins with.       *)
LEMMA LineFound ==
  ASSUME NEW S, "CR" \in S, "LF" \in S, NEW d \in Seq(S), \A i \in 1 .. Len(d) : d[i] # "CR",
         NEW z \in Seq(S)
  PROVE  LET text == d \o (CRLF \o z)
         IN SubSeq(text, 1, Find(text, CRLF) - 1) = d
<1> DEFINE x == d \o CRLF
           text == d \o (CRLF \o z)
           n == Len(d)
<1>1. CRLF \in Seq(S) /\ Len(CRLF) = 2 /\ CRLF[1] = "CR" /\ n \in Nat
  BY DEF CRLF
<1>2. text = x \o z
  <2>1. CRLF \in Seq(S)
    BY <1>1
  <2> QED BY <2>1, ConcatAssociative
<1>3. /\ x \in Seq(S) /\ Len(x) = n + 2
      /\ \A i \in 1 .. n + 2 : x[i] = IF i <= n THEN d[i] ELSE CRLF[i - n]
  <2>1. /\ x \in Seq(S) /\ Len(x) = n + Len(CRLF)
        /\ \A i \in 1 .. n + Len(CRLF) : x[i] = IF i <= n THEN d[i] ELSE CRLF[i - n]
    BY <1>1, ConcatProperties, Zenon
  <2> HIDE DEF x, n
  <2> QED BY <1>1, <2>1
<1> HIDE DEF x, n, text
<1>4. Find(x, CRLF) = n + 1
  <2>1. Hit(x, CRLF, n + 1)
    <3>1. \A k \in 1 .. 2 : x[(n + 1) + k - 1] = CRLF[k]
      <4> TAKE k \in 1 .. 2
      <4> DEFINE i == (n + 1) + k - 1
      <4>1. i \in 1 .. n + 2 /\ ~(i <= n) /\ i - n = k
        BY <1>1
      <4> HIDE DEF i
      <4> QED BY <1>3, <4>1 DEF i
    <3>2. n + 1 \in Nat \ {0} /\ (n + 1) + Len(CRLF) - 1 <= Len(x)
      BY <1>1, <1>3
    <3>3. \A k \in 1 .. Len(CRLF) : x[(n + 1) + k - 1] = CRLF[k]
      BY <1>1, <3>1
    <3> QED BY <1>1, <1>3, <3>2, <3>3, HitHas, Zenon
  <2>2. ASSUME NEW j \in 1 .. (n + 1) - 1, Hit(x, CRLF, j) PROVE FALSE
    <3>1. j \in Nat \ {0} /\ j + Len(CRLF) - 1 <= Len(x) /\ j + 1 - 1 = j /\ 1 \in 1 .. 2
          /\ j \in 1 .. n /\ j \in 1 .. n + 2 /\ j <= n
      BY <1>1, <1>3
    <3>2. \A k \in 1 .. Len(CRLF) : x[j + k - 1] = CRLF[k]
      <4>1. x \in Seq(S) /\ CRLF \in Seq(S) /\ Hit(x, CRLF, j)
        BY <1>1, <1>3, <2>2
      <4>2. j \in Nat \ {0} /\ j + Len(CRLF) - 1 <= Len(x)
        BY <3>1
      <4> QED BY <4>1, <4>2, HitHas
    <3>3. x[j] = "CR"
      BY <1>1, <3>1, <3>2
    <3>4. x[j] = d[j]
      BY <1>3, <3>1
    <3> QED BY <3>1, <3>3, <3>4 DEF n
  <2>3. n + 1 \in 1 .. Len(x) - Len(CRLF) + 1
    BY <1>1, <1>3
  <2> QED BY <1>1, <1>3, <2>1, <2>2, <2>3, FindIs
<1>5. Find(text, CRLF) = n + 1
  <2>1. Find(x, CRLF) > 0
    BY <1>1, <1>4
  <2> QED BY <1>1, <1>2, <1>3, <1>4, <2>1, FindKept
<1>6. SubSeq(text, 1, (n + 1) - 1) = d
  <2>1. (n + 1) - 1 = n /\ n \in Int /\ 1 \in Int /\ 1 <= 1 /\ n <= Len(d) /\ (CRLF \o z) \in Seq(S)
    BY <1>1, ConcatProperties DEF n
  <2>2. SubSeq(d \o (CRLF \o z), 1, n) = SubSeq(d, 1, n)
    BY <2>1, PieceKept
  <2>3. SubSeq(d, 1, n) = d
    BY SubSeqFull DEF n
  <2> QED BY <2>1, <2>2, <2>3 DEF text
<1> QED BY <1>5, <1>6 DEF text

=============================================================================
