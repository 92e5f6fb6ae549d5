------------------------ MODULE PropertyTextProofs ------------------------
(***************************************************************************)
(* What holds of property.c's texts, for any alphabet, any order of its    *)
(* symbols, any size of line[] and any group: how a text is laid out, what *)
(* is read from it, and what is read from the beginning of it.             *)
(***************************************************************************)
EXTENDS PropertyText, FiniteSetTheorems, Induction

Pair == [key : Seq(Symbol), value : Seq(Symbol)]
Group == Seq([key : Seq(Symbol), value : Seq(Symbol)])

-----------------------------------------------------------------------------
(* Parts of a sequence, and the part that strtrim leaves.                  *)

LEMMA Split ==
  ASSUME NEW s \in Seq(Symbol), NEW n \in 0 .. Len(s)
  PROVE  /\ UpTo(s, n) \in Seq(Symbol) /\ Len(UpTo(s, n)) = n
         /\ From(s, n + 1) \in Seq(Symbol) /\ Len(From(s, n + 1)) = Len(s) - n
         /\ UpTo(s, n) \o From(s, n + 1) = s
         /\ UpTo(s, Len(s)) = s
<1>1. Len(s) \in Nat /\ \A i \in 1 .. Len(s) : s[i] \in Symbol
  BY LenProperties, ElementOfSeq
<1>2. n \in Int /\ n + 1 \in Int /\ Len(s) \in Int
  BY <1>1
<1>3. SubSeq(s, 1, n) \in Seq(Symbol) /\ Len(SubSeq(s, 1, n)) = n
  <2>1. \A i \in 1 .. n : s[i] \in Symbol
    BY <1>1
  <2> QED BY <1>1, <1>2, <2>1, SubSeqProperties
<1>4. /\ SubSeq(s, n + 1, Len(s)) \in Seq(Symbol)
      /\ Len(SubSeq(s, n + 1, Len(s))) = Len(s) - n
  <2>1. \A i \in n + 1 .. Len(s) : s[i] \in Symbol
    BY <1>1
  <2> QED BY <1>1, <1>2, <2>1, SubSeqProperties
<1>5. SubSeq(s, 1, n) \o SubSeq(s, n + 1, Len(s)) = SubSeq(s, 1, Len(s))
  <2>1. 1 \in 1 .. Len(s) + 1 /\ n \in 1 - 1 .. Len(s) /\ Len(s) \in n .. Len(s)
    BY <1>1
  <2> QED BY <2>1, ConcatAdjacentSubSeq
<1>6. SubSeq(s, 1, Len(s)) = s
  BY SubSeqFull
<1> QED BY <1>3, <1>4, <1>5, <1>6 DEF UpTo, From

LEMMA PrefixIs ==
  ASSUME NEW S, NEW x \in Seq(S), NEW y \in Seq(S)
  PROVE  IsPrefix(x, y) <=> Len(x) <= Len(y) /\ \A k \in 1 .. Len(x) : x[k] = y[k]
<1>1. Len(x) \in Nat /\ Len(y) \in Nat
  BY LenProperties
<1>2. ASSUME Len(x) <= Len(y)
      PROVE  /\ SubSeq(x, 1, Len(x)) = x /\ SubSeq(y, 1, Len(x)) \in Seq(S)
             /\ Len(SubSeq(y, 1, Len(x))) = Len(x)
             /\ \A k \in 1 .. Len(x) : SubSeq(y, 1, Len(x))[k] = y[k]
  <2>1. /\ SubSeq(y, 1, Len(x)) \in Seq(S) /\ Len(SubSeq(y, 1, Len(x))) = Len(x) - 1 + 1
        /\ \A k \in 1 .. Len(x) - 1 + 1 : SubSeq(y, 1, Len(x))[k] = y[1 + k - 1]
    BY <1>1, <1>2, Part
  <2>2. Len(x) - 1 + 1 = Len(x) /\ \A k \in 1 .. Len(x) : 1 + k - 1 = k
    BY <1>1
  <2> QED BY <2>1, <2>2, SubSeqFull
<1>3. ASSUME IsPrefix(x, y)
      PROVE  Len(x) <= Len(y) /\ \A k \in 1 .. Len(x) : x[k] = y[k]
  <2>1. Len(x) <= Len(y) /\ SubSeq(x, 1, Len(x)) = SubSeq(y, 1, Len(x))
    BY <1>3 DEF IsPrefix
  <2>2. x = SubSeq(y, 1, Len(x))
    BY <1>2, <2>1
  <2> QED BY <1>2, <2>1, <2>2
<1>4. ASSUME Len(x) <= Len(y), \A k \in 1 .. Len(x) : x[k] = y[k]
      PROVE  IsPrefix(x, y)
  <2>1. x = SubSeq(y, 1, Len(x))
    BY <1>2, <1>4, SeqEqual
  <2> QED BY <1>2, <1>4, <2>1 DEF IsPrefix
<1> QED BY <1>3, <1>4

\* Everything of t outside i .. j is blank, t[i] and t[j] are not.
Within(t, i, j) ==
  /\ i \in 1 .. Len(t) + 1 /\ j \in 0 .. Len(t) /\ i <= j + 1
  /\ \A k \in 1 .. Len(t) : t[k] \notin Blank => k \in i .. j
  /\ i <= j => t[i] \notin Blank /\ t[j] \notin Blank

LEMMA TrimOf ==
  ASSUME NEW t \in Seq(Symbol), NEW i, NEW j, Within(t, i, j)
  PROVE  strtrim(t) = SubSeq(t, i, j)
<1> DEFINE solid == {k \in DOMAIN t : t[k] \notin Blank}
           l == Len(t)
<1>1. l \in Nat /\ DOMAIN t = 1 .. l
  BY LenProperties
<1>2. /\ i \in 1 .. l + 1 /\ j \in 0 .. l /\ i <= j + 1 /\ solid \subseteq i .. j
      /\ i <= j => i \in solid /\ j \in solid
  BY <1>1 DEF Within
<1>3. solid \subseteq Nat /\ solid \subseteq 0 .. l
  BY <1>1
<1>4. strtrim(t) = IF solid = {} THEN <<>> ELSE SubSeq(t, Min(solid), Max(solid))
  BY DEF strtrim
<1> HIDE DEF solid
<1>5. CASE i <= j
  <2>1. /\ Min(solid) \in solid /\ \A n \in solid : Min(solid) <= n
        /\ Max(solid) \in solid /\ \A n \in solid : n <= Max(solid)
    BY <1>1, <1>2, <1>3, <1>5, MinIs, MaxIs
  <2> DEFINE a == Min(solid)  b == Max(solid)
  <2>2. a \in i .. j /\ a <= i /\ b \in i .. j /\ j <= b
    BY <1>2, <1>5, <2>1
  <2> HIDE DEF a, b
  <2>3. a = i /\ b = j
    <3>1. i \in Nat /\ j \in Nat
      BY <1>1, <1>2
    <3> QED BY ONLY <2>2, <3>1
  <2>4. solid # {}
    BY <1>2, <1>5
  <2> QED BY <1>4, <2>3, <2>4 DEF a, b
<1>6. CASE ~(i <= j)
  <2>1. solid = {}
    BY <1>2, <1>6
  <2>2. j < i /\ i \in Int /\ j \in Int
    BY <1>1, <1>2, <1>6
  <2> QED BY <1>4, <2>1, <2>2, SubSeqEmpty
<1> QED BY <1>5, <1>6

LEMMA TrimHas ==
  ASSUME NEW t \in Seq(Symbol)
  PROVE  \E i \in 1 .. Len(t) + 1, j \in 0 .. Len(t) :
           Within(t, i, j) /\ strtrim(t) = SubSeq(t, i, j)
<1> DEFINE solid == {k \in DOMAIN t : t[k] \notin Blank}
           l == Len(t)
<1>1. l \in Nat /\ DOMAIN t = 1 .. l
  BY LenProperties
<1>2. \E i \in 1 .. l + 1, j \in 0 .. l : Within(t, i, j)
  <2>1. CASE solid = {}
    <3>1. 1 \in 1 .. l + 1 /\ 0 \in 0 .. l /\ 1 <= 0 + 1 /\ ~(1 <= 0)
      BY <1>1
    <3>2. Within(t, 1, 0)
      BY <1>1, <2>1, <3>1 DEF Within
    <3> QED BY <3>1, <3>2
  <2>2. CASE solid # {}
    <3>1. solid \subseteq 1 .. l /\ solid \subseteq Nat /\ solid \subseteq 0 .. l
      BY <1>1
    <3> DEFINE i == Min(solid)  j == Max(solid)
    <3>2. i \in solid /\ j \in solid /\ \A k \in solid : i <= k /\ k <= j
      <4> HIDE DEF solid
      <4> QED BY <1>1, <2>2, <3>1, MinIs, MaxIs
    <3> HIDE DEF i, j
    <3>3. /\ i \in 1 .. l + 1 /\ j \in 0 .. l /\ i <= j + 1 /\ i \in Nat /\ j \in Nat
          /\ \A k \in solid : k \in i .. j
      BY <1>1, <3>1, <3>2
    <3>4. Within(t, i, j)
      BY <1>1, <3>2, <3>3 DEF Within
    <3> QED BY <3>3, <3>4
  <2> QED BY <2>1, <2>2
<1> QED BY <1>2, TrimOf

LEMMA TrimTypes ==
  ASSUME NEW t \in Seq(Symbol)
  PROVE  strtrim(t) \in Seq(Symbol)
<1>1. PICK i \in 1 .. Len(t) + 1, j \in 0 .. Len(t) :
        Within(t, i, j) /\ strtrim(t) = SubSeq(t, i, j)
  BY TrimHas
<1>2. i \in Nat \ {0} /\ j \in Nat /\ i <= j + 1 /\ j <= Len(t)
  BY <1>1, LenProperties DEF Within
<1> QED BY <1>1, <1>2, Part

\* Blanks around a part do not count.
LEMMA TrimPart ==
  ASSUME NEW t \in Seq(Symbol), NEW m \in 1 .. Len(t) + 1, NEW n \in 0 .. Len(t),
         m <= n + 1, \A k \in 1 .. Len(t) : t[k] \notin Blank => k \in m .. n
  PROVE  strtrim(t) = strtrim(SubSeq(t, m, n))
<1> DEFINE u == SubSeq(t, m, n)
<1>1. Len(t) \in Nat /\ m \in Nat \ {0} /\ n \in Nat /\ n <= Len(t)
  BY LenProperties
<1>2. u \in Seq(Symbol) /\ Len(u) = n - m + 1 /\ \A k \in 1 .. n - m + 1 : u[k] = t[m + k - 1]
  BY <1>1, Part
<1> HIDE DEF u
<1>3. PICK i \in 1 .. Len(u) + 1, j \in 0 .. Len(u) :
        Within(u, i, j) /\ strtrim(u) = SubSeq(u, i, j)
  BY <1>2, TrimHas
<1> DEFINE a == m + i - 1  b == m + j - 1
<1>4. /\ i \in Nat \ {0} /\ j \in Nat /\ i <= j + 1 /\ j <= n - m + 1
      /\ \A k \in 1 .. n - m + 1 : u[k] \notin Blank => k \in i .. j
      /\ i <= j => u[i] \notin Blank /\ u[j] \notin Blank
  BY <1>1, <1>2, <1>3 DEF Within
<1>5. SubSeq(u, i, j) = SubSeq(t, a, b)
  BY <1>1, <1>4, PartOfPart DEF u
<1>6. a \in 1 .. Len(t) + 1 /\ b \in 0 .. Len(t) /\ a <= b + 1
  <2> DEFINE l == Len(t)
  <2>1. /\ l \in Nat /\ m \in Nat \ {0} /\ n \in Nat /\ n <= l /\ i \in Nat \ {0}
        /\ j \in Nat /\ i <= j + 1 /\ j <= n - m + 1
    BY <1>1, <1>4
  <2> HIDE DEF l
  <2>2. /\ m + i - 1 \in 1 .. l + 1 /\ m + j - 1 \in 0 .. l
        /\ m + i - 1 <= (m + j - 1) + 1
    BY ONLY <2>1
  <2> QED BY <2>2 DEF l
<1>7. ASSUME NEW k \in 1 .. Len(t), t[k] \notin Blank PROVE k \in a .. b
  <2> DEFINE q == k - m + 1
  <2>1. k \in m .. n
    BY <1>7
  <2>2. q \in 1 .. n - m + 1 /\ m + q - 1 = k
    BY <1>1, <2>1
  <2> HIDE DEF q
  <2>3. q \in i .. j
    BY <1>2, <1>4, <1>7, <2>2
  <2> QED BY <1>1, <1>4, <2>2, <2>3
<1>8. ASSUME a <= b PROVE t[a] \notin Blank /\ t[b] \notin Blank
  <2>1. i <= j /\ i \in 1 .. n - m + 1 /\ j \in 1 .. n - m + 1
    BY <1>1, <1>4, <1>8
  <2> QED BY <1>2, <1>4, <2>1
<1> HIDE DEF a, b
<1>9. Within(t, a, b)
  BY <1>6, <1>7, <1>8 DEF Within
<1>10. strtrim(t) = SubSeq(t, a, b)
  BY <1>9, TrimOf
<1> QED BY <1>3, <1>5, <1>10 DEF u

\* What is trimmed of the beginning of t is the beginning of what is of t.
LEMMA TrimPrefix ==
  ASSUME NEW t \in Seq(Symbol), NEW n \in 0 .. Len(t)
  PROVE  IsPrefix(strtrim(UpTo(t, n)), strtrim(t))
<1> DEFINE u == UpTo(t, n)
<1>1. Len(t) \in Nat /\ n \in Nat /\ n <= Len(t)
  BY LenProperties
<1>2. u \in Seq(Symbol) /\ Len(u) = n /\ \A k \in 1 .. n : u[k] = t[k]
  <2>1. /\ SubSeq(t, 1, n) \in Seq(Symbol) /\ Len(SubSeq(t, 1, n)) = n - 1 + 1
        /\ \A k \in 1 .. n - 1 + 1 : SubSeq(t, 1, n)[k] = t[1 + k - 1]
    BY <1>1, Part
  <2>2. n - 1 + 1 = n /\ \A k \in 1 .. n : 1 + k - 1 = k
    BY <1>1
  <2> QED BY <2>1, <2>2 DEF UpTo
<1>u. u = SubSeq(t, 1, n)
  BY DEF UpTo
<1> HIDE DEF u
<1>3. PICK i \in 1 .. n + 1, j \in 0 .. n :
        Within(u, i, j) /\ strtrim(u) = SubSeq(u, i, j)
  BY <1>2, TrimHas
<1>4. PICK a \in 1 .. Len(t) + 1, b \in 0 .. Len(t) :
        Within(t, a, b) /\ strtrim(t) = SubSeq(t, a, b)
  BY TrimHas
<1>5. /\ i \in Nat \ {0} /\ j \in Nat /\ i <= j + 1 /\ j <= n
      /\ a \in Nat \ {0} /\ b \in Nat /\ a <= b + 1 /\ b <= Len(t)
      /\ \A k \in 1 .. n : t[k] \notin Blank => k \in i .. j
      /\ \A k \in 1 .. Len(t) : t[k] \notin Blank => k \in a .. b
      /\ i <= j => t[i] \notin Blank /\ t[j] \notin Blank
      /\ a <= b => t[a] \notin Blank
  <2>1. /\ i \in Nat \ {0} /\ j \in Nat /\ i <= j + 1 /\ j <= n
        /\ a \in Nat \ {0} /\ b \in Nat /\ a <= b + 1 /\ b <= Len(t)
    BY <1>1, <1>2, <1>3, <1>4 DEF Within
  <2>2. i <= j => i \in 1 .. n /\ j \in 1 .. n
    BY <1>1, <2>1
  <2> QED BY <1>2, <1>3, <1>4, <2>1, <2>2 DEF Within
<1>6. CASE ~(i <= j)
  <2>1. j < i /\ i \in Int /\ j \in Int
    BY <1>5, <1>6
  <2>2. strtrim(u) = <<>>
    BY <1>2, <1>3, <2>1, SubSeqEmpty
  <2>3. strtrim(t) \in Seq(Symbol) /\ Len(strtrim(t)) \in Nat
    BY TrimTypes, LenProperties
  <2> DEFINE y == strtrim(t)
  <2>4. y \in Seq(Symbol) /\ <<>> \in Seq(Symbol) /\ Len(<<>>) = 0 /\ Len(y) \in Nat
    BY <2>3, EmptySeq
  <2> HIDE DEF y
  <2>5. Len(<<>>) <= Len(y) /\ \A k \in 1 .. Len(<<>>) : <<>>[k] = y[k]
    BY <2>4
  <2>6. IsPrefix(<<>>, y)
    BY ONLY <2>4, <2>5, PrefixIs
  <2> QED BY <2>2, <2>6 DEF u, y
<1>7. CASE i <= j
  <2>1. i = a /\ j <= b
    <3>1. i \in 1 .. Len(t) /\ j \in 1 .. Len(t)
      BY <1>1, <1>5, <1>7
    <3>2. i \in a .. b /\ j \in a .. b
      BY <1>5, <1>7, <3>1
    <3>3. a \in 1 .. n
      BY <1>1, <1>5, <3>2
    <3>4. a \in i .. j
      BY <1>5, <3>2, <3>3
    <3> QED BY <1>5, <3>2, <3>4
  <2>2. /\ Len(SubSeq(u, i, j)) = j - i + 1
        /\ \A k \in 1 .. j - i + 1 : SubSeq(u, i, j)[k] = u[i + k - 1]
    BY <1>2, <1>5, Part
  <2>3. /\ Len(SubSeq(t, a, b)) = b - a + 1
        /\ \A k \in 1 .. b - a + 1 : SubSeq(t, a, b)[k] = t[a + k - 1]
    BY SMTT(30), <1>5, Part
  <2>4. \A k \in 1 .. j - i + 1 :
          i + k - 1 \in 1 .. n /\ k \in 1 .. b - a + 1 /\ i + k - 1 = a + k - 1
    BY <1>1, <1>5, <2>1
  <2>5. \A k \in 1 .. j - i + 1 : SubSeq(u, i, j)[k] = SubSeq(t, a, b)[k]
    BY <1>2, <2>2, <2>3, <2>4
  <2> DEFINE x == strtrim(u)  y == strtrim(t)
  <2>6. /\ x \in Seq(Symbol) /\ y \in Seq(Symbol) /\ Len(x) <= Len(y)
        /\ \A k \in 1 .. Len(x) : x[k] = y[k]
    BY SMTT(30), <1>2, <1>3, <1>4, <1>5, <2>1, <2>2, <2>3, <2>5, TrimTypes
  <2> HIDE DEF x, y
  <2> QED BY <2>6, PrefixIs DEF x, y, u
<1> QED BY <1>6, <1>7 DEF u


-----------------------------------------------------------------------------
(* An entry's line, and what is made of it.                                *)

Fields(e) == e.key \o <<SEP>> \o e.value

LEMMA FieldsAre ==
  ASSUME NEW e \in Pair
  PROVE  LET z == Fields(e)  n == Len(e.key) IN
         /\ z \in Seq(Symbol) /\ n \in Nat /\ Len(e.value) \in Nat
         /\ Len(z) = n + 1 + Len(e.value)
         /\ \A i \in 1 .. n : z[i] = e.key[i]
         /\ z[n + 1] = SEP
         /\ \A i \in 1 .. Len(e.value) : z[n + 1 + i] = e.value[i]
         /\ SubSeq(z, 1, n) = e.key /\ SubSeq(z, n + 2, Len(z)) = e.value
<1> DEFINE k == e.key  v == e.value  sep == <<SEP>>
           ks == k \o sep  z == ks \o v
           n == Len(k)  l == Len(v)
<1>1. /\ k \in Seq(Symbol) /\ v \in Seq(Symbol) /\ sep \in Seq(Symbol) /\ Len(sep) = 1
      /\ sep[1] = SEP /\ n \in Nat /\ l \in Nat
  BY TextAssumption, LenProperties DEF Pair
<1> HIDE DEF k, v, sep
<1>2. /\ ks \in Seq(Symbol) /\ Len(ks) = n + 1
      /\ \A i \in 1 .. n + 1 : ks[i] = IF i <= n THEN k[i] ELSE sep[i - n]
  <2>1. k \in Seq(Symbol) /\ sep \in Seq(Symbol)
    BY <1>1
  <2>2. /\ ks \in Seq(Symbol) /\ Len(ks) = Len(k) + Len(sep)
        /\ \A i \in 1 .. Len(k) + Len(sep) :
             ks[i] = IF i <= Len(k) THEN k[i] ELSE sep[i - Len(k)]
    BY <2>1, ConcatProperties
  <2> HIDE DEF ks
  <2> QED BY <1>1, <2>2
<1> HIDE DEF ks
<1>3. /\ z \in Seq(Symbol) /\ Len(z) = n + 1 + l
      /\ \A i \in 1 .. n + 1 + l : z[i] = IF i <= n + 1 THEN ks[i] ELSE v[i - (n + 1)]
  <2>1. ks \in Seq(Symbol) /\ v \in Seq(Symbol)
    BY <1>1, <1>2
  <2>2. /\ z \in Seq(Symbol) /\ Len(z) = Len(ks) + Len(v)
        /\ \A i \in 1 .. Len(ks) + Len(v) :
             z[i] = IF i <= Len(ks) THEN ks[i] ELSE v[i - Len(ks)]
    BY <2>1, ConcatProperties
  <2> HIDE DEF z
  <2> QED BY <1>2, <2>2
<1> HIDE DEF z, n, l
<1>4. \A i \in 1 .. n : z[i] = k[i]
  BY <1>1, <1>2, <1>3
<1>5. z[n + 1] = SEP
  <2>1. n + 1 \in 1 .. n + 1 + l /\ n + 1 \in 1 .. n + 1 /\ ~(n + 1 <= n) /\ (n + 1) - n = 1
    BY <1>1
  <2> QED BY <1>1, <1>2, <1>3, <2>1
<1>6. ASSUME NEW i \in 1 .. l PROVE z[n + 1 + i] = v[i]
  <2>1. n + 1 + i \in 1 .. n + 1 + l /\ ~(n + 1 + i <= n + 1) /\ (n + 1 + i) - (n + 1) = i
    BY <1>1
  <2> QED BY <1>3, <2>1
<1>7. SubSeq(z, 1, n) = k
  <2>1. 1 \in Nat \ {0} /\ 1 <= n + 1 /\ n <= Len(z) /\ n - 1 + 1 = n
        /\ \A i \in 1 .. n : 1 + i - 1 = i
    BY <1>1, <1>3
  <2>2. /\ SubSeq(z, 1, n) \in Seq(Symbol) /\ Len(SubSeq(z, 1, n)) = n - 1 + 1
        /\ \A i \in 1 .. n - 1 + 1 : SubSeq(z, 1, n)[i] = z[1 + i - 1]
    BY <1>1, <1>3, <2>1, Part
  <2>3. /\ Len(SubSeq(z, 1, n)) = Len(k)
        /\ \A i \in 1 .. Len(k) : SubSeq(z, 1, n)[i] = k[i]
    BY <1>4, <2>1, <2>2 DEF n
  <2> QED BY <1>1, <2>2, <2>3, SeqEqual
<1>8. SubSeq(z, n + 2, Len(z)) = v
  <2> DEFINE m == n + 2  e1 == n + 1 + l
  <2>1. /\ m \in Nat \ {0} /\ e1 \in Nat /\ m <= e1 + 1 /\ e1 <= Len(z) /\ e1 = Len(z)
        /\ e1 - m + 1 = l /\ \A i \in 1 .. l : m + i - 1 = n + 1 + i
    BY <1>1, <1>3
  <2> HIDE DEF m, e1
  <2>2. /\ SubSeq(z, m, e1) \in Seq(Symbol) /\ Len(SubSeq(z, m, e1)) = e1 - m + 1
        /\ \A i \in 1 .. e1 - m + 1 : SubSeq(z, m, e1)[i] = z[m + i - 1]
    BY <1>3, <2>1, Part
  <2>3. /\ Len(SubSeq(z, m, e1)) = Len(v)
        /\ \A i \in 1 .. Len(v) : SubSeq(z, m, e1)[i] = v[i]
    BY <1>6, <2>1, <2>2 DEF l
  <2>4. SubSeq(z, m, e1) = v
    BY <1>1, <2>2, <2>3, SeqEqual
  <2> QED BY <2>1, <2>4 DEF m
<1>9. z = Fields(e)
  BY DEF Fields, z, ks, k, v, sep
<1> QED BY <1>1, <1>3, <1>4, <1>5, <1>6, <1>7, <1>8, <1>9, Zenon DEF k, v, n, l

\* A line is the entry's fields and a newline, or the beginning of that.
LEMMA LineIs ==
  ASSUME NEW e \in Pair
  PROVE  LET z == Fields(e)  line == Line(e) IN
         /\ line \in Seq(Symbol) /\ Len(line) \in Nat /\ Len(line) <= LineMax
         /\ Len(line) <= Len(z) + 1
         /\ \A i \in 1 .. Len(line) : line[i] = IF i <= Len(z) THEN z[i] ELSE NL
         /\ Len(z) < LineMax => Len(line) = Len(z) + 1
<1> DEFINE z == Fields(e)  nl == <<NL>>  whole == z \o nl  l == Len(z)
<1>1. /\ z \in Seq(Symbol) /\ l \in Nat /\ nl \in Seq(Symbol) /\ Len(nl) = 1 /\ nl[1] = NL
      /\ LineMax \in Nat \ {0}
  <2>1. z \in Seq(Symbol)
    BY FieldsAre, Zenon
  <2> HIDE DEF z
  <2> QED BY <2>1, LenProperties, TextAssumption
<1>2. Line(e) = IF Len(whole) <= LineMax THEN whole ELSE UpTo(whole, LineMax)
  BY DEF Line, Fields
<1> HIDE DEF z, nl
<1>3. /\ whole \in Seq(Symbol) /\ Len(whole) = l + 1
      /\ \A i \in 1 .. l + 1 : whole[i] = IF i <= l THEN z[i] ELSE nl[i - l]
  <2>1. /\ whole \in Seq(Symbol) /\ Len(whole) = Len(z) + Len(nl)
        /\ \A i \in 1 .. Len(z) + Len(nl) : whole[i] = IF i <= Len(z) THEN z[i] ELSE nl[i - Len(z)]
    BY <1>1, ConcatProperties
  <2> HIDE DEF whole
  <2> QED BY <1>1, <2>1
<1> HIDE DEF whole, l
<1>4. \A i \in 1 .. l + 1 : whole[i] = IF i <= l THEN z[i] ELSE NL
  <2>1. \A i \in 1 .. l + 1 : ~(i <= l) => i - l = 1
    BY <1>1
  <2> QED BY <1>1, <1>3, <2>1
<1> DEFINE Is(line) ==
             /\ line \in Seq(Symbol) /\ Len(line) \in Nat /\ Len(line) <= LineMax
             /\ Len(line) <= l + 1
             /\ \A i \in 1 .. Len(line) : line[i] = IF i <= l THEN z[i] ELSE NL
             /\ l < LineMax => Len(line) = l + 1
<1>5. CASE l + 1 <= LineMax
  <2>1. Line(e) = whole
    BY <1>2, <1>3, <1>5
  <2>2. Is(whole)
    BY <1>1, <1>3, <1>4, <1>5
  <2>3. Is(Line(e))
    BY <2>1, <2>2
  <2> QED BY <2>3, Zenon DEF l, z
<1>6. CASE ~(l + 1 <= LineMax)
  <2> DEFINE line == UpTo(whole, LineMax)
  <2>1. Line(e) = line
    BY <1>2, <1>3, <1>6
  <2>2. 1 \in Nat \ {0} /\ LineMax \in Nat /\ 1 <= LineMax + 1 /\ LineMax <= Len(whole)
        /\ LineMax - 1 + 1 = LineMax /\ \A i \in 1 .. LineMax : 1 + i - 1 = i
    BY <1>1, <1>3, <1>6
  <2>3. /\ line \in Seq(Symbol) /\ Len(line) = LineMax - 1 + 1
        /\ \A i \in 1 .. LineMax - 1 + 1 : line[i] = whole[1 + i - 1]
    BY <1>3, <2>2, Part DEF UpTo
  <2> HIDE DEF line
  <2>4. Is(line)
    BY <1>1, <1>3, <1>4, <1>6, <2>2, <2>3
  <2>5. Is(Line(e))
    BY <2>1, <2>4
  <2> QED BY <2>5, Zenon DEF l, z
<1> QED BY <1>5, <1>6

LEMMA LineTypes ==
  ASSUME NEW e \in [key : Seq(Symbol), value : Seq(Symbol)]
  PROVE  Line(e) \in Seq(Symbol) /\ Len(Line(e)) \in Nat /\ Len(Line(e)) <= LineMax
<1>1. e \in Pair
  BY DEF Pair
<1> QED BY <1>1, LineIs

LEMMA KeyEndIs ==
  ASSUME NEW t \in Seq(Symbol)
  PROVE  \/ KeyEnd(t) = 0 /\ \A i \in 1 .. Len(t) : t[i] # SEP
         \/ /\ KeyEnd(t) \in 1 .. Len(t) /\ t[KeyEnd(t)] = SEP
            /\ \A i \in 1 .. KeyEnd(t) - 1 : t[i] # SEP
<1> DEFINE I == {i \in 1 .. Len(t) : t[i] = SEP}
<1>1. KeyEnd(t) = IF I # {} THEN Min(I) ELSE 0
  BY DEF KeyEnd, SelectInSeq
<1>2. CASE I = {}
  BY <1>1, <1>2
<1>3. CASE I # {}
  <2> DEFINE n == Min(I)
  <2>1. I \subseteq Nat
    BY LenProperties
  <2>2. n \in I /\ \A i \in I : n <= i
    <3> HIDE DEF I
    <3> QED BY <1>3, <2>1, MinIs
  <2>3. KeyEnd(t) = n
    BY <1>1, <1>3
  <2> HIDE DEF n
  <2>4. \A i \in 1 .. n - 1 : t[i] # SEP
    <3>1. ASSUME NEW i \in 1 .. n - 1, t[i] = SEP PROVE FALSE
      <4>1. n \in 1 .. Len(t) /\ Len(t) \in Nat
        BY <2>2, LenProperties
      <4>2. i \in 1 .. Len(t) /\ ~(n <= i)
        BY <4>1
      <4> QED BY <2>2, <3>1, <4>2
    <3> QED BY <3>1
  <2> QED BY <2>2, <2>3, <2>4
<1> QED BY <1>2, <1>3

LEMMA NoEntry ==
  ASSUME NEW t \in Seq(Symbol), \A i \in 1 .. Len(t) : t[i] # SEP
  PROVE  KeyEnd(strtrim(t)) = 0
<1> DEFINE w == strtrim(t)
<1>1. PICK i \in 1 .. Len(t) + 1, j \in 0 .. Len(t) :
        Within(t, i, j) /\ w = SubSeq(t, i, j)
  BY TrimHas
<1>2. /\ i \in Nat \ {0} /\ j \in Nat /\ i <= j + 1 /\ j <= Len(t) /\ Len(t) \in Nat
      /\ w \in Seq(Symbol)
  BY <1>1, LenProperties, TrimTypes DEF Within
<1>3. Len(w) = j - i + 1 /\ \A k \in 1 .. j - i + 1 : w[k] = t[i + k - 1]
  BY <1>1, <1>2, Part
<1> HIDE DEF w
<1>4. \A k \in 1 .. Len(w) : i + k - 1 \in 1 .. Len(t)
  BY <1>2, <1>3
<1>5. \A k \in 1 .. Len(w) : w[k] # SEP
  BY <1>3, <1>4
<1>6. KeyEnd(w) = 0
  BY <1>2, <1>5, KeyEndIs
<1> QED BY <1>6 DEF w

\* The fields of an entry, trimmed, are read as what the entry is trimmed to.
LEMMA EntryOf ==
  ASSUME NEW e \in Pair, \A i \in 1 .. Len(e.key) : e.key[i] # SEP
  PROVE  /\ KeyEnd(strtrim(Fields(e))) # 0
         /\ Entry(strtrim(Fields(e))) = [key |-> strtrim(e.key), value |-> strtrim(e.value)]
<1> DEFINE z == Fields(e)  w == strtrim(z)  c == Len(e.key) + 1  l == Len(z)
<1>1. /\ z \in Seq(Symbol) /\ c \in Nat \ {0} /\ l \in Nat /\ c <= l /\ z[c] = SEP
      /\ \A i \in 1 .. c - 1 : z[i] # SEP
      /\ SubSeq(z, 1, c - 1) = e.key /\ SubSeq(z, c + 1, l) = e.value
  <2> DEFINE n == Len(e.key)  m == Len(e.value)
  <2>1. /\ z \in Seq(Symbol) /\ n \in Nat /\ m \in Nat
        /\ l = n + 1 + m /\ z[n + 1] = SEP
        /\ \A i \in 1 .. n : z[i] = e.key[i]
        /\ SubSeq(z, 1, n) = e.key /\ SubSeq(z, n + 2, l) = e.value
    BY FieldsAre
  <2> HIDE DEF z, n, m, l
  <2>4. n \in Nat /\ m \in Nat /\ l = n + 1 + m
    BY <2>1
  <2>2. (n + 1) - 1 = n /\ (n + 1) + 1 = n + 2 /\ n + 1 \in Nat \ {0} /\ n + 1 <= l /\ l \in Nat
    BY ONLY <2>4
  <2>3. \A i \in 1 .. n : z[i] # SEP
    BY <2>1 DEF n
  <2> QED BY <2>1, <2>2, <2>3 DEF n
<1> HIDE DEF z, c, l
<1>2. PICK i \in 1 .. l + 1, j \in 0 .. l : Within(z, i, j) /\ w = SubSeq(z, i, j)
  BY <1>1, TrimHas DEF l
<1>3. /\ i \in Nat \ {0} /\ j \in Nat /\ i <= j + 1 /\ j <= l
      /\ \A k \in 1 .. l : z[k] \notin Blank => k \in i .. j
  BY <1>1, <1>2 DEF Within, l
<1>4. i <= c /\ c <= j
  <2>1. z[c] \notin Blank /\ c \in 1 .. l
    BY <1>1, TextAssumption
  <2> QED BY <1>3, <2>1
<1>5. /\ w \in Seq(Symbol) /\ Len(w) = j - i + 1
      /\ \A k \in 1 .. j - i + 1 : w[k] = z[i + k - 1]
  BY <1>1, <1>2, <1>3, Part DEF l
<1> DEFINE q == c - i + 1
<1>6. q \in 1 .. Len(w) /\ w[q] = SEP /\ \A k \in 1 .. q - 1 : w[k] # SEP
  <2>1. q \in 1 .. j - i + 1 /\ i + q - 1 = c
    BY <1>1, <1>3, <1>4
  <2>2. \A k \in 1 .. q - 1 : k \in 1 .. j - i + 1 /\ i + k - 1 \in 1 .. c - 1
    BY <1>1, <1>3, <1>4
  <2> HIDE DEF q
  <2> QED BY <1>1, <1>5, <2>1, <2>2
<1>7. KeyEnd(w) = q
  <2> HIDE DEF q, w
  <2> DEFINE f == KeyEnd(w)
  <2>1. \/ f = 0 /\ \A k \in 1 .. Len(w) : w[k] # SEP
        \/ f \in 1 .. Len(w) /\ w[f] = SEP /\ \A k \in 1 .. f - 1 : w[k] # SEP
    BY <1>5, KeyEndIs
  <2> HIDE DEF f
  <2>2. f \in 1 .. Len(w) /\ w[f] = SEP /\ \A k \in 1 .. f - 1 : w[k] # SEP
    BY <1>6, <2>1
  <2>3. ~(f < q) /\ ~(q < f) /\ f \in Nat /\ q \in Nat
    <3>1. Len(w) \in Nat
      BY <1>5, LenProperties
    <3>2. f < q => f \in 1 .. q - 1
      BY <1>6, <2>2, <3>1
    <3>3. q < f => q \in 1 .. f - 1
      BY <1>6, <2>2, <3>1
    <3> QED BY <1>6, <2>2, <3>1, <3>2, <3>3
  <2>4. f = q
    BY <2>3
  <2> QED BY <2>4 DEF f
<1>8. strtrim(UpTo(w, q - 1)) = strtrim(e.key)
  <2> DEFINE a == q - 1  y == SubSeq(z, 1, c - 1)
  <2>1. /\ 1 \in Nat \ {0} /\ a \in Nat /\ 1 <= a + 1 /\ a <= j - i + 1
        /\ i + 1 - 1 = i /\ i + a - 1 = c - 1
    BY <1>1, <1>3, <1>4
  <2> HIDE DEF a
  <2>2. SubSeq(w, 1, a) = SubSeq(z, i, c - 1)
    <3>1. SubSeq(w, 1, a) = SubSeq(z, i + 1 - 1, i + a - 1)
      BY <1>1, <1>2, <1>3, <2>1, PartOfPart DEF l
    <3> QED BY <2>1, <3>1
  <2> DEFINE d == c - 1  one == 1
  <2>3. /\ one \in Nat \ {0} /\ d \in Nat /\ one <= d + 1 /\ d <= Len(z)
        /\ i <= d + 1 /\ i \in Nat \ {0} /\ i \in 1 .. d + 1 /\ d - one + 1 = d
        /\ one + i - 1 = i /\ one + d - 1 = d /\ d <= d - one + 1
    BY <1>1, <1>3, <1>4 DEF l
  <2> HIDE DEF d, one
  <2>4. /\ SubSeq(z, one, d) \in Seq(Symbol) /\ Len(SubSeq(z, one, d)) = d - one + 1
        /\ \A k \in 1 .. d - one + 1 : SubSeq(z, one, d)[k] = z[one + k - 1]
    BY <1>1, <2>3, Part
  <2>5. SubSeq(SubSeq(z, one, d), i, d) = SubSeq(z, one + i - 1, one + d - 1)
    BY <1>1, <2>3, PartOfPart
  <2>6. /\ y \in Seq(Symbol) /\ Len(y) = d /\ \A k \in 1 .. d : y[k] = z[k]
        /\ SubSeq(y, i, d) = SubSeq(z, i, d)
    <3>1. y = SubSeq(z, one, d) /\ \A k \in 1 .. d : one + k - 1 = k
      BY <2>3 DEF d, one
    <3> HIDE DEF y
    <3> QED BY <2>3, <2>4, <2>5, <3>1
  <2> HIDE DEF y
  <2>7. ASSUME NEW k \in 1 .. Len(y), y[k] \notin Blank PROVE k \in i .. d
    <3>1. k \in 1 .. d /\ k \in 1 .. l /\ z[k] \notin Blank
      BY <1>1, <2>3, <2>6, <2>7 DEF l
    <3>2. k \in i .. j
      BY <1>3, <3>1
    <3> QED BY <1>3, <2>3, <3>1, <3>2
  <2>8. i \in 1 .. Len(y) + 1 /\ d \in 0 .. Len(y)
    BY <2>3, <2>6
  <2>9. strtrim(y) = strtrim(SubSeq(y, i, d))
    BY <2>3, <2>6, <2>7, <2>8, TrimPart
  <2> QED BY <1>1, <2>2, <2>6, <2>9 DEF UpTo, a, d, y
<1>9. strtrim(From(w, q + 1)) = strtrim(e.value)
  <2> DEFINE a == q + 1  d == j - i + 1  b == c + 1
  <2>1. /\ a \in Nat \ {0} /\ d \in Nat /\ a <= d + 1 /\ d <= j - i + 1 /\ d = Len(w)
        /\ i + a - 1 = b /\ i + d - 1 = j
    BY <1>1, <1>3, <1>4, <1>5
  <2> HIDE DEF a, d
  <2>2. SubSeq(w, a, d) = SubSeq(z, b, j)
    <3>1. SubSeq(w, a, d) = SubSeq(z, i + a - 1, i + d - 1)
      BY <1>1, <1>2, <1>3, <2>1, PartOfPart DEF l
    <3> QED BY <2>1, <3>1
  <2> DEFINE y == SubSeq(z, b, l)  one == 1  f == j - c
  <2>3. /\ b \in Nat \ {0} /\ l \in Nat /\ b <= l + 1 /\ l <= Len(z)
        /\ one \in Nat \ {0} /\ f \in Nat /\ one <= f + 1 /\ f <= l - b + 1
        /\ b + one - 1 = b /\ b + f - 1 = j
    BY <1>1, <1>3, <1>4 DEF l
  <2>4. \A k \in 1 .. l - b + 1 : /\ b + k - 1 \in 1 .. l
                                  /\ (b + k - 1 \in i .. j => k \in one .. f)
    BY <1>1, <1>3, <1>4
  <2> HIDE DEF b, one, f
  <2>5. /\ y \in Seq(Symbol) /\ Len(y) = l - b + 1
        /\ \A k \in 1 .. l - b + 1 : y[k] = z[b + k - 1]
    BY <1>1, <2>3, Part
  <2>6. SubSeq(y, one, f) = SubSeq(z, b + one - 1, b + f - 1)
    BY <1>1, <2>3, PartOfPart
  <2> HIDE DEF y
  <2>7. \A k \in 1 .. Len(y) : y[k] \notin Blank => k \in one .. f
    BY <1>3, <2>4, <2>5
  <2>8. one \in 1 .. Len(y) + 1 /\ f \in 0 .. Len(y) /\ one <= f + 1
    BY <2>3, <2>5 DEF one
  <2>9. strtrim(y) = strtrim(SubSeq(y, one, f))
    BY <2>5, <2>7, <2>8, TrimPart
  <2>10. strtrim(y) = strtrim(SubSeq(w, a, d))
    BY <2>2, <2>3, <2>6, <2>9
  <2> QED BY <1>1, <2>1, <2>10 DEF From, a, y, b
<1>10. Entry(w) = [key |-> strtrim(e.key), value |-> strtrim(e.value)]
  <2> HIDE DEF q, w
  <2> QED BY <1>7, <1>8, <1>9 DEF Entry
<1>11. KeyEnd(w) # 0
  BY <1>6, <1>7
<1> QED BY <1>10, <1>11 DEF w, z

-----------------------------------------------------------------------------
(* The text of a group is its first line, and then the text of the others. *)

LEMMA TextHead ==
  ASSUME NEW g \in Group
  PROVE  /\ Text(g) \in Seq(Symbol) /\ Len(Text(g)) \in Nat
         /\ g = <<>> => Text(g) = <<>>
         /\ g # <<>> => Text(g) = Line(Head(g)) \o Text(Tail(g))
<1> DEFINE lines(h) == [i \in DOMAIN h |-> Line(h[i])]
<1>1. ASSUME NEW h \in Group
      PROVE  lines(h) \in Seq(Seq(Symbol)) /\ Len(lines(h)) = Len(h)
  <2>1. \A i \in 1 .. Len(h) : Line(h[i]) \in Seq(Symbol)
    BY LineTypes, ElementOfSeq DEF Group
  <2>2. DOMAIN h = 1 .. Len(h) /\ Len(h) \in Nat
    BY LenProperties DEF Group
  <2> QED BY <2>1, <2>2
<1>2. CASE g = <<>>
  <2>1. lines(g) = <<>>
    BY <1>2
  <2>2. FlattenSeq(<<>>) = <<>>
    BY DEF FlattenSeq
  <2>3. Text(g) = <<>>
    BY <2>1, <2>2 DEF Text
  <2> QED BY <1>2, <2>3, EmptySeq
<1>3. CASE g # <<>>
  <2>1. /\ Len(g) \in Nat \ {0} /\ Tail(g) \in Group /\ Len(Tail(g)) = Len(g) - 1
        /\ Head(g) = g[1] /\ \A i \in 1 .. Len(Tail(g)) : Tail(g)[i] = g[i + 1]
    BY <1>3, EmptySeq, HeadTailProperties DEF Group
  <2>2. lines(g) \in Seq(Seq(Symbol)) /\ Len(lines(g)) = Len(g) /\ lines(g) # <<>>
    BY <1>1, <2>1
  <2>3. lines(g)[1] = Line(Head(g))
    BY <2>1, LenProperties DEF Group
  <2>4. Tail(lines(g)) = lines(Tail(g))
    <3>1. lines(Tail(g)) \in Seq(Seq(Symbol)) /\ Len(lines(Tail(g))) = Len(g) - 1
      BY <1>1, <2>1
    <3>2. /\ Tail(lines(g)) \in Seq(Seq(Symbol)) /\ Len(Tail(lines(g))) = Len(g) - 1
          /\ \A i \in 1 .. Len(g) - 1 : Tail(lines(g))[i] = lines(g)[i + 1]
      BY <2>2, HeadTailProperties
    <3>3. ASSUME NEW i \in 1 .. Len(g) - 1
          PROVE  lines(g)[i + 1] = lines(Tail(g))[i]
      <4>1. i \in DOMAIN Tail(g) /\ i + 1 \in DOMAIN g
        BY <2>1, LenProperties DEF Group
      <4> QED BY <2>1, <4>1
    <3> HIDE DEF lines
    <3> QED BY <3>1, <3>2, <3>3, SeqEqual
  <2>5. Text(g) = FlattenSeq(lines(g)) /\ Text(Tail(g)) = FlattenSeq(lines(Tail(g)))
    BY DEF Text
  <2> HIDE DEF lines
  <2>6. FlattenSeq(lines(g)) \in Seq(Symbol)
    BY <2>2, FlattenHead
  <2>7. FlattenSeq(lines(g)) = lines(g)[1] \o FlattenSeq(Tail(lines(g)))
    BY <2>2, FlattenHead
  <2> QED BY <1>3, <2>3, <2>4, <2>5, <2>6, <2>7, LenProperties
<1> QED BY <1>2, <1>3

-----------------------------------------------------------------------------
(* What a text holds from an offset on.                                    *)

HoldsAt(text, n, s) ==
  n + Len(s) <= Len(text) /\ \A i \in 1 .. Len(s) : text[n + i] = s[i]

LEMMA HoldsConcat ==
  ASSUME NEW text \in Seq(Symbol), NEW n \in Nat,
         NEW s \in Seq(Symbol), NEW t \in Seq(Symbol)
  PROVE  HoldsAt(text, n, s \o t) <=>
           HoldsAt(text, n, s) /\ HoldsAt(text, n + Len(s), t)
<1> DEFINE st == s \o t
<1>1. /\ Len(s) \in Nat /\ Len(t) \in Nat /\ Len(text) \in Nat
      /\ Len(st) = Len(s) + Len(t)
      /\ \A i \in 1 .. Len(s) : st[i] = s[i]
      /\ \A i \in 1 .. Len(t) : st[Len(s) + i] = t[i]
  <2>1. Len(s) \in Nat /\ Len(t) \in Nat /\ Len(text) \in Nat
    BY LenProperties
  <2>2. /\ Len(st) = Len(s) + Len(t)
        /\ \A i \in 1 .. Len(s) + Len(t) :
             st[i] = IF i <= Len(s) THEN s[i] ELSE t[i - Len(s)]
    BY ConcatProperties
  <2> HIDE DEF st
  <2>3. ASSUME NEW i \in 1 .. Len(t) PROVE st[Len(s) + i] = t[i]
    <3>1. /\ Len(s) + i \in 1 .. Len(s) + Len(t) /\ ~(Len(s) + i <= Len(s))
          /\ (Len(s) + i) - Len(s) = i
      BY <2>1
    <3> QED BY <2>2, <3>1
  <2> QED BY <2>1, <2>2, <2>3
<1> HIDE DEF st
<1>2. ASSUME HoldsAt(text, n, st)
      PROVE  HoldsAt(text, n, s) /\ HoldsAt(text, n + Len(s), t)
  <2>1. \A i \in 1 .. Len(s) : text[n + i] = s[i]
    BY <1>1, <1>2 DEF HoldsAt
  <2>2. ASSUME NEW i \in 1 .. Len(t) PROVE text[(n + Len(s)) + i] = t[i]
    <3>1. Len(s) + i \in 1 .. Len(st) /\ (n + Len(s)) + i = n + (Len(s) + i)
      BY <1>1
    <3> QED BY <1>1, <1>2, <3>1 DEF HoldsAt
  <2> QED BY <1>1, <1>2, <2>1, <2>2 DEF HoldsAt
<1>3. ASSUME HoldsAt(text, n, s), HoldsAt(text, n + Len(s), t)
      PROVE  HoldsAt(text, n, st)
  <2>1. ASSUME NEW i \in 1 .. Len(st) PROVE text[n + i] = st[i]
    <3>1. CASE i <= Len(s)
      BY <1>1, <1>3, <3>1 DEF HoldsAt
    <3>2. CASE ~(i <= Len(s))
      <4> DEFINE j == i - Len(s)
      <4>1. j \in 1 .. Len(t) /\ Len(s) + j = i /\ (n + Len(s)) + j = n + i
        BY <1>1, <3>2
      <4> HIDE DEF j
      <4>2. st[Len(s) + j] = t[j] /\ text[(n + Len(s)) + j] = t[j]
        BY <1>1, <1>3, <4>1 DEF HoldsAt
      <4> QED BY <4>1, <4>2
    <3> QED BY <3>1, <3>2
  <2> QED BY <1>1, <1>3, <2>1 DEF HoldsAt
<1> QED BY <1>2, <1>3 DEF st

LEMMA HoldsNothing ==
  ASSUME NEW text \in Seq(Symbol), NEW n \in Nat, n <= Len(text)
  PROVE  HoldsAt(text, n, <<>>)
BY EmptySeq DEF HoldsAt

-----------------------------------------------------------------------------
(* What is loaded is what was saved.  A text is laid out in n lines when   *)
(* the k-th of them, which is not blank, ends with the NL at ends[k].      *)

Laid(text, n, ends) ==
  /\ ends \in [0 .. n -> Nat] /\ ends[0] = 0 /\ ends[n] = Len(text)
  /\ \A m \in 0 .. n, k \in 1 .. n : m = k - 1 =>
       /\ ends[m] + 2 <= ends[k] /\ text[ends[k]] = NL
       /\ \A i \in ends[m] + 1 .. ends[k] - 1 : text[i] # NL
       /\ \E i \in ends[m] + 1 .. ends[k] - 1 : text[i] \notin Blank

LEMMA LaidOrder ==
  ASSUME NEW text \in Seq(Symbol), NEW n \in Nat, NEW ends, Laid(text, n, ends)
  PROVE  /\ \A l, k \in 0 .. n : l < k => ends[l] < ends[k]
         /\ \A k \in 0 .. n : ends[k] \in 0 .. Len(text)
         /\ \A i \in 1 .. Len(text) : \E m \in 0 .. n, k \in 1 .. n :
              m = k - 1 /\ i \in ends[m] + 1 .. ends[k]
<1>1. /\ ends \in [0 .. n -> Nat] /\ ends[0] = 0 /\ ends[n] = Len(text) /\ Len(text) \in Nat
      /\ \A m \in 0 .. n, k \in 1 .. n : m = k - 1 => ends[m] + 2 <= ends[k]
  BY LenProperties DEF Laid
<1> DEFINE Below(k) == \A l \in 0 .. n : l < k => ends[l] < ends[k]
           N == {k \in Nat : k <= n => Below(k)}
<1>2. Nat \subseteq N
  <2>1. 0 \in N
    OBVIOUS
  <2>2. ASSUME NEW m \in Nat, m \in N PROVE m + 1 \in N
    <3> DEFINE k == m + 1
    <3>1. SUFFICES ASSUME k <= n, NEW l \in 0 .. n, l < k PROVE ends[l] < ends[k]
      OBVIOUS
    <3>2. m \in 0 .. n /\ k \in 1 .. n /\ m = k - 1 /\ k \in 0 .. n
      BY <3>1
    <3>3. l < m \/ l = m
      BY <3>1
    <3>4. l < m => ends[l] < ends[m]
      BY <2>2, <3>2
    <3> HIDE DEF k
    <3>5. ends[m] + 2 <= ends[k] /\ ends[m] \in Nat /\ ends[k] \in Nat /\ ends[l] \in Nat
      BY <1>1, <3>1, <3>2
    <3> QED BY <3>3, <3>4, <3>5
  <2> HIDE DEF N
  <2> QED BY <2>1, <2>2, SetInduction
<1>3. \A l, k \in 0 .. n : l < k => ends[l] < ends[k]
  BY <1>2
<1>4. \A k \in 0 .. n : ends[k] \in 0 .. Len(text)
  <2> TAKE k \in 0 .. n
  <2>1. n \in 0 .. n /\ (k < n \/ k = n) /\ ends[k] \in Nat
    BY <1>1
  <2> QED BY <1>1, <1>3, <2>1
<1>5. ASSUME NEW i \in 1 .. Len(text)
      PROVE  \E m \in 0 .. n, k \in 1 .. n : m = k - 1 /\ i \in ends[m] + 1 .. ends[k]
  <2> DEFINE R == {k \in 0 .. n : i <= ends[k]}
  <2>1. n \in R /\ R \subseteq Nat
    BY <1>1
  <2>2. PICK k \in R : \A l \in R : k <= l
    BY <2>1, LeastElement
  <2>3. k # 0
    BY <1>1, <2>2
  <2> DEFINE m == k - 1
  <2>4. m \in 0 .. n /\ k \in 1 .. n /\ m = k - 1 /\ m < k
    BY <2>2, <2>3
  <2> HIDE DEF m
  <2>5. ~(i <= ends[m])
    BY <2>2, <2>4
  <2>6. i \in ends[m] + 1 .. ends[k]
    BY <1>1, <2>2, <2>4, <2>5
  <2> QED BY <2>4, <2>6
<1> QED BY <1>3, <1>4, <1>5

(* The definitions inside Lines, by name.                                  *)
IsSolid(text, i) ==
  \E k \in i .. Len(text) : text[k] \notin Blank /\ \A j \in i .. k : text[j] # NL
Starts(text) ==
  {i \in DOMAIN text : (i = 1 \/ text[i - 1] = NL) /\ IsSolid(text, i)}
IsEnd(text, i, j) ==
  (j = Len(text) \/ text[j + 1] = NL) /\ \A k \in i .. j : text[k] # NL
EndOf(text, i) == CHOOSE j \in i .. Len(text) : IsEnd(text, i, j)
StartOf(text, n) ==
  CHOOSE i \in Starts(text) : Cardinality({j \in Starts(text) : j <= i}) = n

LEMMA LinesNamed ==
  ASSUME NEW text
  PROVE  Lines(text) = [n \in 1 .. Cardinality(Starts(text)) |->
                strtrim(SubSeq(text, StartOf(text, n), EndOf(text, StartOf(text, n))))]
BY Zenon DEF Lines, Starts, StartOf, EndOf, IsEnd, IsSolid

LEMMA StartIs ==
  ASSUME NEW text \in Seq(Symbol), NEW i \in Starts(text)
  PROVE  /\ i \in 1 .. Len(text) /\ text[i] # NL /\ (i = 1 \/ text[i - 1] = NL)
         /\ IsSolid(text, i)
<1>1. i \in 1 .. Len(text) /\ (i = 1 \/ text[i - 1] = NL) /\ IsSolid(text, i) /\ Len(text) \in Nat
  BY LenProperties DEF Starts
<1>2. PICK k \in i .. Len(text) : \A j \in i .. k : text[j] # NL
  BY <1>1 DEF IsSolid
<1>3. i \in i .. k
  BY <1>1
<1> QED BY <1>1, <1>2, <1>3

\* A line ends where it can.
LEMMA EndIs ==
  ASSUME NEW text \in Seq(Symbol), NEW i \in 1 .. Len(text), NEW j \in i .. Len(text),
         IsEnd(text, i, j)
  PROVE  EndOf(text, i) = j
<1> DEFINE Is(k) == k \in i .. Len(text) /\ IsEnd(text, i, k)
<1>1. Len(text) \in Nat
  BY LenProperties
<1>2. ASSUME NEW k, Is(k) PROVE k = j
  <2>1. /\ k \in i .. Len(text) /\ (k = Len(text) \/ text[k + 1] = NL)
        /\ \A q \in i .. k : text[q] # NL
        /\ (j = Len(text) \/ text[j + 1] = NL) /\ \A q \in i .. j : text[q] # NL
    BY <1>2 DEF IsEnd
  <2>2. ASSUME k < j PROVE FALSE
    <3> DEFINE q == k + 1
    <3>1. q \in i .. j /\ k # Len(text)
      BY <1>1, <2>1, <2>2
    <3> HIDE DEF q
    <3>2. text[q] = NL
      BY <2>1, <3>1 DEF q
    <3> QED BY <2>1, <3>1, <3>2
  <2>3. ASSUME j < k PROVE FALSE
    <3> DEFINE q == j + 1
    <3>1. q \in i .. k /\ j # Len(text)
      BY <1>1, <2>1, <2>3
    <3> HIDE DEF q
    <3>2. text[q] = NL
      BY <2>1, <3>1 DEF q
    <3> QED BY <2>1, <3>1, <3>2
  <2> QED BY <1>1, <2>1, <2>2, <2>3
<1>3. EndOf(text, i) = CHOOSE k : Is(k)
  BY DEF EndOf
<1>4. Is(j)
  OBVIOUS
<1> HIDE DEF Is
<1> QED BY <1>2, <1>3, <1>4

LEMMA LaidStarts ==
  ASSUME NEW text \in Seq(Symbol), NEW n \in Nat, NEW ends, Laid(text, n, ends)
  PROVE  /\ \A m \in 0 .. n, k \in 1 .. n : m = k - 1 => ends[m] + 1 \in Starts(text)
         /\ \A i \in Starts(text) : \E m \in 0 .. n, k \in 1 .. n :
              m = k - 1 /\ i = ends[m] + 1
<1>1. /\ ends \in [0 .. n -> Nat] /\ ends[0] = 0 /\ Len(text) \in Nat
      /\ DOMAIN text = 1 .. Len(text)
      /\ \A m \in 0 .. n, k \in 1 .. n : m = k - 1 =>
           /\ ends[m] + 2 <= ends[k] /\ text[ends[k]] = NL
           /\ \A i \in ends[m] + 1 .. ends[k] - 1 : text[i] # NL
           /\ \E i \in ends[m] + 1 .. ends[k] - 1 : text[i] \notin Blank
  BY LenProperties DEF Laid
<1>2. \A k \in 0 .. n : ends[k] \in 0 .. Len(text)
  BY LaidOrder
<1>3. ASSUME NEW m \in 0 .. n, NEW k \in 1 .. n, m = k - 1
      PROVE  ends[m] + 1 \in Starts(text)
  <2> DEFINE i == ends[m] + 1
  <2>1. /\ ends[m] \in Nat /\ ends[k] \in 0 .. Len(text) /\ ends[m] + 2 <= ends[k]
        /\ \A j \in ends[m] + 1 .. ends[k] - 1 : text[j] # NL
    BY <1>1, <1>2, <1>3
  <2>2. i \in ends[m] + 1 .. ends[k] - 1 /\ i \in 1 .. Len(text) /\ i - 1 = ends[m]
    <3> DEFINE a == ends[m]  b == ends[k]  len == Len(text)
    <3>1. a \in Nat /\ b \in 0 .. len /\ a + 2 <= b /\ len \in Nat
      BY <1>1, <2>1
    <3> HIDE DEF a, b, len
    <3>2. a + 1 \in a + 1 .. b - 1 /\ a + 1 \in 1 .. len /\ (a + 1) - 1 = a
      BY ONLY <3>1
    <3> QED BY <3>2 DEF a, b, len
  <2>3. IsSolid(text, i)
    <3>1. PICK h \in ends[m] + 1 .. ends[k] - 1 : text[h] \notin Blank
      BY <1>1, <1>3
    <3>2. /\ h \in i .. Len(text)
          /\ \A j \in i .. h : j \in ends[m] + 1 .. ends[k] - 1
      BY SMTT(30), <1>1, <2>1
    <3> QED BY <2>1, <3>1, <3>2 DEF IsSolid
  <2>4. i = 1 \/ text[i - 1] = NL
    <3>1. CASE m = 0
      BY <1>1, <3>1
    <3>2. CASE m # 0
      <4> DEFINE l == m - 1
      <4>1. l \in 0 .. n /\ m \in 1 .. n /\ l = m - 1
        BY <1>3, <3>2
      <4> HIDE DEF l
      <4>2. text[ends[m]] = NL
        BY <1>1, <4>1
      <4> QED BY <2>2, <4>2
    <3> QED BY <3>1, <3>2
  <2> HIDE DEF i
  <2>5. i \in Starts(text)
    BY <1>1, <2>2, <2>3, <2>4 DEF Starts
  <2> QED BY <2>5 DEF i
<1>4. ASSUME NEW i \in Starts(text)
      PROVE  \E m \in 0 .. n, k \in 1 .. n : m = k - 1 /\ i = ends[m] + 1
  <2>1. i \in 1 .. Len(text) /\ text[i] # NL /\ (i = 1 \/ text[i - 1] = NL)
    BY StartIs
  <2>2. PICK m \in 0 .. n, k \in 1 .. n : m = k - 1 /\ i \in ends[m] + 1 .. ends[k]
    BY <2>1, LaidOrder
  <2>3. /\ ends[m] \in Nat /\ ends[k] \in Nat /\ text[ends[k]] = NL
        /\ \A j \in ends[m] + 1 .. ends[k] - 1 : text[j] # NL
    BY <1>1, <2>2
  <2>4. i \in ends[m] + 1 .. ends[k] - 1
    BY <2>1, <2>2, <2>3
  <2>5. ASSUME i # ends[m] + 1 PROVE FALSE
    <3> DEFINE j == i - 1
    <3>1. j \in ends[m] + 1 .. ends[k] - 1 /\ i # 1
      BY SMTT(30), <2>3, <2>4, <2>5
    <3> HIDE DEF j
    <3>2. text[j] # NL
      BY <2>3, <3>1
    <3> QED BY <2>1, <3>1, <3>2 DEF j
  <2> QED BY <2>2, <2>5
<1> QED BY <1>3, <1>4
(* The n-th of the lines starts behind the end of the one before it ...    *)

(* The n-th of the lines starts behind the end of the one before it ...    *)
LEMMA LaidCount ==
  ASSUME NEW text \in Seq(Symbol), NEW n \in Nat, NEW ends, Laid(text, n, ends),
         NEW m \in 0 .. n, NEW k \in 1 .. n, m = k - 1
  PROVE  Cardinality({j \in Starts(text) : j <= ends[m] + 1}) = k
<1> DEFINE S == {j \in Starts(text) : j <= ends[m] + 1}
           f == [l \in 1 .. k |-> ends[l - 1] + 1]
<1>1. /\ ends \in [0 .. n -> Nat]
      /\ \A l, h \in 0 .. n : l < h => ends[l] < ends[h]
  BY LaidOrder DEF Laid
<1>2. ASSUME NEW l \in 1 .. k PROVE f[l] \in S
  <2> DEFINE h == l - 1
  <2>1. h \in 0 .. n /\ l \in 1 .. n /\ h = l - 1 /\ (h < m \/ h = m)
    OBVIOUS
  <2>2. f[l] = ends[h] + 1
    OBVIOUS
  <2> HIDE DEF h, f
  <2>3. ends[h] <= ends[m] /\ ends[h] \in Nat /\ ends[m] \in Nat
    BY <1>1, <2>1
  <2>4. ends[h] + 1 \in Starts(text)
    BY <2>1, LaidStarts
  <2> QED BY <2>2, <2>3, <2>4
<1>3. ASSUME NEW l \in 1 .. k, NEW h \in 1 .. k, f[l] = f[h] PROVE l = h
  <2> DEFINE x == l - 1  y == h - 1
  <2>1. x \in 0 .. n /\ y \in 0 .. n /\ f[l] = ends[x] + 1 /\ f[h] = ends[y] + 1
        /\ (x < y \/ y < x \/ x = y)
    OBVIOUS
  <2>2. x = y => l = h
    OBVIOUS
  <2> HIDE DEF x, y, f
  <2>3. ends[x] \in Nat /\ ends[y] \in Nat
    BY <1>1, <2>1
  <2>4. ends[x] + 1 = ends[y] + 1
    BY <1>3, <2>1
  <2>5. ends[x] = ends[y]
    BY <2>3, <2>4
  <2>6. ~(ends[x] < ends[y]) /\ ~(ends[y] < ends[x])
    BY <2>3, <2>5
  <2> QED BY <1>1, <2>1, <2>2, <2>6
<1>4. ASSUME NEW i \in S PROVE \E l \in 1 .. k : f[l] = i
  <2>1. PICK h \in 0 .. n, l \in 1 .. n : h = l - 1 /\ i = ends[h] + 1
    BY LaidStarts
  <2>2. ends[h] \in Nat /\ ends[m] \in Nat /\ ends[h] <= ends[m]
    BY <1>1, <2>1
  <2>3. ~(m < h)
    BY <1>1, <2>2
  <2>4. l \in 1 .. k
    BY <2>1, <2>3
  <2> QED BY <2>1, <2>4
<1>5. ExistsBijection(1 .. k, S)
  <2>1. f \in [1 .. k -> S]
    <3>1. f = [l \in 1 .. k |-> f[l]]
      OBVIOUS
    <3> HIDE DEF f, S
    <3> QED BY <1>2, <3>1
  <2> HIDE DEF f, S
  <2>2. f \in Bijection(1 .. k, S)
    BY <1>3, <1>4, <2>1 DEF Bijection, Injection, Surjection, IsInjective
  <2> QED BY <2>2 DEF ExistsBijection
<1>6. IsFiniteSet(1 .. k) /\ Cardinality(1 .. k) = k
  BY FS_Interval
<1> HIDE DEF S
<1>7. Cardinality(S) = k
  BY <1>5, <1>6, FS_Bijection
<1> QED BY <1>7 DEF S

(* ... and they are the lines that parse_properties finds.                 *)
LEMMA LaidLines ==
  ASSUME NEW text \in Seq(Symbol), NEW n \in Nat, NEW ends, Laid(text, n, ends)
  PROVE  /\ DOMAIN Lines(text) = 1 .. n
         /\ \A m \in 0 .. n, k \in 1 .. n : m = k - 1 =>
              Lines(text)[k] = strtrim(SubSeq(text, ends[m] + 1, ends[k] - 1))
<1>1. /\ ends \in [0 .. n -> Nat] /\ Len(text) \in Nat
      /\ \A m \in 0 .. n, k \in 1 .. n : m = k - 1 =>
           /\ ends[m] + 2 <= ends[k] /\ text[ends[k]] = NL
           /\ \A i \in ends[m] + 1 .. ends[k] - 1 : text[i] # NL
  BY LenProperties DEF Laid
<1>2. \A k \in 0 .. n : ends[k] \in 0 .. Len(text)
  BY LaidOrder
<1>3. Cardinality(Starts(text)) = n
  <2>1. CASE n = 0
    <3>1. Starts(text) = {}
      BY <2>1, LaidStarts
    <3> QED BY <2>1, <3>1, FS_EmptySet
  <2>2. CASE n # 0
    <3> DEFINE m == n - 1
    <3>1. m \in 0 .. n /\ n \in 1 .. n /\ m = n - 1 /\ n \in 0 .. n
      BY <2>2
    <3> HIDE DEF m
    <3>2. ASSUME NEW i \in Starts(text) PROVE i <= ends[m] + 1
      <4>1. PICK h \in 0 .. n, l \in 1 .. n : h = l - 1 /\ i = ends[h] + 1
        BY LaidStarts
      <4>2. h < m \/ h = m
        BY <3>1, <4>1
      <4>3. ends[h] \in Nat /\ ends[m] \in Nat /\ (h < m => ends[h] < ends[m])
        BY <1>1, <3>1, LaidOrder
      <4> QED BY <4>1, <4>2, <4>3
    <3>3. {i \in Starts(text) : i <= ends[m] + 1} = Starts(text)
      BY <3>2
    <3>4. Cardinality({i \in Starts(text) : i <= ends[m] + 1}) = n
      BY <3>1, LaidCount
    <3> QED BY <3>3, <3>4
  <2> QED BY <2>1, <2>2
<1>4. ASSUME NEW m \in 0 .. n, NEW k \in 1 .. n, m = k - 1
      PROVE  StartOf(text, k) = ends[m] + 1
  <2> DEFINE Is(i) == i \in Starts(text) /\ Cardinality({j \in Starts(text) : j <= i}) = k
             a == ends[m] + 1
  <2>1. Is(a)
    BY <1>4, LaidStarts, LaidCount
  <2>2. ASSUME NEW i, Is(i) PROVE i = a
    <3>1. PICK h \in 0 .. n, l \in 1 .. n : h = l - 1 /\ i = ends[h] + 1
      BY <2>2, LaidStarts
    <3>2. Cardinality({j \in Starts(text) : j <= ends[h] + 1}) = l
      BY <3>1, LaidCount
    <3>3. l = k
      BY <2>2, <3>1, <3>2
    <3>4. h = m
      BY <1>4, <3>1, <3>3
    <3> QED BY <3>1, <3>4
  <2>3. StartOf(text, k) = CHOOSE i : Is(i)
    BY DEF StartOf
  <2> HIDE DEF Is, a
  <2>4. StartOf(text, k) = a
    BY <2>1, <2>2, <2>3
  <2> QED BY <2>4 DEF a
<1>5. ASSUME NEW m \in 0 .. n, NEW k \in 1 .. n, m = k - 1
      PROVE  EndOf(text, ends[m] + 1) = ends[k] - 1
  <2> DEFINE a == ends[m] + 1
             b == ends[k] - 1
  <2>1. /\ a \in Nat /\ ends[k] \in Nat /\ ends[k] <= Len(text) /\ b \in a .. Len(text)
        /\ b + 1 = ends[k] /\ text[ends[k]] = NL /\ \A i \in a .. b : text[i] # NL
    <3>1. k \in 0 .. n
      OBVIOUS
    <3>2. ends[m] \in Nat /\ ends[k] \in Nat /\ ends[k] <= Len(text)
      BY <1>1, <1>2, <3>1
    <3>3. ends[m] + 2 <= ends[k] /\ text[ends[k]] = NL /\ \A i \in a .. b : text[i] # NL
      BY <1>1, <1>5
    <3> QED BY SMTT(30), <1>1, <3>2, <3>3
  <2>2. a \in 1 .. Len(text) /\ IsEnd(text, a, b)
    <3>1. IsEnd(text, a, b)
      BY <2>1 DEF IsEnd
    <3>2. a \in Nat \ {0}
      BY <1>1, <1>2
    <3> QED BY <1>1, <2>1, <3>1, <3>2
  <2> HIDE DEF a, b
  <2>5. EndOf(text, a) = b
    BY <2>1, <2>2, EndIs
  <2> QED BY <2>5 DEF a, b
<1>6. DOMAIN Lines(text) = 1 .. n
  BY <1>3, LinesNamed
<1>7. ASSUME NEW m \in 0 .. n, NEW k \in 1 .. n, m = k - 1
      PROVE  Lines(text)[k] = strtrim(SubSeq(text, ends[m] + 1, ends[k] - 1))
  <2>1. Lines(text)[k] =
          strtrim(SubSeq(text, StartOf(text, k), EndOf(text, StartOf(text, k))))
    BY <1>3, LinesNamed
  <2>2. StartOf(text, k) = ends[m] + 1 /\ EndOf(text, ends[m] + 1) = ends[k] - 1
    BY <1>4, <1>5, <1>7
  <2> QED BY <2>1, <2>2
<1> QED BY <1>6, <1>7

(* One entry: its line, in a text that holds all of it.                    *)
Fits(e) ==
  /\ \A j \in DOMAIN e.key : e.key[j] \notin {SEP, NL, NUL}
  /\ \A j \in DOMAIN e.value : e.value[j] \notin {NL, NUL}
  /\ Len(e.key) + 1 + Len(e.value) < LineMax

\* Fields of one line.
LEMMA FieldsLine ==
  ASSUME NEW e \in Pair,
         \A j \in DOMAIN e.key : e.key[j] \notin {NL, NUL},
         \A j \in DOMAIN e.value : e.value[j] \notin {NL, NUL}
  PROVE  /\ Len(Fields(e)) \in Nat \ {0}
         /\ \A i \in 1 .. Len(Fields(e)) : Fields(e)[i] \notin {NL, NUL}
<1> DEFINE z == Fields(e)  n == Len(e.key)  m == Len(e.value)
<1>1. /\ z \in Seq(Symbol) /\ n \in Nat /\ m \in Nat /\ Len(z) = n + 1 + m
      /\ \A i \in 1 .. n : z[i] = e.key[i]
      /\ z[n + 1] = SEP
      /\ \A i \in 1 .. m : z[n + 1 + i] = e.value[i]
  BY FieldsAre
<1>2. DOMAIN e.key = 1 .. n /\ DOMAIN e.value = 1 .. m
  BY LenProperties DEF Pair
<1> HIDE DEF z, n, m
<1>3. SEP \notin {NL, NUL}
  BY TextAssumption
<1>4. ASSUME NEW i \in 1 .. Len(z) PROVE z[i] \notin {NL, NUL}
  <2>1. CASE i <= n
    BY <1>1, <1>2, <2>1
  <2>2. CASE i = n + 1
    BY <1>1, <1>3, <2>2
  <2>3. CASE n + 1 < i
    <3> DEFINE j == i - (n + 1)
    <3>1. j \in 1 .. m /\ n + 1 + j = i
      BY <1>1, <2>3
    <3> HIDE DEF j
    <3> QED BY <1>1, <1>2, <3>1
  <2> QED BY <1>1, <2>1, <2>2, <2>3
<1> QED BY <1>1, <1>4 DEF z

LEMMA FitLine ==
  ASSUME NEW e \in Pair, Fits(e)
  PROVE  LET line == Line(e)  z == Fields(e) IN
         /\ line \in Seq(Symbol) /\ Len(z) \in Nat \ {0} /\ Len(line) = Len(z) + 1
         /\ line[Len(line)] = NL
         /\ \A i \in 1 .. Len(z) : line[i] = z[i] /\ line[i] \notin {NL, NUL}
         /\ \E i \in 1 .. Len(z) : line[i] \notin Blank
<1> DEFINE z == Fields(e)  line == Line(e)  n == Len(e.key)  m == Len(e.value)
<1>1. Len(z) \in Nat \ {0} /\ \A i \in 1 .. Len(z) : z[i] \notin {NL, NUL}
  BY FieldsLine DEF Fits
<1>2. n \in Nat /\ m \in Nat /\ Len(z) = n + 1 + m /\ z[n + 1] = SEP
  BY FieldsAre
<1>3. /\ line \in Seq(Symbol) /\ Len(line) \in Nat
      /\ \A i \in 1 .. Len(line) : line[i] = IF i <= Len(z) THEN z[i] ELSE NL
      /\ Len(z) < LineMax => Len(line) = Len(z) + 1
  BY LineIs
<1>4. n + 1 + m < LineMax
  BY DEF Fits
<1> HIDE DEF z, line, n, m
<1>5. Len(line) = Len(z) + 1
  BY <1>2, <1>3, <1>4
<1>6. SEP \notin Blank
  BY TextAssumption
<1>7. line[Len(line)] = NL
  <2>1. Len(line) \in 1 .. Len(line) /\ ~(Len(line) <= Len(z))
    BY <1>1, <1>5
  <2> QED BY <1>3, <2>1
<1>8. \A i \in 1 .. Len(z) : line[i] = z[i] /\ line[i] \notin {NL, NUL}
  BY <1>1, <1>3, <1>5
<1>9. n + 1 \in 1 .. Len(z) /\ line[n + 1] \notin Blank
  <2>1. n + 1 \in 1 .. Len(z)
    BY <1>2
  <2> QED BY <1>2, <1>6, <1>8, <2>1
<1> QED BY <1>1, <1>3, <1>5, <1>7, <1>8, <1>9 DEF z, line

LEMMA FitFields ==
  ASSUME NEW e \in Pair, Fits(e),
         NEW text \in Seq(Symbol), NEW a \in Nat, NEW b \in Nat,
         HoldsAt(text, a, Line(e)), b = a + Len(Line(e))
  PROVE  SubSeq(text, a + 1, b - 1) = Fields(e)
<1> DEFINE z == Fields(e)  l == Len(z)  line == Line(e)
<1>1. /\ l \in Nat \ {0} /\ Len(line) = l + 1 /\ \A i \in 1 .. l : line[i] = z[i]
  BY FitLine
<1>2. z \in Seq(Symbol) /\ Len(text) \in Nat
  BY FieldsAre, LenProperties
<1>3. a + Len(line) <= Len(text) /\ \A i \in 1 .. Len(line) : text[a + i] = line[i]
  BY DEF HoldsAt
<1> DEFINE c == a + 1  d == b - 1
<1>4. /\ c \in Nat \ {0} /\ d \in Nat /\ c <= d + 1 /\ d <= Len(text) /\ d - c + 1 = l
      /\ \A i \in 1 .. l : c + i - 1 = a + i /\ i \in 1 .. Len(line)
  BY <1>1, <1>2, <1>3
<1> HIDE DEF z, line, c, d
<1>5. /\ SubSeq(text, c, d) \in Seq(Symbol) /\ Len(SubSeq(text, c, d)) = d - c + 1
      /\ \A i \in 1 .. d - c + 1 : SubSeq(text, c, d)[i] = text[c + i - 1]
  BY <1>4, Part
<1>6. Len(SubSeq(text, c, d)) = l /\ \A i \in 1 .. l : SubSeq(text, c, d)[i] = z[i]
  BY <1>1, <1>3, <1>4, <1>5
<1> HIDE DEF l
<1>7. SubSeq(text, c, d) = z
  BY <1>2, <1>5, <1>6, SeqEqual DEF l
<1> QED BY <1>7 DEF c, d, z

LEMMA Rests ==
  ASSUME NEW g \in Group
  PROVE  /\ Len(g) \in Nat /\ From(g, 1) = g /\ From(g, Len(g) + 1) = <<>>
         /\ \A k \in 1 .. Len(g) + 1 : From(g, k) \in Group
         /\ \A k, l \in 1 .. Len(g) + 1 : l = k + 1 =>
              /\ From(g, k) # <<>> /\ Head(From(g, k)) = g[k]
              /\ Tail(From(g, k)) = From(g, l)
<1> DEFINE E == [key : Seq(Symbol), value : Seq(Symbol)]
<1>1. g \in Seq(E) /\ Len(g) \in Nat /\ \A i \in 1 .. Len(g) : g[i] \in E
  BY LenProperties, ElementOfSeq DEF Group
<1> HIDE DEF E
<1>2. ASSUME NEW k \in 1 .. Len(g) + 1 PROVE From(g, k) \in Seq(E)
  <2>1. k \in Int /\ Len(g) \in Int /\ \A i \in k .. Len(g) : g[i] \in E
    BY <1>1
  <2> QED BY <2>1, SubSeqProperties DEF From
<1>3. From(g, 1) = g /\ From(g, Len(g) + 1) = <<>>
  <2>1. Len(g) + 1 \in Int /\ Len(g) \in Int /\ Len(g) < Len(g) + 1
    BY <1>1
  <2> QED BY <1>1, <2>1, SubSeqFull, SubSeqEmpty DEF From
<1>4. ASSUME NEW k \in 1 .. Len(g) + 1, NEW l \in 1 .. Len(g) + 1, l = k + 1
      PROVE  /\ From(g, k) # <<>> /\ Head(From(g, k)) = g[k]
             /\ Tail(From(g, k)) = From(g, l)
  <2>1. k \in 1 .. Len(g) /\ Len(g) \in k .. Len(g)
    BY <1>1, <1>4
  <2>2. Head(From(g, k)) = g[k] /\ Tail(From(g, k)) = From(g, l)
    BY <1>1, <1>4, <2>1, HeadTailOfSubSeq DEF From
  <2>3. From(g, k) # <<>>
    <3>1. k \in Int /\ Len(g) \in Int /\ \A i \in k .. Len(g) : g[i] \in E
      BY <1>1, <2>1
    <3>2. Len(From(g, k)) = IF k <= Len(g) THEN Len(g) - k + 1 ELSE 0
      BY <3>1, SubSeqProperties DEF From
    <3>3. Len(From(g, k)) # 0
      BY <1>1, <2>1, <3>2
    <3> QED BY <3>3, EmptySeq
  <2> QED BY <2>2, <2>3
<1> QED BY <1>1, <1>2, <1>3, <1>4 DEF Group, E

(* The text of a storable group is laid out in the lines of its entries.   *)
Ends(g) ==
  [k \in 0 .. Len(g) |-> Len(Text(g)) - Len(Text(From(g, k + 1)))]

LEMMA TextLaid ==
  ASSUME NEW g \in Group, \A i \in 1 .. Len(g) : Fits(g[i])
  PROVE  /\ Laid(Text(g), Len(g), Ends(g))
         /\ \A m \in 0 .. Len(g), k \in 1 .. Len(g) : m = k - 1 =>
              /\ HoldsAt(Text(g), Ends(g)[m], Line(g[k]))
              /\ Ends(g)[k] = Ends(g)[m] + Len(Line(g[k]))
<1> DEFINE text == Text(g)
           n == Len(g)
           ends == Ends(g)
           rest(k) == Text(From(g, k + 1))
<1>1. /\ text \in Seq(Symbol) /\ Len(text) \in Nat /\ n \in Nat
      /\ rest(0) = text /\ rest(n) = <<>> /\ Len(<<>>) = 0
      /\ DOMAIN ends = 0 .. n
      /\ \A k \in 0 .. n : /\ rest(k) \in Seq(Symbol) /\ Len(rest(k)) \in Nat
                           /\ ends[k] = Len(text) - Len(rest(k))
  <2>1. text \in Seq(Symbol) /\ Len(text) \in Nat /\ n \in Nat
    BY TextHead, Rests
  <2>2. rest(0) = text
    BY Rests
  <2>3. rest(n) = <<>> /\ Len(<<>>) = 0
    <3>1. <<>> \in Group
      BY EmptySeq DEF Group
    <3> QED BY <3>1, Rests, TextHead
  <2>4. ASSUME NEW k \in 0 .. n PROVE rest(k) \in Seq(Symbol) /\ Len(rest(k)) \in Nat
    <3>1. k + 1 \in 1 .. n + 1
      BY <2>1
    <3>2. From(g, k + 1) \in Group
      BY <3>1, Rests
    <3> QED BY <3>2, TextHead
  <2>5. DOMAIN ends = 0 .. n /\ \A k \in 0 .. n : ends[k] = Len(text) - Len(rest(k))
    BY DEF Ends
  <2> QED BY <2>1, <2>2, <2>3, <2>4, <2>5
<1>2. ASSUME NEW m \in 0 .. n, NEW k \in 1 .. n, m = k - 1
      PROVE  rest(m) = Line(g[k]) \o rest(k)
  <2> DEFINE l == k + 1  this == From(g, k)  others == From(g, l)
  <2>1. /\ k \in 1 .. n + 1 /\ l \in 1 .. n + 1 /\ l = k + 1 /\ m + 1 = k
    BY <1>1, <1>2
  <2>2. rest(m) = Text(this) /\ rest(k) = Text(others)
    BY <2>1
  <2> HIDE DEF l
  <2>3. this \in Group /\ this # <<>> /\ Head(this) = g[k] /\ Tail(this) = others
    BY <2>1, Rests
  <2> HIDE DEF this, others
  <2>4. Text(this) = Line(Head(this)) \o Text(Tail(this))
    BY <2>3, TextHead
  <2> QED BY <2>2, <2>3, <2>4
<1>3. ASSUME NEW k \in 1 .. n
      PROVE  /\ g[k] \in [key : Seq(Symbol), value : Seq(Symbol)] /\ Fits(g[k])
             /\ Line(g[k]) \in Seq(Symbol) /\ Len(Line(g[k])) \in Nat
             /\ Len(Line(g[k])) >= 2 /\ Line(g[k])[Len(Line(g[k]))] = NL
             /\ \A i \in 1 .. Len(Line(g[k])) - 1 : Line(g[k])[i] \notin {NL, NUL}
             /\ \E i \in 1 .. Len(Line(g[k])) - 1 : Line(g[k])[i] \notin Blank
  <2>1. g[k] \in [key : Seq(Symbol), value : Seq(Symbol)] /\ Fits(g[k])
    BY ElementOfSeq DEF Group
  <2> DEFINE line == Line(g[k])  l == Len(Fields(g[k]))
  <2>2. /\ line \in Seq(Symbol) /\ l \in Nat \ {0} /\ Len(line) = l + 1
        /\ line[Len(line)] = NL
        /\ \A i \in 1 .. l : line[i] \notin {NL, NUL}
        /\ \E i \in 1 .. l : line[i] \notin Blank
    BY <2>1, FitLine DEF Pair
  <2> HIDE DEF line, l
  <2>3. Len(line) \in Nat /\ Len(line) >= 2 /\ Len(line) - 1 = l
    BY <2>2
  <2> QED BY <2>1, <2>2, <2>3 DEF line
<1> HIDE DEF text, n, ends, rest
<1>4. ASSUME NEW m \in 0 .. n, NEW k \in 1 .. n, m = k - 1
      PROVE  k \in 0 .. n /\ ends[k] = ends[m] + Len(Line(g[k])) /\ ends[m] \in Int
  <2>1. k \in 0 .. n
    BY <1>1
  <2> DEFINE line == Line(g[k])  others == rest(k)
  <2>2. /\ line \in Seq(Symbol) /\ others \in Seq(Symbol) /\ rest(m) = line \o others
        /\ Len(line) \in Nat /\ Len(others) \in Nat /\ Len(text) \in Nat
        /\ ends[m] = Len(text) - Len(rest(m)) /\ ends[k] = Len(text) - Len(others)
    BY <1>1, <1>2, <1>3, <1>4, <2>1
  <2> HIDE DEF line, others
  <2>3. Len(rest(m)) = Len(line) + Len(others)
    BY <2>2, ConcatProperties
  <2>4. ends[k] = ends[m] + Len(line) /\ ends[m] \in Int
    BY <2>2, <2>3
  <2> QED BY <2>1, <2>4 DEF line
<1> DEFINE Holds(k) == ends[k] \in Nat /\ HoldsAt(text, ends[k], rest(k))
           N == {k \in Nat : k <= n => Holds(k)}
<1>5. Nat \subseteq N
  <2>1. 0 \in N
    <3>1. ends[0] = 0 /\ HoldsAt(text, 0, text)
      BY <1>1 DEF HoldsAt
    <3> QED BY <1>1, <3>1
  <2>2. ASSUME NEW m \in Nat, m \in N PROVE m + 1 \in N
    <3> DEFINE k == m + 1
    <3>1. SUFFICES ASSUME k <= n PROVE Holds(k)
      OBVIOUS
    <3>2. m \in 0 .. n /\ k \in 1 .. n /\ m = k - 1 /\ Holds(m)
      BY <1>1, <2>2, <3>1
    <3> HIDE DEF k
    <3>3. /\ rest(m) = Line(g[k]) \o rest(k) /\ k \in 0 .. n
          /\ ends[k] = ends[m] + Len(Line(g[k]))
      BY <1>2, <1>4, <3>2
    <3>4. HoldsAt(text, ends[m] + Len(Line(g[k])), rest(k))
      <4> DEFINE line == Line(g[k])  others == rest(k)  at == ends[m]
      <4>1. /\ line \in Seq(Symbol) /\ others \in Seq(Symbol) /\ at \in Nat
            /\ text \in Seq(Symbol) /\ HoldsAt(text, at, line \o others)
        BY <1>1, <1>3, <3>2, <3>3
      <4> HIDE DEF line, others, at
      <4>2. HoldsAt(text, at + Len(line), others)
        BY <4>1, HoldsConcat
      <4> QED BY <4>2 DEF line, others, at
    <3> QED BY <1>3, <3>2, <3>3, <3>4
  <2> HIDE DEF N
  <2> QED BY <2>1, <2>2, SetInduction
<1>6. \A k \in 0 .. n : Holds(k)
  BY <1>5
<1>7. ASSUME NEW m \in 0 .. n, NEW k \in 1 .. n, m = k - 1
      PROVE  /\ HoldsAt(text, ends[m], Line(g[k]))
             /\ ends[k] = ends[m] + Len(Line(g[k])) /\ ends[m] + 2 <= ends[k]
             /\ text[ends[k]] = NL
             /\ \A i \in ends[m] + 1 .. ends[k] - 1 : text[i] # NL /\ text[i] # NUL
             /\ \E i \in ends[m] + 1 .. ends[k] - 1 : text[i] \notin Blank
  <2> DEFINE line == Line(g[k])
  <2>1. /\ k \in 0 .. n /\ ends[k] = ends[m] + Len(line) /\ ends[m] \in Nat
        /\ rest(m) = line \o rest(k) /\ HoldsAt(text, ends[m], rest(m))
    BY <1>2, <1>4, <1>6, <1>7
  <2>2. /\ line \in Seq(Symbol) /\ Len(line) \in Nat /\ Len(line) >= 2
        /\ line[Len(line)] = NL /\ \A i \in 1 .. Len(line) - 1 : line[i] \notin {NL, NUL}
        /\ \E i \in 1 .. Len(line) - 1 : line[i] \notin Blank
    BY <1>3
  <2> HIDE DEF line
  <2>3. HoldsAt(text, ends[m], line)
    BY SMTT(30), <1>1, <2>1, <2>2, HoldsConcat
  <2>4. text[ends[k]] = NL
    <3>1. Len(line) \in 1 .. Len(line)
      BY <2>2
    <3> QED BY <2>1, <2>2, <2>3, <3>1 DEF HoldsAt
  <2>5. ASSUME NEW i \in ends[m] + 1 .. ends[k] - 1 PROVE text[i] # NL /\ text[i] # NUL
    <3> DEFINE j == i - ends[m]
    <3>1. j \in 1 .. Len(line) - 1 /\ j \in 1 .. Len(line) /\ ends[m] + j = i
      BY SMTT(30), <2>1, <2>2
    <3> HIDE DEF j
    <3>2. text[ends[m] + j] = line[j]
      BY <2>3, <3>1 DEF HoldsAt
    <3> QED BY <2>2, <3>1, <3>2
  <2>6. \E i \in ends[m] + 1 .. ends[k] - 1 : text[i] \notin Blank
    <3>1. PICK j \in 1 .. Len(line) - 1 : line[j] \notin Blank
      BY <2>2
    <3> DEFINE i == ends[m] + j
    <3>2. i \in ends[m] + 1 .. ends[k] - 1 /\ j \in 1 .. Len(line)
      BY SMTT(30), <2>1, <2>2
    <3>3. text[i] = line[j]
      BY <2>3, <3>2 DEF HoldsAt
    <3> HIDE DEF i
    <3> QED BY <3>1, <3>2, <3>3
  <2> QED BY SMTT(30), <2>1, <2>2, <2>3, <2>4, <2>5, <2>6 DEF line
<1>8. Laid(text, n, ends)
  <2>1. ends \in [0 .. n -> Nat]
    <3>1. ends = [k \in 0 .. n |-> ends[k]]
      BY <1>1 DEF ends, Ends, n
    <3> QED BY <1>6, <3>1
  <2>2. ends[0] = 0 /\ ends[n] = Len(text)
    <3>1. 0 \in 0 .. n /\ n \in 0 .. n
      BY <1>1
    <3> QED BY <1>1, <3>1
  <2> QED BY <1>7, <2>1, <2>2 DEF Laid
<1> QED BY <1>7, <1>8 DEF text, n, ends

(* What save_properties writes, parse_properties reads back, entry by      *)
(* entry, but for the blanks around keys and values.  It is so for every   *)
(* group that a text can represent.                                        *)
THEOREM RoundTrip ==
  ASSUME NEW g \in Group, Storable(g)
  PROVE  parse_properties(Text(g)) = [err |-> "ok", group |-> Trimmed(g)]
<1> DEFINE text == Text(g)
           n == Len(g)
           ends == Ends(g)
<1>1. /\ text \in Seq(Symbol) /\ Len(text) \in Nat /\ n \in Nat /\ DOMAIN g = 1 .. n
      /\ \A i \in 1 .. n : /\ Fits(g[i])
                           /\ g[i] \in [key : Seq(Symbol), value : Seq(Symbol)]
  <2>1. n \in Nat /\ DOMAIN g = 1 .. n
        /\ \A i \in 1 .. n : g[i] \in [key : Seq(Symbol), value : Seq(Symbol)]
    BY LenProperties, ElementOfSeq DEF Group
  <2>2. \A i \in 1 .. n : Fits(g[i])
    BY <2>1 DEF Storable, Fits
  <2> QED BY <2>1, <2>2, TextHead
<1>2. /\ Laid(text, n, ends)
      /\ \A m \in 0 .. n, k \in 1 .. n : m = k - 1 =>
              /\ HoldsAt(text, ends[m], Line(g[k]))
              /\ ends[k] = ends[m] + Len(Line(g[k]))
  BY <1>1, TextLaid
<1> HIDE DEF text, n, ends
<1>3. ASSUME NEW i \in 1 .. Len(text) PROVE text[i] # NUL
  <2>1. PICK m \in 0 .. n, k \in 1 .. n : m = k - 1 /\ i \in ends[m] + 1 .. ends[k]
    BY <1>1, <1>2, LaidOrder
  <2> DEFINE line == Line(g[k])
  <2>2. /\ HoldsAt(text, ends[m], line) /\ ends[k] = ends[m] + Len(line)
        /\ ends[m] \in Nat
    BY <1>2, <2>1 DEF Laid
  <2> DEFINE l == Len(Fields(g[k]))
  <2>6. g[k] \in Pair /\ Fits(g[k])
    BY <1>1 DEF Pair
  <2>3. /\ l \in Nat \ {0} /\ Len(line) = l + 1 /\ line[Len(line)] = NL
        /\ \A j \in 1 .. l : line[j] \notin {NL, NUL}
    BY <2>6, FitLine
  <2> HIDE DEF l
  <2> HIDE DEF line
  <2> DEFINE j == i - ends[m]
  <2>4. j \in 1 .. Len(line) /\ ends[m] + j = i /\ (j = Len(line) \/ j \in 1 .. l)
    <3> DEFINE b == ends[m]  q == Len(line)
    <3>1. q = l + 1 /\ l \in Nat /\ b \in Nat /\ i \in b + 1 .. b + q
      BY <2>1, <2>2, <2>3
    <3> HIDE DEF b, q
    <3>2. i - b \in 1 .. q /\ b + (i - b) = i /\ (i - b = q \/ i - b \in 1 .. l)
      BY ONLY <3>1
    <3> QED BY <3>2 DEF b, q
  <2> HIDE DEF j
  <2>5. text[i] = line[j]
    BY <2>2, <2>4 DEF HoldsAt
  <2> QED BY <2>3, <2>4, <2>5, TextAssumption
<1>4. CString(text) = text
  <2> DEFINE I == {i \in 1 .. Len(text) : text[i] = NUL}
  <2>1. I = {}
    BY <1>3
  <2>2. SelectInSeq(text, LAMBDA s : s = NUL) = IF I # {} THEN Min(I) ELSE 0
    BY DEF SelectInSeq
  <2> HIDE DEF I
  <2>3. SelectInSeq(text, LAMBDA s : s = NUL) = 0
    BY <2>1, <2>2
  <2> QED BY <2>3 DEF CString
<1> DEFINE lines == Lines(text)
<1>5. DOMAIN lines = 1 .. n /\ \A m \in 0 .. n, k \in 1 .. n : m = k - 1 =>
        lines[k] = strtrim(SubSeq(text, ends[m] + 1, ends[k] - 1))
  BY <1>1, <1>2, LaidLines
<1> HIDE DEF lines
<1>6. ASSUME NEW k \in 1 .. n
      PROVE  /\ KeyEnd(lines[k]) # 0
             /\ Entry(lines[k]) = [key |-> strtrim(g[k].key), value |-> strtrim(g[k].value)]
  <2> DEFINE m == k - 1
  <2>1. m \in 0 .. n /\ m = k - 1 /\ k \in 0 .. n
    BY <1>1
  <2> HIDE DEF m
  <2> DEFINE a == ends[m]  b == ends[k]
  <2>2. /\ a \in Nat /\ b \in Nat /\ HoldsAt(text, a, Line(g[k]))
        /\ b = a + Len(Line(g[k])) /\ lines[k] = strtrim(SubSeq(text, a + 1, b - 1))
    BY <1>2, <1>5, <2>1 DEF Laid
  <2> HIDE DEF a, b
  <2> DEFINE e == g[k]
  <2>3. e \in Pair /\ Fits(e) /\ \A i \in 1 .. Len(e.key) : e.key[i] # SEP
    <3>1. e \in Pair /\ Fits(e)
      BY <1>1 DEF Pair
    <3>2. DOMAIN e.key = 1 .. Len(e.key)
      BY <3>1, LenProperties DEF Pair
    <3> QED BY <3>1, <3>2 DEF Fits
  <2>4. HoldsAt(text, a, Line(e)) /\ b = a + Len(Line(e)) /\ a \in Nat /\ b \in Nat
    BY <2>2, Zenon
  <2>7. lines[k] = strtrim(SubSeq(text, a + 1, b - 1))
    BY <2>2
  <2> HIDE DEF e
  <2>5. text \in Seq(Symbol)
    BY <1>1
  <2>6. SubSeq(text, a + 1, b - 1) = Fields(e)
    BY ONLY <2>3, <2>4, <2>5, FitFields
  <2>8. lines[k] = strtrim(Fields(e))
    BY <2>6, <2>7
  <2> QED BY <2>3, <2>8, EntryOf DEF e
<1>7. Trimmed(g) = [k \in 1 .. n |-> [key |-> strtrim(g[k].key), value |-> strtrim(g[k].value)]]
  BY <1>1 DEF Trimmed
<1>8. parse_properties(text) =
        IF \E k \in DOMAIN lines : KeyEnd(lines[k]) = 0
        THEN [err |-> "EINVAL", group |-> <<>>]
        ELSE [err |-> "ok", group |-> [k \in DOMAIN lines |-> Entry(lines[k])]]
  BY <1>4 DEF parse_properties, lines
<1>9. [k \in DOMAIN lines |-> Entry(lines[k])] = Trimmed(g)
  BY <1>5, <1>6, <1>7
<1>10. ~ \E k \in DOMAIN lines : KeyEnd(lines[k]) = 0
  BY <1>5, <1>6
<1> QED BY <1>8, <1>9, <1>10 DEF text

-----------------------------------------------------------------------------

-----------------------------------------------------------------------------
(* Ranking: where a finite set is totally ordered by R, each number up to  *)
(* its size is the rank of exactly one of its elements.                    *)

Ranked(R, S, x) == Cardinality({y \in S : y = x \/ <<y, x>> \in R})

TotallyOrdered(R, S) ==
  /\ \A x \in S : <<x, x>> \notin R
  /\ \A x, y \in S : x = y \/ <<x, y>> \in R \/ <<y, x>> \in R
  /\ \A x, y, z \in S : <<x, y>> \in R /\ <<y, z>> \in R => <<x, z>> \in R

LEMMA Ranking ==
  ASSUME NEW S, IsFiniteSet(S), NEW R, TotallyOrdered(R, S)
  PROVE  /\ \A x \in S : Ranked(R, S, x) \in 1 .. Cardinality(S)
         /\ \A x, y \in S : Ranked(R, S, x) = Ranked(R, S, y) => x = y
         /\ \A x, y \in S : <<x, y>> \in R => Ranked(R, S, x) < Ranked(R, S, y)
         /\ \A n \in 1 .. Cardinality(S) : \E x \in S : Ranked(R, S, x) = n
<1> DEFINE Upto(x) == {y \in S : y = x \/ <<y, x>> \in R}
           N == Cardinality(S)
<1> USE DEF TotallyOrdered
<1>1. /\ N \in Nat
      /\ \A x \in S : IsFiniteSet(Upto(x)) /\ Cardinality(Upto(x)) \in 1 .. N
  <2>1. N \in Nat
    BY FS_CardinalityType
  <2>2. ASSUME NEW x \in S
        PROVE  IsFiniteSet(Upto(x)) /\ Cardinality(Upto(x)) \in 1 .. N
    <3>1. IsFiniteSet(Upto(x)) /\ Cardinality(Upto(x)) <= N
      BY FS_Subset
    <3>2. Cardinality(Upto(x)) \in Nat
      BY <3>1, FS_CardinalityType
    <3>3. x \in Upto(x)
      OBVIOUS
    <3>4. Cardinality(Upto(x)) # 0
      <4> HIDE DEF Upto
      <4> QED BY <3>1, <3>3, FS_EmptySet
    <3> HIDE DEF Upto, N
    <3> QED BY <2>1, <3>1, <3>2, <3>4
  <2> QED BY <2>1, <2>2
<1>2. ASSUME NEW x \in S, NEW y \in S, <<x, y>> \in R
      PROVE  Cardinality(Upto(x)) < Cardinality(Upto(y))
  <2>1. Upto(x) \in SUBSET Upto(y)
    BY <1>2
  <2>2. y \in Upto(y) /\ y \notin Upto(x)
    BY <1>2
  <2> HIDE DEF Upto
  <2>3. /\ Cardinality(Upto(x)) <= Cardinality(Upto(y))
        /\ Cardinality(Upto(y)) = Cardinality(Upto(x)) => Upto(y) = Upto(x)
    BY <1>1, <2>1, FS_Subset
  <2>4. Cardinality(Upto(x)) \in Nat /\ Cardinality(Upto(y)) \in Nat
    BY <1>1
  <2> QED BY <2>2, <2>3, <2>4
<1>3. ASSUME NEW x \in S, NEW y \in S, Cardinality(Upto(x)) = Cardinality(Upto(y))
      PROVE  x = y
  <2>1. Cardinality(Upto(x)) \in Nat
    BY SMTT(30), <1>1
  <2> HIDE DEF Upto
  <2>2. <<x, y>> \notin R /\ <<y, x>> \notin R
    BY <1>2, <1>3, <2>1
  <2> QED BY <2>2
<1> DEFINE f == [x \in S |-> Cardinality(Upto(x))]
<1>4. f \in Injection(S, 1 .. N)
  <2>1. f \in [S -> 1 .. N]
    BY <1>1
  <2> HIDE DEF Upto
  <2>2. \A x, y \in S : f[x] = f[y] => x = y
    BY <1>3
  <2> HIDE DEF f
  <2> QED BY <2>1, <2>2 DEF Injection, IsInjective
<1>5. \A n \in 1 .. N : \E x \in S : Cardinality(Upto(x)) = n
  <2>1. IsFiniteSet(1 .. N) /\ Cardinality(1 .. N) = N
    BY <1>1, FS_Interval
  <2> HIDE DEF Upto
  <2>2. f \in Surjection(S, 1 .. N)
    <3> HIDE DEF f
    <3> QED BY <1>4, <2>1, FS_Injection
  <2> QED BY <2>2 DEF Surjection
<1> QED BY <1>1, <1>2, <1>3, <1>5 DEF Ranked

-----------------------------------------------------------------------------
(* prop_compare orders all entries.                                        *)

LEMMA LessIsOrder ==
  /\ \A s \in Seq(Symbol) : ~Less(s, s)
  /\ \A s, t \in Seq(Symbol) : s = t \/ Less(s, t) \/ Less(t, s)
  /\ \A s, t, u \in Seq(Symbol) : Less(s, t) /\ Less(t, u) => Less(s, u)
<1>1. ASSUME NEW s \in Seq(Symbol) PROVE ~Less(s, s)
  <2>1. Len(s) \in Nat /\ DOMAIN s = 1 .. Len(s) /\ \A i \in 1 .. Len(s) : s[i] \in Symbol
    BY LenProperties, ElementOfSeq
  <2>2. \A i \in DOMAIN s : ~(i > Len(s)) /\ ~(Rank[s[i]] < Rank[s[i]])
    BY <2>1, TextAssumption
  <2> QED BY <2>2 DEF Less
<1>2. ASSUME NEW s \in Seq(Symbol), NEW t \in Seq(Symbol)
      PROVE  s = t \/ Less(s, t) \/ Less(t, s)
  <2>1. /\ Len(s) \in Nat /\ DOMAIN s = 1 .. Len(s) /\ \A i \in 1 .. Len(s) : s[i] \in Symbol
        /\ Len(t) \in Nat /\ DOMAIN t = 1 .. Len(t) /\ \A i \in 1 .. Len(t) : t[i] \in Symbol
    BY LenProperties, ElementOfSeq
  <2> DEFINE T == {i \in Nat : i # 0 /\ ~(i \in DOMAIN s /\ i \in DOMAIN t /\ s[i] = t[i])}
  <2>2. Len(s) + 1 \in T /\ T \subseteq Nat
    BY <2>1
  <2>3. PICK i \in T : \A j \in T : i <= j
    <3> HIDE DEF T
    <3> QED BY <2>2, LeastElement
  <2>4. \A j \in 1 .. i - 1 : j \in DOMAIN s /\ j \in DOMAIN t /\ s[j] = t[j]
    BY <2>1, <2>3
  <2>5. CASE i \in DOMAIN s /\ i \in DOMAIN t
    <3>1. s[i] # t[i] /\ s[i] \in Symbol /\ t[i] \in Symbol
      BY <2>1, <2>3, <2>5
    <3>2. Rank[s[i]] < Rank[t[i]] \/ Rank[t[i]] < Rank[s[i]]
      BY <3>1, TextAssumption
    <3> QED BY <2>4, <2>5, <3>2 DEF Less
  <2>6. CASE i \notin DOMAIN s /\ i \in DOMAIN t
    <3>1. i > Len(s)
      BY <2>1, <2>3, <2>6
    <3> QED BY <2>4, <2>6, <3>1 DEF Less
  <2>7. CASE i \in DOMAIN s /\ i \notin DOMAIN t
    <3>1. i > Len(t)
      BY <2>1, <2>3, <2>7
    <3> QED BY <2>4, <2>7, <3>1 DEF Less
  <2>8. CASE i \notin DOMAIN s /\ i \notin DOMAIN t
    <3>1. Len(s) = i - 1 /\ Len(t) = i - 1
      <4>1. i > Len(s) /\ i > Len(t) /\ i \in Nat
        BY <2>1, <2>3, <2>8
      <4>2. i - 1 > 0 => i - 1 \in DOMAIN s /\ i - 1 \in DOMAIN t
        BY <2>4, <4>1
      <4> QED BY <2>1, <4>1, <4>2
    <3>2. \A j \in 1 .. Len(s) : s[j] = t[j]
      BY <2>4, <3>1
    <3>3. s = t
      BY <3>1, <3>2, SeqEqual
    <3> QED BY <3>3
  <2> QED BY <2>5, <2>6, <2>7, <2>8
<1>3. ASSUME NEW s \in Seq(Symbol), NEW t \in Seq(Symbol), NEW u \in Seq(Symbol),
             Less(s, t), Less(t, u)
      PROVE  Less(s, u)
  <2>1. /\ Len(s) \in Nat /\ DOMAIN s = 1 .. Len(s) /\ \A i \in 1 .. Len(s) : s[i] \in Symbol
        /\ Len(t) \in Nat /\ DOMAIN t = 1 .. Len(t) /\ \A i \in 1 .. Len(t) : t[i] \in Symbol
        /\ Len(u) \in Nat /\ DOMAIN u = 1 .. Len(u) /\ \A i \in 1 .. Len(u) : u[i] \in Symbol
    BY LenProperties, ElementOfSeq
  <2>2. PICK a \in DOMAIN t :
          /\ \A j \in 1 .. a - 1 : j \in DOMAIN s /\ s[j] = t[j]
          /\ a > Len(s) \/ Rank[s[a]] < Rank[t[a]]
    BY <1>3 DEF Less
  <2>3. PICK b \in DOMAIN u :
          /\ \A j \in 1 .. b - 1 : j \in DOMAIN t /\ t[j] = u[j]
          /\ b > Len(t) \/ Rank[t[b]] < Rank[u[b]]
    BY <1>3 DEF Less
  <2>4. a \in Nat \ {0} /\ b \in Nat \ {0} /\ a <= Len(t) /\ b <= Len(u)
    BY <2>1, <2>2, <2>3
  <2>5. CASE a < b
    <3>1. a \in DOMAIN u /\ t[a] = u[a] /\ a \in 1 .. b - 1
      BY <2>1, <2>3, <2>4, <2>5
    <3>2. \A j \in 1 .. a - 1 : j \in DOMAIN s /\ s[j] = u[j]
      <4>1. \A j \in 1 .. a - 1 : j \in 1 .. b - 1
        BY <2>4, <2>5
      <4> QED BY <2>2, <2>3, <4>1
    <3> QED BY <2>2, <3>1, <3>2 DEF Less
  <2>6. CASE a = b
    <3>1. \A j \in 1 .. a - 1 : j \in DOMAIN s /\ s[j] = u[j]
      BY <2>2, <2>3, <2>6
    <3>2. Rank[t[a]] < Rank[u[a]] /\ t[a] \in Symbol /\ u[a] \in Symbol
      BY <2>1, <2>3, <2>4, <2>6
    <3>3. a > Len(s) \/ Rank[s[a]] < Rank[u[a]]
      <4>1. SUFFICES ASSUME ~(a > Len(s)) PROVE Rank[s[a]] < Rank[u[a]]
        OBVIOUS
      <4>2. s[a] \in Symbol /\ Rank[s[a]] < Rank[t[a]]
        BY <2>1, <2>2, <2>4, <4>1
      <4> QED BY <3>2, <4>2, TextAssumption
    <3> QED BY <2>3, <2>6, <3>1, <3>3 DEF Less
  <2>7. CASE b < a
    <3>1. b \in DOMAIN s /\ s[b] = t[b] /\ b <= Len(t)
      BY <2>1, <2>2, <2>4, <2>7
    <3>2. \A j \in 1 .. b - 1 : j \in DOMAIN s /\ s[j] = u[j]
      <4>1. \A j \in 1 .. b - 1 : j \in 1 .. a - 1
        BY <2>4, <2>7
      <4> QED BY <2>2, <2>3, <4>1
    <3>3. Rank[s[b]] < Rank[u[b]]
      BY <2>3, <2>4, <3>1
    <3> QED BY <2>3, <3>2, <3>3 DEF Less
  <2> QED BY <2>4, <2>5, <2>6, <2>7
<1> QED BY <1>1, <1>2, <1>3

LEMMA PrecedesIsOrder ==
  LET E == [key : Seq(Symbol), value : Seq(Symbol)] IN
  /\ \A e \in E : ~Precedes(e, e)
  /\ \A e, f \in E : e = f \/ Precedes(e, f) \/ Precedes(f, e)
  /\ \A e, f, g \in E : Precedes(e, f) /\ Precedes(f, g) => Precedes(e, g)
<1> DEFINE E == [key : Seq(Symbol), value : Seq(Symbol)]
<1>1. \A e \in E : e.key \in Seq(Symbol) /\ e.value \in Seq(Symbol)
  OBVIOUS
<1>2. \A e, f \in E : e.key = f.key /\ e.value = f.value => e = f
  OBVIOUS
<1> HIDE DEF E
<1>3. \A e \in E : ~Precedes(e, e)
  BY <1>1, LessIsOrder DEF Precedes
<1>4. \A e, f \in E : e = f \/ Precedes(e, f) \/ Precedes(f, e)
  BY <1>1, <1>2, LessIsOrder DEF Precedes
<1>5. ASSUME NEW e \in E, NEW f \in E, NEW g \in E, Precedes(e, f), Precedes(f, g)
      PROVE  Precedes(e, g)
  BY <1>1, <1>5, LessIsOrder DEF Precedes
<1> QED BY <1>3, <1>4, <1>5 DEF E

(* sort_properties rearranges the entries, and then no entry precedes an   *)
(* earlier one by prop_compare: none is lost or doubled.                   *)
Rearranges(f, g) == f \in Bijection(DOMAIN g, DOMAIN g)

THEOREM Sorts ==
  ASSUME NEW g \in Group
  PROVE  \E f : /\ Rearranges(f, g)
                /\ sort_properties(g) = [n \in DOMAIN g |-> g[f[n]]]
                /\ \A m, n \in DOMAIN g : m < n => ~Precedes(g[f[n]], g[f[m]])
<1> DEFINE D == DOMAIN g
           E == [key : Seq(Symbol), value : Seq(Symbol)]
           before(i, j) == Precedes(g[i], g[j]) \/ (g[i] = g[j] /\ i < j)
           R == {ij \in D \X D : before(ij[1], ij[2])}
           Is(n, i) == i \in D /\ Cardinality({j \in D : j = i \/ before(j, i)}) = n
           f == [n \in D |-> CHOOSE i : Is(n, i)]
<1>1. D = 1 .. Len(g) /\ Len(g) \in Nat /\ \A i \in D : g[i] \in E
  BY LenProperties, ElementOfSeq DEF Group
<1>2. /\ IsFiniteSet(D) /\ Cardinality(D) = Len(g)
  <2> DEFINE n == Len(g)
  <2>1. n \in Int /\ 1 \in Int /\ n \in Nat /\ D = 1 .. n
    BY <1>1
  <2> HIDE DEF n, D
  <2>2. IsFiniteSet(1 .. n) /\ Cardinality(1 .. n) = IF 1 > n THEN 0 ELSE n - 1 + 1
    BY <2>1, FS_Interval
  <2>3. Cardinality(1 .. n) = n
    BY <2>1, <2>2
  <2> QED BY <2>1, <2>2, <2>3 DEF n
<1>3. \A i, j \in D : <<i, j>> \in R <=> before(i, j)
  OBVIOUS
<1>4. sort_properties(g) = [n \in D |-> g[f[n]]]
  BY DEF sort_properties
<1> HIDE DEF D, R
<1>5. TotallyOrdered(R, D)
  <2>1. /\ \A e \in E : ~Precedes(e, e)
        /\ \A d, e \in E : d = e \/ Precedes(d, e) \/ Precedes(e, d)
        /\ \A d, e, h \in E : Precedes(d, e) /\ Precedes(e, h) => Precedes(d, h)
    BY PrecedesIsOrder
  <2>2. \A i, j \in D : i = j \/ i < j \/ j < i
    BY <1>1
  <2>3. \A i \in D : i \in Nat
    BY <1>1
  <2> HIDE DEF E
  <2>4. \A i \in D : ~before(i, i)
    BY <1>1, <2>1, <2>3
  <2>5. \A i, j \in D : i = j \/ before(i, j) \/ before(j, i)
    BY <1>1, <2>1, <2>2
  <2>6. \A i, j, k \in D : before(i, j) /\ before(j, k) => before(i, k)
    BY <1>1, <2>1, <2>3
  <2> QED BY <1>3, <2>4, <2>5, <2>6 DEF TotallyOrdered
<1>6. \A n, i : Is(n, i) <=> i \in D /\ Ranked(R, D, i) = n
  <2>1. \A i \in D : {j \in D : j = i \/ before(j, i)} = {j \in D : j = i \/ <<j, i>> \in R}
    BY <1>3
  <2> QED BY <2>1 DEF Ranked
<1>7. /\ \A i \in D : Ranked(R, D, i) \in D
      /\ \A i, j \in D : Ranked(R, D, i) = Ranked(R, D, j) => i = j
      /\ \A i, j \in D : <<i, j>> \in R => Ranked(R, D, i) < Ranked(R, D, j)
      /\ \A n \in D : \E i \in D : Ranked(R, D, i) = n
  <2>1. 1 .. Cardinality(D) = D
    BY <1>1, <1>2
  <2>2. /\ \A i \in D : Ranked(R, D, i) \in 1 .. Cardinality(D)
        /\ \A i, j \in D : Ranked(R, D, i) = Ranked(R, D, j) => i = j
        /\ \A i, j \in D : <<i, j>> \in R => Ranked(R, D, i) < Ranked(R, D, j)
        /\ \A n \in 1 .. Cardinality(D) : \E i \in D : Ranked(R, D, i) = n
    BY <1>2, <1>5, Ranking
  <2> QED BY <2>1, <2>2
<1> HIDE DEF Is
<1>8. \A n \in D : f[n] \in D /\ Ranked(R, D, f[n]) = n
  <2> TAKE n \in D
  <2>1. PICK i : Is(n, i)
    BY <1>6, <1>7
  <2>2. Is(n, f[n])
    BY <2>1
  <2> QED BY <1>6, <2>2
<1>9. f = [n \in D |-> f[n]]
  OBVIOUS
<1> HIDE DEF f
<1>10. Rearranges(f, g)
  <2>1. f \in [D -> D]
    BY <1>8, <1>9
  <2>2. \A m, n \in D : f[m] = f[n] => m = n
    BY <1>8
  <2>3. \A i \in D : \E n \in D : f[n] = i
    BY <1>7, <1>8
  <2> QED BY <2>1, <2>2, <2>3
          DEF Rearranges, Bijection, Injection, Surjection, IsInjective, D
<1>11. ASSUME NEW m \in D, NEW n \in D, m < n PROVE ~Precedes(g[f[n]], g[f[m]])
  <2>1. SUFFICES ASSUME Precedes(g[f[n]], g[f[m]]) PROVE FALSE
    OBVIOUS
  <2>2. <<f[n], f[m]>> \in R
    BY <1>3, <1>8, <2>1
  <2>3. n < m
    BY <1>7, <1>8, <2>2
  <2> QED BY <1>1, <1>11, <2>3
<1> QED BY <1>4, <1>10, <1>11 DEF D

LEMMA SortTypes ==
  ASSUME NEW g \in Group
  PROVE  sort_properties(g) \in Group /\ Len(sort_properties(g)) = Len(g)
<1> DEFINE E == [key : Seq(Symbol), value : Seq(Symbol)]
<1>1. DOMAIN g = 1 .. Len(g) /\ Len(g) \in Nat /\ \A i \in DOMAIN g : g[i] \in E
  BY LenProperties, ElementOfSeq DEF Group
<1>2. PICK f : /\ f \in Bijection(DOMAIN g, DOMAIN g)
               /\ sort_properties(g) = [n \in DOMAIN g |-> g[f[n]]]
  BY Sorts DEF Rearranges
<1>3. \A n \in DOMAIN g : f[n] \in DOMAIN g
  BY <1>2 DEF Bijection, Injection
<1>4. \A n \in 1 .. Len(g) : g[f[n]] \in E
  BY <1>1, <1>3
<1> HIDE DEF E
<1>5. [n \in 1 .. Len(g) |-> g[f[n]]] \in Seq(E)
  BY <1>1, <1>4
<1>6. Len([n \in 1 .. Len(g) |-> g[f[n]]]) = Len(g)
  BY <1>1
<1> QED BY <1>1, <1>2, <1>5, <1>6 DEF Group, E

-----------------------------------------------------------------------------
(* What parse_properties makes of a text is a group, whatever the text.    *)

LEMMA CStringTypes ==
  ASSUME NEW text \in Seq(Symbol)
  PROVE  CString(text) \in Seq(Symbol)
<1> DEFINE I == {i \in 1 .. Len(text) : text[i] = NUL}
           end == SelectInSeq(text, LAMBDA s : s = NUL)
<1>1. end = IF I # {} THEN Min(I) ELSE 0
  BY DEF SelectInSeq
<1>2. CString(text) = IF end = 0 THEN text ELSE UpTo(text, end - 1)
  BY DEF CString
<1>3. Len(text) \in Nat /\ I \subseteq 1 .. Len(text)
  BY LenProperties
<1> HIDE DEF I
<1>4. I # {} => Min(I) \in 1 .. Len(text)
  <2>1. I \subseteq Nat
    BY <1>3
  <2>2. I # {} => Min(I) \in I
    BY <2>1, MinIs
  <2> QED BY <1>3, <2>2
<1>5. end \in 0 .. Len(text)
  BY <1>1, <1>3, <1>4
<1> HIDE DEF end
<1>6. end # 0 => end - 1 \in 0 .. Len(text)
  BY <1>3, <1>5
<1>7. end # 0 => UpTo(text, end - 1) \in Seq(Symbol)
  BY <1>6, Split
<1> QED BY <1>2, <1>7

LEMMA EntryTypes ==
  ASSUME NEW line \in Seq(Symbol), KeyEnd(line) # 0
  PROVE  Entry(line) \in [key : Seq(Symbol), value : Seq(Symbol)]
<1> DEFINE n == KeyEnd(line)
<1>1. n \in 1 .. Len(line) /\ Len(line) \in Nat
  BY KeyEndIs, LenProperties
<1>2. Entry(line) = [key |-> strtrim(UpTo(line, n - 1)), value |-> strtrim(From(line, n + 1))]
  BY DEF Entry
<1> HIDE DEF n
<1>3. n - 1 \in 0 .. Len(line) /\ n \in 0 .. Len(line)
  BY <1>1
<1>4. UpTo(line, n - 1) \in Seq(Symbol) /\ From(line, n + 1) \in Seq(Symbol)
  BY <1>3, Split
<1>5. strtrim(UpTo(line, n - 1)) \in Seq(Symbol) /\ strtrim(From(line, n + 1)) \in Seq(Symbol)
  BY <1>4, TrimTypes
<1> QED BY <1>2, <1>5

\* Every line that is looked at is one that begins somewhere in the text.
LEMMA LinesTypes ==
  ASSUME NEW text \in Seq(Symbol)
  PROVE  /\ Cardinality(Starts(text)) \in Nat
         /\ DOMAIN Lines(text) = 1 .. Cardinality(Starts(text))
         /\ \A n \in 1 .. Cardinality(Starts(text)) :
              /\ Lines(text)[n] \in Seq(Symbol)
              /\ \E i \in Starts(text) : \E j \in i .. Len(text) :
                   IsEnd(text, i, j) /\ Lines(text)[n] = strtrim(SubSeq(text, i, j))
<1> DEFINE S == Starts(text)
           R == {ij \in S \X S : ij[1] < ij[2]}
<1>1. /\ Len(text) \in Nat /\ DOMAIN text = 1 .. Len(text) /\ S \subseteq 1 .. Len(text)
      /\ \A i \in 1 .. Len(text) : text[i] \in Symbol
  BY LenProperties, ElementOfSeq DEF Starts
<1>2. IsFiniteSet(S) /\ Cardinality(S) \in Nat
  <2>1. IsFiniteSet(1 .. Len(text))
    BY <1>1, FS_Interval
  <2> HIDE DEF S
  <2> QED BY <1>1, <2>1, FS_Subset, FS_CardinalityType
<1>3. \A i, j \in S : <<i, j>> \in R <=> i < j
  OBVIOUS
<1> HIDE DEF R
<1>4. TotallyOrdered(R, S)
  <2>1. \A i \in S : i \in Nat
    BY <1>1
  <2> HIDE DEF S
  <2> QED BY <1>3, <2>1 DEF TotallyOrdered
<1>5. ASSUME NEW i \in S PROVE {j \in S : j <= i} = {j \in S : j = i \/ <<j, i>> \in R}
  <2>1. \A j \in S : j \in Nat
    BY <1>1
  <2> HIDE DEF S
  <2>2. \A j \in S : j <= i <=> j = i \/ <<j, i>> \in R
    BY <1>3, <2>1
  <2> QED BY <2>2
<1>6. ASSUME NEW n \in 1 .. Cardinality(S) PROVE StartOf(text, n) \in S
  <2>1. PICK i \in S : Ranked(R, S, i) = n
    <3> HIDE DEF S
    <3> QED BY <1>2, <1>4, Ranking
  <2>2. Cardinality({j \in S : j <= i}) = n
    BY <1>5, <2>1 DEF Ranked
  <2> QED BY <2>2 DEF StartOf
<1>7. ASSUME NEW i \in S
      PROVE  EndOf(text, i) \in i .. Len(text) /\ IsEnd(text, i, EndOf(text, i))
  <2> DEFINE T == {j \in i .. Len(text) : j = Len(text) \/ text[j + 1] = NL}
  <2>1. i \in 1 .. Len(text) /\ text[i] # NL
    BY StartIs
  <2>2. Len(text) \in T /\ T \subseteq Nat
    BY <1>1, <2>1
  <2>3. PICK j \in T : \A k \in T : j <= k
    <3> HIDE DEF T
    <3> QED BY <2>2, LeastElement
  <2>4. ASSUME NEW k \in i .. j PROVE text[k] # NL
    <3>1. CASE k = i
      BY <2>1, <3>1
    <3>2. CASE k # i
      <4> DEFINE l == k - 1
      <4>1. l \in i .. Len(text) /\ l + 1 = k /\ l < j /\ l \in Nat
        <5>1. j \in i .. Len(text) /\ k \in i .. j /\ k # i
          BY <2>3, <2>4, <3>2
        <5> HIDE DEF T
        <5> QED BY <1>1, <2>1, <5>1
      <4>2. l \notin T
        BY <2>2, <2>3, <4>1
      <4> QED BY <4>1, <4>2
    <3> QED BY <3>1, <3>2
  <2>5. j \in i .. Len(text) /\ IsEnd(text, i, j)
    BY <2>3, <2>4 DEF IsEnd
  <2> HIDE DEF T
  <2>6. EndOf(text, i) = j
    BY <2>1, <2>5, EndIs
  <2> QED BY <2>5, <2>6
<1>8. ASSUME NEW n \in 1 .. Cardinality(S)
      PROVE  /\ Lines(text)[n] \in Seq(Symbol)
             /\ \E i \in S : \E j \in i .. Len(text) :
                  IsEnd(text, i, j) /\ Lines(text)[n] = strtrim(SubSeq(text, i, j))
  <2> DEFINE a == StartOf(text, n)  b == EndOf(text, a)
  <2>1. Lines(text)[n] = strtrim(SubSeq(text, a, b))
    BY LinesNamed
  <2>2. a \in S
    BY <1>6
  <2> HIDE DEF a
  <2>3. b \in a .. Len(text) /\ IsEnd(text, a, b)
    BY <1>7, <2>2
  <2>4. a \in 1 .. Len(text)
    BY <1>1, <2>2
  <2> HIDE DEF b
  <2>5. a \in Nat \ {0} /\ b \in Nat /\ a <= b + 1 /\ b <= Len(text)
    BY <1>1, <2>3, <2>4
  <2>6. SubSeq(text, a, b) \in Seq(Symbol)
    BY <2>5, Part
  <2>7. strtrim(SubSeq(text, a, b)) \in Seq(Symbol)
    BY <2>6, TrimTypes
  <2> QED BY <2>1, <2>2, <2>3, <2>7
<1> QED BY <1>2, <1>8, LinesNamed

LEMMA ParseTypes ==
  ASSUME NEW text \in Seq(Symbol)
  PROVE  parse_properties(text).group \in Group
<1> DEFINE str == CString(text)
           lines == Lines(str)
           N == Cardinality(Starts(str))
           E == [key : Seq(Symbol), value : Seq(Symbol)]
<1>1. str \in Seq(Symbol)
  BY CStringTypes
<1>2. parse_properties(text) = IF \E n \in DOMAIN lines : KeyEnd(lines[n]) = 0
        THEN [err |-> "EINVAL", group |-> <<>>]
        ELSE [err |-> "ok", group |-> [n \in DOMAIN lines |-> Entry(lines[n])]]
  BY DEF parse_properties
<1> HIDE DEF str
<1>3. N \in Nat /\ DOMAIN lines = 1 .. N /\ \A n \in 1 .. N : lines[n] \in Seq(Symbol)
  BY <1>1, LinesTypes
<1> HIDE DEF lines, N
<1>4. CASE \E n \in DOMAIN lines : KeyEnd(lines[n]) = 0
  BY <1>2, <1>4, EmptySeq DEF Group
<1>5. CASE ~ \E n \in DOMAIN lines : KeyEnd(lines[n]) = 0
  <2>1. \A n \in 1 .. N : Entry(lines[n]) \in E
    BY <1>3, <1>5, EntryTypes
  <2>2. parse_properties(text).group = [n \in 1 .. N |-> Entry(lines[n])]
    BY <1>2, <1>3, <1>5
  <2> HIDE DEF E
  <2>3. [n \in 1 .. N |-> Entry(lines[n])] \in Seq(E)
    BY <1>3, <2>1
  <2> QED BY <2>2, <2>3 DEF Group, E
<1> QED BY <1>4, <1>5

LEMMA LoadedErr ==
  ASSUME NEW text
  PROVE  /\ Loaded(text).err = parse_properties(text).err
         /\ Loaded(text).err \in {"ok", "EINVAL"}
         /\ Loaded(text).group = sort_properties(parse_properties(text).group)
<1> DEFINE parsed == parse_properties(text)
<1>1. \E e \in {"ok", "EINVAL"} : \E g : parsed = [err |-> e, group |-> g]
  BY DEF parse_properties
<1>2. Loaded(text) = [parsed EXCEPT !.group = sort_properties(parsed.group)]
  BY DEF Loaded
<1> HIDE DEF parsed
<1> QED BY <1>1, <1>2 DEF parsed

LEMMA LoadedTypes ==
  ASSUME NEW text \in Seq(Symbol)
  PROVE  Loaded(text).group \in Group
BY ParseTypes, SortTypes, LoadedErr

LEMMA TrimmedTypes ==
  ASSUME NEW g \in Group
  PROVE  Trimmed(g) \in Group
<1>1. DOMAIN g = 1 .. Len(g) /\ Len(g) \in Nat /\ \A i \in 1 .. Len(g) : g[i] \in Pair
  BY LenProperties, ElementOfSeq DEF Group, Pair
<1>2. \A i \in 1 .. Len(g) : [key |-> strtrim(g[i].key), value |-> strtrim(g[i].value)] \in Pair
  BY <1>1, TrimTypes DEF Pair
<1> HIDE DEF Pair
<1>3. Trimmed(g) \in Seq(Pair)
  BY <1>1, <1>2 DEF Trimmed
<1> QED BY <1>3 DEF Pair, Group

LEMMA LoadsSorted ==
  ASSUME NEW g \in Group, Storable(g)
  PROVE  Loaded(Text(g)) = [err |-> "ok", group |-> sort_properties(Trimmed(g))]
<1>1. parse_properties(Text(g)) = [err |-> "ok", group |-> Trimmed(g)]
  BY RoundTrip
<1> QED BY <1>1 DEF Loaded

-----------------------------------------------------------------------------
(* find_property: the first entry with a key, and what becomes of it when  *)
(* the group is sorted: the value of a key that occurs once, and an empty  *)
(* value, which precedes the others.                                       *)

LEMMA FindFirst ==
  ASSUME NEW g \in Group, NEW k
  PROVE  LET n == find_property(g, k) IN
         /\ n \in Nat
         /\ n # 0 <=> \E i \in DOMAIN g : g[i].key = k
         /\ n # 0 => /\ n \in DOMAIN g /\ g[n].key = k
                     /\ \A i \in DOMAIN g : g[i].key = k => n <= i
<1> DEFINE I == {i \in 1 .. Len(g) : g[i].key = k}
<1>1. DOMAIN g = 1 .. Len(g) /\ Len(g) \in Nat
  BY LenProperties DEF Group
<1>2. find_property(g, k) = IF I # {} THEN Min(I) ELSE 0
  BY DEF find_property, SelectInSeq
<1>3. CASE I = {}
  <2>1. find_property(g, k) = 0
    BY <1>2, <1>3, Zenon
  <2> QED BY <1>1, <1>3, <2>1
<1>4. CASE I # {}
  <2>1. find_property(g, k) = Min(I)
    BY <1>2, <1>4, Zenon
  <2>2. I \subseteq Nat
    BY <1>1
  <2>3. Min(I) \in I /\ \A i \in I : Min(I) <= i
    <3> HIDE DEF I
    <3> QED BY <1>4, <2>2, MinIs
  <2> DEFINE n == find_property(g, k)
  <2>4. n = Min(I)
    BY <2>1
  <2> HIDE DEF n
  <2>5. n \in I /\ \A i \in I : n <= i
    BY <2>3, <2>4
  <2>6. n \in 1 .. Len(g) /\ g[n].key = k /\ \A i \in 1 .. Len(g) : g[i].key = k => n <= i
    BY <2>5
  <2> QED BY <1>1, <2>6 DEF n
<1> QED BY <1>3, <1>4

LEMMA SortedFinds ==
  ASSUME NEW g \in Group, NEW k
  PROVE  LET s == sort_properties(g)
             m == find_property(g, k)
             n == find_property(s, k)
         IN  /\ n # 0 <=> m # 0
             /\ m # 0 /\ (\A i \in DOMAIN g : g[i].key = k => i = m) =>
                  s[n].value = g[m].value
             /\ \A i \in DOMAIN g : g[i].key = k /\ g[i].value = <<>> => s[n].value = <<>>
<1> DEFINE s == sort_properties(g)
           m == find_property(g, k)
           n == find_property(s, k)
<1>1. PICK f : /\ Rearranges(f, g) /\ s = [i \in DOMAIN g |-> g[f[i]]]
               /\ \A i, j \in DOMAIN g : i < j => ~Precedes(g[f[j]], g[f[i]])
  BY Sorts
<1>2. /\ m # 0 <=> \E i \in DOMAIN g : g[i].key = k
      /\ m # 0 => m \in DOMAIN g /\ g[m].key = k
  BY FindFirst
<1>3. s \in Group
  BY SortTypes
<1>4. /\ n # 0 <=> \E i \in DOMAIN s : s[i].key = k
      /\ n # 0 => /\ n \in DOMAIN s /\ s[n].key = k
                  /\ \A i \in DOMAIN s : s[i].key = k => n <= i
  <2> HIDE DEF s
  <2> QED BY <1>3, FindFirst
<1>5. /\ \A i \in DOMAIN g : f[i] \in DOMAIN g
      /\ \A i \in DOMAIN g : \E j \in DOMAIN g : f[j] = i
  BY <1>1 DEF Rearranges, Bijection, Surjection, Injection
<1>6. DOMAIN s = DOMAIN g /\ \A i \in DOMAIN g : s[i] = g[f[i]]
  BY <1>1
<1> HIDE DEF s, m, n
<1>7. n # 0 <=> m # 0
  <2>1. ASSUME n # 0 PROVE m # 0
    <3>1. n \in DOMAIN s /\ s[n].key = k
      BY <1>4, <2>1
    <3>2. f[n] \in DOMAIN g /\ g[f[n]].key = k
      BY <1>5, <1>6, <3>1
    <3> QED BY <1>2, <3>2
  <2>2. ASSUME m # 0 PROVE n # 0
    <3>1. PICK j \in DOMAIN g : f[j] = m
      BY <1>2, <1>5, <2>2
    <3>2. j \in DOMAIN s /\ s[j].key = k
      BY <1>2, <1>6, <2>2, <3>1
    <3> QED BY <1>4, <3>2
  <2> QED BY <2>1, <2>2
<1>8. ASSUME m # 0, \A i \in DOMAIN g : g[i].key = k => i = m
      PROVE  s[n].value = g[m].value
  <2>1. n \in DOMAIN g /\ s[n] = g[f[n]] /\ s[n].key = k
    BY <1>4, <1>6, <1>7, <1>8
  <2>2. f[n] = m
    BY <1>5, <1>8, <2>1
  <2> QED BY <2>1, <2>2
<1>9. ASSUME NEW i \in DOMAIN g, g[i].key = k, g[i].value = <<>>
      PROVE  s[n].value = <<>>
  <2>1. PICK j \in DOMAIN g : f[j] = i
    BY <1>5
  <2>2. n \in DOMAIN g /\ s[n] = g[f[n]] /\ s[n].key = k /\ n <= j /\ s[j] = g[i]
    BY <1>4, <1>6, <1>9, <2>1
  <2>3. \A l \in DOMAIN g : l \in Nat /\ g[l].value \in Seq(Symbol)
    <3>1. DOMAIN g = 1 .. Len(g) /\ Len(g) \in Nat
      BY LenProperties DEF Group
    <3>2. \A l \in DOMAIN g : l \in Nat
      BY <3>1
    <3>3. \A l \in DOMAIN g : g[l] \in [key : Seq(Symbol), value : Seq(Symbol)]
      BY <3>1, ElementOfSeq DEF Group
    <3> QED BY <3>2, <3>3
  <2>4. n = j \/ n < j
    BY <2>2, <2>3
  <2>5. CASE n = j
    BY <1>9, <2>2, <2>5
  <2>6. CASE n < j
    <3>1. ~Precedes(g[i], s[n])
      BY <1>1, <2>1, <2>2, <2>6
    <3>2. ~Less(<<>>, s[n].value)
      BY <1>9, <2>2, <3>1 DEF Precedes
    <3> DEFINE t == s[n].value
    <3>3. t \in Seq(Symbol)
      BY <1>5, <2>2, <2>3
    <3> HIDE DEF t
    <3>4. t # <<>> => Less(<<>>, t)
      <4>1. HAVE t # <<>>
      <4>2. 1 \in DOMAIN t
        BY <3>3, <4>1, LenProperties, EmptySeq
      <4>3. 1 > Len(<<>>) /\ 1 .. 1 - 1 = {}
        BY EmptySeq
      <4> QED BY <4>2, <4>3 DEF Less
    <3> QED BY <3>2, <3>4 DEF t
  <2> QED BY <2>4, <2>5, <2>6
<1> QED BY <1>7, <1>8, <1>9 DEF s, m, n

(* put_property replaces the value of the first entry with the key, or     *)
(* appends one; nothing else changes.                                      *)
LEMMA Puts ==
  ASSUME NEW g \in Group, NEW e \in [key : Seq(Symbol), value : Seq(Symbol)]
  PROVE  LET h == put_property(g, e) IN
         /\ h \in Group
         /\ \E i \in DOMAIN h : h[i].key = e.key /\ h[i].value = e.value
         /\ h[find_property(h, e.key)].value = e.value
         /\ \A i \in DOMAIN h : h[i].key # e.key => i \in DOMAIN g /\ h[i] = g[i]
         /\ \A i \in DOMAIN g : i \in DOMAIN h /\ (g[i].key # e.key => h[i] = g[i])
<1> DEFINE h == put_property(g, e)
           n == find_property(g, e.key)
           E == [key : Seq(Symbol), value : Seq(Symbol)]
<1>1. DOMAIN g = 1 .. Len(g) /\ Len(g) \in Nat /\ \A i \in DOMAIN g : g[i] \in E
  BY LenProperties, ElementOfSeq DEF Group
<1>2. /\ n # 0 <=> \E i \in DOMAIN g : g[i].key = e.key
      /\ n # 0 => /\ n \in DOMAIN g /\ g[n].key = e.key
                  /\ \A i \in DOMAIN g : g[i].key = e.key => n <= i
  BY FindFirst
<1>3. h = IF n = 0 THEN Append(g, e) ELSE [g EXCEPT ![n].value = e.value]
  BY DEF put_property
<1> SUFFICES /\ h \in Group
             /\ \E i \in DOMAIN h : /\ h[i].key = e.key /\ h[i].value = e.value
                                    /\ \A j \in DOMAIN h : h[j].key = e.key => i <= j
             /\ \A i \in DOMAIN h : h[i].key # e.key => i \in DOMAIN g /\ h[i] = g[i]
             /\ \A i \in DOMAIN g : i \in DOMAIN h /\ (g[i].key # e.key => h[i] = g[i])
  <2>1. PICK i \in DOMAIN h : /\ h[i].key = e.key /\ h[i].value = e.value
                              /\ \A j \in DOMAIN h : h[j].key = e.key => i <= j
    OBVIOUS
  <2> HIDE DEF h
  <2> DEFINE m == find_property(h, e.key)
  <2>2. m \in DOMAIN h /\ h[m].key = e.key /\ m <= i
    BY <2>1, FindFirst
  <2>3. DOMAIN h \subseteq Nat
    <3>1. DOMAIN h = 1 .. Len(h) /\ Len(h) \in Nat
      BY LenProperties DEF Group
    <3> QED BY <3>1
  <2> HIDE DEF m
  <2>4. m = i
    BY <2>1, <2>2, <2>3
  <2> QED BY <2>1, <2>4 DEF m, h
<1> HIDE DEF n
<1>4. CASE n = 0
  <2>1. h = Append(g, e)
    BY <1>3, <1>4, Zenon
  <2> HIDE DEF h
  <2>2. g \in Seq(E) /\ e \in E
    BY DEF Group
  <2>3. /\ h \in Seq(E) /\ Len(h) = Len(g) + 1 /\ h[Len(g) + 1] = e
        /\ \A i \in 1 .. Len(g) : h[i] = g[i]
    <3> HIDE DEF E
    <3> QED BY <2>1, <2>2, AppendProperties
  <2>4. DOMAIN h = 1 .. Len(g) + 1
    BY <2>3, LenProperties
  <2>5. \A i \in DOMAIN g : g[i].key # e.key
    BY <1>2, <1>4
  <2>6. \A i \in DOMAIN h : i \in DOMAIN g \/ i = Len(g) + 1
    BY <1>1, <2>4
  <2>7. Len(g) + 1 \in DOMAIN h /\ DOMAIN g \subseteq DOMAIN h
    BY <1>1, <2>4
  <2>8. \A j \in DOMAIN h : h[j].key = e.key => Len(g) + 1 <= j
    <3>1. SUFFICES ASSUME NEW j \in DOMAIN h, h[j].key = e.key PROVE Len(g) + 1 <= j
      OBVIOUS
    <3>2. j \in DOMAIN g => j # Len(g) + 1 /\ h[j] = g[j]
      BY <1>1, <2>3
    <3>3. j = Len(g) + 1
      BY <2>5, <2>6, <3>1, <3>2
    <3> QED BY <1>1, <3>3
  <2>9. h \in Group
    BY <2>3 DEF Group
  <2> QED BY <1>1, <2>3, <2>5, <2>6, <2>7, <2>8, <2>9
<1>5. CASE n # 0
  <2>1. h = [g EXCEPT ![n].value = e.value]
    BY <1>3, <1>5, Zenon
  <2>2. n \in DOMAIN g /\ g[n].key = e.key /\ g[n] \in E
    BY <1>1, <1>2, <1>5
  <2> HIDE DEF h
  <2>3. /\ DOMAIN h = DOMAIN g /\ \A i \in DOMAIN g : i # n => h[i] = g[i]
        /\ h[n] = [g[n] EXCEPT !.value = e.value]
    BY <2>1, <2>2
  <2>4. h[n] \in E /\ h[n].key = e.key /\ h[n].value = e.value
    BY <2>2, <2>3
  <2>5. h \in Group
    <3>1. \A i \in 1 .. Len(g) : h[i] \in E
      BY <1>1, <2>3, <2>4
    <3>2. h = [i \in 1 .. Len(g) |-> h[i]]
      BY <1>1, <2>1
    <3> HIDE DEF E
    <3>3. h \in Seq(E)
      BY <1>1, <3>1, <3>2
    <3> QED BY <3>3 DEF E, Group
  <2>6. \A j \in DOMAIN h : h[j].key = e.key => n <= j
    BY <1>1, <1>2, <1>5, <2>2, <2>3
  <2> QED BY <2>2, <2>3, <2>4, <2>5, <2>6
<1> QED BY <1>4, <1>5

-----------------------------------------------------------------------------
(* What the beginning of the text of two entries is read as: if both keys  *)
(* are found in it, then with the value of the first, and with the         *)
(* beginning of the value of the second.                                   *)

LEMMA CStringIs ==
  ASSUME NEW text \in Seq(Symbol)
  PROVE  \/ CString(text) = text /\ \A i \in 1 .. Len(text) : text[i] # NUL
         \/ \E n \in 1 .. Len(text) :
              /\ CString(text) = UpTo(text, n - 1) /\ text[n] = NUL
              /\ \A i \in 1 .. n - 1 : text[i] # NUL
<1> DEFINE I == {i \in 1 .. Len(text) : text[i] = NUL}
           end == SelectInSeq(text, LAMBDA s : s = NUL)
<1>1. end = IF I # {} THEN Min(I) ELSE 0
  BY DEF SelectInSeq
<1>2. CString(text) = IF end = 0 THEN text ELSE UpTo(text, end - 1)
  BY DEF CString
<1>3. Len(text) \in Nat /\ I \subseteq 1 .. Len(text)
  BY LenProperties
<1> HIDE DEF end
<1>4. CASE I = {}
  BY <1>1, <1>2, <1>4
<1>5. CASE I # {}
  <2>1. I \subseteq Nat
    BY <1>3
  <2>2. end \in I /\ \A i \in I : end <= i
    <3> HIDE DEF I
    <3> QED BY <1>1, <1>5, <2>1, MinIs
  <2>3. end \in 1 .. Len(text) /\ text[end] = NUL
    BY <2>2
  <2>4. \A i \in 1 .. end - 1 : i \in 1 .. Len(text) /\ ~(end <= i)
    BY <1>3, <2>3
  <2>5. \A i \in 1 .. end - 1 : text[i] # NUL
    BY <2>2, <2>4
  <2>6. CString(text) = UpTo(text, end - 1)
    BY <1>2, <1>3, <2>3
  <2> QED BY <2>3, <2>5, <2>6
<1> QED BY <1>4, <1>5

\* What stands behind a NUL, or the end, does not count.
LEMMA CStringCut ==
  ASSUME NEW x \in Seq(Symbol), NEW y \in Seq(Symbol), y = <<>> \/ y[1] = NUL
  PROVE  parse_properties(x \o y) = parse_properties(x)
<1> DEFINE xy == x \o y  l == Len(x)
<1>1. /\ xy \in Seq(Symbol) /\ Len(xy) = l + Len(y) /\ l \in Nat /\ Len(y) \in Nat
      /\ \A i \in 1 .. l + Len(y) : xy[i] = IF i <= l THEN x[i] ELSE y[i - l]
  BY ConcatProperties, LenProperties
<1>2. y = <<>> => xy = x
  BY ConcatEmptySeq
<1> HIDE DEF xy, l
<1>3. CString(xy) = CString(x)
  <2>1. CASE y = <<>>
    BY <1>2, <2>1
  <2>2. CASE y # <<>>
    <3>1. Len(y) # 0
      BY <2>2, EmptySeq
    <3>2. xy[l + 1] = NUL
      <4>1. l + 1 \in 1 .. l + Len(y) /\ ~(l + 1 <= l) /\ (l + 1) - l = 1
        BY <1>1, <3>1
      <4> QED BY <1>1, <2>2, <4>1
    <3>3. PICK n \in 1 .. Len(xy) :
            /\ CString(xy) = UpTo(xy, n - 1) /\ xy[n] = NUL
            /\ \A i \in 1 .. n - 1 : xy[i] # NUL
      <4>1. l + 1 \in 1 .. Len(xy)
        BY <1>1, <3>1
      <4> QED BY <1>1, <3>2, <4>1, CStringIs
    <3>4. n \in 1 .. l + 1
      <4>1. l + 1 \notin 1 .. n - 1
        BY <3>2, <3>3
      <4> QED BY <1>1, <3>3, <4>1
    <3>5. UpTo(xy, n - 1) = UpTo(x, n - 1)
      <4> DEFINE m == n - 1  one == 1
      <4>1. /\ m \in Nat /\ m <= Len(xy) /\ m <= Len(x) /\ one \in Nat \ {0}
            /\ \A i \in one .. m : xy[i] = x[i]
        BY <1>1, <3>4 DEF l
      <4> HIDE DEF m, one
      <4>2. SubSeq(xy, one, m) = SubSeq(x, one, m)
        BY <1>1, <4>1, SamePart
      <4> QED BY <4>2 DEF UpTo, m, one
    <3>6. CString(x) = UpTo(x, n - 1)
      <4>1. CASE CString(x) = x /\ \A i \in 1 .. l : x[i] # NUL
        <5>1. n = l + 1
          <6>1. n \in 1 .. l => xy[n] = x[n]
            BY <1>1
          <6> QED BY <1>1, <3>3, <3>4, <4>1, <6>1
        <5>2. n - 1 = Len(x)
          BY <1>1, <5>1 DEF l
        <5> QED BY <4>1, <5>2, SubSeqFull DEF UpTo
      <4>2. CASE \E k \in 1 .. l : /\ CString(x) = UpTo(x, k - 1) /\ x[k] = NUL
                                   /\ \A i \in 1 .. k - 1 : x[i] # NUL
        <5>1. PICK k \in 1 .. l : /\ CString(x) = UpTo(x, k - 1) /\ x[k] = NUL
                                  /\ \A i \in 1 .. k - 1 : x[i] # NUL
          BY <4>2
        <5>2. \A i \in 1 .. l : xy[i] = x[i]
          BY <1>1
        <5>3. ~(k < n)
          <6>1. k < n => k \in 1 .. n - 1 /\ k \in 1 .. l
            BY <1>1, <3>4, <5>1
          <6> QED BY <3>3, <5>1, <5>2, <6>1
        <5>4. ~(n < k)
          <6>1. n < k => n \in 1 .. k - 1 /\ n \in 1 .. l
            BY <1>1, <3>4, <5>1
          <6> QED BY <3>3, <5>1, <5>2, <6>1
        <5>5. n = k
          BY <1>1, <3>4, <5>1, <5>3, <5>4
        <5> QED BY <5>1, <5>5
      <4> QED BY <4>1, <4>2, CStringIs DEF l
    <3> QED BY <3>3, <3>5, <3>6
  <2> QED BY <2>1, <2>2
<1>4. parse_properties(xy) = parse_properties(x)
  BY <1>3 DEF parse_properties
<1> QED BY <1>4 DEF xy

LEMMA EntryBegins ==
  ASSUME NEW e \in Pair, \A i \in 1 .. Len(e.key) : e.key[i] # SEP,
         NEW q \in 0 .. Len(Fields(e)), KeyEnd(strtrim(UpTo(Fields(e), q))) # 0
  PROVE  LET read == Entry(strtrim(UpTo(Fields(e), q))) IN
         read.key = strtrim(e.key) /\ IsPrefix(read.value, strtrim(e.value))
<1> DEFINE z == Fields(e)  x == UpTo(z, q)  n == Len(e.key)  m == Len(e.value)
<1>1. /\ z \in Seq(Symbol) /\ n \in Nat /\ m \in Nat /\ Len(z) = n + 1 + m
      /\ \A i \in 1 .. n : z[i] = e.key[i]
      /\ z[n + 1] = SEP
      /\ \A i \in 1 .. m : z[n + 1 + i] = e.value[i]
  BY FieldsAre
<1>2. q \in Nat /\ q <= Len(z)
  <2>1. q \in 0 .. Len(z) /\ Len(z) \in Nat
    BY <1>1, LenProperties
  <2> HIDE DEF z
  <2> QED BY <2>1
<1>3. e.key \in Seq(Symbol) /\ e.value \in Seq(Symbol)
  BY DEF Pair
<1> HIDE DEF z
<1>4. x \in Seq(Symbol) /\ Len(x) = q /\ \A i \in 1 .. q : x[i] = z[i]
  <2>1. 1 <= q + 1 /\ 1 \in Nat \ {0} /\ z \in Seq(Symbol)
    BY <1>1, <1>2
  <2>2. /\ SubSeq(z, 1, q) \in Seq(Symbol) /\ Len(SubSeq(z, 1, q)) = q - 1 + 1
        /\ \A i \in 1 .. q - 1 + 1 : SubSeq(z, 1, q)[i] = z[1 + i - 1]
    BY ONLY <1>2, <2>1, Part
  <2>3. q - 1 + 1 = q /\ \A i \in 1 .. q : 1 + i - 1 = i
    BY <1>2
  <2> QED BY <2>2, <2>3 DEF UpTo
<1>5. KeyEnd(strtrim(x)) # 0
  BY DEF z
<1> HIDE DEF x
<1>6. n < q
  <2>1. SUFFICES ASSUME ~(n < q) PROVE FALSE
    OBVIOUS
  <2> HIDE DEF n, m
  <2>2. \A i \in 1 .. Len(x) : x[i] # SEP
    <3>1. ASSUME NEW i \in 1 .. q PROVE x[i] # SEP
      <4>1. i \in 1 .. n
        BY <1>1, <1>2, <2>1
      <4> QED BY <1>1, <1>4, <4>1 DEF n
    <3> QED BY <1>4, <3>1
  <2> QED BY <1>4, <1>5, <2>2, NoEntry
<1> DEFINE r == q - (n + 1)
<1>7. r \in Nat /\ r \in 0 .. m /\ q = n + 1 + r
  <2> HIDE DEF n, m
  <2> QED BY <1>1, <1>2, <1>6
<1> HIDE DEF r
<1> DEFINE v == UpTo(e.value, r)  f == [key |-> e.key, value |-> v]  y == Fields(f)
<1>8. v \in Seq(Symbol) /\ Len(v) = r /\ \A i \in 1 .. r : v[i] = e.value[i]
  <2> DEFINE u == e.value
  <2>1. /\ u \in Seq(Symbol) /\ 1 <= r + 1 /\ r <= Len(u) /\ r - 1 + 1 = r
        /\ \A i \in 1 .. r : 1 + i - 1 = i
    BY <1>1, <1>3, <1>7
  <2> HIDE DEF u
  <2>2. /\ SubSeq(u, 1, r) \in Seq(Symbol) /\ Len(SubSeq(u, 1, r)) = r - 1 + 1
        /\ \A i \in 1 .. r - 1 + 1 : SubSeq(u, 1, r)[i] = u[1 + i - 1]
    BY <1>7, <2>1, Part
  <2> QED BY <2>1, <2>2 DEF UpTo, u
<1>11. IsPrefix(strtrim(v), strtrim(e.value))
  BY <1>3, <1>7, TrimPrefix
<1> HIDE DEF v
<1>9. f \in Pair /\ f.key = e.key /\ f.value = v
  BY <1>3, <1>8 DEF Pair
<1> HIDE DEF f
<1>10. y = x
  <2>1. /\ y \in Seq(Symbol) /\ Len(y) = n + 1 + r
        /\ \A i \in 1 .. n : y[i] = e.key[i]
        /\ y[n + 1] = SEP
        /\ \A i \in 1 .. r : y[n + 1 + i] = v[i]
    <3>1. LET k == Len(f.key) IN
          /\ y \in Seq(Symbol) /\ Len(y) = k + 1 + Len(f.value)
          /\ \A i \in 1 .. k : y[i] = f.key[i]
          /\ y[k + 1] = SEP
          /\ \A i \in 1 .. Len(f.value) : y[k + 1 + i] = f.value[i]
      BY <1>9, FieldsAre
    <3> HIDE DEF y
    <3> QED BY <1>8, <1>9, <3>1
  <2> HIDE DEF y, n, m
  <2>2. ASSUME NEW i \in 1 .. q PROVE y[i] = x[i]
    <3>1. CASE i <= n
      <4>1. i \in 1 .. n
        BY <1>1, <3>1
      <4> QED BY <1>1, <1>4, <2>1, <4>1
    <3>2. CASE i = n + 1
      BY <1>1, <1>4, <2>1, <3>2
    <3>3. CASE n + 1 < i
      <4> DEFINE j == i - (n + 1)
      <4>1. j \in 1 .. r /\ j \in 1 .. m /\ n + 1 + j = i
        BY <1>1, <1>7, <3>3
      <4> HIDE DEF j
      <4>2. y[n + 1 + j] = v[j] /\ v[j] = e.value[j]
        BY <1>8, <2>1, <4>1
      <4>3. x[n + 1 + j] = e.value[j]
        BY <1>1, <1>4, <4>1
      <4> QED BY <4>1, <4>2, <4>3
    <3>4. n \in Nat /\ i \in Nat
      BY <1>1, <1>2
    <3> QED BY <3>1, <3>2, <3>3, <3>4
  <2> QED BY <1>4, <1>7, <2>1, <2>2, SeqEqual
<1>12. \A i \in 1 .. Len(f.key) : f.key[i] # SEP
  BY <1>9
<1>13. Entry(strtrim(x)) = [key |-> strtrim(e.key), value |-> strtrim(v)]
  BY <1>9, <1>10, <1>12, EntryOf
<1> QED BY <1>11, <1>13 DEF x, z

LEMMA TwoLines ==
  ASSUME NEW e1 \in Pair, NEW e2 \in Pair
  PROVE  LET text == Text(<<e1, e2>>)  a == Line(e1)  b == Line(e2) IN
         /\ text \in Seq(Symbol) /\ Len(text) = Len(a) + Len(b)
         /\ \A i \in 1 .. Len(a) : text[i] = a[i]
         /\ \A i \in 1 .. Len(b) : text[Len(a) + i] = b[i]
<1> DEFINE g == <<e1, e2>>  h == <<e2>>  a == Line(e1)  b == Line(e2)
<1>1. g \in Group /\ h \in Group /\ <<>> \in Group /\ g # <<>> /\ h # <<>>
  BY DEF Group, Pair
<1>2. Head(g) = e1 /\ Tail(g) = h /\ Head(h) = e2 /\ Tail(h) = <<>>
  OBVIOUS
<1>3. /\ a \in Seq(Symbol) /\ b \in Seq(Symbol) /\ Len(a) \in Nat /\ Len(b) \in Nat
  BY LineTypes DEF Pair
<1> HIDE DEF g, h
<1>4. Text(h) = b \o <<>>
  <2>1. Text(h) = Line(Head(h)) \o Text(Tail(h))
    BY <1>1, TextHead
  <2>2. Text(<<>>) = <<>>
    BY <1>1, TextHead
  <2> QED BY <1>2, <2>1, <2>2
<1>5. Text(g) = a \o Text(h)
  <2>1. Text(g) = Line(Head(g)) \o Text(Tail(g))
    BY <1>1, TextHead
  <2> QED BY <1>2, <2>1
<1> HIDE DEF a, b
<1>6. Text(h) = b
  BY <1>3, <1>4, ConcatEmptySeq
<1> DEFINE ab == a \o b
<1>7. /\ ab \in Seq(Symbol) /\ Len(ab) = Len(a) + Len(b)
      /\ \A i \in 1 .. Len(a) + Len(b) : ab[i] = IF i <= Len(a) THEN a[i] ELSE b[i - Len(a)]
  BY <1>3, ConcatProperties
<1> HIDE DEF ab
<1>8. \A i \in 1 .. Len(a) : ab[i] = a[i]
  BY <1>3, <1>7
<1>9. ASSUME NEW i \in 1 .. Len(b) PROVE ab[Len(a) + i] = b[i]
  <2>1. /\ Len(a) + i \in 1 .. Len(a) + Len(b) /\ ~(Len(a) + i <= Len(a))
        /\ (Len(a) + i) - Len(a) = i
    BY <1>3
  <2> QED BY <1>7, <2>1
<1>10. Text(g) = ab
  BY <1>5, <1>6 DEF ab
<1> QED BY <1>7, <1>8, <1>9, <1>10 DEF a, b, g

OneLine(e) ==
  /\ \A i \in 1 .. Len(e.key) : e.key[i] \notin {SEP, NL, NUL}
  /\ \A i \in 1 .. Len(e.value) : e.value[i] \notin {NL, NUL}

\* Where lines begin and end in the beginning of a text of two entries.
LEMMA PairStarts ==
  ASSUME NEW e1 \in Pair, NEW e2 \in Pair, OneLine(e1), OneLine(e2),
         NEW n \in 0 .. Len(Text(<<e1, e2>>))
  PROVE  LET x == UpTo(Text(<<e1, e2>>), n)
             l == Len(Line(e1))
         IN  /\ x \in Seq(Symbol) /\ \A i \in 1 .. Len(x) : x[i] # NUL
             /\ \A i \in Starts(x) :
                  i = 1 \/ (i = l + 1 /\ l = Len(Fields(e1)) + 1 /\ l + 1 <= Len(x))
             /\ \A j \in 1 .. Len(x) :
                  IsEnd(x, 1, j) /\ l = Len(Fields(e1)) + 1 /\ l + 1 <= Len(x) =>
                    SubSeq(x, 1, j) = Fields(e1)
             /\ \A j \in l + 1 .. Len(x) : IsEnd(x, l + 1, j) =>
                  \E q \in 0 .. Len(Fields(e2)) :
                    SubSeq(x, l + 1, j) = UpTo(Fields(e2), q)
<1> DEFINE text == Text(<<e1, e2>>)  x == UpTo(text, n)
           a == Line(e1)  b == Line(e2)  y == Fields(e1)  z == Fields(e2)
           l == Len(a)  k == Len(b)  ly == Len(y)  lz == Len(z)
<1>1. /\ text \in Seq(Symbol) /\ Len(text) = l + k
      /\ \A i \in 1 .. l : text[i] = a[i]
      /\ \A i \in 1 .. k : text[l + i] = b[i]
  BY TwoLines
<1>2. /\ l \in Nat /\ l <= ly + 1 /\ ly \in Nat /\ y \in Seq(Symbol)
      /\ \A i \in 1 .. l : a[i] = IF i <= ly THEN y[i] ELSE NL
      /\ \A i \in 1 .. ly : y[i] \notin {NL, NUL}
  <2>1. DOMAIN e1.key = 1 .. Len(e1.key) /\ DOMAIN e1.value = 1 .. Len(e1.value)
    BY LenProperties DEF Pair
  <2>2. /\ \A j \in DOMAIN e1.key : e1.key[j] \notin {NL, NUL}
        /\ \A j \in DOMAIN e1.value : e1.value[j] \notin {NL, NUL}
    BY <2>1 DEF OneLine
  <2>3. ly \in Nat \ {0} /\ \A i \in 1 .. ly : y[i] \notin {NL, NUL}
    BY <2>2, FieldsLine
  <2>4. y \in Seq(Symbol)
    BY FieldsAre, Zenon
  <2> QED BY <2>3, <2>4, LineIs
<1>3. /\ k \in Nat /\ k <= lz + 1 /\ lz \in Nat /\ z \in Seq(Symbol)
      /\ \A i \in 1 .. k : b[i] = IF i <= lz THEN z[i] ELSE NL
      /\ \A i \in 1 .. lz : z[i] \notin {NL, NUL}
  <2>1. DOMAIN e2.key = 1 .. Len(e2.key) /\ DOMAIN e2.value = 1 .. Len(e2.value)
    BY LenProperties DEF Pair
  <2>2. /\ \A j \in DOMAIN e2.key : e2.key[j] \notin {NL, NUL}
        /\ \A j \in DOMAIN e2.value : e2.value[j] \notin {NL, NUL}
    BY <2>1 DEF OneLine
  <2>3. lz \in Nat \ {0} /\ \A i \in 1 .. lz : z[i] \notin {NL, NUL}
    BY <2>2, FieldsLine
  <2>4. z \in Seq(Symbol)
    BY FieldsAre, Zenon
  <2> QED BY <2>3, <2>4, LineIs
<1>4. n \in Nat /\ n <= l + k
  <2>1. n \in 0 .. Len(text)
    OBVIOUS
  <2> HIDE DEF text, l, k
  <2> QED BY <1>1, <1>2, <1>3, <2>1
<1> HIDE DEF text
<1>5. x \in Seq(Symbol) /\ Len(x) = n /\ \A i \in 1 .. n : x[i] = text[i]
  <2> HIDE DEF l, k
  <2>1. 1 <= n + 1 /\ 1 \in Nat \ {0} /\ n <= Len(text)
    BY <1>1, <1>4
  <2>2. /\ SubSeq(text, 1, n) \in Seq(Symbol) /\ Len(SubSeq(text, 1, n)) = n - 1 + 1
        /\ \A i \in 1 .. n - 1 + 1 : SubSeq(text, 1, n)[i] = text[1 + i - 1]
    BY ONLY <1>1, <1>4, <2>1, Part
  <2>3. n - 1 + 1 = n /\ \A i \in 1 .. n : 1 + i - 1 = i
    BY <1>4
  <2> QED BY <2>2, <2>3 DEF UpTo
<1> HIDE DEF x, a, b, y, z, l, k, ly, lz
\* The symbols of x: of the first line, and of the second.
<1>6. \A i \in 1 .. n : i <= l => x[i] = IF i <= ly THEN y[i] ELSE NL
  <2>1. ASSUME NEW i \in 1 .. n, i <= l PROVE x[i] = IF i <= ly THEN y[i] ELSE NL
    <3>1. i \in 1 .. l
      BY <1>2, <1>4, <2>1
    <3> QED BY <1>1, <1>2, <1>5, <3>1
  <2> QED BY <2>1
<1>7. \A i \in 1 .. k : l + i <= n => x[l + i] = IF i <= lz THEN z[i] ELSE NL
  <2>1. ASSUME NEW i \in 1 .. k, l + i <= n PROVE x[l + i] = IF i <= lz THEN z[i] ELSE NL
    <3>1. l + i \in 1 .. n
      BY <1>2, <1>3, <1>4, <2>1
    <3> QED BY <1>1, <1>3, <1>5, <3>1
  <2> QED BY <2>1
<1>8. ASSUME NEW i \in 1 .. n, l < i
      PROVE  i - l \in 1 .. k /\ l + (i - l) = i
  BY <1>2, <1>3, <1>4, <1>8
<1>9. \A i \in 1 .. n : x[i] # NUL
  <2>1. NL # NUL
    BY TextAssumption
  <2>2. ASSUME NEW i \in 1 .. n PROVE x[i] # NUL
    <3>1. CASE i <= l
      <4>1. i <= ly => i \in 1 .. ly
        BY <1>2, <1>4
      <4> QED BY <1>2, <1>6, <2>1, <3>1, <4>1
    <3>2. CASE l < i
      <4> DEFINE j == i - l
      <4>1. j \in 1 .. k /\ l + j = i
        BY <1>8, <3>2
      <4> HIDE DEF j
      <4>2. x[i] = IF j <= lz THEN z[j] ELSE NL
        BY <1>4, <1>7, <4>1
      <4>3. j <= lz => j \in 1 .. lz
        BY <1>3, <4>1
      <4> QED BY <1>3, <2>1, <4>2, <4>3
    <3> QED BY <1>2, <1>4, <3>1, <3>2
  <2> QED BY <2>2
<1>10. ASSUME NEW i \in Starts(x), i # 1
       PROVE  i = l + 1 /\ l = ly + 1 /\ l + 1 <= n
  <2>1. i \in 1 .. n /\ x[i - 1] = NL
    BY <1>5, <1>10, StartIs
  <2> DEFINE h == i - 1
  <2>2. h \in 1 .. n /\ h + 1 = i /\ x[h] = NL
    BY <1>4, <1>10, <2>1
  <2> HIDE DEF h
  <2>3. CASE h <= l
    <3>1. ~(h <= ly)
      <4>1. h <= ly => h \in 1 .. ly
        BY <1>2, <1>4, <2>2
      <4> QED BY <1>2, <1>6, <2>2, <2>3, <4>1
    <3> QED BY <1>2, <1>4, <2>1, <2>2, <2>3, <3>1
  <2>4. CASE l < h
    <3> DEFINE j == h - l
    <3>1. j \in 1 .. k /\ l + j = h
      BY <1>8, <2>2, <2>4
    <3> HIDE DEF j
    <3>2. x[h] = IF j <= lz THEN z[j] ELSE NL
      BY <1>4, <1>7, <2>2, <3>1
    <3>3. j <= lz => j \in 1 .. lz
      BY <1>3, <3>1
    <3>4. ~(j <= lz)
      BY <1>3, <2>2, <3>2, <3>3
    <3>5. j = k
      BY <1>3, <3>1, <3>4
    <3>6. h = l + k
      BY <3>1, <3>5
    <3> QED BY <1>2, <1>3, <1>4, <2>1, <2>2, <3>6
  <2> QED BY <1>2, <1>4, <2>2, <2>3, <2>4
<1>11. ASSUME NEW j \in 1 .. n, IsEnd(x, 1, j), l = ly + 1, l + 1 <= n
       PROVE  SubSeq(x, 1, j) = y
  <2>1. (j = n \/ x[j + 1] = NL) /\ \A i \in 1 .. j : x[i] # NL
    BY <1>5, <1>11 DEF IsEnd
  <2>2. l \in 1 .. n /\ x[l] = NL
    <3>1. l \in 1 .. n /\ l <= l /\ ~(l <= ly)
      BY <1>2, <1>4, <1>11
    <3> QED BY <1>6, <3>1
  <2>3. j < l
    <3>1. l <= j => l \in 1 .. j
      BY <1>2, <1>4, <2>2
    <3> QED BY <1>2, <1>4, <2>1, <2>2, <3>1
  <2> DEFINE h == j + 1
  <2>4. h \in 1 .. n /\ h <= l /\ j # n
    BY <1>2, <1>4, <1>11, <2>3
  <2>5. x[h] = NL
    BY <2>1, <2>4
  <2> HIDE DEF h
  <2>6. ~(h <= ly)
    <3>1. h <= ly => h \in 1 .. ly
      BY <1>2, <1>4, <2>4
    <3> QED BY <1>2, <1>6, <2>4, <2>5, <3>1
  <2>7. j = ly
    BY <1>2, <1>11, <2>3, <2>6 DEF h
  <2>8. 1 <= j + 1 /\ j \in Nat /\ j <= Len(x) /\ 1 \in Nat \ {0}
    BY <1>4, <1>5
  <2>9. /\ SubSeq(x, 1, j) \in Seq(Symbol) /\ Len(SubSeq(x, 1, j)) = j - 1 + 1
        /\ \A i \in 1 .. j - 1 + 1 : SubSeq(x, 1, j)[i] = x[1 + i - 1]
    BY ONLY <1>5, <2>8, Part
  <2>10. j - 1 + 1 = j /\ \A i \in 1 .. j : 1 + i - 1 = i
    BY <2>8
  <2>11. \A i \in 1 .. j : x[i] = y[i]
    <3>1. \A i \in 1 .. j : i \in 1 .. n /\ i <= l /\ i <= ly
      BY <1>2, <1>4, <2>3, <2>7
    <3> QED BY <1>6, <3>1
  <2>12. Len(SubSeq(x, 1, j)) = Len(y) /\ \A i \in 1 .. Len(y) : SubSeq(x, 1, j)[i] = y[i]
    BY <2>7, <2>9, <2>10, <2>11 DEF ly
  <2> QED BY <1>2, <2>9, <2>12, SeqEqual
<1>12. ASSUME NEW j \in l + 1 .. n, IsEnd(x, l + 1, j)
       PROVE  \E q \in 0 .. lz : SubSeq(x, l + 1, j) = UpTo(z, q)
  <2>1. \A i \in l + 1 .. j : x[i] # NL
    BY <1>12 DEF IsEnd
  <2> DEFINE q == j - l
  <2>2. q \in 1 .. k /\ l + q = j
    BY <1>2, <1>3, <1>4, <1>12
  <2> HIDE DEF q
  <2>3. ASSUME NEW i \in 1 .. q PROVE i <= lz /\ x[l + i] = z[i]
    <3>1. i \in 1 .. k /\ l + i \in l + 1 .. j /\ l + i <= n
      BY <1>2, <1>3, <1>4, <2>2
    <3>2. x[l + i] = IF i <= lz THEN z[i] ELSE NL
      BY <1>7, <3>1
    <3> QED BY <2>1, <3>1, <3>2
  <2>4. q \in 0 .. lz
    <3>1. q \in 1 .. q
      BY <2>2
    <3>2. q <= lz
      BY <2>3, <3>1
    <3> QED BY <1>3, <2>2, <3>2
  <2> DEFINE m == l + 1
  <2>5. m \in Nat \ {0} /\ j \in Nat /\ m <= j + 1 /\ j <= Len(x) /\ j - m + 1 = q
        /\ \A i \in 1 .. q : m + i - 1 = l + i
    BY <1>2, <1>4, <1>5, <2>2
  <2> HIDE DEF m
  <2>6. /\ SubSeq(x, m, j) \in Seq(Symbol) /\ Len(SubSeq(x, m, j)) = j - m + 1
        /\ \A i \in 1 .. j - m + 1 : SubSeq(x, m, j)[i] = x[m + i - 1]
    BY ONLY SMTT(30), <1>5, <2>5, Part
  <2>7. 1 <= q + 1 /\ q \in Nat /\ q <= Len(z) /\ 1 \in Nat \ {0}
    BY <1>3, <2>4 DEF lz
  <2>8. /\ SubSeq(z, 1, q) \in Seq(Symbol) /\ Len(SubSeq(z, 1, q)) = q - 1 + 1
        /\ \A i \in 1 .. q - 1 + 1 : SubSeq(z, 1, q)[i] = z[1 + i - 1]
    BY ONLY <1>3, <2>7, Part
  <2>9. q - 1 + 1 = q /\ \A i \in 1 .. q : 1 + i - 1 = i
    BY <2>7
  <2>10. \A i \in 1 .. q : SubSeq(x, m, j)[i] = SubSeq(z, 1, q)[i]
    BY <2>3, <2>5, <2>6, <2>8, <2>9
  <2>11. SubSeq(x, m, j) = SubSeq(z, 1, q)
    BY <2>5, <2>6, <2>8, <2>9, <2>10, SeqEqual
  <2> QED BY <2>4, <2>11 DEF UpTo, m
<1>13. /\ x \in Seq(Symbol) /\ \A i \in 1 .. Len(x) : x[i] # NUL
       /\ \A i \in Starts(x) : i = 1 \/ (i = l + 1 /\ l = ly + 1 /\ l + 1 <= Len(x))
       /\ \A j \in 1 .. Len(x) :
            IsEnd(x, 1, j) /\ l = ly + 1 /\ l + 1 <= Len(x) => SubSeq(x, 1, j) = y
       /\ \A j \in l + 1 .. Len(x) : IsEnd(x, l + 1, j) =>
            \E q \in 0 .. lz : SubSeq(x, l + 1, j) = UpTo(z, q)
  BY <1>5, <1>9, <1>10, <1>11, <1>12
<1> QED BY <1>13, Zenon DEF x, text, a, y, z, l, ly, lz

LEMMA PairLoaded ==
  ASSUME NEW e1 \in Pair, NEW e2 \in Pair, OneLine(e1), OneLine(e2),
         strtrim(e1.key) = e1.key, strtrim(e2.key) = e2.key, e1.key # e2.key,
         NEW n \in 0 .. Len(Text(<<e1, e2>>)),
         NEW c, c = Loaded(UpTo(Text(<<e1, e2>>), n)).group,
         find_property(c, e1.key) # 0, find_property(c, e2.key) # 0
  PROVE  /\ c[find_property(c, e1.key)].value = strtrim(e1.value)
         /\ IsPrefix(c[find_property(c, e2.key)].value, strtrim(e2.value))
<1> DEFINE x == UpTo(Text(<<e1, e2>>), n)
           lines == Lines(x)
           l == Len(Line(e1))
           g == parse_properties(x).group
           u == find_property(c, e1.key)
           v == find_property(c, e2.key)
<1>1. /\ x \in Seq(Symbol) /\ \A i \in 1 .. Len(x) : x[i] # NUL
      /\ \A i \in Starts(x) :
           i = 1 \/ (i = l + 1 /\ l = Len(Fields(e1)) + 1 /\ l + 1 <= Len(x))
      /\ \A j \in 1 .. Len(x) :
           IsEnd(x, 1, j) /\ l = Len(Fields(e1)) + 1 /\ l + 1 <= Len(x) =>
             SubSeq(x, 1, j) = Fields(e1)
      /\ \A j \in l + 1 .. Len(x) : IsEnd(x, l + 1, j) =>
           \E q \in 0 .. Len(Fields(e2)) : SubSeq(x, l + 1, j) = UpTo(Fields(e2), q)
  BY PairStarts
<1>2. g = parse_properties(x).group /\ g \in Group /\ c = sort_properties(g)
  BY <1>1, ParseTypes, LoadedErr
<1> HIDE DEF g
<1>3. PICK f : Rearranges(f, g) /\ sort_properties(g) = [i \in DOMAIN g |-> g[f[i]]]
  BY <1>2, Sorts
<1>4. \A i \in DOMAIN c : f[i] \in DOMAIN g /\ c[i] = g[f[i]]
  BY <1>2, <1>3 DEF Rearranges, Bijection, Injection
<1>5. u \in DOMAIN c /\ c[u].key = e1.key /\ v \in DOMAIN c /\ c[v].key = e2.key
  <2>1. c \in Group
    BY <1>2, SortTypes
  <2> QED BY <2>1, FindFirst
<1> HIDE DEF x, l, u, v
<1>6. /\ f[u] \in DOMAIN g /\ g[f[u]].key = e1.key /\ c[u] = g[f[u]]
       /\ f[v] \in DOMAIN g /\ g[f[v]].key = e2.key /\ c[v] = g[f[v]]
  BY <1>4, <1>5
<1>7. (\E i \in DOMAIN g : g[i].key = e1.key) /\ \E i \in DOMAIN g : g[i].key = e2.key
  BY <1>6
<1>8. CString(x) = x
  <2>1. ~ \E k \in 1 .. Len(x) : x[k] = NUL
    BY <1>1
  <2> QED BY <1>1, <2>1, CStringIs
<1>9. g = IF \E k \in DOMAIN lines : KeyEnd(lines[k]) = 0 THEN <<>>
          ELSE [k \in DOMAIN lines |-> Entry(lines[k])]
  BY <1>2, <1>8 DEF parse_properties, lines
<1>10. \A k \in DOMAIN lines :
         \E i \in Starts(x) : \E j \in i .. Len(x) :
           IsEnd(x, i, j) /\ lines[k] = strtrim(SubSeq(x, i, j))
  BY <1>1, LinesTypes
<1> HIDE DEF lines
<1>11. DOMAIN g = DOMAIN lines /\ \A k \in DOMAIN g : KeyEnd(lines[k]) # 0 /\ g[k] = Entry(lines[k])
  <2>1. DOMAIN g # {}
    BY <1>7
  <2>2. g # <<>>
    BY <2>1
  <2> QED BY <1>9, <2>2
<1>12. l + 1 \in Starts(x) /\ l = Len(Fields(e1)) + 1 /\ l + 1 <= Len(x)
  <2>1. SUFFICES ASSUME \A i \in Starts(x) : i = 1 PROVE FALSE
    BY <1>1
  <2>2. ASSUME NEW k \in DOMAIN g PROVE lines[k] = strtrim(SubSeq(x, 1, EndOf(x, 1)))
    <3>1. PICK i \in Starts(x) : \E j \in i .. Len(x) :
            IsEnd(x, i, j) /\ lines[k] = strtrim(SubSeq(x, i, j))
      BY <1>10, <1>11
    <3>2. PICK j \in i .. Len(x) : IsEnd(x, i, j) /\ lines[k] = strtrim(SubSeq(x, i, j))
      BY <3>1
    <3>3. i = 1 /\ i \in 1 .. Len(x)
      BY <1>1, <2>1, StartIs
    <3>4. EndOf(x, i) = j
      BY <1>1, <3>2, <3>3, EndIs
    <3> QED BY <3>2, <3>3, <3>4
  <2>3. PICK h \in DOMAIN g : g[h].key = e1.key
    BY <1>7
  <2>4. PICK k \in DOMAIN g : g[k].key = e2.key
    BY <1>7
  <2>5. g[h] = g[k]
    BY <1>11, <2>2
  <2> QED BY <2>3, <2>4, <2>5
<1>13. \A i \in 1 .. Len(e1.key) : e1.key[i] # SEP
  BY DEF OneLine
<1>14. \A i \in 1 .. Len(e2.key) : e2.key[i] # SEP
  BY DEF OneLine
<1>15. ASSUME NEW k \in DOMAIN g
       PROVE  \/ g[k].key = e1.key /\ g[k].value = strtrim(e1.value)
              \/ g[k].key = e2.key /\ IsPrefix(g[k].value, strtrim(e2.value))
  <2>1. PICK i \in Starts(x) : \E j \in i .. Len(x) :
          IsEnd(x, i, j) /\ lines[k] = strtrim(SubSeq(x, i, j))
    BY <1>10, <1>11
  <2>2. PICK j \in i .. Len(x) : IsEnd(x, i, j) /\ lines[k] = strtrim(SubSeq(x, i, j))
    BY <2>1
  <2>3. KeyEnd(lines[k]) # 0 /\ g[k] = Entry(lines[k])
    BY <1>11
  <2>4. CASE i = 1
    <3>1. SubSeq(x, i, j) = Fields(e1)
      BY <1>1, <1>12, <2>2, <2>4
    <3>2. g[k] = Entry(strtrim(Fields(e1)))
      BY <2>2, <2>3, <3>1
    <3>3. g[k] = [key |-> strtrim(e1.key), value |-> strtrim(e1.value)]
      BY <1>13, <3>2, EntryOf
    <3> QED BY <3>3
  <2>5. CASE i = l + 1
    <3>1. PICK q \in 0 .. Len(Fields(e2)) : SubSeq(x, i, j) = UpTo(Fields(e2), q)
      BY <1>1, <2>2, <2>5
    <3>2. lines[k] = strtrim(UpTo(Fields(e2), q))
      BY <2>2, <3>1
    <3> DEFINE w == strtrim(UpTo(Fields(e2), q))
    <3>3. KeyEnd(w) # 0
      BY <2>3, <3>2
    <3>4. Entry(w).key = strtrim(e2.key) /\ IsPrefix(Entry(w).value, strtrim(e2.value))
      BY <1>14, <3>3, EntryBegins
    <3> QED BY <2>3, <3>2, <3>4
  <2> QED BY <1>1, <2>4, <2>5
<1>16. ASSUME NEW k \in DOMAIN g
       PROVE  /\ g[k].key = e1.key => g[k].value = strtrim(e1.value)
              /\ g[k].key = e2.key => IsPrefix(g[k].value, strtrim(e2.value))
  BY <1>15
<1> QED BY <1>16, <1>6 DEF u, v
=============================================================================
