--------------------------- MODULE ApiHelpProofs ---------------------------
(* The help is parsed in place without losing anything: for every text,    *)
(* the pointers stay in the copy, what is unread stays as it was, the      *)
(* group is what the help means, and the cache gives it back.              *)
EXTENDS ApiHelp, Induction

Comma == ","
Plain == Char \cup {","}
Sym == Plain \cup {NUL}

\* The C string at `at` in m has its NUL at e.
IsString(m, at, e) ==
  /\ at \in 1 .. Len(m) /\ e \in at .. Len(m) /\ m[e] = NUL
  /\ \A n \in at .. e - 1 : m[n] # NUL

-----------------------------------------------------------------------------
(* Sequences and what is found in them.                                    *)

\* The first c from m to n, or 0.
First(t, m, n, c) == SelectInSubSeq(t, m, n, LAMBDA x : x = c)

LEMMA FirstIs ==
  ASSUME NEW t, NEW m \in Nat \ {0}, NEW n \in Int, NEW c
  PROVE  \/ First(t, m, n, c) = 0 /\ \A i \in m .. n : t[i] # c
         \/ /\ First(t, m, n, c) \in m .. n /\ t[First(t, m, n, c)] = c
            /\ \A i \in m .. First(t, m, n, c) - 1 : t[i] # c
<1> DEFINE I == {i \in m .. n : t[i] = c}
<1>1. First(t, m, n, c) = IF I # {} THEN Min(I) ELSE 0
  BY DEF First, SelectInSubSeq
<1>2. CASE I = {}
  BY <1>1, <1>2
<1>3. CASE I # {}
  <2>1. I \subseteq Nat
    OBVIOUS
  <2>2. Min(I) \in I /\ \A i \in I : Min(I) <= i
    <3> HIDE DEF I
    <3> QED BY <1>3, <2>1, MinIs
  <2>3. ASSUME NEW i \in m .. Min(I) - 1 PROVE t[i] # c
    <3>1. Min(I) \in m .. n
      BY <2>2
    <3>2. i \in m .. n /\ ~(Min(I) <= i)
      BY <3>1
    <3> QED BY <2>2, <3>2
  <2> QED BY <1>1, <1>3, <2>2, <2>3
<1> QED BY <1>2, <1>3

-----------------------------------------------------------------------------
(* C strings in memory.                                                    *)

LEMMA StringIs ==
  ASSUME NEW S, NEW m \in Seq(S), NEW at, NEW e, IsString(m, at, e)
  PROVE  /\ Len(m) \in Nat /\ at \in Nat \ {0} /\ e \in Nat /\ at <= e /\ e <= Len(m)
         /\ End(m, at) = e /\ Str(m, at) = SubSeq(m, at, e - 1)
         /\ Str(m, at) \in Seq(S) /\ Len(Str(m, at)) = e - at
         /\ \A i \in 1 .. e - at : Str(m, at)[i] = m[at + i - 1]
<1>1. Len(m) \in Nat
  BY LenProperties
<1>2. at \in Nat \ {0} /\ e \in Nat /\ at <= e /\ e <= Len(m) /\ at <= (e - 1) + 1
      /\ e - 1 \in Nat /\ e - 1 <= Len(m) /\ (e - 1) - at + 1 = e - at
  BY <1>1 DEF IsString
<1>3. End(m, at) = e
  <2>1. End(m, at) = First(m, at, Len(m), NUL)
    BY DEF End, First
  <2>2. \/ First(m, at, Len(m), NUL) = 0 /\ \A i \in at .. Len(m) : m[i] # NUL
        \/ /\ First(m, at, Len(m), NUL) \in at .. Len(m)
           /\ m[First(m, at, Len(m), NUL)] = NUL
           /\ \A i \in at .. First(m, at, Len(m), NUL) - 1 : m[i] # NUL
    BY <1>1, <1>2, FirstIs
  <2> DEFINE f == First(m, at, Len(m), NUL)
  <2> HIDE DEF f
  <2>3. f \in at .. Len(m) /\ m[f] = NUL /\ \A i \in at .. f - 1 : m[i] # NUL
    BY <2>2, <1>1, <1>2 DEF f, IsString
  <2>4. ~(f < e) /\ ~(e < f)
    <3>1. ASSUME f < e PROVE FALSE
      <4>1. f \in at .. e - 1
        BY <1>2, <2>3, <3>1
      <4> QED BY <2>3, <4>1 DEF IsString
    <3>2. ASSUME e < f PROVE FALSE
      <4>1. e \in at .. f - 1
        BY <1>2, <2>3, <3>2
      <4> QED BY <2>3, <4>1 DEF IsString
    <3> QED BY <3>1, <3>2
  <2> QED BY <1>2, <2>1, <2>3, <2>4 DEF f
<1>4. Str(m, at) = SubSeq(m, at, e - 1)
  BY <1>3 DEF Str
<1> DEFINE n == e - 1
<1>5. n \in Nat /\ at <= n + 1 /\ n <= Len(m) /\ n - at + 1 = e - at
  BY <1>2
<1> HIDE DEF n
<1>6. /\ SubSeq(m, at, n) \in Seq(S) /\ Len(SubSeq(m, at, n)) = n - at + 1
      /\ \A i \in 1 .. n - at + 1 : SubSeq(m, at, n)[i] = m[at + i - 1]
  BY <1>2, <1>5, Part
<1> QED BY <1>1, <1>2, <1>3, <1>4, <1>5, <1>6 DEF n

\* A copy that ends in NUL holds a string wherever one looks.
LEMMA StringIn ==
  ASSUME NEW S, NEW m \in Seq(S), NEW at \in 1 .. Len(m), m[Len(m)] = NUL
  PROVE  \E e \in at .. Len(m) : IsString(m, at, e)
<1>1. Len(m) \in Nat
  BY LenProperties
<1> DEFINE I == {i \in at .. Len(m) : m[i] = NUL}
<1>2. I \subseteq Nat /\ I # {}
  BY <1>1
<1>3. PICK e \in I : \A i \in I : e <= i
  <2> HIDE DEF I
  <2> QED BY <1>2, LeastElement
<1>4. ASSUME NEW i \in at .. e - 1 PROVE m[i] # NUL
  <2>1. i \in at .. Len(m) /\ ~(e <= i)
    BY <1>1, <1>3
  <2> QED BY <1>3, <2>1
<1> QED BY <1>1, <1>3, <1>4 DEF IsString

\* A string stays what it is when memory changes elsewhere.
LEMMA SameString ==
  ASSUME NEW S, NEW m \in Seq(S), NEW w \in Seq(S), Len(w) = Len(m),
         NEW at, NEW e, IsString(m, at, e), \A i \in at .. e : w[i] = m[i]
  PROVE  IsString(w, at, e) /\ Str(w, at) = Str(m, at)
<1>1. Len(m) \in Nat /\ at \in Nat \ {0} /\ e \in Nat /\ at <= e /\ e <= Len(m)
      /\ Str(m, at) = SubSeq(m, at, e - 1)
  BY StringIs
<1>2. IsString(w, at, e)
  <2>1. e \in at .. e /\ \A n \in at .. e - 1 : n \in at .. e
    BY <1>1
  <2> QED BY <1>1, <2>1 DEF IsString
<1>3. Str(w, at) = SubSeq(w, at, e - 1)
  BY <1>2, StringIs
<1>4. SubSeq(w, at, e - 1) = SubSeq(m, at, e - 1)
  <2>1. e - 1 \in Nat /\ e - 1 <= Len(m) /\ \A i \in at .. e - 1 : w[i] = m[i]
    BY <1>1
  <2> QED BY <1>1, <2>1, SamePart
<1> QED BY <1>1, <1>2, <1>3, <1>4

LEMMA CutIs ==
  ASSUME NEW S, NUL \in S, NEW m \in Seq(S), NEW at, NEW e, IsString(m, at, e),
         NEW r \in at .. e
  PROVE  /\ Cut(m, r) \in Seq(S) /\ Len(Cut(m, r)) = Len(m)
         /\ \A i \in 1 .. Len(m) : Cut(m, r)[i] = IF i = r THEN NUL ELSE m[i]
         /\ IsString(Cut(m, r), at, r)
         /\ Str(Cut(m, r), at) = SubSeq(Str(m, at), 1, r - at)
<1>1. /\ Len(m) \in Nat /\ at \in Nat \ {0} /\ e \in Nat /\ at <= e /\ e <= Len(m)
      /\ Str(m, at) = SubSeq(m, at, e - 1)
  BY StringIs
<1>2. r \in 1 .. Len(m) /\ r # 0
  BY <1>1
<1> DEFINE w == Cut(m, r)
<1>3. w = [m EXCEPT ![r] = NUL]
  BY <1>2 DEF Cut
<1>4. /\ w \in Seq(S) /\ Len(w) = Len(m)
      /\ \A i \in 1 .. Len(m) : w[i] = IF i = r THEN NUL ELSE m[i]
  BY <1>2, <1>3, ExceptSeq
<1> HIDE DEF w
<1>5. IsString(w, at, r)
  <2>1. \A n \in at .. r - 1 : n \in at .. e - 1 /\ n \in 1 .. Len(m) /\ n # r
    BY <1>1
  <2> QED BY <1>1, <1>2, <1>4, <2>1 DEF IsString
<1>6. Str(w, at) = SubSeq(w, at, r - 1)
  BY <1>4, <1>5, StringIs
<1>7. SubSeq(w, at, r - 1) = SubSeq(m, at, r - 1)
  <2>1. r - 1 \in Nat /\ r - 1 <= Len(m) /\ \A i \in at .. r - 1 : w[i] = m[i]
    BY <1>1, <1>4
  <2> QED BY <1>1, <1>4, <2>1, SamePart
<1>8. SubSeq(SubSeq(m, at, e - 1), 1, r - at) = SubSeq(m, at, r - 1)
  <2> DEFINE j == e - 1  n == r - at
  <2>1. /\ j \in Nat /\ at <= j + 1 /\ j <= Len(m) /\ n \in Nat /\ 1 <= n + 1
        /\ n <= j - at + 1 /\ at + 1 - 1 = at /\ at + n - 1 = r - 1
    BY <1>1
  <2> HIDE DEF j, n
  <2>2. SubSeq(SubSeq(m, at, j), 1, n) = SubSeq(m, at + 1 - 1, at + n - 1)
    BY <1>1, <2>1, PartOfPart
  <2> QED BY <2>1, <2>2 DEF j, n
<1> QED BY <1>1, <1>4, <1>5, <1>6, <1>7, <1>8 DEF w

LEMMA StoreIs ==
  ASSUME NEW S, NEW m \in Seq(S), NEW at \in Nat \ {0}, NEW t \in Seq(S)
  PROVE  /\ Store(m, at, t) \in Seq(S) /\ Len(Store(m, at, t)) = Len(m)
         /\ \A i \in 1 .. Len(m) :
              Store(m, at, t)[i] =
                IF i \in at .. at + Len(t) - 1 THEN t[i - at + 1] ELSE m[i]
<1>1. Len(m) \in Nat /\ DOMAIN m = 1 .. Len(m) /\ \A i \in 1 .. Len(m) : m[i] \in S
  BY LenProperties, ElementOfSeq
<1>2. Len(t) \in Nat /\ \A i \in 1 .. Len(t) : t[i] \in S
  BY LenProperties, ElementOfSeq
<1> DEFINE v(i) == IF i \in at .. at + Len(t) - 1 THEN t[i - at + 1] ELSE m[i]
<1>3. ASSUME NEW i \in 1 .. Len(m) PROVE v(i) \in S
  BY <1>1, <1>2
<1>4. Store(m, at, t) = [i \in 1 .. Len(m) |-> v(i)]
  BY <1>1, Zenon DEF Store
<1> HIDE DEF v
<1>5. [i \in 1 .. Len(m) |-> v(i)] \in Seq(S) /\ Len([i \in 1 .. Len(m) |-> v(i)]) = Len(m)
  BY <1>1, <1>3
<1>6. \A i \in 1 .. Len(m) : [j \in 1 .. Len(m) |-> v(j)][i] = v(i)
  OBVIOUS
<1>7. \A i \in 1 .. Len(m) : Store(m, at, t)[i] = v(i)
  BY <1>4, <1>6
<1> QED BY <1>4, <1>5, <1>7 DEF v

-----------------------------------------------------------------------------
(* Pieces of a text, and strings that are cut and trimmed.                 *)

LEMMA PieceEnds ==
  ASSUME NEW S, NEW t \in Seq(S), NEW c, NEW n \in 1 .. Len(t) + 1,
         NEW e \in n .. Len(t) + 1,
         \A i \in n .. e - 1 : t[i] # c, e <= Len(t) => t[e] = c
  PROVE  /\ Piece(t, c, n) = SubSeq(t, n, e - 1) /\ Piece(t, c, n) \in Seq(S)
         /\ Len(Piece(t, c, n)) = e - n
         /\ \A i \in 1 .. e - n : Piece(t, c, n)[i] = t[n + i - 1]
<1>1. Len(t) \in Nat
  BY LenProperties
<1> DEFINE f == First(t, n, Len(t), c)
<1>2. Piece(t, c, n) = SubSeq(t, n, IF f = 0 THEN Len(t) ELSE f - 1)
  BY DEF Piece, First
<1>3. \/ f = 0 /\ \A i \in n .. Len(t) : t[i] # c
      \/ f \in n .. Len(t) /\ t[f] = c /\ \A i \in n .. f - 1 : t[i] # c
  BY <1>1, FirstIs
<1> HIDE DEF f
<1>4. (IF f = 0 THEN Len(t) ELSE f - 1) = e - 1
  <2>1. CASE f = 0
    <3>1. ~(e <= Len(t))
      <4> SUFFICES ASSUME e <= Len(t) PROVE FALSE
        OBVIOUS
      <4>1. e \in n .. Len(t) /\ t[e] = c
        BY <1>1
      <4> QED BY <1>1, <1>3, <2>1, <4>1
    <3> QED BY <1>1, <2>1, <3>1
  <2>2. CASE f # 0
    <3>1. ASSUME f < e PROVE FALSE
      <4>1. f \in n .. e - 1
        BY <1>1, <1>3, <2>2, <3>1
      <4> QED BY <1>3, <2>2, <4>1
    <3>2. ASSUME e < f PROVE FALSE
      <4>1. e \in n .. f - 1 /\ e <= Len(t)
        BY <1>1, <1>3, <2>2, <3>2
      <4> QED BY <1>3, <2>2, <4>1
    <3> QED BY <1>1, <1>3, <2>2, <3>1, <3>2
  <2> QED BY <2>1, <2>2
<1> DEFINE k == e - 1
<1>5. n \in Nat \ {0} /\ k \in Nat /\ n <= k + 1 /\ k <= Len(t) /\ k - n + 1 = e - n
  BY <1>1
<1> HIDE DEF k
<1>6. /\ SubSeq(t, n, k) \in Seq(S) /\ Len(SubSeq(t, n, k)) = k - n + 1
      /\ \A i \in 1 .. k - n + 1 : SubSeq(t, n, k)[i] = t[n + i - 1]
  BY <1>5, Part
<1> QED BY <1>2, <1>4, <1>5, <1>6 DEF k

LEMMA PieceIs ==
  ASSUME NEW S, NEW t \in Seq(S), NEW c, NEW n \in 1 .. Len(t) + 1
  PROVE  LET e == n + Len(Piece(t, c, n))
         IN  /\ e \in n .. Len(t) + 1
             /\ \A i \in n .. e - 1 : t[i] # c
             /\ e <= Len(t) => t[e] = c
             /\ Piece(t, c, n) = SubSeq(t, n, e - 1) /\ Piece(t, c, n) \in Seq(S)
             /\ \A i \in 1 .. e - n : Piece(t, c, n)[i] = t[n + i - 1]
<1>1. Len(t) \in Nat
  BY LenProperties
<1> DEFINE f == First(t, n, Len(t), c)
           e == IF f = 0 THEN Len(t) + 1 ELSE f
<1>2. \/ f = 0 /\ \A i \in n .. Len(t) : t[i] # c
      \/ f \in n .. Len(t) /\ t[f] = c /\ \A i \in n .. f - 1 : t[i] # c
  BY <1>1, FirstIs
<1> HIDE DEF f
<1>3. e \in n .. Len(t) + 1 /\ (\A i \in n .. e - 1 : t[i] # c) /\ (e <= Len(t) => t[e] = c)
  <2>1. CASE f = 0
    BY <1>1, <1>2, <2>1
  <2>2. CASE f # 0
    BY <1>1, <1>2, <2>2
  <2> QED BY <2>1, <2>2
<1> HIDE DEF e
<1>4. /\ Piece(t, c, n) = SubSeq(t, n, e - 1) /\ Piece(t, c, n) \in Seq(S)
      /\ Len(Piece(t, c, n)) = e - n
      /\ \A i \in 1 .. e - n : Piece(t, c, n)[i] = t[n + i - 1]
  BY <1>3, PieceEnds
<1>5. n + Len(Piece(t, c, n)) = e
  BY <1>1, <1>3, <1>4
<1> QED BY <1>3, <1>4, <1>5

\* A string cut at its first c is what comes before that.
LEMMA CutFirst ==
  ASSUME NEW S, NUL \in S, NEW m \in Seq(S), NEW at, NEW e, IsString(m, at, e), NEW c
  PROVE  LET r == strchr(m, at, c)
             w == Cut(m, r)
             f == IF r = 0 THEN e ELSE r
         IN  /\ w \in Seq(S) /\ Len(w) = Len(m) /\ IsString(w, at, f)
             /\ f \in at .. e /\ Str(w, at) = Before(Str(m, at), c)
             /\ Len(Str(w, at)) = f - at
             /\ \A i \in at .. f - 1 : m[i] # c
             /\ \A i \in 1 .. Len(m) : i # f => w[i] = m[i]
             /\ r # 0 => f < e /\ m[f] = c
             /\ r = 0 => w = m
<1> DEFINE r == strchr(m, at, c)
           w == Cut(m, r)
           f == IF r = 0 THEN e ELSE r
           str == Str(m, at)
<1>1. /\ Len(m) \in Nat /\ at \in Nat \ {0} /\ e \in Nat /\ at <= e /\ e <= Len(m)
      /\ End(m, at) = e /\ str \in Seq(S) /\ Len(str) = e - at
      /\ \A i \in 1 .. e - at : str[i] = m[at + i - 1]
  BY StringIs
<1>2. r = First(m, at, e - 1, c)
  BY <1>1 DEF strchr, First
<1>3. \/ r = 0 /\ \A i \in at .. e - 1 : m[i] # c
      \/ r \in at .. e - 1 /\ m[r] = c /\ \A i \in at .. r - 1 : m[i] # c
  BY <1>1, <1>2, FirstIs
<1> HIDE DEF r
<1>4. /\ w \in Seq(S) /\ Len(w) = Len(m) /\ IsString(w, at, f)
      /\ \A i \in 1 .. Len(m) : i # f => w[i] = m[i]
      /\ Str(w, at) = SubSeq(str, 1, f - at)
      /\ r = 0 => w = m
  <2>1. CASE r = 0
    <3>1. w = m /\ f = e
      BY <2>1 DEF Cut
    <3>2. SubSeq(str, 1, e - at) = str
      BY <1>1, SubSeqFull
    <3> QED BY <3>1, <3>2
  <2>2. CASE r # 0
    <3>1. r \in at .. e /\ f = r
      BY <1>1, <1>3, <2>2
    <3> QED BY <2>2, <3>1, CutIs
  <2> QED BY <2>1, <2>2
<1>5. f \in at .. e /\ (\A i \in at .. f - 1 : m[i] # c) /\ (r # 0 => f < e /\ m[f] = c)
  BY <1>1, <1>3
<1> HIDE DEF f, w
<1>6. Before(str, c) = SubSeq(str, 1, f - at) /\ Len(Before(str, c)) = f - at
  <2> HIDE DEF str
  <2> DEFINE g == f - at + 1
  <2>1. 1 \in 1 .. Len(str) + 1 /\ g \in 1 .. Len(str) + 1 /\ g - 1 = f - at
    BY <1>1, <1>5
  <2>2. ASSUME NEW i \in 1 .. g - 1 PROVE str[i] # c
    <3>1. at + i - 1 \in at .. f - 1 /\ i \in 1 .. e - at
      BY <1>1, <1>5
    <3> QED BY <1>1, <1>5, <3>1
  <2>3. ASSUME g <= Len(str) PROVE str[g] = c
    <3>1. g \in 1 .. e - at /\ at + g - 1 = f /\ f # e
      BY <1>1, <1>5, <2>3
    <3>2. m[f] = c
      BY <1>5, <3>1 DEF f
    <3> QED BY <1>1, <3>1, <3>2
  <2> HIDE DEF g
  <2>4. Piece(str, c, 1) = SubSeq(str, 1, g - 1) /\ Len(Piece(str, c, 1)) = g - 1
    <3>1. str \in Seq(S) /\ g \in 1 .. Len(str) + 1 /\ 1 \in 1 .. Len(str) + 1
      BY <1>1, <2>1
    <3> DEFINE one == 1
    <3>2. one \in 1 .. Len(str) + 1 /\ g \in one .. Len(str) + 1
      BY <3>1
    <3>3. \A i \in one .. g - 1 : str[i] # c
      BY <2>2
    <3> HIDE DEF one
    <3> QED BY <2>3, <3>1, <3>2, <3>3, PieceEnds DEF one
  <2> QED BY <2>1, <2>4 DEF Before
<1>7. /\ w \in Seq(S) /\ Len(w) = Len(m) /\ IsString(w, at, f)
      /\ f \in at .. e /\ Str(w, at) = Before(str, c)
      /\ Len(Str(w, at)) = f - at
      /\ \A i \in at .. f - 1 : m[i] # c
      /\ \A i \in 1 .. Len(m) : i # f => w[i] = m[i]
      /\ r # 0 => f < e /\ m[f] = c
      /\ r = 0 => w = m
  BY <1>4, <1>5, <1>6
<1> QED BY <1>7, Zenon DEF w, f, r, str

LEMMA TrimIs ==
  ASSUME NEW S, NEW t \in Seq(S)
  PROVE  LET last == Max({0} \cup {n \in DOMAIN t : t[n] \notin Blank})
         IN  /\ Trim(t) \in Seq(S) /\ last \in 0 .. Len(t) /\ Len(Trim(t)) <= last
             /\ \E i \in 1 .. Len(t) + 1 :
                  /\ i <= last + 1 /\ Trim(t) = SubSeq(t, i, last)
                  /\ i <= last => t[i] \notin Blank /\ t[last] \notin Blank
<1> DEFINE solid == {n \in DOMAIN t : t[n] \notin Blank}
           last == Max({0} \cup solid)
<1>1. Len(t) \in Nat /\ DOMAIN t = 1 .. Len(t)
  BY LenProperties
<1>2. last \in {0} \cup solid /\ \A n \in {0} \cup solid : n <= last
  <2>1. {0} \cup solid \subseteq 0 .. Len(t) /\ {0} \cup solid # {}
    BY <1>1
  <2> HIDE DEF solid
  <2> QED BY <1>1, <2>1, MaxIs
<1>3. last \in 0 .. Len(t)
  BY <1>1, <1>2
<1> HIDE DEF last
<1> DEFINE Trimmed ==
             /\ Trim(t) \in Seq(S) /\ last \in 0 .. Len(t) /\ Len(Trim(t)) <= last
             /\ \E i \in 1 .. Len(t) + 1 :
                  /\ i <= last + 1 /\ Trim(t) = SubSeq(t, i, last)
                  /\ i <= last => t[i] \notin Blank /\ t[last] \notin Blank
<1>4. ASSUME solid = {} PROVE Trimmed
  <2>1. last = 0 /\ Trim(t) = <<>>
    BY <1>2, <1>4 DEF Trim
  <2>2. SubSeq(t, 1, 0) = <<>> /\ <<>> \in Seq(S) /\ Len(<<>>) = 0
    BY SubSeqEmpty
  <2>3. 1 \in 1 .. Len(t) + 1 /\ ~(1 <= last) /\ 1 <= last + 1
    BY <1>1, <2>1
  <2> QED BY <1>3, <2>1, <2>2, <2>3
<1>5. ASSUME solid # {} PROVE Trimmed
  <2>1. solid \subseteq Nat /\ solid \subseteq 0 .. Len(t)
    BY <1>1
  <2>2. Min(solid) \in solid /\ Max(solid) \in solid /\ \A n \in solid : n <= Max(solid)
    <3> HIDE DEF solid
    <3> QED BY <1>1, <1>5, <2>1, MinIs, MaxIs
  <2> DEFINE i == Min(solid)  j == Max(solid)
  <2>3. Trim(t) = SubSeq(t, i, j)
    BY <1>5 DEF Trim
  <2>7. i \in solid /\ j \in solid /\ \A n \in solid : n <= j
    BY <2>2
  <2> HIDE DEF i, j
  <2>4. j = last
    <3>1. j <= last /\ last \in Nat /\ j \in Nat \ {0}
      BY <1>1, <1>2, <1>3, <2>7
    <3>2. last \in solid
      BY <1>2, <3>1
    <3> QED BY <2>7, <3>1, <3>2
  <2>5. /\ i \in 1 .. Len(t) + 1 /\ i <= last /\ t[i] \notin Blank /\ t[last] \notin Blank
        /\ i \in Nat \ {0} /\ last \in Nat
    BY <1>1, <1>3, <2>4, <2>7
  <2>6. Trim(t) \in Seq(S) /\ Len(Trim(t)) = last - i + 1
    BY <1>1, <1>3, <2>3, <2>4, <2>5, Part
  <2> QED BY <1>3, <2>3, <2>4, <2>5, <2>6
<1>6. Trimmed
  BY <1>4, <1>5
<1> QED BY <1>6, Zenon DEF last

LEMMA TrimString ==
  ASSUME NEW S, NUL \in S, NEW m \in Seq(S), NEW at, NEW e, IsString(m, at, e)
  PROVE  LET w == strtrim(m, at)
             str == Trim(Str(m, at))
         IN  /\ w \in Seq(S) /\ Len(w) = Len(m)
             /\ IsString(w, at, at + Len(str)) /\ Str(w, at) = str
             /\ Len(str) <= e - at
             /\ \A i \in 1 .. Len(m) : i < at \/ i >= e => w[i] = m[i]
<1> DEFINE str == Str(m, at)
           last == Max({0} \cup {n \in DOMAIN str : str[n] \notin Blank})
           new == Trim(str)
           cut == Cut(m, at + last)
           w == Store(cut, at, Append(new, NUL))
<1>1. /\ Len(m) \in Nat /\ at \in Nat \ {0} /\ e \in Nat /\ at <= e /\ e <= Len(m)
      /\ str \in Seq(S) /\ Len(str) = e - at
      /\ \A i \in 1 .. e - at : str[i] = m[at + i - 1]
  BY StringIs, SMTT(20)
<1>2. strtrim(m, at) = w
  BY DEF strtrim
<1>3. new \in Seq(S) /\ last \in 0 .. Len(str) /\ Len(new) <= last
  <2> HIDE DEF str
  <2> QED BY <1>1, TrimIs
<1>10. \E i \in 1 .. Len(str) + 1 : i <= last + 1 /\ new = SubSeq(str, i, last)
  <2> HIDE DEF str
  <2> QED BY <1>1, TrimIs
<1>11. \A i \in 1 .. Len(new) : new[i] # NUL
  <2> HIDE DEF last
  <2>1. PICK i \in 1 .. Len(str) + 1 : i <= last + 1 /\ new = SubSeq(str, i, last)
    BY <1>10
  <2>2. /\ Len(new) = last - i + 1 /\ \A k \in 1 .. last - i + 1 : new[k] = str[i + k - 1]
    <3>1. i \in Nat \ {0} /\ last \in Nat /\ last <= Len(str) /\ i <= last + 1
      BY <1>1, <1>3, <2>1
    <3> HIDE DEF str
    <3> QED BY <1>1, <2>1, <3>1, Part
  <2>3. ASSUME NEW k \in 1 .. Len(new) PROVE new[k] # NUL
    <3>1. i + k - 1 \in 1 .. e - at /\ at + (i + k - 1) - 1 \in at .. e - 1
      BY <1>1, <1>3, <2>1, <2>2
    <3>2. new[k] = m[at + (i + k - 1) - 1]
      BY <1>1, <2>2, <3>1
    <3> QED BY <3>1, <3>2 DEF IsString
  <2> QED BY <2>3
<1> HIDE DEF last, new
<1>4. at + last \in at .. e /\ Len(new) \in Nat /\ last \in Nat
  BY <1>1, <1>3, LenProperties
<1>5. /\ cut \in Seq(S) /\ Len(cut) = Len(m)
      /\ \A i \in 1 .. Len(m) : cut[i] = IF i = at + last THEN NUL ELSE m[i]
  BY <1>4, CutIs
<1> HIDE DEF cut
<1> DEFINE ended == Append(new, NUL)
<1>6. /\ ended \in Seq(S) /\ Len(ended) = Len(new) + 1 /\ ended[Len(new) + 1] = NUL
      /\ \A i \in 1 .. Len(new) : ended[i] = new[i]
  BY <1>3, AppendProperties
<1> HIDE DEF ended
<1>7. /\ w \in Seq(S) /\ Len(w) = Len(m)
      /\ \A i \in 1 .. Len(m) :
           w[i] = IF i \in at .. at + Len(new) THEN ended[i - at + 1] ELSE cut[i]
  <2>1. Store(cut, at, ended) \in Seq(S) /\ Len(Store(cut, at, ended)) = Len(cut)
        /\ \A i \in 1 .. Len(cut) :
              Store(cut, at, ended)[i] =
                IF i \in at .. at + Len(ended) - 1 THEN ended[i - at + 1] ELSE cut[i]
    BY <1>1, <1>5, <1>6, StoreIs
  <2>2. at + Len(ended) - 1 = at + Len(new)
    BY <1>1, <1>4, <1>6
  <2> QED BY <1>5, <2>1, <2>2 DEF ended
<1> HIDE DEF w
<1> DEFINE f == at + Len(new)
<1>8. f \in at .. e /\ f <= Len(m) /\ f \in 1 .. Len(m)
  BY <1>1, <1>3, <1>4
<1>9. IsString(w, at, f)
  <2>1. w[f] = NUL
    <3>1. f \in at .. at + Len(new) /\ f - at + 1 = Len(new) + 1
      BY <1>1, <1>4
    <3> QED BY <1>6, <1>7, <1>8, <3>1
  <2>2. ASSUME NEW i \in at .. f - 1 PROVE w[i] # NUL
    <3>1. i \in 1 .. Len(m) /\ i \in at .. at + Len(new) /\ i - at + 1 \in 1 .. Len(new)
      BY <1>1, <1>4, <1>8
    <3> QED BY <1>6, <1>7, <1>11, <3>1
  <2> QED BY <1>1, <1>7, <1>8, <2>1, <2>2 DEF IsString
<1>12. Str(w, at) = new
  <2>1. /\ Str(w, at) \in Seq(S) /\ Len(Str(w, at)) = f - at
        /\ \A i \in 1 .. f - at : Str(w, at)[i] = w[at + i - 1]
    BY <1>7, <1>9, StringIs
  <2>2. f - at = Len(new)
    BY <1>1, <1>4
  <2>3. ASSUME NEW i \in 1 .. Len(new) PROVE Str(w, at)[i] = new[i]
    <3>1. /\ at + i - 1 \in 1 .. Len(m) /\ at + i - 1 \in at .. at + Len(new)
          /\ (at + i - 1) - at + 1 = i
      BY <1>1, <1>4, <1>8
    <3> QED BY <1>6, <1>7, <2>1, <2>2, <3>1
  <2> QED BY <1>3, <2>1, <2>2, <2>3, SeqEqual
<1>13. ASSUME NEW i \in 1 .. Len(m), i < at \/ i >= e PROVE w[i] = m[i]
  <2>1. CASE i = f
    <3>1. i = e /\ w[f] = NUL
      BY <1>1, <1>8, <1>9, <1>13, <2>1 DEF IsString
    <3> QED BY <2>1, <3>1 DEF IsString
  <2>2. CASE i # f
    <3>1. i \notin at .. at + Len(new)
      BY <1>1, <1>4, <1>8, <1>13, <2>2, SMTT(60)
    <3>2. w[i] = cut[i]
      BY <1>7, <3>1
    <3>3. i = at + last => m[i] = NUL
      <4>1. i = at + last => i = e
        BY <1>1, <1>4, <1>13
      <4> QED BY <4>1 DEF IsString
    <3> QED BY <1>5, <3>2, <3>3
  <2> QED BY <2>1, <2>2
<1>14. Len(new) <= e - at
  BY <1>1, <1>8, <1>4
<1> QED BY <1>2, <1>7, <1>9, <1>12, <1>13, <1>14 DEF new, str, w, cut, last, ended, f

-----------------------------------------------------------------------------
(* A line of the help, cut up in memory.                                   *)

\* Two slashes at n of a text.
SlashesAt(t, n) == n + 1 <= Len(t) /\ t[n] = "/" /\ t[n + 1] = "/"

LEMMA SlashesAre ==
  ASSUME NEW S, NEW t \in Seq(S), NEW n \in 1 .. Len(t)
  PROVE  IsPrefix(<<"/", "/">>, SubSeq(t, n, Len(t))) <=> SlashesAt(t, n)
<1> DEFINE u == SubSeq(t, n, Len(t))  two == <<"/", "/">>
<1>1. Len(t) \in Nat
  BY LenProperties
<1>2. /\ u \in Seq(S) /\ Len(u) = Len(t) - n + 1
      /\ \A i \in 1 .. Len(t) - n + 1 : u[i] = t[n + i - 1]
  BY <1>1, Part
<1> HIDE DEF u
<1>3. Len(two) = 2 /\ two[1] = "/" /\ two[2] = "/" /\ SubSeq(two, 1, 2) = two
  <2>1. two \in Seq({"/"}) /\ Len(two) = 2 /\ two[1] = "/" /\ two[2] = "/"
    OBVIOUS
  <2> HIDE DEF two
  <2>2. SubSeq(two, 1, Len(two)) = two
    BY <2>1, SubSeqFull
  <2> QED BY <2>1, <2>2
<1>4. IsPrefix(two, u) <=> 2 <= Len(u) /\ two = SubSeq(u, 1, 2)
  BY <1>3 DEF IsPrefix
<1> HIDE DEF two
<1>5. ASSUME 2 <= Len(u) PROVE two = SubSeq(u, 1, 2) <=> u[1] = "/" /\ u[2] = "/"
  <2> DEFINE v == SubSeq(u, 1, 2)
  <2>1. v \in Seq(S) /\ Len(v) = 2 /\ v[1] = u[1] /\ v[2] = u[2]
    <3>1. \A i \in 1 .. 2 : u[i] \in S
      BY <1>2, <1>5, ElementOfSeq
    <3> DEFINE a == 1  b == 2
    <3>2. a \in Int /\ b \in Int /\ \A i \in a .. b : u[i] \in S
      BY <3>1
    <3> HIDE DEF a, b
    <3>3. /\ SubSeq(u, a, b) \in Seq(S)
          /\ Len(SubSeq(u, a, b)) = (IF a <= b THEN b - a + 1 ELSE 0)
          /\ \A i \in 1 .. b - a + 1 : SubSeq(u, a, b)[i] = u[a + i - 1]
      BY <3>2, SubSeqProperties
    <3> QED BY <3>3 DEF a, b
  <2> HIDE DEF v
  <2>2. v = <<v[1], v[2]>>
    BY <2>1
  <2> QED BY <1>3, <2>1, <2>2 DEF two, v
<1>6. 2 <= Len(u) => u[1] = t[n] /\ u[2] = t[n + 1]
  <2> DEFINE a == 1  b == 2
  <2> SUFFICES ASSUME 2 <= Len(u) PROVE u[a] = t[n] /\ u[b] = t[n + 1]
    OBVIOUS
  <2>1. a \in 1 .. Len(t) - n + 1 /\ b \in 1 .. Len(t) - n + 1 /\ n + a - 1 = n /\ n + b - 1 = n + 1
    BY <1>1, <1>2
  <2> HIDE DEF a, b
  <2> QED BY <1>2, <2>1
<1>7. 2 <= Len(u) <=> n + 1 <= Len(t)
  BY <1>1, <1>2
<1> QED BY <1>4, <1>5, <1>6, <1>7 DEF u, two, SlashesAt

\* A string cut at its first two slashes.
LEMMA CutSlashes ==
  ASSUME NEW S, NUL \in S, NEW m \in Seq(S), NEW at, NEW e, IsString(m, at, e)
  PROVE  LET r == strstr(m, at, "/")
             w == Cut(m, r)
             f == IF r = 0 THEN e ELSE r
         IN  /\ w \in Seq(S) /\ Len(w) = Len(m) /\ IsString(w, at, f) /\ f \in at .. e
             /\ \A i \in at .. f - 1 : ~(i + 1 < e /\ m[i] = "/" /\ m[i + 1] = "/")
             /\ \A i \in 1 .. Len(m) : i # f => w[i] = m[i]
             /\ r # 0 => f + 1 < e /\ m[f] = "/" /\ m[f + 1] = "/"
<1> DEFINE found == {n \in at .. e - 2 : m[n] = "/" /\ m[n + 1] = "/"}
           r == strstr(m, at, "/")
           w == Cut(m, r)
           f == IF r = 0 THEN e ELSE r
<1>1. /\ Len(m) \in Nat /\ at \in Nat \ {0} /\ e \in Nat /\ at <= e /\ e <= Len(m)
      /\ End(m, at) = e
  BY StringIs
<1>2. r = IF found = {} THEN 0 ELSE Min(found)
  BY <1>1 DEF strstr
<1>3. found # {} => Min(found) \in found /\ \A n \in found : Min(found) <= n
  <2>1. found \subseteq Nat
    BY <1>1
  <2> HIDE DEF found
  <2> QED BY <2>1, MinIs
<1>4. CASE found = {}
  <2>1. r = 0 /\ w = m /\ f = e
    BY <1>2, <1>4 DEF Cut
  <2>2. ASSUME NEW i \in at .. e - 1 PROVE ~(i + 1 < e /\ m[i] = "/" /\ m[i + 1] = "/")
    <3>1. i + 1 < e => i \in at .. e - 2
      BY <1>1
    <3> QED BY <1>4, <3>1
  <2> HIDE DEF r, w, f
  <2>3. e \in at .. e
    BY <1>1
  <2> QED BY <2>1, <2>2, <2>3 DEF r, w, f
<1>5. CASE found # {}
  <2>1. r \in found /\ \A n \in found : r <= n
    BY <1>2, <1>3, <1>5
  <2>2. r \in at .. e - 2 /\ m[r] = "/" /\ m[r + 1] = "/" /\ r # 0 /\ f = r
    BY <1>1, <2>1
  <2>3. ASSUME NEW i \in at .. r - 1 PROVE ~(i + 1 < e /\ m[i] = "/" /\ m[i + 1] = "/")
    <3>1. i + 1 < e => i \in at .. e - 2 /\ ~(r <= i)
      BY <1>1, <2>2
    <3> QED BY <2>1, <3>1
  <2>4. r \in at .. e /\ r + 1 < e
    BY <1>1, <2>2
  <2>5. /\ w \in Seq(S) /\ Len(w) = Len(m) /\ IsString(w, at, r)
        /\ \A i \in 1 .. Len(m) : i # r => w[i] = m[i]
    <3> HIDE DEF r
    <3> QED BY <2>4, CutIs
  <2> HIDE DEF found, r, w, f
  <2> QED BY <2>2, <2>3, <2>4, <2>5 DEF r, w, f
<1> QED BY <1>4, <1>5

\* The cuts at a comment and at the end of the parameters (m2 to m4 of Line).
Signed(m, at) ==
  LET m2 == Cut(m, strchr(m, at, "#"))
      m3 == Cut(m2, strstr(m2, at, "/"))
  IN  Cut(m3, strchr(m3, at, ")"))

LEMMA SignedIs ==
  ASSUME NEW S, NUL \in S, NEW m \in Seq(S), NEW at, NEW e, IsString(m, at, e)
  PROVE  LET w == Signed(m, at)
             sig == Signature(Str(m, at))
         IN  /\ w \in Seq(S) /\ Len(w) = Len(m)
             /\ sig \in Seq(S) /\ at + Len(sig) \in at .. e
             /\ IsString(w, at, at + Len(sig)) /\ Str(w, at) = sig
             /\ \A i \in 1 .. Len(m) : i < at + Len(sig) \/ i >= e => w[i] = m[i]
<1> DEFINE m2 == Cut(m, strchr(m, at, "#"))
           m3 == Cut(m2, strstr(m2, at, "/"))
           m4 == Cut(m3, strchr(m3, at, ")"))
           f2 == IF strchr(m, at, "#") = 0 THEN e ELSE strchr(m, at, "#")
           f3 == IF strstr(m2, at, "/") = 0 THEN f2 ELSE strstr(m2, at, "/")
           f4 == IF strchr(m3, at, ")") = 0 THEN f3 ELSE strchr(m3, at, ")")
           line == Str(m, at)
<1>1. /\ Len(m) \in Nat /\ at \in Nat \ {0} /\ e \in Nat /\ at <= e /\ e <= Len(m)
      /\ line \in Seq(S) /\ Len(line) = e - at
      /\ \A i \in 1 .. e - at : line[i] = m[at + i - 1]
  BY StringIs
<1>2. /\ m2 \in Seq(S) /\ Len(m2) = Len(m) /\ IsString(m2, at, f2) /\ f2 \in at .. e
      /\ \A i \in at .. f2 - 1 : m[i] # "#"
      /\ \A i \in 1 .. Len(m) : i # f2 => m2[i] = m[i]
      /\ f2 # e => m[f2] = "#"
  <2>1. LET r == strchr(m, at, "#")
            w == Cut(m, r)
            f == IF r = 0 THEN e ELSE r
        IN  /\ w \in Seq(S) /\ Len(w) = Len(m) /\ IsString(w, at, f)
            /\ f \in at .. e
            /\ \A i \in at .. f - 1 : m[i] # "#"
            /\ \A i \in 1 .. Len(m) : i # f => w[i] = m[i]
            /\ r # 0 => f < e /\ m[f] = "#"
    BY CutFirst
  <2> QED BY <2>1
<1> HIDE DEF m2, f2
<1>3. /\ m3 \in Seq(S) /\ Len(m3) = Len(m) /\ IsString(m3, at, f3) /\ f3 \in at .. f2
      /\ \A i \in at .. f3 - 1 : ~(i + 1 < f2 /\ m2[i] = "/" /\ m2[i + 1] = "/")
      /\ \A i \in 1 .. Len(m) : i # f3 => m3[i] = m2[i]
      /\ f3 # f2 => f3 + 1 < f2 /\ m2[f3] = "/" /\ m2[f3 + 1] = "/"
  <2>1. LET r == strstr(m2, at, "/")
            w == Cut(m2, r)
            f == IF r = 0 THEN f2 ELSE r
        IN  /\ w \in Seq(S) /\ Len(w) = Len(m2) /\ IsString(w, at, f) /\ f \in at .. f2
            /\ \A i \in at .. f - 1 : ~(i + 1 < f2 /\ m2[i] = "/" /\ m2[i + 1] = "/")
            /\ \A i \in 1 .. Len(m2) : i # f => w[i] = m2[i]
            /\ r # 0 => f + 1 < f2 /\ m2[f] = "/" /\ m2[f + 1] = "/"
    <3>1. m2 \in Seq(S) /\ IsString(m2, at, f2)
      BY <1>2
    <3> QED BY ONLY <3>1, NUL \in S, CutSlashes
  <2> QED BY <1>2, <2>1
<1> HIDE DEF m3, f3
<1>4. /\ m4 \in Seq(S) /\ Len(m4) = Len(m) /\ IsString(m4, at, f4) /\ f4 \in at .. f3
      /\ \A i \in at .. f4 - 1 : m3[i] # ")"
      /\ \A i \in 1 .. Len(m) : i # f4 => m4[i] = m3[i]
      /\ f4 # f3 => m3[f4] = ")"
  <2>1. LET r == strchr(m3, at, ")")
            w == Cut(m3, r)
            f == IF r = 0 THEN f3 ELSE r
        IN  /\ w \in Seq(S) /\ Len(w) = Len(m3) /\ IsString(w, at, f)
            /\ f \in at .. f3
            /\ \A i \in at .. f - 1 : m3[i] # ")"
            /\ \A i \in 1 .. Len(m3) : i # f => w[i] = m3[i]
            /\ r # 0 => f < f3 /\ m3[f] = ")"
    BY <1>3, CutFirst
  <2> QED BY <1>3, <2>1
<1> HIDE DEF m4, f4
<1>5. /\ f2 \in Nat /\ f3 \in Nat /\ f4 \in Nat
      /\ at <= f4 /\ f4 <= f3 /\ f3 <= f2 /\ f2 <= e
  BY <1>1, <1>2, <1>3, <1>4
<1>6. ASSUME NEW i \in 1 .. Len(m), i < f4 \/ i >= e PROVE m4[i] = m[i]
  <2>1. CASE i < f4
    <3>1. i # f4 /\ i # f3 /\ i # f2
      BY <1>5, <2>1
    <3> QED BY <1>2, <1>3, <1>4, <3>1
  <2>2. CASE i >= e
    <3>1. i = f4 \/ i = f3 \/ i = f2 => i = e
      BY <1>1, <1>5, <2>2
    <3>2. m[e] = NUL /\ m4[f4] = NUL /\ m3[f3] = NUL /\ m2[f2] = NUL
      BY <1>2, <1>3, <1>4 DEF IsString
    <3> QED BY <1>2, <1>3, <1>4, <3>1, <3>2
  <2> QED BY <1>1, <1>6, <1>5, <2>1, <2>2
<1> DEFINE ends == {n \in DOMAIN line : \/ line[n] \in {"#", ")"}
                                        \/ IsPrefix(<<"/", "/">>, SubSeq(line, n, Len(line)))}
           k == f4 - at
           sig == Signature(line)
<1>7. DOMAIN line = 1 .. e - at
  BY <1>1, LenProperties
<1>8. ASSUME NEW n \in ends PROVE k + 1 <= n
  <2>1. n \in 1 .. e - at /\ line[n] = m[at + n - 1] /\ at + n - 1 \in 1 .. Len(m)
    BY <1>1, <1>7
  <2> DEFINE i == at + n - 1
  <2>2. i \in Nat /\ i >= at /\ i < e
    BY <1>1, <2>1
  <2>3. SUFFICES ASSUME i < f4 PROVE FALSE
    BY <1>1, <1>5, <2>1, <2>2
  <2>4. i \in at .. f4 - 1 /\ i \in at .. f3 - 1 /\ i \in at .. f2 - 1 /\ i # f2 /\ i # f3
    BY <1>5, <2>2, <2>3
  <2>5. m2[i] = m[i] /\ m3[i] = m[i]
    BY <1>2, <1>3, <2>1, <2>4
  <2>6. m[i] # "#" /\ m[i] # ")"
    BY <1>2, <1>4, <2>4, <2>5
  <2>7. IsPrefix(<<"/", "/">>, SubSeq(line, n, Len(line)))
    BY <2>1, <2>6
  <2>8. SlashesAt(line, n)
    BY <1>1, <2>1, <2>7, SlashesAre
  <2>9. n + 1 \in 1 .. e - at /\ at + (n + 1) - 1 = i + 1 /\ m[i] = "/" /\ line[n + 1] = "/"
    BY <1>1, <2>1, <2>8 DEF SlashesAt
  <2>10. m[i + 1] = "/" /\ i + 1 < e /\ i + 1 \in 1 .. Len(m)
    <3> DEFINE j == n + 1
    <3>1. j \in 1 .. e - at /\ at + j - 1 = i + 1 /\ line[j] = "/"
      BY <2>9
    <3> HIDE DEF i, j
    <3>2. m[i + 1] = "/"
      BY <1>1, <3>1
    <3>3. i + 1 < e /\ i + 1 >= at
      BY <1>1, <3>1
    <3> QED BY <1>1, <3>2, <3>3, <2>2
  <2>11. i + 1 < f2 /\ m2[i + 1] = "/"
    <3>1. i + 1 # f2
      <4> SUFFICES ASSUME i + 1 = f2 PROVE FALSE
        OBVIOUS
      <4>1. f2 # e
        BY <2>10
      <4> QED BY <1>2, <2>10, <4>1
    <3>2. i + 1 < f2
      BY <1>5, <2>2, <2>4, <3>1
    <3> QED BY <1>2, <2>10, <3>1, <3>2
  <2> HIDE DEF i
  <2> QED BY <1>3, <2>4, <2>5, <2>9, <2>11
<1>9. f4 # e => k + 1 \in ends
  <2> SUFFICES ASSUME f4 # e PROVE k + 1 \in ends
    OBVIOUS
  <2>1. k + 1 \in 1 .. e - at /\ at + (k + 1) - 1 = f4 /\ f4 \in 1 .. Len(m)
    BY <1>1, <1>5
  <2>2. line[k + 1] = m[f4]
    BY <1>1, <2>1
  <2>3. CASE f4 # f3
    <3>1. f4 # f2
      BY <1>5, <2>3
    <3>2. m[f4] = ")"
      BY <1>2, <1>3, <1>4, <2>1, <2>3, <3>1
    <3> QED BY <1>7, <2>1, <2>2, <3>2
  <2>4. CASE f4 = f3 /\ f3 # f2
    <3>1. /\ f3 + 1 < f2 /\ m2[f3] = "/" /\ m2[f3 + 1] = "/"
          /\ f3 + 1 \in 1 .. Len(m) /\ f3 + 1 # f2 /\ f3 + 1 < e
      BY <1>1, <1>3, <1>5, <2>4
    <3>2. m[f4] = "/" /\ m[f3 + 1] = "/"
      BY <1>2, <2>1, <2>4, <3>1
    <3>3. (k + 1) + 1 \in 1 .. e - at /\ at + ((k + 1) + 1) - 1 = f3 + 1
      BY <1>1, <1>5, <2>4, <3>1
    <3>4. line[(k + 1) + 1] = "/"
      BY <1>1, <3>2, <3>3
    <3>5. SlashesAt(line, k + 1)
      BY <1>1, <2>2, <3>2, <3>3, <3>4 DEF SlashesAt
    <3> HIDE DEF line
    <3>6. IsPrefix(<<"/", "/">>, SubSeq(line, k + 1, Len(line)))
      BY <1>1, <2>1, <3>5, SlashesAre
    <3> QED BY <1>7, <2>1, <3>6
  <2>5. CASE f4 = f3 /\ f3 = f2
    <3>1. m[f4] = "#"
      BY <1>2, <2>5
    <3> QED BY <1>7, <2>1, <2>2, <3>1
  <2> QED BY <2>3, <2>4, <2>5
<1>10. sig = SubSeq(line, 1, k)
  <2>1. sig = IF ends = {} THEN line ELSE SubSeq(line, 1, Min(ends) - 1)
    BY DEF Signature
  <2>2. CASE f4 = e
    <3>1. ends = {}
      <4> SUFFICES ASSUME NEW n \in ends PROVE FALSE
        OBVIOUS
      <4>1. k + 1 <= n /\ n \in 1 .. e - at
        BY <1>7, <1>8
      <4> QED BY <1>1, <2>2, <4>1
    <3>2. sig = line
      BY <2>1, <3>1
    <3> HIDE DEF line
    <3> QED BY <1>1, <2>2, <3>2, SubSeqFull
  <2>3. CASE f4 # e
    <3>1. k + 1 \in ends /\ ends \subseteq Nat /\ ends # {}
      BY <1>7, <1>9, <2>3
    <3> HIDE DEF ends
    <3>2. Min(ends) \in ends /\ Min(ends) <= k + 1
      BY <3>1, MinIs
    <3>3. Min(ends) = k + 1
      <4>1. Min(ends) \in Nat /\ k + 1 <= Min(ends)
        BY <1>8, <3>1, <3>2
      <4>2. k \in Int
        BY <1>1, <1>5
      <4> HIDE DEF k
      <4> QED BY <3>2, <4>1, <4>2
    <3>4. Min(ends) - 1 = k
      BY <1>1, <1>5, <3>3
    <3> QED BY <2>1, <3>1, <3>4
  <2> QED BY <2>2, <2>3
<1> HIDE DEF ends, sig
<1>11. sig \in Seq(S) /\ Len(sig) = k
  <2>1. k \in Nat /\ 1 <= k + 1 /\ k <= Len(line) /\ k - 1 + 1 = k
    BY <1>1, <1>5
  <2> DEFINE one == 1
  <2>2. one \in Nat \ {0} /\ one <= k + 1 /\ k - one + 1 = k
    BY <2>1
  <2> HIDE DEF line, k, one
  <2>3. SubSeq(line, one, k) \in Seq(S) /\ Len(SubSeq(line, one, k)) = k - one + 1
    BY <1>1, <2>1, <2>2, Part
  <2> QED BY <1>10, <2>2, <2>3 DEF one
<1>12. at + Len(sig) = f4
  BY <1>1, <1>5, <1>11
<1>13. Str(m4, at) = sig
  <2>1. /\ Str(m4, at) \in Seq(S) /\ Len(Str(m4, at)) = k
        /\ \A i \in 1 .. k : Str(m4, at)[i] = m4[at + i - 1]
    BY <1>4, StringIs
  <2>2. ASSUME NEW i \in 1 .. k PROVE Str(m4, at)[i] = sig[i]
    <3>1. at + i - 1 \in 1 .. Len(m) /\ at + i - 1 < f4 /\ i \in 1 .. e - at
      BY <1>1, <1>5
    <3>2. m4[at + i - 1] = line[i]
      BY <1>1, <1>6, <3>1
    <3>3. sig[i] = line[i]
      <4>1. k \in Nat /\ k <= Len(line)
        BY <1>1, <1>5
      <4> HIDE DEF line, k
      <4> QED BY <1>1, <1>10, <4>1
    <3> QED BY <2>1, <3>2, <3>3
  <2> QED BY <1>11, <2>1, <2>2, SeqEqual
<1>14. /\ m4 \in Seq(S) /\ Len(m4) = Len(m)
       /\ sig \in Seq(S) /\ at + Len(sig) \in at .. e
       /\ IsString(m4, at, at + Len(sig)) /\ Str(m4, at) = sig
       /\ \A i \in 1 .. Len(m) : i < at + Len(sig) \/ i >= e => m4[i] = m[i]
  <2>1. f4 \in at .. e
    BY <1>1, <1>5
  <2> DEFINE g == at + Len(sig)
  <2>2. g = f4
    BY <1>12
  <2> HIDE DEF g
  <2>3. /\ g \in at .. e /\ IsString(m4, at, g)
        /\ \A i \in 1 .. Len(m) : i < g \/ i >= e => m4[i] = m[i]
    BY <1>4, <1>6, <2>1, <2>2
  <2> QED BY <1>4, <1>11, <1>13, <2>3 DEF g
<1>15. Signed(m, at) = m4
  BY DEF Signed, m2, m3, m4
<1> QED BY <1>14, <1>15, Zenon DEF sig, line

\* The name of a line trimmed, its parameters still as they came (m5 of Line).
Opened(m, at) ==
  LET m4 == Signed(m, at)
      sep == strchr(m4, at, "(")
  IN  IF sep = 0 THEN m4 ELSE strtrim(Cut(m4, sep), at)

LEMMA OpenedIs ==
  ASSUME NEW S, NUL \in S, NEW m \in Seq(S), NEW at, NEW e, IsString(m, at, e)
  PROVE  LET line == Str(m, at)
             sep == strchr(Signed(m, at), at, "(")
             m5 == Opened(m, at)
             w == strtrim(m5, sep + 1)
         IN  /\ m5 \in Seq(S) /\ Len(m5) = Len(m)
             /\ \A i \in 1 .. Len(m) : i < at \/ i >= e => m5[i] = m[i]
             /\ Documents(line) <=> sep # 0 /\ m5[at] # NUL
             /\ Name(line) \in Seq(S)
             /\ sep # 0 =>
                  /\ sep \in at .. e - 1 /\ Params(line) \in Seq(S)
                  /\ w \in Seq(S) /\ Len(w) = Len(m)
                  /\ \A i \in 1 .. Len(m) : i < at \/ i >= e => w[i] = m[i]
                  /\ at + Len(Name(line)) <= sep
                  /\ IsString(w, at, at + Len(Name(line))) /\ Str(w, at) = Name(line)
                  /\ sep + 1 + Len(Params(line)) <= e
                  /\ IsString(w, sep + 1, sep + 1 + Len(Params(line)))
                  /\ Str(w, sep + 1) = Params(line)
<1> DEFINE line == Str(m, at)
           m4 == Signed(m, at)
           sep == strchr(m4, at, "(")
           cut == Cut(m4, sep)
           m5 == Opened(m, at)
           w == strtrim(m5, sep + 1)
           sig == Signature(line)
           f == at + Len(sig)
           g == IF sep = 0 THEN f ELSE sep
           head == Before(sig, "(")
           name == Name(line)
<1>1. /\ Len(m) \in Nat /\ at \in Nat \ {0} /\ e \in Nat /\ at <= e /\ e <= Len(m)
  BY StringIs
<1>2. /\ m4 \in Seq(S) /\ Len(m4) = Len(m) /\ sig \in Seq(S) /\ f \in at .. e
      /\ IsString(m4, at, f) /\ Str(m4, at) = sig
      /\ \A i \in 1 .. Len(m) : i < f \/ i >= e => m4[i] = m[i]
  BY SignedIs
<1>3. Len(sig) \in Nat /\ f \in Nat
  BY <1>1, <1>2, LenProperties
<1> HIDE DEF m4, sig, line
<1>4. /\ cut \in Seq(S) /\ Len(cut) = Len(m) /\ IsString(cut, at, g)
      /\ g \in at .. f /\ Str(cut, at) = head
      /\ Len(head) = g - at
      /\ \A i \in at .. g - 1 : m4[i] # "("
      /\ \A i \in 1 .. Len(m) : i # g => cut[i] = m4[i]
      /\ sep # 0 => g < f /\ m4[g] = "("
  <2>1. LET r == strchr(m4, at, "(")
            v == Cut(m4, r)
            h == IF r = 0 THEN f ELSE r
        IN  /\ v \in Seq(S) /\ Len(v) = Len(m4) /\ IsString(v, at, h)
            /\ h \in at .. f /\ Str(v, at) = Before(Str(m4, at), "(")
            /\ Len(Str(v, at)) = h - at
            /\ \A i \in at .. h - 1 : m4[i] # "("
            /\ \A i \in 1 .. Len(m4) : i # h => v[i] = m4[i]
            /\ r # 0 => h < f /\ m4[h] = "("
    <3> HIDE DEF f
    <3> QED BY <1>2, CutFirst
  <2> QED BY <1>2, <2>1
<1>5. "(" \in ToSet(sig) <=> sep # 0
  <2>1. /\ Len(sig) = f - at /\ \A i \in 1 .. f - at : sig[i] = m4[at + i - 1]
    <3> HIDE DEF f
    <3> QED BY <1>2, StringIs, SMTT(20)
  <2>2. ToSet(sig) = {sig[i] : i \in 1 .. Len(sig)}
    BY <1>2, LenProperties DEF ToSet
  <2>3. ASSUME sep = 0, NEW i \in 1 .. Len(sig) PROVE sig[i] # "("
    <3>1. at + i - 1 \in at .. g - 1
      BY <1>1, <1>3, <2>3
    <3> QED BY <1>4, <2>1, <3>1
  <2>4. ASSUME sep # 0 PROVE "(" \in ToSet(sig)
    <3>1. g < f /\ m4[g] = "(" /\ g \in at .. f
      BY <1>4, <2>4
    <3> DEFINE i == g - at + 1
    <3>2. i \in 1 .. Len(sig) /\ at + i - 1 = g
      BY <1>1, <1>3, <2>1, <3>1
    <3> HIDE DEF i, g
    <3>3. sig[i] = "("
      BY <2>1, <3>1, <3>2
    <3> QED BY <2>2, <3>2, <3>3
  <2> QED BY <2>2, <2>3, <2>4
<1>6. name = Trim(head) /\ head \in Seq(S)
  <2>1. name = Trim(head)
    BY DEF Name, sig
  <2>2. head \in Seq(S)
    <3> HIDE DEF head, cut, g
    <3> QED BY <1>4, StringIs
  <2> QED BY <2>1, <2>2
<1>7. name \in Seq(S) /\ Len(name) \in Nat
  <2>1. Trim(head) \in Seq(S)
    <3> HIDE DEF head
    <3> QED BY <1>6, TrimIs
  <2> QED BY <1>6, <2>1, LenProperties
<1>8. CASE sep = 0
  <2>1. m5 = m4
    BY <1>8 DEF Opened, m4
  <2>2. \A i \in 1 .. Len(m) : i < at \/ i >= e => m4[i] = m[i]
    BY <1>1, <1>2, <1>3
  <2>3. ~Documents(line)
    BY <1>5, <1>8 DEF Documents, sig
  <2> HIDE DEF sep
  <2> QED BY <1>2, <1>7, <1>8, <2>1, <2>2, <2>3 DEF sep, line, m4
<1>9. CASE sep # 0
  <2>1. m5 = strtrim(cut, at)
    BY <1>9 DEF Opened, m4
  <2>2. g = sep /\ sep \in at .. f - 1 /\ sep \in at .. e - 1 /\ sep \in Nat \ {0} /\ m4[sep] = "("
    BY <1>1, <1>2, <1>3, <1>4, <1>9
  <2> HIDE DEF sep, g, cut, f
  <2>3. /\ m5 \in Seq(S) /\ Len(m5) = Len(m)
        /\ IsString(m5, at, at + Len(name)) /\ Str(m5, at) = name
        /\ Len(name) <= sep - at
        /\ \A i \in 1 .. Len(m) : i < at \/ i >= sep => m5[i] = cut[i]
    <3>1. LET v == strtrim(cut, at)
              str == Trim(Str(cut, at))
          IN  /\ v \in Seq(S) /\ Len(v) = Len(cut)
              /\ IsString(v, at, at + Len(str)) /\ Str(v, at) = str
              /\ Len(str) <= g - at
              /\ \A i \in 1 .. Len(cut) : i < at \/ i >= g => v[i] = cut[i]
      BY <1>4, TrimString
    <3> HIDE DEF m5, name, head
    <3> QED BY <1>4, <1>6, <2>1, <2>2, <3>1
  <2> HIDE DEF m5, name
  <2>4. m5[at] # NUL <=> name # <<>>
    <3>1. CASE Len(name) = 0
      <4>1. name = <<>> /\ at + Len(name) = at
        BY <1>1, <1>7, <3>1, EmptySeq
      <4> QED BY <2>3, <4>1 DEF IsString
    <3>2. CASE Len(name) # 0
      <4>1. name # <<>> /\ at \in at .. at + Len(name) - 1
        BY <1>1, <1>7, <3>2, EmptySeq
      <4> QED BY <2>3, <4>1 DEF IsString
    <3> QED BY <3>1, <3>2
  <2>5. Documents(line) <=> m5[at] # NUL
    BY <1>5, <1>9, <2>4 DEF Documents, sig, name
  <2>6. \A i \in 1 .. Len(m) : i < at \/ i > sep => m5[i] = m4[i]
    <3>1. ASSUME NEW i \in 1 .. Len(m), i < at \/ i > sep
          PROVE  (i < at \/ i >= sep) /\ i # sep
      BY <1>1, <2>2, <3>1
    <3> QED BY <1>4, <2>2, <2>3, <3>1
  <2>7. \A i \in 1 .. Len(m) : i < at \/ i >= e => m5[i] = m[i]
    <3>1. ASSUME NEW i \in 1 .. Len(m), i < at \/ i >= e
          PROVE  (i < at \/ i > sep) /\ (i < f \/ i >= e)
      BY <1>1, <1>2, <1>3, <2>2, <3>1
    <3> QED BY <1>2, <2>6, <3>1
  <2> DEFINE next == sep + 1
             rest == SubSeq(sig, g - at + 2, Len(sig))
  <2>8. next \in at .. f /\ next \in 1 .. Len(m) /\ f <= Len(m)
    BY <1>1, <1>2, <1>3, <2>2
  <2>9. IsString(m5, next, f)
    <3>1. m5[f] = NUL
      BY <1>1, <1>2, <1>3, <2>2, <2>6, <2>8 DEF IsString
    <3>2. ASSUME NEW i \in next .. f - 1 PROVE m5[i] # NUL
      <4>1. i \in 1 .. Len(m) /\ i > sep /\ i \in at .. f - 1
        BY <1>1, <1>3, <2>2, <2>8
      <4> QED BY <1>2, <2>6, <4>1 DEF IsString
    <3> QED BY <1>1, <1>3, <2>3, <2>8, <3>1, <3>2 DEF IsString
  <2>10. Str(m5, next) = rest
    <3>1. /\ Str(m5, next) \in Seq(S) /\ Len(Str(m5, next)) = f - next
          /\ \A i \in 1 .. f - next : Str(m5, next)[i] = m5[next + i - 1]
      <4> HIDE DEF next
      <4> QED BY <2>3, <2>9, StringIs
    <3>2. /\ Len(sig) = f - at /\ \A i \in 1 .. f - at : sig[i] = m4[at + i - 1]
      BY <1>2, StringIs, SMTT(20)
    <3> DEFINE a == g - at + 2  b == Len(sig)
    <3>3. a \in Nat \ {0} /\ b \in Nat /\ a <= b + 1 /\ b <= Len(sig) /\ b - a + 1 = f - next
      BY <1>1, <1>3, <2>2, <3>2
    <3>4. ASSUME NEW i \in 1 .. f - next
          PROVE  /\ a + i - 1 \in 1 .. f - at /\ at + (a + i - 1) - 1 = next + i - 1
                 /\ next + i - 1 \in 1 .. Len(m) /\ next + i - 1 > sep
      BY <1>1, <1>3, <2>2, <2>8, <3>2
    <3> HIDE DEF a, b, next
    <3>5. /\ SubSeq(sig, a, b) \in Seq(S) /\ Len(SubSeq(sig, a, b)) = b - a + 1
          /\ \A i \in 1 .. b - a + 1 : SubSeq(sig, a, b)[i] = sig[a + i - 1]
      <4>1. sig \in Seq(S)
        BY <1>2
      <4> QED BY ONLY <3>3, <4>1, Part
    <3>6. ASSUME NEW i \in 1 .. f - next PROVE Str(m5, next)[i] = SubSeq(sig, a, b)[i]
      <4>1. m5[next + i - 1] = m4[next + i - 1]
        BY <2>6, <3>4
      <4>2. sig[a + i - 1] = m4[next + i - 1]
        BY <3>2, <3>4
      <4> QED BY <3>1, <3>3, <3>5, <4>1, <4>2
    <3>7. Str(m5, next) = SubSeq(sig, a, b)
      BY <3>1, <3>3, <3>5, <3>6, SeqEqual
    <3> QED BY <3>7 DEF a, b
  <2>11. Params(line) = Trim(rest)
    <3>1. Len(head) + 2 = g - at + 2
      BY <1>4
    <3>2. Params(line) = Trim(SubSeq(sig, Len(head) + 2, Len(sig)))
      BY DEF Params, sig
    <3> QED BY <3>1, <3>2
  <2>12. /\ w \in Seq(S) /\ Len(w) = Len(m)
         /\ IsString(w, next, next + Len(Params(line))) /\ Str(w, next) = Params(line)
         /\ Len(Params(line)) <= f - next
         /\ \A i \in 1 .. Len(m) : i < next \/ i >= f => w[i] = m5[i]
    <3> HIDE DEF next, rest
    <3>1. LET v == strtrim(m5, next)
              str == Trim(Str(m5, next))
          IN  /\ v \in Seq(S) /\ Len(v) = Len(m5)
              /\ IsString(v, next, next + Len(str)) /\ Str(v, next) = str
              /\ Len(str) <= f - next
              /\ \A i \in 1 .. Len(m5) : i < next \/ i >= f => v[i] = m5[i]
      BY <2>3, <2>9, TrimString
    <3> USE DEF w
    <3> QED BY <2>3, <2>10, <2>11, <3>1 DEF next
  <2> HIDE DEF w
  <2>13. Params(line) \in Seq(S) /\ Len(Params(line)) \in Nat
    <3>1. Str(w, next) \in Seq(S)
      BY <2>12, StringIs
    <3> QED BY <2>12, <3>1, LenProperties
  <2>14. next + Len(Params(line)) <= e
    BY <1>1, <1>2, <1>3, <2>8, <2>12, <2>13
  <2>15. IsString(w, at, at + Len(name)) /\ Str(w, at) = name
    <3>1. \A i \in at .. at + Len(name) : i \in 1 .. Len(m) /\ i < next
      BY <1>1, <1>7, <2>2, <2>3, <2>8
    <3>2. \A i \in at .. at + Len(name) : w[i] = m5[i]
      BY <2>12, <3>1
    <3> QED BY <2>3, <2>12, <3>2, SameString
  <2>16. \A i \in 1 .. Len(m) : i < at \/ i >= e => w[i] = m[i]
    <3>1. ASSUME NEW i \in 1 .. Len(m), i < at \/ i >= e
          PROVE  i < next \/ i >= f
      BY <1>1, <1>2, <1>3, <2>8, <3>1
    <3> QED BY <2>7, <2>12, <3>1
  <2>17. at + Len(name) <= sep
    BY <1>1, <1>7, <2>2, <2>3
  <2>18. /\ m5 \in Seq(S) /\ Len(m5) = Len(m)
         /\ \A i \in 1 .. Len(m) : i < at \/ i >= e => m5[i] = m[i]
         /\ Documents(line) <=> sep # 0 /\ m5[at] # NUL
         /\ name \in Seq(S)
         /\ sep # 0 =>
              /\ sep \in at .. e - 1 /\ Params(line) \in Seq(S)
              /\ w \in Seq(S) /\ Len(w) = Len(m)
              /\ \A i \in 1 .. Len(m) : i < at \/ i >= e => w[i] = m[i]
              /\ at + Len(name) <= sep
              /\ IsString(w, at, at + Len(name)) /\ Str(w, at) = name
              /\ sep + 1 + Len(Params(line)) <= e
              /\ IsString(w, sep + 1, sep + 1 + Len(Params(line)))
              /\ Str(w, sep + 1) = Params(line)
    BY <1>7, <1>9, <2>2, <2>3, <2>5, <2>7, <2>12, <2>13, <2>14, <2>15, <2>16, <2>17
  <2> QED BY <2>18, ZenonT(30) DEF line, sep, m4, m5, w, name
<1> QED BY <1>8, <1>9

-----------------------------------------------------------------------------
(* A parameter, stripped in memory to its name.                            *)

\* A string that begins in a string, up to the same end.
LEMMA LaterString ==
  ASSUME NEW S, NEW m \in Seq(S), NEW at, NEW e, IsString(m, at, e), NEW n \in at .. e
  PROVE  /\ IsString(m, n, e)
         /\ Str(m, n) = SubSeq(Str(m, at), n - at + 1, e - at)
<1>1. /\ Len(m) \in Nat /\ at \in Nat \ {0} /\ e \in Nat /\ at <= e /\ e <= Len(m)
      /\ Str(m, at) = SubSeq(m, at, e - 1) /\ Len(Str(m, at)) = e - at
  BY StringIs
<1>2. IsString(m, n, e)
  <2>1. n \in 1 .. Len(m) /\ e \in n .. Len(m) /\ \A i \in n .. e - 1 : i \in at .. e - 1
    BY <1>1
  <2> QED BY <2>1 DEF IsString
<1>3. Str(m, n) = SubSeq(m, n, e - 1)
  BY <1>2, StringIs
<1> DEFINE j == e - 1  a == n - at + 1  b == e - at
<1>4. /\ j \in Nat /\ at <= j + 1 /\ j <= Len(m) /\ a \in Nat \ {0} /\ b \in Nat
      /\ a <= b + 1 /\ b <= j - at + 1 /\ at + a - 1 = n /\ at + b - 1 = j
  BY <1>1
<1> HIDE DEF j, a, b
<1>5. SubSeq(SubSeq(m, at, j), a, b) = SubSeq(m, at + a - 1, at + b - 1)
  <2>1. at \in Nat \ {0}
    BY <1>1
  <2> QED BY ONLY <1>4, <2>1, m \in Seq(S), PartOfPart
<1> QED BY <1>1, <1>2, <1>3, <1>4, <1>5 DEF j, a, b

\* What is inside the brackets of an optional parameter.
Bare(whole) == IF Wrapped(whole, "[", "]") THEN Trim(Inner(whole, 1, 1)) ELSE whole

LEMMA UnwrapIs ==
  ASSUME NEW S, NUL \in S, NEW m \in Seq(S), NEW at, NEW e, IsString(m, at, e)
  PROVE  LET u == Unwrap(m, at)
             bare == Bare(Str(m, at))
         IN  /\ u.mem \in Seq(S) /\ Len(u.mem) = Len(m) /\ u.s \in at .. e
             /\ bare \in Seq(S) /\ u.s + Len(bare) \in at .. e
             /\ IsString(u.mem, u.s, u.s + Len(bare)) /\ Str(u.mem, u.s) = bare
             /\ \A i \in 1 .. Len(m) : i < at \/ i >= e => u.mem[i] = m[i]
<1> DEFINE u == Unwrap(m, at)
           whole == Str(m, at)
           bare == Bare(whole)
<1>1. /\ Len(m) \in Nat /\ at \in Nat \ {0} /\ e \in Nat /\ at <= e /\ e <= Len(m)
      /\ End(m, at) = e /\ whole \in Seq(S) /\ Len(whole) = e - at
  BY StringIs
<1> HIDE DEF whole
<1>2. CASE ~Wrapped(whole, "[", "]")
  <2>1. u = [mem |-> m, s |-> at] /\ bare = whole
    BY <1>2 DEF Unwrap, Bare, whole
  <2>2. u.mem = m /\ u.s = at
    BY <2>1
  <2>3. at + Len(whole) = e /\ at \in at .. e /\ e \in at .. e
    BY <1>1
  <2> HIDE DEF u, bare
  <2> QED BY <1>1, <2>1, <2>2, <2>3 DEF u, bare, whole
<1>3. CASE Wrapped(whole, "[", "]")
  <2> DEFINE r == e - 1
             cut == Cut(m, r)
             next == at + 1
             w == strtrim(cut, next)
             inner == Inner(whole, 1, 1)
  <2>1. u.mem = w /\ u.s = next /\ bare = Trim(inner)
    BY <1>1, <1>3 DEF Unwrap, Bare, whole
  <2>2. /\ r \in at .. e /\ next \in at .. r /\ r \in Nat /\ next \in at .. e
        /\ e - at >= 2
    BY <1>1, <1>3 DEF Wrapped
  <2> HIDE DEF u, bare
  <2>3. /\ cut \in Seq(S) /\ Len(cut) = Len(m) /\ IsString(cut, at, r)
        /\ \A i \in 1 .. Len(m) : cut[i] = IF i = r THEN NUL ELSE m[i]
        /\ Str(cut, at) = SubSeq(whole, 1, r - at)
    <3> HIDE DEF r
    <3> QED BY <2>2, CutIs DEF whole
  <2>4. IsString(cut, next, r) /\ Str(cut, next) = SubSeq(Str(cut, at), next - at + 1, r - at)
    <3> HIDE DEF cut, next, r
    <3> QED BY <2>2, <2>3, LaterString
  <2>5. Str(cut, next) = inner
    <3> DEFINE one == 1  b == r - at  two == next - at + 1
    <3>1. /\ one \in Nat \ {0} /\ b \in Nat /\ one <= b + 1 /\ b <= Len(whole)
          /\ two \in Nat \ {0} /\ two <= b + 1 /\ b <= b - one + 1
          /\ one + two - 1 = 1 + 1 /\ one + b - 1 = Len(whole) - 1
      BY <1>1, <2>2
    <3>2. inner = SubSeq(whole, 1 + 1, Len(whole) - 1)
      BY DEF Inner
    <3> HIDE DEF one, b, two, r, next, inner
    <3>3. SubSeq(SubSeq(whole, one, b), two, b) = SubSeq(whole, one + two - 1, one + b - 1)
      <4>1. whole \in Seq(S)
        BY <1>1
      <4> QED BY ONLY <3>1, <4>1, PartOfPart
    <3>4. Str(cut, next) = SubSeq(SubSeq(whole, one, b), two, b)
      BY <2>3, <2>4 DEF one, b, two
    <3> QED BY <3>1, <3>2, <3>3, <3>4
  <2> HIDE DEF w, cut, inner, next
  <2>6. /\ w \in Seq(S) /\ Len(w) = Len(m)
        /\ IsString(w, next, next + Len(bare)) /\ Str(w, next) = bare
        /\ Len(bare) <= r - next
        /\ \A i \in 1 .. Len(m) : i < next \/ i >= r => w[i] = cut[i]
    <3> HIDE DEF r
    <3>1. LET v == strtrim(cut, next)
              str == Trim(Str(cut, next))
          IN  /\ v \in Seq(S) /\ Len(v) = Len(cut)
              /\ IsString(v, next, next + Len(str)) /\ Str(v, next) = str
              /\ Len(str) <= r - next
              /\ \A i \in 1 .. Len(cut) : i < next \/ i >= r => v[i] = cut[i]
      BY <2>3, <2>4, TrimString
    <3> QED BY <2>1, <2>3, <2>5, <3>1 DEF w
  <2>7. bare \in Seq(S) /\ Len(bare) \in Nat
    <3>1. Str(w, next) \in Seq(S)
      BY <2>6, StringIs
    <3> QED BY <2>6, <3>1, LenProperties
  <2>8. next + Len(bare) \in at .. e
    BY <1>1, <2>2, <2>6, <2>7 DEF next
  <2>9. \A i \in 1 .. Len(m) : i < at \/ i >= e => w[i] = m[i]
    <3>1. ASSUME NEW i \in 1 .. Len(m), i < at \/ i >= e
          PROVE  (i < next \/ i >= r) /\ i # r
      BY <1>1, <2>2, <3>1
    <3> QED BY <2>3, <2>6, <3>1
  <2>10. u.mem = w /\ u.s = next
    BY <2>1
  <2> QED BY <2>2, <2>6, <2>7, <2>8, <2>9, <2>10 DEF u, bare, whole
<1> QED BY <1>2, <1>3

\* Without the brackets of one that may be repeated.
Single(bare) == IF Multiple(bare) THEN Trim(Inner(bare, 0, 2)) ELSE bare

LEMMA MultipleLen ==
  ASSUME NEW S, NEW t \in Seq(S), Multiple(t)
  PROVE  Len(t) >= 2
<1>1. Len(Reverse(t)) = Len(t) /\ Len(Reverse(<<"[", "]">>)) = 2
  BY LenProperties DEF Reverse
<1> QED BY <1>1 DEF Multiple, IsSuffix, IsPrefix

LEMMA SingleIs ==
  ASSUME NEW S, NUL \in S, NEW m \in Seq(S), NEW at, NEW e, IsString(m, at, e)
  PROVE  LET bare == Str(m, at)
             w == IF Multiple(bare) THEN strtrim(Cut(m, End(m, at) - 2), at) ELSE m
             single == Single(bare)
         IN  /\ w \in Seq(S) /\ Len(w) = Len(m)
             /\ single \in Seq(S) /\ at + Len(single) \in at .. e
             /\ IsString(w, at, at + Len(single)) /\ Str(w, at) = single
             /\ \A i \in 1 .. Len(m) : i < at \/ i >= e => w[i] = m[i]
<1> DEFINE bare == Str(m, at)
           w == IF Multiple(bare) THEN strtrim(Cut(m, End(m, at) - 2), at) ELSE m
           single == Single(bare)
<1>1. /\ Len(m) \in Nat /\ at \in Nat \ {0} /\ e \in Nat /\ at <= e /\ e <= Len(m)
      /\ End(m, at) = e /\ bare \in Seq(S) /\ Len(bare) = e - at
  BY StringIs
<1> HIDE DEF bare
<1>2. CASE ~Multiple(bare)
  <2>1. w = m /\ single = bare
    BY <1>2 DEF Single
  <2>2. at + Len(bare) = e /\ e \in at .. e
    BY <1>1
  <2> HIDE DEF w, single
  <2> QED BY <1>1, <2>1, <2>2 DEF w, single, bare
<1>3. CASE Multiple(bare)
  <2> DEFINE r == e - 2
             cut == Cut(m, r)
             inner == Inner(bare, 0, 2)
  <2>1. w = strtrim(cut, at) /\ single = Trim(inner)
    BY <1>1, <1>3 DEF Single
  <2>2. r \in at .. e /\ r \in Nat
    BY <1>1, <1>3, MultipleLen
  <2>3. inner = SubSeq(bare, 1, r - at)
    <3>1. 1 + 0 = 1 /\ Len(bare) - 2 = r - at
      BY <1>1
    <3> QED BY <3>1 DEF Inner
  <2> HIDE DEF w, single
  <2>4. /\ cut \in Seq(S) /\ Len(cut) = Len(m) /\ IsString(cut, at, r)
        /\ \A i \in 1 .. Len(m) : cut[i] = IF i = r THEN NUL ELSE m[i]
        /\ Str(cut, at) = inner
    <3> HIDE DEF r, inner
    <3>1. /\ cut \in Seq(S) /\ Len(cut) = Len(m) /\ IsString(cut, at, r)
          /\ \A i \in 1 .. Len(m) : cut[i] = IF i = r THEN NUL ELSE m[i]
          /\ Str(cut, at) = SubSeq(bare, 1, r - at)
      BY <2>2, CutIs DEF bare
    <3> QED BY <2>3, <3>1
  <2> HIDE DEF cut, inner
  <2>5. /\ w \in Seq(S) /\ Len(w) = Len(m)
        /\ IsString(w, at, at + Len(single)) /\ Str(w, at) = single
        /\ Len(single) <= r - at
        /\ \A i \in 1 .. Len(m) : i < at \/ i >= r => w[i] = cut[i]
    <3> HIDE DEF r
    <3>1. LET v == strtrim(cut, at)
              str == Trim(Str(cut, at))
          IN  /\ v \in Seq(S) /\ Len(v) = Len(cut)
              /\ IsString(v, at, at + Len(str)) /\ Str(v, at) = str
              /\ Len(str) <= r - at
              /\ \A i \in 1 .. Len(cut) : i < at \/ i >= r => v[i] = cut[i]
      BY <2>4, TrimString
    <3> QED BY <2>1, <2>4, <3>1
  <2>6. single \in Seq(S) /\ Len(single) \in Nat
    <3>1. Str(w, at) \in Seq(S)
      BY <2>5, StringIs
    <3> QED BY <2>5, <3>1, LenProperties
  <2>7. at + Len(single) \in at .. e
    BY <1>1, <2>2, <2>5, <2>6
  <2>8. \A i \in 1 .. Len(m) : i < at \/ i >= e => w[i] = m[i]
    <3>1. ASSUME NEW i \in 1 .. Len(m), i < at \/ i >= e
          PROVE  (i < at \/ i >= r) /\ i # r
      BY <1>1, <2>2, <3>1
    <3> QED BY <2>4, <2>5, <3>1
  <2> QED BY <2>5, <2>6, <2>7, <2>8 DEF w, single, bare
<1> QED BY <1>2, <1>3

\* u, m2 and m3 of Param: the string that is left when the brackets and the
\* default value are gone.
Bared(m, at) ==
  LET u == Unwrap(m, at)
      m2 == IF Multiple(Str(u.mem, u.s))
            THEN strtrim(Cut(u.mem, End(u.mem, u.s) - 2), u.s) ELSE u.mem
  IN  [mem |-> Cut(m2, strchr(m2, u.s, "=")), s |-> u.s]

LEMMA BaredIs ==
  ASSUME NEW S, NUL \in S, NEW m \in Seq(S), NEW at, NEW e, IsString(m, at, e)
  PROVE  LET v == Bared(m, at)
             name == Before(Single(Bare(Str(m, at))), "=")
         IN  /\ v.mem \in Seq(S) /\ Len(v.mem) = Len(m) /\ v.s \in at .. e
             /\ name \in Seq(S) /\ v.s + Len(name) \in at .. e
             /\ IsString(v.mem, v.s, v.s + Len(name)) /\ Str(v.mem, v.s) = name
             /\ \A i \in 1 .. Len(m) : i < at \/ i >= e => v.mem[i] = m[i]
<1> DEFINE u == Unwrap(m, at)
           m1 == u.mem
           us == u.s
           bare == Bare(Str(m, at))
           f == us + Len(bare)
           m2 == IF Multiple(Str(m1, us)) THEN strtrim(Cut(m1, End(m1, us) - 2), us) ELSE m1
           single == Single(bare)
           g == us + Len(single)
           r == strchr(m2, us, "=")
           m3 == Cut(m2, r)
           h == IF r = 0 THEN g ELSE r
           name == Before(single, "=")
<1>1. Len(m) \in Nat /\ at \in Nat \ {0} /\ e \in Nat /\ at <= e /\ e <= Len(m)
  BY StringIs
<1>2. /\ m1 \in Seq(S) /\ Len(m1) = Len(m) /\ us \in at .. e
      /\ bare \in Seq(S) /\ f \in at .. e
      /\ IsString(m1, us, f) /\ Str(m1, us) = bare
      /\ \A i \in 1 .. Len(m) : i < at \/ i >= e => m1[i] = m[i]
  BY UnwrapIs
<1>3. Bared(m, at) = [mem |-> m3, s |-> us]
  BY DEF Bared
<1> HIDE DEF u, m1, us, bare, f
<1>4. /\ m2 \in Seq(S) /\ Len(m2) = Len(m) /\ single \in Seq(S) /\ g \in us .. f
      /\ IsString(m2, us, g) /\ Str(m2, us) = single
      /\ \A i \in 1 .. Len(m) : i < us \/ i >= f => m2[i] = m1[i]
  <2>1. LET b == Str(m1, us)
            w == IF Multiple(b) THEN strtrim(Cut(m1, End(m1, us) - 2), us) ELSE m1
            x == Single(b)
        IN  /\ w \in Seq(S) /\ Len(w) = Len(m1)
            /\ x \in Seq(S) /\ us + Len(x) \in us .. f
            /\ IsString(w, us, us + Len(x)) /\ Str(w, us) = x
            /\ \A i \in 1 .. Len(m1) : i < us \/ i >= f => w[i] = m1[i]
    BY <1>2, SingleIs
  <2> QED BY <1>2, <2>1
<1> HIDE DEF m2, single, g
<1>5. /\ m3 \in Seq(S) /\ Len(m3) = Len(m) /\ IsString(m3, us, h)
      /\ h \in us .. g /\ Str(m3, us) = name /\ Len(name) = h - us
      /\ \A i \in 1 .. Len(m) : i # h => m3[i] = m2[i]
  <2>1. LET q == strchr(m2, us, "=")
            w == Cut(m2, q)
            x == IF q = 0 THEN g ELSE q
        IN  /\ w \in Seq(S) /\ Len(w) = Len(m2) /\ IsString(w, us, x)
            /\ x \in us .. g /\ Str(w, us) = Before(Str(m2, us), "=")
            /\ Len(Str(w, us)) = x - us
            /\ \A i \in 1 .. Len(m2) : i # x => w[i] = m2[i]
    BY <1>4, CutFirst
  <2> QED BY <1>4, <2>1
<1> HIDE DEF m3, h, r, name
<1>6. /\ us \in Nat /\ f \in Nat /\ g \in Nat /\ h \in Nat
      /\ at <= us /\ us <= h /\ h <= g /\ g <= f /\ f <= e
  BY <1>1, <1>2, <1>4, <1>5
<1>7. name \in Seq(S) /\ us + Len(name) = h
  BY <1>5, <1>6, StringIs
<1>8. ASSUME NEW i \in 1 .. Len(m), i < at \/ i >= e PROVE m3[i] = m[i]
  <2>1. (i < us \/ i >= f) /\ (i = h => i = e)
    BY <1>1, <1>6, <1>8
  <2>2. m2[i] = m[i]
    BY <1>2, <1>4, <1>8, <2>1
  <2>3. i = h => m3[i] = NUL /\ m[i] = NUL
    BY <1>5, <2>1 DEF IsString
  <2> QED BY <1>5, <2>2, <2>3
<1>9. /\ m3 \in Seq(S) /\ Len(m3) = Len(m) /\ us \in at .. e
      /\ name \in Seq(S) /\ us + Len(name) \in at .. e
      /\ IsString(m3, us, us + Len(name)) /\ Str(m3, us) = name
      /\ \A i \in 1 .. Len(m) : i < at \/ i >= e => m3[i] = m[i]
  <2>1. h \in at .. e
    BY <1>1, <1>6
  <2> QED BY <1>2, <1>5, <1>7, <1>8, <2>1
<1>10. Bared(m, at).mem = m3 /\ Bared(m, at).s = us
  BY <1>3
<1> QED BY <1>9, <1>10 DEF name, single, bare

\* A round of strip_params: the name of the parameter at `at` is written to o.
Stripped(m, at, o, sep) ==
  LET m1 == strtrim(Cut(m, strchr(m, at, ",")), at)
      v == Bared(m1, at)
      slen == Len(Str(v.mem, v.s))
      m4 == Store(v.mem, o, sep)
      to == o + Len(sep)
      m5 == Store(m4, to, SubSeq(m4, v.s, v.s + slen - 1))
      ignored == Wrapped(Str(m1, at), "<", ">")
  IN  [mem |-> IF ignored THEN m1 ELSE IF slen = 0 THEN v.mem ELSE m5,
       d |-> IF ignored \/ slen = 0 THEN o ELSE to + slen]

LEMMA ParamNameIs ==
  ASSUME NEW piece
  PROVE  ParamName(piece) = IF Wrapped(Trim(piece), "<", ">") THEN <<>>
                            ELSE Before(Single(Bare(Trim(piece))), "=")
BY DEF ParamName, Single, Bare

\* A string written at o, behind what separates it from the one in front of
\* it, when it is copied from a place further on.
LEMMA MovedIs ==
  ASSUME NEW S, NEW m \in Seq(S), NEW at, NEW e, IsString(m, at, e),
         NEW o \in 1 .. at, NEW sep \in Seq(S), o + Len(sep) <= at
  PROVE  LET m4 == Store(m, o, sep)
             to == o + Len(sep)
             m5 == Store(m4, to, SubSeq(m4, at, e - 1))
             out == sep \o Str(m, at)
         IN  /\ m5 \in Seq(S) /\ Len(m5) = Len(m) /\ out \in Seq(S)
             /\ Len(out) = Len(sep) + (e - at) /\ o + Len(out) <= e
             /\ \A i \in 1 .. Len(out) : m5[o + i - 1] = out[i]
             /\ \A i \in 1 .. Len(m) : i < o \/ i >= e => m5[i] = m[i]
<1> DEFINE str == Str(m, at)
           m4 == Store(m, o, sep)
           to == o + Len(sep)
           moved == SubSeq(m4, at, e - 1)
           m5 == Store(m4, to, moved)
           out == sep \o str
<1>1. /\ Len(m) \in Nat /\ at \in Nat \ {0} /\ e \in Nat /\ at <= e /\ e <= Len(m)
      /\ str \in Seq(S) /\ Len(str) = e - at /\ str = SubSeq(m, at, e - 1)
      /\ \A i \in 1 .. e - at : str[i] = m[at + i - 1]
  BY ONLY m \in Seq(S), IsString(m, at, e), StringIs
<1>2. Len(sep) \in Nat /\ o \in Nat \ {0}
  BY <1>1, LenProperties
<1>3. /\ m4 \in Seq(S) /\ Len(m4) = Len(m)
      /\ \A i \in 1 .. Len(m) :
           m4[i] = IF i \in o .. o + Len(sep) - 1 THEN sep[i - o + 1] ELSE m[i]
  BY <1>2, StoreIs
<1> HIDE DEF m4
<1>4. moved = str
  <2> DEFINE j == e - 1
  <2>1. j \in Nat /\ j <= Len(m)
    BY <1>1
  <2>2. ASSUME NEW i \in at .. j PROVE m4[i] = m[i]
    <3>1. i \in 1 .. Len(m) /\ i \notin o .. o + Len(sep) - 1
      BY <1>1, <1>2
    <3> QED BY <1>3, <3>1
  <2> HIDE DEF j
  <2>3. SubSeq(m4, at, j) = SubSeq(m, at, j)
    BY <1>1, <1>3, <2>1, <2>2, SamePart
  <2> QED BY <1>1, <2>3 DEF j
<1> HIDE DEF moved, str
<1>5. to \in Nat \ {0} /\ to <= at
  BY <1>2
<1>6. /\ m5 \in Seq(S) /\ Len(m5) = Len(m)
      /\ \A i \in 1 .. Len(m) :
           m5[i] = IF i \in to .. to + Len(str) - 1 THEN str[i - to + 1] ELSE m4[i]
  <2> HIDE DEF to
  <2>1. /\ Store(m4, to, str) \in Seq(S) /\ Len(Store(m4, to, str)) = Len(m4)
        /\ \A i \in 1 .. Len(m4) :
             Store(m4, to, str)[i] =
               IF i \in to .. to + Len(str) - 1 THEN str[i - to + 1] ELSE m4[i]
    <3>1. m4 \in Seq(S) /\ str \in Seq(S) /\ to \in Nat \ {0}
      BY <1>1, <1>3, <1>5
    <3> QED BY ONLY <3>1, StoreIs, SMTT(20)
  <2> QED BY <1>3, <1>4, <2>1
<1> HIDE DEF m5
<1>7. /\ out \in Seq(S) /\ Len(out) = Len(sep) + (e - at)
      /\ \A i \in 1 .. Len(sep) + Len(str) :
           out[i] = IF i <= Len(sep) THEN sep[i] ELSE str[i - Len(sep)]
  <2>1. sep \in Seq(S) /\ str \in Seq(S)
    BY <1>1
  <2>2. /\ out \in Seq(S) /\ Len(out) = Len(sep) + Len(str)
        /\ \A i \in 1 .. Len(sep) + Len(str) :
             out[i] = IF i <= Len(sep) THEN sep[i] ELSE str[i - Len(sep)]
    BY ONLY <2>1, ConcatProperties
  <2> HIDE DEF out
  <2> QED BY <1>1, <2>2
<1> HIDE DEF out
<1>8. o + Len(out) <= e
  BY <1>1, <1>2, <1>7
<1>9. ASSUME NEW i \in 1 .. Len(out) PROVE m5[o + i - 1] = out[i]
  <2> DEFINE n == o + i - 1
  <2>1. n \in 1 .. Len(m) /\ i \in 1 .. Len(sep) + Len(str)
    BY <1>1, <1>2, <1>7, <1>8
  <2>2. CASE i <= Len(sep)
    <3>1. n \in o .. o + Len(sep) - 1 /\ n - o + 1 = i /\ n \notin to .. to + Len(str) - 1
      BY <1>2, <2>2
    <3> HIDE DEF n
    <3>2. m5[n] = sep[i]
      BY <1>3, <1>6, <2>1, <3>1
    <3> QED BY <1>7, <2>1, <2>2, <3>2 DEF n
  <2>3. CASE ~(i <= Len(sep))
    <3>1. n \in to .. to + Len(str) - 1 /\ n - to + 1 = i - Len(sep)
      BY <1>1, <1>2, <2>1, <2>3
    <3> HIDE DEF n
    <3>2. m5[n] = str[i - Len(sep)]
      BY <1>6, <2>1, <3>1
    <3> QED BY <1>7, <2>1, <2>3, <3>2 DEF n
  <2> QED BY <2>2, <2>3
<1>10. ASSUME NEW i \in 1 .. Len(m), i < o \/ i >= e PROVE m5[i] = m[i]
  <2>1. i \notin to .. to + Len(str) - 1 /\ i \notin o .. o + Len(sep) - 1
    BY <1>1, <1>2, <1>5, <1>10
  <2> QED BY <1>3, <1>6, <2>1
<1> QED BY <1>6, <1>7, <1>8, <1>9, <1>10 DEF m5, m4, moved, to, out, str

LEMMA StrippedIs ==
  ASSUME NEW S, NUL \in S, NEW m \in Seq(S), NEW at, NEW e, IsString(m, at, e),
         NEW o \in 1 .. at, NEW sep \in Seq(S), o + Len(sep) <= at
  PROVE  LET r == strchr(m, at, Comma)
             f == IF r = 0 THEN e ELSE r
             w == Stripped(m, at, o, sep)
             piece == Before(Str(m, at), Comma)
             name == ParamName(piece)
             out == IF name = <<>> THEN <<>> ELSE sep \o name
         IN  /\ f \in at .. e /\ Len(piece) = f - at /\ (r # 0 => f < e)
             /\ w.mem \in Seq(S) /\ Len(w.mem) = Len(m)
             /\ out \in Seq(S) /\ w.d = o + Len(out) /\ w.d \in o .. f
             /\ w.mem[f] = NUL
             /\ \A i \in 1 .. Len(out) : w.mem[o + i - 1] = out[i]
             /\ \A i \in 1 .. Len(m) : i < o \/ i > f => w.mem[i] = m[i]
<1> DEFINE r == strchr(m, at, Comma)
           f == IF r = 0 THEN e ELSE r
           cut == Cut(m, r)
           m1 == strtrim(cut, at)
           v == Bared(m1, at)
           m3 == v.mem
           vs == v.s
           slen == Len(Str(m3, vs))
           m4 == Store(m3, o, sep)
           to == o + Len(sep)
           m5 == Store(m4, to, SubSeq(m4, vs, vs + slen - 1))
           piece == Before(Str(m, at), Comma)
           whole == Trim(piece)
           ignored == Wrapped(whole, "<", ">")
           bared == Before(Single(Bare(whole)), "=")
           name == ParamName(piece)
           out == IF name = <<>> THEN <<>> ELSE sep \o name
           w == Stripped(m, at, o, sep)
<1>1. Len(m) \in Nat /\ at \in Nat \ {0} /\ e \in Nat /\ at <= e /\ e <= Len(m)
  BY StringIs
<1>2. Len(sep) \in Nat /\ o \in Nat \ {0} /\ o <= at
  BY <1>1, LenProperties
<1>3. /\ cut \in Seq(S) /\ Len(cut) = Len(m) /\ IsString(cut, at, f)
      /\ f \in at .. e /\ Str(cut, at) = piece /\ Len(piece) = f - at
      /\ \A i \in 1 .. Len(m) : i # f => cut[i] = m[i]
      /\ r # 0 => f < e
  <2>1. LET q == strchr(m, at, Comma)
            x == Cut(m, q)
            h == IF q = 0 THEN e ELSE q
        IN  /\ x \in Seq(S) /\ Len(x) = Len(m) /\ IsString(x, at, h)
            /\ h \in at .. e /\ Str(x, at) = Before(Str(m, at), Comma)
            /\ Len(Str(x, at)) = h - at
            /\ \A i \in 1 .. Len(m) : i # h => x[i] = m[i]
            /\ q # 0 => h < e
    <3> HIDE DEF r, f, cut, piece, m1, v, m3, vs, slen, m4, to, m5, whole, ignored, bared,
                 name, out, w
    <3> QED BY ONLY m \in Seq(S), NUL \in S, IsString(m, at, e), CutFirst
  <2> QED BY <2>1
<1> HIDE DEF r, f, cut, piece
<1>4. f \in Nat /\ at <= f /\ f <= Len(m)
  BY <1>1, <1>3
<1> DEFINE k == at + Len(whole)
<1>5. /\ m1 \in Seq(S) /\ Len(m1) = Len(m) /\ IsString(m1, at, k) /\ Str(m1, at) = whole
      /\ Len(whole) <= f - at
      /\ \A i \in 1 .. Len(m) : i < at \/ i >= f => m1[i] = cut[i]
  <2>1. LET x == strtrim(cut, at)
            str == Trim(Str(cut, at))
        IN  /\ x \in Seq(S) /\ Len(x) = Len(cut)
            /\ IsString(x, at, at + Len(str)) /\ Str(x, at) = str
            /\ Len(str) <= f - at
            /\ \A i \in 1 .. Len(cut) : i < at \/ i >= f => x[i] = cut[i]
    BY <1>3, TrimString
  <2> QED BY <1>3, <2>1
<1> HIDE DEF m1, whole
<1>6. w = [mem |-> IF ignored THEN m1 ELSE IF slen = 0 THEN m3 ELSE m5,
           d |-> IF ignored \/ slen = 0 THEN o ELSE to + slen]
  <2>1. w = [mem |-> IF Wrapped(Str(m1, at), "<", ">") THEN m1 ELSE IF slen = 0 THEN m3 ELSE m5,
             d |-> IF Wrapped(Str(m1, at), "<", ">") \/ slen = 0 THEN o ELSE to + slen]
    BY Zenon DEF Stripped, m1, cut, r, Comma
  <2> HIDE DEF slen, m3, m5, to, w
  <2> QED BY <1>5, <2>1, Zenon
<1>7. Len(whole) \in Nat /\ k \in at .. f /\ k \in Nat
  <2>1. whole \in Seq(S)
    BY <1>5, StringIs
  <2>2. Len(whole) \in Nat
    BY <2>1, LenProperties
  <2> QED BY <1>1, <1>4, <1>5, <2>2
<1> HIDE DEF k
<1> DEFINE g == vs + Len(bared)
<1>8. /\ m3 \in Seq(S) /\ Len(m3) = Len(m) /\ vs \in at .. k
      /\ bared \in Seq(S) /\ g \in at .. k
      /\ IsString(m3, vs, g) /\ Str(m3, vs) = bared
      /\ \A i \in 1 .. Len(m) : i < at \/ i >= k => m3[i] = m1[i]
  <2>1. LET x == Bared(m1, at)
            nam == Before(Single(Bare(Str(m1, at))), "=")
        IN  /\ x.mem \in Seq(S) /\ Len(x.mem) = Len(m1) /\ x.s \in at .. k
            /\ nam \in Seq(S) /\ x.s + Len(nam) \in at .. k
            /\ IsString(x.mem, x.s, x.s + Len(nam)) /\ Str(x.mem, x.s) = nam
            /\ \A i \in 1 .. Len(m1) : i < at \/ i >= k => x.mem[i] = m1[i]
    BY <1>5, BaredIs
  <2> QED BY <1>5, <2>1
<1> HIDE DEF v, m3, vs, bared
<1>9. name = IF ignored THEN <<>> ELSE bared
  BY ParamNameIs DEF bared, whole
<1>10. slen = Len(bared) /\ slen \in Nat /\ g = vs + slen
  BY <1>8, LenProperties
<1> HIDE DEF name, ignored
<1>11. \A i \in 1 .. Len(m) : i < o \/ i > f => m1[i] = m[i] /\ m3[i] = m[i]
  <2>1. ASSUME NEW i \in 1 .. Len(m), i < o \/ i > f
        PROVE  (i < at \/ i >= f) /\ (i < at \/ i >= k) /\ i # f
    BY <1>1, <1>2, <1>4, <1>7, <2>1
  <2> QED BY <1>3, <1>5, <1>8, <2>1
<1>12. m1[f] = NUL /\ m3[f] = NUL
  <2>1. f \in 1 .. Len(m) /\ f >= k /\ f >= f
    BY <1>1, <1>4, <1>7
  <2> QED BY <1>3, <1>5, <1>8, <2>1 DEF IsString
<1>13. CASE name = <<>>
  <2>1. out = <<>> /\ Len(out) = 0 /\ out \in Seq(S)
    BY <1>13
  <2>2. ignored \/ slen = 0
    BY <1>9, <1>10, <1>13, EmptySeq
  <2>3. w.mem \in {m1, m3} /\ w.d = o
    BY <1>6, <2>2
  <2>4. o \in o .. f
    BY <1>1, <1>2, <1>4
  <2> HIDE DEF w, out
  <2>5. /\ f \in at .. e /\ Len(piece) = f - at /\ (r # 0 => f < e)
        /\ w.mem \in Seq(S) /\ Len(w.mem) = Len(m)
        /\ out \in Seq(S) /\ w.d = o + Len(out) /\ w.d \in o .. f
        /\ w.mem[f] = NUL
        /\ \A i \in 1 .. Len(out) : w.mem[o + i - 1] = out[i]
        /\ \A i \in 1 .. Len(m) : i < o \/ i > f => w.mem[i] = m[i]
    BY <1>2, <1>3, <1>5, <1>8, <1>11, <1>12, <2>1, <2>3, <2>4, SMTT(30)
  <2> QED BY <2>5, ZenonT(30) DEF w, out, name, piece, f, r
<1>14. CASE name # <<>>
  <2>1. ~ignored /\ name = bared
    BY <1>9, <1>14
  <2>2. slen # 0
    BY <1>8, <1>10, <1>14, <2>1, EmptySeq
  <2>3. w.mem = m5 /\ w.d = to + slen
    BY <1>6, <2>1, <2>2
  <2>4. vs \in Nat /\ at <= vs /\ o \in 1 .. vs /\ o + Len(sep) <= vs /\ g <= f /\ g \in Nat
        /\ vs <= g /\ g >= at
    BY <1>1, <1>2, <1>4, <1>7, <1>8, <1>10
  <2> DEFINE long == sep \o bared
  <2>5. out = long
    BY <1>14, <2>1
  <2> HIDE DEF w, out, to, slen
  <2>6. /\ m5 \in Seq(S) /\ Len(m5) = Len(m) /\ long \in Seq(S)
        /\ Len(long) = Len(sep) + (g - vs) /\ o + Len(long) <= g
        /\ \A i \in 1 .. Len(long) : m5[o + i - 1] = long[i]
        /\ \A i \in 1 .. Len(m) : i < o \/ i >= g => m5[i] = m3[i]
    <3>1. LET x4 == Store(m3, o, sep)
              t == o + Len(sep)
              x5 == Store(x4, t, SubSeq(x4, vs, g - 1))
              y == sep \o Str(m3, vs)
          IN  /\ x5 \in Seq(S) /\ Len(x5) = Len(m3) /\ y \in Seq(S)
              /\ Len(y) = Len(sep) + (g - vs) /\ o + Len(y) <= g
              /\ \A i \in 1 .. Len(y) : x5[o + i - 1] = y[i]
              /\ \A i \in 1 .. Len(m3) : i < o \/ i >= g => x5[i] = m3[i]
      <4>1. IsString(m3, vs, g) /\ m3 \in Seq(S)
        BY <1>8
      <4> HIDE DEF g
      <4>2. o \in 1 .. vs /\ o + Len(sep) <= vs
        BY <2>4
      <4> DEFINE x4 == Store(m3, o, sep)
                 t == o + Len(sep)
                 x5 == Store(x4, t, SubSeq(x4, vs, g - 1))
                 y == sep \o Str(m3, vs)
      <4>3. /\ x5 \in Seq(S) /\ Len(x5) = Len(m3) /\ y \in Seq(S)
            /\ Len(y) = Len(sep) + (g - vs) /\ o + Len(y) <= g
            /\ \A i \in 1 .. Len(y) : x5[o + i - 1] = y[i]
            /\ \A i \in 1 .. Len(m3) : i < o \/ i >= g => x5[i] = m3[i]
        BY ONLY <4>1, <4>2, sep \in Seq(S), MovedIs
      <4> HIDE DEF x4, t, x5, y
      <4> QED BY <4>3, Zenon DEF x4, t, x5, y
    <3>2. m5 = Store(m4, to, SubSeq(m4, vs, g - 1))
      <4>1. vs + slen - 1 = g - 1
        <5> HIDE DEF g
        <5>1. vs \in Nat /\ slen \in Nat /\ g = vs + slen
          BY <1>10, <2>4
        <5> QED BY ONLY <5>1
      <4> QED BY ONLY <4>1 DEF m5
    <3> HIDE DEF m5, g
    <3> QED BY <1>8, <3>1, <3>2 DEF to
  <2> HIDE DEF m5, m4, long
  <2>7. to + slen = o + Len(long)
    <3>1. slen = g - vs /\ vs \in Nat
      BY <1>10, <2>4
    <3> HIDE DEF g
    <3> QED BY <1>2, <2>4, <2>6, <3>1 DEF to
  <2>8. o + Len(long) \in o .. f /\ Len(long) \in Nat
    BY <1>2, <1>4, <2>4, <2>6, LenProperties
  <2>9. m5[f] = NUL
    <3>1. f \in 1 .. Len(m) /\ f >= g
      BY <1>1, <1>4, <2>4
    <3> QED BY <1>12, <2>6, <3>1
  <2>10. \A i \in 1 .. Len(m) : i < o \/ i > f => m5[i] = m[i]
    <3>1. ASSUME NEW i \in 1 .. Len(m), i < o \/ i > f
          PROVE  i < o \/ i >= g
      BY <1>4, <2>4, <3>1
    <3> QED BY <1>11, <2>6, <3>1
  <2>11. /\ f \in at .. e /\ Len(piece) = f - at /\ (r # 0 => f < e)
         /\ w.mem \in Seq(S) /\ Len(w.mem) = Len(m)
         /\ out \in Seq(S) /\ w.d = o + Len(out) /\ w.d \in o .. f
         /\ w.mem[f] = NUL
         /\ \A i \in 1 .. Len(out) : w.mem[o + i - 1] = out[i]
         /\ \A i \in 1 .. Len(m) : i < o \/ i > f => w.mem[i] = m[i]
    BY <1>3, <2>3, <2>5, <2>6, <2>7, <2>8, <2>9, <2>10
  <2> QED BY <2>11, ZenonT(30) DEF w, out, name, piece, f, r
<1> QED BY <1>13, <1>14

-----------------------------------------------------------------------------
(* What the pieces of a text contribute, one behind the other.             *)

Joined(g, k) == FlattenSeq([n \in 1 .. k |-> g[n]])

\* b begins with a.
Continues(T, a, b) == \E more \in Seq(T) : b = a \o more

LEMMA JoinedNext ==
  ASSUME NEW T, NEW g, NEW k \in Nat, \A n \in 1 .. k + 1 : g[n] \in Seq(T)
  PROVE  /\ Joined(g, 0) = <<>> /\ Joined(g, k) \in Seq(T)
         /\ Joined(g, k + 1) = Joined(g, k) \o g[k + 1]
<1> DEFINE F(j) == [n \in 1 .. j |-> g[n]]
<1>1. F(k) \in Seq(Seq(T)) /\ Len(F(k)) = k
  OBVIOUS
<1>2. g[k + 1] \in Seq(T)
  OBVIOUS
<1>3. F(k + 1) = Append(F(k), g[k + 1])
  <2> DEFINE u == F(k + 1)  v == Append(F(k), g[k + 1])
  <2>1. u \in Seq(Seq(T)) /\ Len(u) = k + 1 /\ \A i \in 1 .. k + 1 : u[i] = g[i]
    OBVIOUS
  <2>2. /\ v \in Seq(Seq(T)) /\ Len(v) = k + 1
        /\ \A i \in 1 .. k : v[i] = F(k)[i]
        /\ v[k + 1] = g[k + 1]
    BY <1>1, <1>2, AppendProperties
  <2>3. \A i \in 1 .. k + 1 : v[i] = g[i]
    <3>1. ASSUME NEW i \in 1 .. k + 1 PROVE v[i] = g[i]
      <4> HIDE DEF v
      <4>1. CASE i \in 1 .. k
        BY <2>2, <4>1
      <4>2. CASE i = k + 1
        BY <2>2, <4>2
      <4> QED BY <4>1, <4>2
    <3> QED BY <3>1
  <2> HIDE DEF u, v
  <2>4. u = v
    <3>1. /\ u \in Seq(Seq(T)) /\ v \in Seq(Seq(T)) /\ Len(u) = Len(v)
          /\ \A i \in 1 .. Len(u) : u[i] = v[i]
      BY <2>1, <2>2, <2>3
    <3> QED BY ONLY <3>1, SeqEqual
  <2> QED BY <2>4 DEF u, v
<1>4. Joined(g, k) \in Seq(T)
  <2> HIDE DEF F
  <2>1. CASE F(k) = <<>>
    <3>1. FlattenSeq(<<>>) = <<>>
      BY DEF FlattenSeq
    <3>2. Joined(g, k) = FlattenSeq(F(k))
      BY Zenon DEF Joined, F
    <3>3. <<>> \in Seq(T)
      OBVIOUS
    <3> QED BY ONLY <2>1, <3>1, <3>2, <3>3
  <2>2. CASE F(k) # <<>>
    <3>1. FlattenSeq(F(k)) \in Seq(T)
      BY <1>1, <2>2, FlattenHead
    <3> QED BY <3>1 DEF Joined, F
  <2> QED BY <2>1, <2>2
<1>5. Joined(g, 0) = <<>>
  <2>1. F(0) = <<>> /\ FlattenSeq(<<>>) = <<>>
    BY DEF FlattenSeq
  <2> QED BY <2>1 DEF Joined
<1>6. Joined(g, k + 1) = Joined(g, k) \o g[k + 1]
  <2> HIDE DEF F
  <2>1. FlattenSeq(Append(F(k), g[k + 1])) = FlattenSeq(F(k)) \o g[k + 1]
    BY <1>1, <1>2, FlattenAppend
  <2>2. FlattenSeq(F(k + 1)) = FlattenSeq(F(k)) \o g[k + 1]
    BY <1>3, <2>1
  <2> QED BY <2>2, Zenon DEF Joined, F
<1> QED BY <1>4, <1>5, <1>6

LEMMA JoinedType ==
  ASSUME NEW T, NEW g, NEW k \in Nat, \A n \in 1 .. k : g[n] \in Seq(T)
  PROVE  Joined(g, k) \in Seq(T)
<1>1. CASE k = 0
  <2>1. [n \in 1 .. 0 |-> g[n]] = <<>> /\ FlattenSeq(<<>>) = <<>>
    BY DEF FlattenSeq
  <2>2. Joined(g, 0) = <<>> /\ <<>> \in Seq(T)
    BY <2>1 DEF Joined
  <2> QED BY ONLY <1>1, <2>2
<1>2. CASE k # 0
  <2> DEFINE j == k - 1
  <2>1. j \in Nat /\ j + 1 = k
    BY <1>2
  <2> HIDE DEF j
  <2>2. Joined(g, j) \in Seq(T) /\ Joined(g, j + 1) = Joined(g, j) \o g[j + 1]
    BY <2>1, JoinedNext
  <2>3. g[j + 1] \in Seq(T)
    BY <1>2, <2>1
  <2>4. Joined(g, j) \o g[j + 1] \in Seq(T)
    BY <2>2, <2>3, ConcatProperties
  <2> QED BY <2>1, <2>2, <2>4
<1> QED BY <1>1, <1>2

\* More of the text adds to the end.
LEMMA JoinedGrows ==
  ASSUME NEW T, NEW g, NEW k \in Nat, \A n \in 1 .. k : g[n] \in Seq(T), NEW j \in 0 .. k
  PROVE  /\ Continues(T, Joined(g, j), Joined(g, k))
         /\ (\A n \in j + 1 .. k : g[n] = <<>>) => Joined(g, k) = Joined(g, j)
<1> DEFINE Adds(i) == /\ \E more \in Seq(T) : Joined(g, i) = Joined(g, j) \o more
                      /\ (\A n \in j + 1 .. i : g[n] = <<>>) => Joined(g, i) = Joined(g, j)
           N == {i \in Nat : i + j <= k => Adds(i + j)}
<1>1. Joined(g, j) \in Seq(T)
  BY JoinedType
<1> HIDE DEF Adds
<1>2. 0 \in N
  <2>1. <<>> \in Seq(T) /\ Joined(g, j) = Joined(g, j) \o <<>>
    BY <1>1, ConcatEmptySeq
  <2>2. Adds(j)
    BY <2>1 DEF Adds
  <2> QED BY <2>2
<1>3. ASSUME NEW i \in Nat, i \in N PROVE i + 1 \in N
  <2> SUFFICES ASSUME (i + 1) + j <= k PROVE Adds((i + 1) + j)
    OBVIOUS
  <2> DEFINE n == i + j
  <2>1. n \in Nat /\ (i + 1) + j = n + 1 /\ n + 1 <= k /\ Adds(n)
    BY <1>3
  <2>2. j \in Nat /\ n >= j
    OBVIOUS
  <2> HIDE DEF n
  <2>3. \A x \in 1 .. n + 1 : g[x] \in Seq(T)
    BY <2>1
  <2>4. Joined(g, n) \in Seq(T) /\ Joined(g, n + 1) = Joined(g, n) \o g[n + 1]
    BY <2>1, <2>3, JoinedNext
  <2>5. PICK more \in Seq(T) : Joined(g, n) = Joined(g, j) \o more
    BY <2>1 DEF Adds
  <2>6. g[n + 1] \in Seq(T)
    BY <2>1
  <2>7. more \o g[n + 1] \in Seq(T) /\ Joined(g, n + 1) = Joined(g, j) \o (more \o g[n + 1])
    <3> DEFINE a == Joined(g, j)  c == g[n + 1]
    <3> HIDE DEF a, c
    <3>1. a \in Seq(T) /\ c \in Seq(T)
      BY <1>1, <2>6 DEF a, c
    <3>2. (a \o more) \o c = a \o (more \o c) /\ more \o c \in Seq(T)
      BY <3>1, ConcatAssociative, ConcatProperties
    <3> QED BY <2>4, <2>5, <3>2 DEF a, c
  <2>8. ASSUME \A x \in j + 1 .. n + 1 : g[x] = <<>>
        PROVE  Joined(g, n + 1) = Joined(g, j)
    <3>1. g[n + 1] = <<>> /\ \A x \in j + 1 .. n : g[x] = <<>>
      BY <2>1, <2>2, <2>8
    <3>2. Joined(g, n) = Joined(g, j)
      BY <2>1, <3>1 DEF Adds
    <3>3. Joined(g, n) \o <<>> = Joined(g, n)
      BY <2>4, ConcatEmptySeq
    <3> QED BY <2>4, <3>1, <3>2, <3>3
  <2>9. Adds(n + 1)
    BY <2>7, <2>8 DEF Adds
  <2> QED BY <2>1, <2>9
<1>4. Nat \subseteq N
  <2> HIDE DEF N
  <2> QED BY <1>2, <1>3, SetInduction
<1>5. k - j \in Nat /\ (k - j) + j = k
  OBVIOUS
<1>6. Adds(k)
  <2> DEFINE i == k - j
  <2> HIDE DEF i
  <2>1. i \in Nat /\ i + j = k /\ k <= k
    BY <1>5 DEF i
  <2> QED BY <1>4, <2>1
<1> QED BY <1>6 DEF Adds, Continues

LEMMA JoinedMore ==
  ASSUME NEW T, NEW g, NEW k \in Nat, \A n \in 1 .. k : g[n] \in Seq(T), NEW j \in 0 .. k
  PROVE  Continues(T, Joined(g, j), Joined(g, k))
BY JoinedGrows

LEMMA JoinedSame ==
  ASSUME NEW T, NEW g, NEW k \in Nat, \A n \in 1 .. k : g[n] \in Seq(T), NEW j \in 0 .. k,
         \A n \in j + 1 .. k : g[n] = <<>>
  PROVE  Joined(g, k) = Joined(g, j)
BY JoinedGrows

LEMMA StartIn ==
  ASSUME NEW S, NEW t \in Seq(S), NEW c, NEW n \in Starts(t, c)
  PROVE  Len(t) \in Nat /\ n \in 1 .. Len(t) + 1
<1>1. Len(t) \in Nat /\ DOMAIN t = 1 .. Len(t)
  BY LenProperties
<1> QED BY <1>1 DEF Starts

\* No piece begins inside the piece that begins at n.
LEMMA NextStart ==
  ASSUME NEW S, NEW t \in Seq(S), NEW c, NEW n \in 1 .. Len(t) + 1
  PROVE  LET e == n + Len(Piece(t, c, n))
         IN  /\ Piece(t, c, n) \in Seq(S) /\ e \in n .. Len(t) + 1
             /\ \A i \in n + 1 .. e : i \notin Starts(t, c)
             /\ e <= Len(t) => e + 1 \in Starts(t, c)
<1> DEFINE e == n + Len(Piece(t, c, n))
<1>1. /\ e \in n .. Len(t) + 1
      /\ \A i \in n .. e - 1 : t[i] # c
      /\ e <= Len(t) => t[e] = c
      /\ Piece(t, c, n) \in Seq(S)
  BY PieceIs
<1> HIDE DEF e
<1>2. Len(t) \in Nat /\ DOMAIN t = 1 .. Len(t)
  BY LenProperties
<1>3. e \in Nat
  BY <1>1, <1>2
<1>4. ASSUME NEW i \in n + 1 .. e PROVE i \notin Starts(t, c)
  <2> SUFFICES ASSUME NEW m \in DOMAIN t, t[m] = c, i = m + 1 PROVE FALSE
    BY <1>2, <1>3, <1>4 DEF Starts
  <2>1. m \in n .. e - 1
    BY <1>2, <1>3
  <2> QED BY <1>1, <2>1
<1>5. e <= Len(t) => e + 1 \in Starts(t, c)
  <2> SUFFICES ASSUME e <= Len(t) PROVE e + 1 \in Starts(t, c)
    OBVIOUS
  <2>1. e \in {m \in DOMAIN t : t[m] = c}
    BY <1>1, <1>2, <1>3
  <2> QED BY <2>1 DEF Starts
<1> QED BY <1>1, <1>4, <1>5 DEF e

\* What is inside the brackets, and in front of the dots' place.
LEMMA NameTyped ==
  ASSUME NEW S, NEW piece \in Seq(S)
  PROVE  ParamName(piece) \in Seq(S)
<1> DEFINE whole == Trim(piece)
           bare == Bare(whole)
           single == Single(bare)
<1>1. whole \in Seq(S)
  BY TrimIs
<1> HIDE DEF whole
<1>2. bare \in Seq(S)
  <2>1. CASE Wrapped(whole, "[", "]")
    <3> DEFINE inner == Inner(whole, 1, 1)
    <3>1. Len(whole) \in Nat /\ Len(whole) >= 2
      BY <1>1, <2>1, LenProperties DEF Wrapped
    <3>2. inner \in Seq(S)
      <4>1. inner = SubSeq(whole, 2, Len(whole) - 1)
        BY DEF Inner
      <4> DEFINE l == Len(whole) - 1
      <4>2. l \in Nat /\ 2 <= l + 1 /\ l <= Len(whole) /\ 2 \in Nat \ {0}
        BY <3>1
      <4> HIDE DEF l
      <4>3. SubSeq(whole, 2, l) \in Seq(S)
        BY <1>1, <4>2, Part
      <4> QED BY <4>1, <4>3 DEF l
    <3> HIDE DEF inner
    <3>3. Trim(inner) \in Seq(S)
      BY <3>2, TrimIs
    <3> QED BY <2>1, <3>3 DEF Bare, inner
  <2>2. CASE ~Wrapped(whole, "[", "]")
    BY <1>1, <2>2 DEF Bare
  <2> QED BY <2>1, <2>2
<1> HIDE DEF bare
<1>3. single \in Seq(S)
  <2>1. CASE Multiple(bare)
    <3> DEFINE inner == Inner(bare, 0, 2)
    <3>1. Len(bare) \in Nat /\ Len(bare) >= 2
      BY <1>2, <2>1, MultipleLen, LenProperties
    <3>2. inner \in Seq(S)
      <4>1. inner = SubSeq(bare, 1, Len(bare) - 2)
        BY DEF Inner
      <4> DEFINE l == Len(bare) - 2
      <4>2. l \in Nat /\ 1 <= l + 1 /\ l <= Len(bare) /\ 1 \in Nat \ {0}
        BY <3>1
      <4> HIDE DEF l
      <4>3. SubSeq(bare, 1, l) \in Seq(S)
        BY <1>2, <4>2, Part
      <4> QED BY <4>1, <4>3 DEF l
    <3> HIDE DEF inner
    <3>3. Trim(inner) \in Seq(S)
      BY <3>2, TrimIs
    <3> QED BY <2>1, <3>3 DEF Single, inner
  <2>2. CASE ~Multiple(bare)
    BY <1>2, <2>2 DEF Single
  <2> QED BY <2>1, <2>2
<1> HIDE DEF single
<1>4. Before(single, "=") \in Seq(S)
  <2>1. 1 \in 1 .. Len(single) + 1
    BY <1>3, LenProperties
  <2> DEFINE c == "="
  <2> HIDE DEF c
  <2>2. Piece(single, c, 1) \in Seq(S)
    BY <1>3, <2>1, NextStart
  <2> QED BY <2>2 DEF Before, c
<1>5. ParamName(piece) = IF Wrapped(whole, "<", ">") THEN <<>> ELSE Before(single, "=")
  BY ParamNameIs DEF whole, bare, single
<1> QED BY <1>4, <1>5

\* The names up to the end of a parameter.
LEMMA ListedNext ==
  ASSUME NEW S, Comma \in S, NEW t \in Seq(S), NEW n \in Starts(t, Comma)
  PROVE  LET piece == Piece(t, Comma, n)
             e == n + Len(piece)
             name == ParamName(piece)
         IN  /\ n \in 1 .. Len(t) + 1 /\ e \in n .. Len(t) + 1
             /\ e <= Len(t) => e + 1 \in Starts(t, Comma)
             /\ Listed(t, n - 1) \in Seq(S)
             /\ Listed(t, e) = Listed(t, n - 1) \o
                               (IF name = <<>> THEN <<>> ELSE <<Comma>> \o name)
<1> DEFINE G(i) == LET nm == ParamName(Piece(t, Comma, i))
                   IN  IF i \notin Starts(t, Comma) \/ nm = <<>> THEN <<>> ELSE <<Comma>> \o nm
           g == [i \in 1 .. Len(t) + 1 |-> G(i)]
           e == n + Len(Piece(t, Comma, n))
<1>1. Len(t) \in Nat /\ DOMAIN t = 1 .. Len(t)
  BY LenProperties
<1>2. n \in 1 .. Len(t) + 1
  BY StartIn
<1>3. /\ e \in n .. Len(t) + 1
      /\ \A i \in n + 1 .. e : i \notin Starts(t, Comma)
      /\ e <= Len(t) => e + 1 \in Starts(t, Comma)
  BY <1>2, NextStart
<1>4. \A i \in 1 .. Len(t) + 1 : g[i] = G(i) /\ G(i) \in Seq(S)
  <2>1. ASSUME NEW i \in 1 .. Len(t) + 1 PROVE G(i) \in Seq(S)
    <3> DEFINE nm == ParamName(Piece(t, Comma, i))
    <3>1. Piece(t, Comma, i) \in Seq(S)
      BY NextStart
    <3>2. nm \in Seq(S)
      BY <3>1, NameTyped
    <3> HIDE DEF nm
    <3>3. <<Comma>> \in Seq(S) /\ <<>> \in Seq(S)
      OBVIOUS
    <3>4. <<Comma>> \o nm \in Seq(S)
      BY <3>2, <3>3, ConcatProperties
    <3>5. G(i) = IF i \notin Starts(t, Comma) \/ nm = <<>> THEN <<>> ELSE <<Comma>> \o nm
      BY DEF nm
    <3> QED BY <3>3, <3>4, <3>5
  <2> HIDE DEF G
  <2> QED BY <2>1
<1>5. ASSUME NEW k \in 0 .. Len(t) + 1 PROVE Listed(t, k) = Joined(g, k)
  <2>1. [i \in 1 .. k |-> G(i)] = [i \in 1 .. k |-> g[i]]
    <3>1. ASSUME NEW i \in 1 .. k PROVE G(i) = g[i]
      <4>1. i \in 1 .. Len(t) + 1
        BY <1>1
      <4> QED BY <1>4, <4>1
    <3> HIDE DEF G, g
    <3> QED BY <3>1
  <2>2. Listed(t, k) = FlattenSeq([i \in 1 .. k |-> G(i)])
    BY Zenon DEF Listed, Comma
  <2> HIDE DEF G, g
  <2> QED BY <2>1, <2>2 DEF Joined
<1>6. G(n) = LET name == ParamName(Piece(t, Comma, n))
             IN  IF name = <<>> THEN <<>> ELSE <<Comma>> \o name
  OBVIOUS
<1>7. \A i \in n + 1 .. e : G(i) = <<>>
  BY <1>3
<1> HIDE DEF e, g, G
<1> DEFINE k == n - 1
<1>8. k \in Nat /\ k + 1 = n /\ k \in 0 .. Len(t) + 1 /\ n \in 0 .. e /\ n \in Nat
      /\ e \in Nat /\ e \in 0 .. Len(t) + 1 /\ n \in 0 .. Len(t) + 1
  BY <1>1, <1>2, <1>3
<1> HIDE DEF k
<1>9. Joined(g, k) \in Seq(S) /\ Joined(g, k + 1) = Joined(g, k) \o g[k + 1]
  <2>1. \A i \in 1 .. k + 1 : g[i] \in Seq(S)
    BY <1>1, <1>2, <1>4, <1>8
  <2> QED BY <1>8, <2>1, JoinedNext
<1>10. Joined(g, e) = Joined(g, n)
  <2>1. \A i \in 1 .. e : g[i] \in Seq(S)
    BY <1>1, <1>4, <1>8
  <2>2. \A i \in n + 1 .. e : g[i] = <<>>
    BY <1>1, <1>4, <1>7, <1>8
  <2> QED BY <1>8, <2>1, <2>2, JoinedSame
<1>11. g[n] = G(n)
  BY <1>2, <1>4
<1>12. Listed(t, k) = Joined(g, k) /\ Listed(t, e) = Joined(g, e)
  BY <1>5, <1>8
<1>13. Listed(t, k) \in Seq(S) /\ Listed(t, e) = Listed(t, k) \o G(n)
  BY <1>8, <1>9, <1>10, <1>11, <1>12
<1> QED BY <1>2, <1>3, <1>6, <1>13 DEF e, k

\* The methods up to the end of a line.
LEMMA MethodsNext ==
  ASSUME NEW S, NEW t \in Seq(S), NEW n \in Starts(t, "nl"),
         NEW all, \A i \in Starts(t, "nl") : Method(Piece(t, "nl", i)) \in all
  PROVE  LET line == Piece(t, "nl", n)
             e == n + Len(line)
         IN  /\ n \in 1 .. Len(t) + 1 /\ e \in n .. Len(t) + 1 /\ line \in Seq(S)
             /\ e <= Len(t) => e + 1 \in Starts(t, "nl")
             /\ Methods(t, n - 1) \in Seq(all)
             /\ Methods(t, e) = Methods(t, n - 1) \o
                                (IF Documents(line) THEN <<Method(line)>> ELSE <<>>)
             /\ Continues(all, Methods(t, n - 1), Meaning(t))
             /\ Continues(all, Methods(t, e), Meaning(t))
<1> DEFINE G(i) == LET ln == Piece(t, "nl", i)
                   IN  IF i \notin Starts(t, "nl") \/ ~Documents(ln) THEN <<>> ELSE <<Method(ln)>>
           g == [i \in 1 .. Len(t) + 1 |-> G(i)]
           e == n + Len(Piece(t, "nl", n))
           z == Len(t) + 1
<1>1. Len(t) \in Nat /\ DOMAIN t = 1 .. Len(t)
  BY LenProperties
<1>2. n \in 1 .. Len(t) + 1
  BY <1>1 DEF Starts
<1>3. /\ e \in n .. Len(t) + 1 /\ Piece(t, "nl", n) \in Seq(S)
      /\ \A i \in n + 1 .. e : i \notin Starts(t, "nl")
      /\ e <= Len(t) => e + 1 \in Starts(t, "nl")
  <2> DEFINE c == "nl"
  <2> HIDE DEF c
  <2>1. LET f == n + Len(Piece(t, c, n))
        IN  /\ f \in n .. Len(t) + 1 /\ Piece(t, c, n) \in Seq(S)
            /\ \A i \in n + 1 .. f : i \notin Starts(t, c)
            /\ f <= Len(t) => f + 1 \in Starts(t, c)
    BY <1>2, NextStart
  <2> QED BY <2>1 DEF c
<1>4. \A i \in 1 .. Len(t) + 1 : g[i] = G(i) /\ G(i) \in Seq(all)
  <2>1. ASSUME NEW i \in 1 .. Len(t) + 1 PROVE G(i) \in Seq(all)
    <3>1. CASE i \in Starts(t, "nl")
      <4>1. Method(Piece(t, "nl", i)) \in all
        BY <3>1
      <4> DEFINE x == Method(Piece(t, "nl", i))
      <4>2. G(i) = <<>> \/ G(i) = <<x>>
        OBVIOUS
      <4> HIDE DEF x, G
      <4>3. <<x>> \in Seq(all) /\ <<>> \in Seq(all)
        BY <4>1 DEF x
      <4> QED BY <4>2, <4>3
    <3>2. CASE i \notin Starts(t, "nl")
      <4>1. G(i) = <<>>
        BY <3>2
      <4> HIDE DEF G
      <4> QED BY <4>1
    <3> QED BY <3>1, <3>2
  <2> HIDE DEF G
  <2> QED BY <2>1
<1>5. ASSUME NEW k \in 0 .. Len(t) + 1 PROVE Methods(t, k) = Joined(g, k)
  <2>1. [i \in 1 .. k |-> G(i)] = [i \in 1 .. k |-> g[i]]
    <3>1. ASSUME NEW i \in 1 .. k PROVE G(i) = g[i]
      <4>1. i \in 1 .. Len(t) + 1
        BY <1>1
      <4> QED BY <1>4, <4>1
    <3> HIDE DEF G, g
    <3> QED BY <3>1
  <2>2. Methods(t, k) = FlattenSeq([i \in 1 .. k |-> G(i)])
    BY DEF Methods
  <2> HIDE DEF G, g
  <2> QED BY <2>1, <2>2 DEF Joined
<1>6. G(n) = LET line == Piece(t, "nl", n)
             IN  IF Documents(line) THEN <<Method(line)>> ELSE <<>>
  OBVIOUS
<1>7. \A i \in n + 1 .. e : G(i) = <<>>
  BY <1>3
<1> HIDE DEF e, g, G
<1> DEFINE k == n - 1
<1>8. k \in Nat /\ k + 1 = n /\ k \in 0 .. Len(t) + 1 /\ n \in 0 .. e /\ n \in Nat
      /\ e \in Nat /\ e \in 0 .. Len(t) + 1 /\ n \in 0 .. Len(t) + 1
      /\ z \in Nat /\ k \in 0 .. z /\ e \in 0 .. z /\ z \in 0 .. Len(t) + 1
  BY <1>1, <1>2, <1>3
<1> HIDE DEF k
<1>9. Joined(g, k) \in Seq(all) /\ Joined(g, k + 1) = Joined(g, k) \o g[k + 1]
  <2>1. \A i \in 1 .. k + 1 : g[i] \in Seq(all)
    BY <1>1, <1>2, <1>4, <1>8
  <2> QED BY <1>8, <2>1, JoinedNext
<1>10. Joined(g, e) = Joined(g, n)
  <2>1. \A i \in 1 .. e : g[i] \in Seq(all)
    BY <1>1, <1>4, <1>8
  <2>2. \A i \in n + 1 .. e : g[i] = <<>>
    BY <1>1, <1>4, <1>7, <1>8
  <2>3. e \in Nat /\ n \in 0 .. e
    BY <1>8
  <2> QED BY ONLY <2>1, <2>2, <2>3, JoinedSame
<1>11. g[n] = G(n)
  BY <1>2, <1>4
<1>12. Methods(t, k) = Joined(g, k) /\ Methods(t, e) = Joined(g, e)
       /\ Meaning(t) = Joined(g, z)
  <2>1. Methods(t, z) = Joined(g, z)
    <3> HIDE DEF z
    <3> QED BY <1>5, <1>8
  <2> QED BY <1>5, <1>8, <2>1 DEF Meaning
<1>13. Methods(t, k) \in Seq(all) /\ Methods(t, e) = Methods(t, k) \o G(n)
  BY <1>8, <1>9, <1>10, <1>11, <1>12
<1>14. /\ Continues(all, Methods(t, k), Meaning(t))
       /\ Continues(all, Methods(t, e), Meaning(t))
  <2>1. \A i \in 1 .. z : g[i] \in Seq(all)
    BY <1>4
  <2> HIDE DEF z
  <2>2. \A j \in 0 .. z : Continues(all, Joined(g, j), Joined(g, z))
    <3>1. z \in Nat
      BY <1>8
    <3> QED BY ONLY <2>1, <3>1, JoinedMore
  <2> QED BY <1>8, <1>12, <2>2
<1> QED BY <1>2, <1>3, <1>6, <1>13, <1>14 DEF e, k

-----------------------------------------------------------------------------
(* The inductive invariant.                                                *)

Intact(from) == \A n \in from .. Len(mem) : mem[n] = Append(text, NUL)[n]

Whole ==
  /\ text \in Texts /\ mem \in Seq(Sym) /\ Len(mem) = Len(text) + 1
  /\ mem[Len(mem)] = NUL
  /\ {s, p, key, dest, d} \subseteq 0 .. Len(mem)
  /\ pc \in {"line", "params", "done"}
  /\ group \in Seq([key : Nat, value : Nat])

\* The line looked at begins a line of the text and is as it came.
AtLine == s \in 1 .. Len(mem) /\ s \in Starts(text, "nl") /\ Intact(s)

\* p is what follows the line of the text that begins at key.
Follows ==
  LET end == key + Len(Piece(text, "nl", key))
  IN  \/ p = 0 /\ end = Len(mem)
      \/ /\ p = end + 1 /\ p <= Len(mem) /\ s < p
         /\ p \in Starts(text, "nl") /\ mem[p - 1] = NUL /\ Intact(p)

\* The line's name is cut off; what is left of its parameters ends the string
\* at s, and the names of those in front of s are behind dest.
AtParams ==
  LET line == Piece(text, "nl", key)
      params == Params(line)
  IN  /\ key \in 1 .. dest - 1 /\ dest \in 1 .. s /\ s \in 1 .. Len(mem)
      /\ key \in Starts(text, "nl") /\ Documents(line) /\ Follows
      /\ \E k \in 1 .. dest - 1 : IsString(mem, key, k)
      /\ Str(mem, key) = Name(line)
      /\ params \in Seq(Plain) /\ s - dest <= Len(params) /\ s - dest + 1 \in Starts(params, ",")
      /\ Str(mem, s) = SubSeq(params, s - dest + 1, Len(params))
      /\ d \in dest .. s /\ (s = dest \/ d < s)
      /\ Listed(params, s - dest) =
           IF d = dest THEN <<>> ELSE <<",">> \o SubSeq(mem, dest, d - 1)

\* Where the lines that are done end.
Edge == IF pc = "line" THEN s ELSE IF pc = "params" THEN key ELSE Len(mem) + 1

\* The strings of an entry of m lie in front of the edge; they are those of
\* a line of t.
EntryOf(m, e) == [key |-> Str(m, e.key), value |-> Str(m, e.value)]
Kept(m, t, edge, e) ==
  /\ \E k \in 1 .. edge - 1 : IsString(m, e.key, k)
  /\ \E v \in 1 .. edge - 1 : IsString(m, e.value, v)
  /\ \E n \in Starts(t, "nl") :
       Documents(Piece(t, "nl", n)) /\ EntryOf(m, e) = Method(Piece(t, "nl", n))
AllKept(m, t, edge, entries) == \A n \in DOMAIN entries : Kept(m, t, edge, entries[n])
AllOf(m, entries) == [n \in DOMAIN entries |-> EntryOf(m, entries[n])]

HelpInv ==
  /\ Whole
  /\ pc = "line" => AtLine
  /\ pc = "params" => AtParams
  /\ AllKept(mem, text, Edge, group)
  /\ AllOf(mem, group) = Methods(text, Edge - 1)
-----------------------------------------------------------------------------
(* What the invariant says of a line.                                      *)

LEMMA CopyIs ==
  ASSUME Whole
  PROVE  /\ text \in Seq(Sym) /\ NUL \in Sym /\ Comma \in Sym /\ Len(text) \in Nat
         /\ Append(text, NUL)[Len(text) + 1] = NUL
         /\ \A i \in 1 .. Len(text) : text[i] # NUL /\ Append(text, NUL)[i] = text[i]
<1>1. text \in Seq(Char)
  BY HelpAssumption DEF Whole
<1>2. NUL \in Sym /\ Comma \in Sym /\ Char \subseteq Sym
  BY Zenon DEF Sym, Plain, Comma
<1>3. text \in Seq(Sym) /\ Len(text) \in Nat
  BY <1>1, <1>2, LenProperties
<1>4. \A i \in 1 .. Len(text) : text[i] # NUL
  <2>1. NUL \notin Char
    BY HelpAssumption
  <2> QED BY <1>1, <2>1, ElementOfSeq
<1>5. /\ Append(text, NUL)[Len(text) + 1] = NUL
      /\ \A i \in 1 .. Len(text) : Append(text, NUL)[i] = text[i]
  BY <1>2, <1>3, AppendProperties
<1> QED BY <1>2, <1>3, <1>4, <1>5

\* The line that begins at s, cut off by a NUL.
LEMMA LineIs ==
  ASSUME Whole, AtLine
  PROVE  LET newline == strchr(mem, s, "nl")
             m1 == Cut(mem, newline)
             f == s + Len(Piece(text, "nl", s))
         IN  /\ f \in s .. Len(mem) /\ m1 \in Seq(Sym) /\ Len(m1) = Len(mem)
             /\ IsString(m1, s, f) /\ Str(m1, s) = Piece(text, "nl", s)
             /\ newline = IF f = Len(mem) THEN 0 ELSE f
             /\ \A i \in 1 .. Len(mem) : i # f => m1[i] = mem[i]
<1> DEFINE c == "nl"
<1> HIDE DEF c
<1> DEFINE r == strchr(mem, s, c)
           m1 == Cut(mem, r)
           e == Len(mem)
           f == IF r = 0 THEN e ELSE r
<1>1. /\ text \in Seq(Sym) /\ NUL \in Sym /\ Len(text) \in Nat /\ Len(mem) = Len(text) + 1
      /\ mem \in Seq(Sym) /\ mem[Len(mem)] = NUL /\ s \in 1 .. Len(mem)
      /\ \A i \in s .. Len(text) : mem[i] = text[i] /\ text[i] # NUL
  <2>1. \A i \in s .. Len(mem) : mem[i] = Append(text, NUL)[i]
    BY DEF AtLine, Intact
  <2>2. ASSUME NEW i \in s .. Len(text) PROVE mem[i] = text[i] /\ text[i] # NUL
    <3>1. i \in 1 .. Len(text) /\ i \in s .. Len(mem)
      BY CopyIs DEF Whole, AtLine
    <3> QED BY <2>1, <3>1, CopyIs
  <2> QED BY <2>2, CopyIs DEF Whole, AtLine
<1>2. IsString(mem, s, e)
  BY <1>1 DEF IsString
<1>3. /\ m1 \in Seq(Sym) /\ Len(m1) = Len(mem) /\ IsString(m1, s, f) /\ f \in s .. e
      /\ \A i \in s .. f - 1 : mem[i] # c
      /\ \A i \in 1 .. Len(mem) : i # f => m1[i] = mem[i]
      /\ r # 0 => f < e /\ mem[f] = c
  <2> HIDE DEF e
  <2>1. LET q == strchr(mem, s, c)
            w == Cut(mem, q)
            h == IF q = 0 THEN e ELSE q
        IN  /\ w \in Seq(Sym) /\ Len(w) = Len(mem) /\ IsString(w, s, h)
            /\ h \in s .. e
            /\ \A i \in s .. h - 1 : mem[i] # c
            /\ \A i \in 1 .. Len(mem) : i # h => w[i] = mem[i]
            /\ q # 0 => h < e /\ mem[h] = c
    BY ONLY <1>1, <1>2, CutFirst, SMTT(20)
  <2> QED BY <2>1
<1> HIDE DEF f, m1
<1>4. f \in Nat /\ s \in Nat \ {0} /\ f <= Len(mem)
  BY <1>1, <1>3
<1>5. Piece(text, c, s) = SubSeq(text, s, f - 1) /\ Len(Piece(text, c, s)) = f - s
  <2>1. s \in 1 .. Len(text) + 1 /\ f \in s .. Len(text) + 1
    BY <1>1, <1>3
  <2>2. \A i \in s .. f - 1 : text[i] # c
    BY <1>1, <1>3, <1>4
  <2>3. f <= Len(text) => text[f] = c
    BY <1>1, <1>3, <1>4 DEF f
  <2>4. /\ text \in Seq(Sym) /\ s \in 1 .. Len(text) + 1 /\ f \in s .. Len(text) + 1
        /\ (\A i \in s .. f - 1 : text[i] # c) /\ (f <= Len(text) => text[f] = c)
    BY <1>1, <2>1, <2>2, <2>3
  <2> HIDE DEF r, e
  <2>5. /\ Piece(text, c, s) = SubSeq(text, s, f - 1) /\ Piece(text, c, s) \in Seq(Sym)
        /\ Len(Piece(text, c, s)) = f - s
    BY ONLY <2>4, PieceEnds
  <2> QED BY <2>5
<1>6. Str(m1, s) = SubSeq(m1, s, f - 1)
  BY <1>3, StringIs
<1>7. SubSeq(m1, s, f - 1) = SubSeq(text, s, f - 1)
  <2> DEFINE k == f - 1
  <2>1. k \in Nat /\ k <= Len(m1) /\ k <= Len(text)
    BY <1>1, <1>3, <1>4
  <2>2. \A i \in s .. k : m1[i] = text[i]
    BY <1>1, <1>3, <1>4
  <2> HIDE DEF k
  <2>3. SubSeq(m1, s, k) = SubSeq(text, s, k)
    BY <1>1, <1>3, <1>4, <2>1, <2>2, SamePart
  <2> QED BY <2>3 DEF k
<1>8. s + Len(Piece(text, c, s)) = f
  BY <1>4, <1>5
<1>9. r = IF f = Len(mem) THEN 0 ELSE f
  BY <1>3 DEF f
<1> HIDE DEF r
<1>10. LET g == s + Len(Piece(text, c, s))
       IN  /\ g \in s .. Len(mem) /\ m1 \in Seq(Sym) /\ Len(m1) = Len(mem)
           /\ IsString(m1, s, g) /\ Str(m1, s) = Piece(text, c, s)
           /\ r = IF g = Len(mem) THEN 0 ELSE g
           /\ \A i \in 1 .. Len(mem) : i # g => m1[i] = mem[i]
  BY <1>3, <1>5, <1>6, <1>7, <1>8, <1>9
<1> QED BY <1>10, Zenon DEF m1, r, c

\* An entry's strings are in front of what is written.
LEMMA KeptStays ==
  ASSUME NEW m \in Seq(Sym), NEW w \in Seq(Sym), Len(w) = Len(m), NEW t,
         NEW edge \in 1 .. Len(m) + 1, NEW later \in Nat, edge <= later,
         \A i \in 1 .. edge - 1 : w[i] = m[i], NEW e, Kept(m, t, edge, e)
  PROVE  Kept(w, t, later, e) /\ EntryOf(w, e) = EntryOf(m, e)
<1>1. ASSUME NEW at, NEW k \in 1 .. edge - 1, IsString(m, at, k)
      PROVE  k \in 1 .. later - 1 /\ IsString(w, at, k) /\ Str(w, at) = Str(m, at)
  <2>1. Len(m) \in Nat
    BY LenProperties
  <2>2. \A i \in at .. k : w[i] = m[i]
    BY <1>1, <2>1 DEF IsString
  <2>3. IsString(w, at, k) /\ Str(w, at) = Str(m, at)
    BY <1>1, <2>2, SameString
  <2> QED BY <2>1, <2>3
<1>2. PICK k \in 1 .. edge - 1 : IsString(m, e.key, k)
  BY DEF Kept
<1>3. PICK v \in 1 .. edge - 1 : IsString(m, e.value, v)
  BY DEF Kept
<1>4. k \in 1 .. later - 1 /\ IsString(w, e.key, k) /\ Str(w, e.key) = Str(m, e.key)
  BY <1>1, <1>2
<1>5. v \in 1 .. later - 1 /\ IsString(w, e.value, v) /\ Str(w, e.value) = Str(m, e.value)
  BY <1>1, <1>3
<1>6. EntryOf(w, e) = EntryOf(m, e)
  BY <1>4, <1>5 DEF EntryOf
<1> QED BY <1>4, <1>5, <1>6 DEF Kept

LEMMA GroupStays ==
  ASSUME NEW m \in Seq(Sym), NEW w \in Seq(Sym), Len(w) = Len(m), NEW t,
         NEW edge \in 1 .. Len(m) + 1, NEW later \in Nat, edge <= later,
         \A i \in 1 .. edge - 1 : w[i] = m[i],
         NEW entries, AllKept(m, t, edge, entries)
  PROVE  AllKept(w, t, later, entries) /\ AllOf(w, entries) = AllOf(m, entries)
<1>1. ASSUME NEW n \in DOMAIN entries
      PROVE  Kept(w, t, later, entries[n]) /\ EntryOf(w, entries[n]) = EntryOf(m, entries[n])
  <2>1. Kept(m, t, edge, entries[n])
    BY DEF AllKept
  <2> QED BY <2>1, KeptStays
<1> QED BY <1>1 DEF AllKept, AllOf

-----------------------------------------------------------------------------
(* The invariant holds.                                                    *)

LEMMA HelpInvInit == HelpInit => HelpInv
<1> SUFFICES ASSUME HelpInit PROVE HelpInv
  OBVIOUS
<1>1. text \in Seq(Char) /\ Len(text) \in Nat /\ NUL \in Sym /\ Char \subseteq Sym
  <2>1. text \in Seq(Char)
    BY HelpAssumption DEF HelpInit
  <2>2. NUL \in Sym /\ Char \subseteq Sym
    BY Zenon DEF Sym, Plain
  <2> QED BY <2>1, <2>2, LenProperties
<1>2. /\ mem \in Seq(Sym) /\ Len(mem) = Len(text) + 1 /\ mem[Len(mem)] = NUL
      /\ s \in 0 .. Len(mem) /\ s \in 1 .. Len(mem) /\ 0 \in 0 .. Len(mem)
  <2>1. text \in Seq(Sym)
    BY <1>1
  <2>2. mem = Append(text, NUL) /\ s = 1
    BY DEF HelpInit
  <2> QED BY <1>1, <2>1, <2>2, AppendProperties
<1>3. Whole
  BY <1>2 DEF HelpInit, Whole
<1>4. AtLine
  BY <1>2 DEF HelpInit, AtLine, Intact, Starts
<1>5. AllKept(mem, text, Edge, group) /\ AllOf(mem, group) = <<>>
  BY DEF HelpInit, AllKept, AllOf
<1>6. Methods(text, Edge - 1) = <<>>
  <2>1. Edge - 1 = 0
    BY DEF Edge, HelpInit
  <2>2. Methods(text, 0) = <<>>
    <3>1. FlattenSeq(<<>>) = <<>>
      BY DEF FlattenSeq
    <3> QED BY <3>1 DEF Methods
  <2> QED BY <2>1, <2>2
<1> QED BY <1>3, <1>4, <1>5, <1>6 DEF HelpInv, HelpInit

\* Every line that is documented gives an entry.
AllMethods(t) == {Method(Piece(t, "nl", n)) : n \in Starts(t, "nl")}

\* parse_api_help up to strip_params, with the cuts under their names.
LineDoes ==
  LET newline == strchr(mem, s, "nl")
      m1 == Cut(mem, newline)
      sep == strchr(Signed(m1, s), s, "(")
      m5 == Opened(m1, s)
  IN  /\ p' = IF newline = 0 THEN 0 ELSE newline + 1
      /\ \/ /\ sep # 0 /\ m5[s] # NUL
            /\ mem' = strtrim(m5, sep + 1) /\ key' = s
            /\ s' = sep + 1 /\ dest' = sep + 1 /\ d' = sep + 1 /\ pc' = "params"
         \/ /\ sep = 0 \/ m5[s] = NUL
            /\ mem' = m5 /\ NextLine /\ UNCHANGED <<key, dest, d>>

LEMMA LineStep ==
  ASSUME HelpInv, Line
  PROVE  HelpInv'
<1> DEFINE newline == strchr(mem, s, "nl")
           m1 == Cut(mem, newline)
           line == Piece(text, "nl", s)
           f == s + Len(line)
           sep == strchr(Signed(m1, s), s, "(")
           m5 == Opened(m1, s)
           w == strtrim(m5, sep + 1)
<1>1. Whole /\ AtLine /\ pc = "line" /\ text' = text /\ group' = group
  BY DEF HelpInv, Line
<1>2. LineDoes
  BY Zenon DEF Line, LineDoes, Signed, Opened
<1>3. /\ p' = IF newline = 0 THEN 0 ELSE newline + 1
      /\ \/ /\ sep # 0 /\ m5[s] # NUL
            /\ mem' = w /\ key' = s
            /\ s' = sep + 1 /\ dest' = sep + 1 /\ d' = sep + 1 /\ pc' = "params"
         \/ /\ sep = 0 \/ m5[s] = NUL
            /\ mem' = m5 /\ NextLine /\ UNCHANGED <<key, dest, d>>
  BY <1>2, Zenon DEF LineDoes
<1> HIDE DEF newline, sep, m5, w
<1>4. /\ f \in s .. Len(mem) /\ m1 \in Seq(Sym) /\ Len(m1) = Len(mem)
      /\ IsString(m1, s, f) /\ Str(m1, s) = line
      /\ newline = IF f = Len(mem) THEN 0 ELSE f
      /\ \A i \in 1 .. Len(mem) : i # f => m1[i] = mem[i]
  <2>1. LET q == strchr(mem, s, "nl")
            x == Cut(mem, q)
            h == s + Len(Piece(text, "nl", s))
        IN  /\ h \in s .. Len(mem) /\ x \in Seq(Sym) /\ Len(x) = Len(mem)
            /\ IsString(x, s, h) /\ Str(x, s) = Piece(text, "nl", s)
            /\ q = IF h = Len(mem) THEN 0 ELSE h
            /\ \A i \in 1 .. Len(mem) : i # h => x[i] = mem[i]
    BY <1>1, LineIs
  <2> QED BY <2>1 DEF newline
<1> HIDE DEF m1
<1>5. /\ Len(mem) \in Nat /\ s \in Nat /\ s >= 1 /\ f \in Nat /\ s <= f /\ f <= Len(mem)
      /\ Len(mem) = Len(text) + 1 /\ text \in Seq(Sym) /\ NUL \in Sym /\ mem \in Seq(Sym)
      /\ Len(text) \in Nat
  BY <1>1, <1>4, LenProperties, CopyIs DEF Whole, AtLine
<1>6. /\ Documents(line) <=> sep # 0 /\ m5[s] # NUL
      /\ m5 \in Seq(Sym) /\ Len(m5) = Len(mem)
      /\ \A i \in 1 .. Len(mem) : i < s \/ i >= f => m5[i] = m1[i]
      /\ Name(line) \in Seq(Sym)
      /\ sep # 0 =>
           /\ sep \in s .. f - 1 /\ Params(line) \in Seq(Sym)
           /\ w \in Seq(Sym) /\ Len(w) = Len(mem)
           /\ \A i \in 1 .. Len(mem) : i < s \/ i >= f => w[i] = m1[i]
           /\ s + Len(Name(line)) <= sep
           /\ IsString(w, s, s + Len(Name(line))) /\ Str(w, s) = Name(line)
           /\ sep + 1 + Len(Params(line)) <= f
           /\ IsString(w, sep + 1, sep + 1 + Len(Params(line)))
           /\ Str(w, sep + 1) = Params(line)
  <2> HIDE DEF f, line
  <2> DEFINE y == Str(m1, s)
             q == strchr(Signed(m1, s), s, "(")
             x == Opened(m1, s)
             v == strtrim(x, q + 1)
  <2>4. m1 \in Seq(Sym) /\ NUL \in Sym /\ IsString(m1, s, f)
    BY <1>4, <1>5
  <2>1. /\ x \in Seq(Sym) /\ Len(x) = Len(m1)
        /\ \A i \in 1 .. Len(m1) : i < s \/ i >= f => x[i] = m1[i]
        /\ Documents(y) <=> q # 0 /\ x[s] # NUL
        /\ Name(y) \in Seq(Sym)
        /\ q # 0 =>
             /\ q \in s .. f - 1 /\ Params(y) \in Seq(Sym)
             /\ v \in Seq(Sym) /\ Len(v) = Len(m1)
             /\ \A i \in 1 .. Len(m1) : i < s \/ i >= f => v[i] = m1[i]
             /\ s + Len(Name(y)) <= q
             /\ IsString(v, s, s + Len(Name(y))) /\ Str(v, s) = Name(y)
             /\ q + 1 + Len(Params(y)) <= f
             /\ IsString(v, q + 1, q + 1 + Len(Params(y)))
             /\ Str(v, q + 1) = Params(y)
    BY ONLY <2>4, OpenedIs
  <2>2. q = sep /\ x = m5 /\ v = w /\ y = line
    BY <1>4, Zenon DEF sep, m5, w
  <2> HIDE DEF q, x, v, y
  <2> QED BY <1>4, <2>1, <2>2
<1>7. /\ f <= Len(text) => f + 1 \in Starts(text, "nl")
      /\ Methods(text, f) = Methods(text, s - 1) \o
                            (IF Documents(line) THEN <<Method(line)>> ELSE <<>>)
      /\ Methods(text, s - 1) \in Seq(AllMethods(text))
  <2>1. s \in Starts(text, "nl")
    BY <1>1 DEF AtLine
  <2>2. \A i \in Starts(text, "nl") : Method(Piece(text, "nl", i)) \in AllMethods(text)
    BY DEF AllMethods
  <2> QED BY <1>5, <2>1, <2>2, MethodsNext
<1> HIDE DEF line, f
<1>8. /\ Edge = s /\ AllKept(mem, text, s, group)
      /\ AllOf(mem, group) = Methods(text, s - 1)
  BY <1>1 DEF HelpInv, Edge
<1>9. /\ newline = 0 <=> f = Len(mem)
      /\ newline # 0 => newline = f
  BY <1>4, <1>5
<1>10. /\ p' \in 0 .. Len(mem)
       /\ newline # 0 => p' = f + 1 /\ p' <= Len(mem)
       /\ newline = 0 => p' = 0
  BY <1>3, <1>5, <1>9
\* What both outcomes have in common.
<1>11. ASSUME NEW m \in {m5, w}, m \in Seq(Sym), Len(m) = Len(mem),
              \A i \in 1 .. Len(mem) : i < s \/ i >= f => m[i] = m1[i]
       PROVE  /\ \A i \in 1 .. s - 1 : m[i] = mem[i]
              /\ m[f] = NUL /\ m[Len(mem)] = NUL
              /\ \A i \in f + 1 .. Len(mem) : m[i] = Append(text, NUL)[i]
  <2>1. m[f] = NUL
    <3>1. f \in 1 .. Len(mem)
      BY <1>5
    <3> QED BY <1>4, <1>5, <1>11, <3>1 DEF IsString
  <2>2. ASSUME NEW i \in 1 .. s - 1 PROVE m[i] = mem[i]
    <3>1. i \in 1 .. Len(mem) /\ i < s /\ i # f
      BY <1>5
    <3> QED BY <1>4, <1>11, <3>1
  <2>3. ASSUME NEW i \in f + 1 .. Len(mem) PROVE m[i] = Append(text, NUL)[i]
    <3>1. i \in 1 .. Len(mem) /\ i >= f /\ i # f /\ i \in s .. Len(mem)
      BY <1>5
    <3>2. mem[i] = Append(text, NUL)[i]
      BY <1>1, <3>1 DEF AtLine, Intact
    <3> QED BY <1>4, <1>11, <3>1, <3>2
  <2>4. m[Len(mem)] = NUL
    <3>1. CASE f = Len(mem)
      BY <2>1, <3>1
    <3>2. CASE f # Len(mem)
      <4>1. Len(mem) \in f + 1 .. Len(mem)
        BY <1>5, <3>2
      <4> QED BY <1>1, <1>5, <2>3, <4>1, CopyIs
    <3> QED BY <3>1, <3>2
  <2> QED BY <2>1, <2>2, <2>3, <2>4
<1>12. ASSUME NEW m \in {m5, w}, m \in Seq(Sym), Len(m) = Len(mem),
              \A i \in 1 .. Len(mem) : i < s \/ i >= f => m[i] = m1[i],
              NEW later \in Nat, s <= later
       PROVE  AllKept(m, text, later, group) /\ AllOf(m, group) = AllOf(mem, group)
  <2>1. \A i \in 1 .. s - 1 : m[i] = mem[i]
    BY <1>11, <1>12
  <2>2. s \in 1 .. Len(mem) + 1
    BY <1>5
  <2> QED BY <1>5, <1>8, <1>12, <2>1, <2>2, GroupStays
<1>13. CASE sep # 0 /\ m5[s] # NUL
  <2>1. /\ mem' = w /\ key' = s /\ s' = sep + 1 /\ dest' = sep + 1 /\ d' = sep + 1
        /\ pc' = "params"
    BY <1>3, <1>13
  <2>2. Documents(line)
    BY <1>6, <1>13
  <2>3. /\ sep \in s .. f - 1 /\ Params(line) \in Seq(Sym)
        /\ w \in Seq(Sym) /\ Len(w) = Len(mem)
        /\ \A i \in 1 .. Len(mem) : i < s \/ i >= f => w[i] = m1[i]
        /\ s + Len(Name(line)) <= sep
        /\ IsString(w, s, s + Len(Name(line))) /\ Str(w, s) = Name(line)
        /\ sep + 1 + Len(Params(line)) <= f
        /\ IsString(w, sep + 1, sep + 1 + Len(Params(line)))
        /\ Str(w, sep + 1) = Params(line)
    BY <1>6, <1>13
  <2>4. /\ sep \in Nat /\ s <= sep /\ sep + 1 <= f /\ sep + 1 \in 1 .. Len(mem)
        /\ Len(Name(line)) \in Nat /\ Len(Params(line)) \in Nat
    BY <1>5, <1>6, <2>3, LenProperties
  <2>5. /\ \A i \in 1 .. s - 1 : w[i] = mem[i]
        /\ w[f] = NUL /\ w[Len(mem)] = NUL
        /\ \A i \in f + 1 .. Len(mem) : w[i] = Append(text, NUL)[i]
    BY <1>11, <2>3
  <2>6. Whole'
    <3>1. {s, p, key, dest, d}' \subseteq 0 .. Len(mem)
      BY <1>5, <1>10, <2>1, <2>4
    <3> QED BY <1>1, <2>1, <2>3, <2>5, <3>1 DEF Whole
  <2>7. Follows'
    <3>1. key' + Len(Piece(text', "nl", key')) = f
      BY <1>1, <2>1 DEF f, line
    <3>2. CASE newline = 0
      BY <1>9, <1>10, <2>1, <2>3, <3>1, <3>2 DEF Follows
    <3>3. CASE newline # 0
      <4>1. p' = f + 1 /\ p' <= Len(mem) /\ s' < p'
        BY <1>5, <1>10, <2>1, <2>4, <3>3
      <4>2. f <= Len(text)
        BY <1>5, <4>1
      <4>3. p' \in Starts(text', "nl")
        BY <1>1, <1>7, <4>1, <4>2
      <4>4. w[p' - 1] = NUL
        BY <1>5, <2>5, <4>1
      <4>5. Intact(p)'
        BY <1>1, <2>1, <2>3, <2>5, <4>1 DEF Intact
      <4> QED BY <2>1, <2>3, <3>1, <4>1, <4>3, <4>4, <4>5 DEF Follows
    <3> QED BY <3>2, <3>3
  <2>8. AtParams'
    <3>1. Piece(text, "nl", key)' = line
      BY <1>1, <2>1 DEF line
    <3>2. /\ key' \in 1 .. dest' - 1 /\ dest' \in 1 .. s' /\ s' \in 1 .. Len(mem')
          /\ d' \in dest' .. s' /\ s' = dest' /\ d' = dest'
          /\ s' - dest' = 0 /\ s' - dest' <= Len(Params(line))
      BY <1>5, <2>1, <2>3, <2>4
    <3>3. key' \in Starts(text', "nl")
      BY <1>1, <2>1 DEF AtLine
    <3>4. \E k \in 1 .. dest' - 1 : IsString(mem', key', k)
      <4> DEFINE k == s + Len(Name(line))
      <4>1. k \in 1 .. dest' - 1
        BY <1>5, <2>1, <2>3, <2>4
      <4>2. IsString(mem', key', k)
        BY <2>1, <2>3
      <4> QED BY <4>1, <4>2
    <3>5. Str(mem', key') = Name(line) /\ Str(mem', s') = Params(line)
      BY <2>1, <2>3
    <3>6. 1 \in Starts(Params(line), ",") /\ s' - dest' + 1 = 1
      <4>1. 1 \in Starts(Params(line), ",")
        BY Zenon DEF Starts
      <4>2. s' - dest' + 1 = 1
        BY <2>1, <2>4
      <4> QED BY <4>1, <4>2, Zenon
    <3>7. Params(line) = SubSeq(Params(line), s' - dest' + 1, Len(Params(line)))
      BY <2>3, <3>6, SubSeqFull
    <3>8. Listed(Params(line), s' - dest') = <<>>
      <4>1. FlattenSeq(<<>>) = <<>>
        BY DEF FlattenSeq
      <4>2. [n \in 1 .. 0 |-> 0] = <<>>
        OBVIOUS
      <4>3. Listed(Params(line), 0) = <<>>
        BY <4>1, <4>2 DEF Listed
      <4> QED BY <3>2, <4>3
    <3>9. Params(line) \in Seq(Plain)
      <4> DEFINE P == Params(line)
      <4>1. /\ P \in Seq(Sym)
            /\ \A i \in 1 .. Len(P) : P[i] = w[sep + 1 + i - 1]
        <5> DEFINE o == sep + 1  z == o + Len(P)
        <5>1. w \in Seq(Sym) /\ IsString(w, o, z) /\ P = Str(w, o) /\ Len(P) \in Nat /\ o \in Nat
          BY <2>3, <2>4
        <5> HIDE DEF o, z, P
        <5>2. /\ Str(w, o) \in Seq(Sym) /\ Len(Str(w, o)) = z - o
              /\ \A i \in 1 .. z - o : Str(w, o)[i] = w[o + i - 1]
          BY <5>1, StringIs
        <5>3. z - o = Len(P)
          BY <5>1 DEF z
        <5> QED BY <5>1, <5>2, <5>3 DEF o
      <4>2. ASSUME NEW i \in 1 .. Len(P) PROVE P[i] # NUL
        <5>1. sep + 1 + i - 1 \in sep + 1 .. sep + 1 + Len(P) - 1
          BY <2>4
        <5> DEFINE j == sep + 1 + i - 1
        <5> HIDE DEF j
        <5>2. w[j] # NUL
          BY <2>3, <5>1 DEF IsString, j
        <5> QED BY <4>1, <5>2 DEF j
      <4> HIDE DEF P
      <4>3. \A i \in 1 .. Len(P) : P[i] \in Plain
        BY <4>1, <4>2, ElementOfSeq DEF Sym
      <4>4. P \in Seq(Plain)
        BY <4>1, <4>3, LenProperties
      <4> QED BY <4>4 DEF P
    <3> HIDE DEF line
    <3> QED BY <2>2, <2>7, <3>9, <3>1, <3>2, <3>3, <3>4, <3>5, <3>6, <3>7, <3>8, Zenon DEF AtParams
  <2>9. AllKept(w, text, s, group) /\ AllOf(w, group) = AllOf(mem, group)
    BY <1>5, <1>12, <2>3
  <2>10. Edge' = s
    BY <2>1 DEF Edge
  <2> QED BY <1>1, <1>8, <2>1, <2>6, <2>8, <2>9, <2>10 DEF HelpInv
<1>14. CASE sep = 0 \/ m5[s] = NUL
  <2>1. mem' = m5 /\ s' = p' /\ pc' = (IF p' = 0 THEN "done" ELSE "line")
        /\ UNCHANGED <<key, dest, d>>
    BY <1>3, <1>14 DEF NextLine
  <2>2. ~Documents(line)
    BY <1>6, <1>14
  <2>3. /\ \A i \in 1 .. s - 1 : m5[i] = mem[i]
        /\ m5[f] = NUL /\ m5[Len(mem)] = NUL
        /\ \A i \in f + 1 .. Len(mem) : m5[i] = Append(text, NUL)[i]
    BY <1>6, <1>11
  <2>4. Whole'
    <3>1. {s, p, key, dest, d}' \subseteq 0 .. Len(mem)
      BY <1>1, <1>10, <2>1 DEF Whole
    <3> QED BY <1>1, <1>6, <2>1, <2>3, <3>1 DEF Whole
  <2>5. Edge' = f + 1 /\ (pc' = "line" => AtLine') /\ pc' # "params"
    <3>1. CASE newline = 0
      <4>1. pc' = "done" /\ Len(mem') = f
        BY <1>6, <1>9, <1>10, <2>1, <3>1
      <4> QED BY <4>1 DEF Edge
    <3>2. CASE newline # 0
      <4>1. p' = f + 1 /\ p' <= Len(mem) /\ s' = f + 1 /\ s' \in 1 .. Len(mem)
        BY <1>5, <1>10, <2>1, <3>2
      <4>2. f <= Len(text) /\ p' # 0
        BY <1>5, <4>1
      <4>3. s' \in Starts(text', "nl")
        BY <1>1, <1>7, <4>1, <4>2
      <4>4. Intact(s)'
        BY <1>1, <1>6, <2>1, <2>3, <4>1 DEF Intact
      <4>5. pc' = "line"
        BY <2>1, <4>2
      <4> QED BY <1>6, <2>1, <4>1, <4>3, <4>4, <4>5 DEF Edge, AtLine
    <3> QED BY <3>1, <3>2
  <2>6. AllKept(m5, text, f + 1, group) /\ AllOf(m5, group) = AllOf(mem, group)
    <3>1. f + 1 \in Nat /\ s <= f + 1
      BY <1>5
    <3> QED BY <1>6, <1>12, <3>1
  <2>7. Methods(text, Edge - 1)' = Methods(text, s - 1)
    <3>1. Edge' - 1 = f
      BY <1>5, <2>5
    <3>2. Methods(text, s - 1) \o <<>> = Methods(text, s - 1)
      BY <1>7, ConcatEmptySeq
    <3> QED BY <1>1, <1>7, <2>2, <3>1, <3>2
  <2> QED BY <1>1, <1>8, <2>1, <2>4, <2>5, <2>6, <2>7 DEF HelpInv
<1> QED BY <1>13, <1>14

\* What was written at o is there.
LEMMA Written ==
  ASSUME NEW S, NEW m \in Seq(S), NEW out \in Seq(S), NEW o \in Nat \ {0},
         o + Len(out) - 1 <= Len(m), \A i \in 1 .. Len(out) : m[o + i - 1] = out[i]
  PROVE  SubSeq(m, o, o + Len(out) - 1) = out
<1> DEFINE n == o + Len(out) - 1
<1>1. Len(out) \in Nat /\ n \in Nat /\ o <= n + 1 /\ n <= Len(m) /\ n - o + 1 = Len(out)
  BY LenProperties
<1> HIDE DEF n
<1>2. /\ SubSeq(m, o, n) \in Seq(S) /\ Len(SubSeq(m, o, n)) = n - o + 1
      /\ \A i \in 1 .. n - o + 1 : SubSeq(m, o, n)[i] = m[o + i - 1]
  BY <1>1, Part
<1>3. SubSeq(m, o, n) = out
  BY <1>1, <1>2, SeqEqual
<1> QED BY <1>3 DEF n

\* A piece is the first of what is left.
LEMMA PieceOfRest ==
  ASSUME NEW S, NEW t \in Seq(S), NEW c, NEW n \in 1 .. Len(t) + 1
  PROVE  Before(SubSeq(t, n, Len(t)), c) = Piece(t, c, n)
<1> DEFINE k == Len(t)
           rest == SubSeq(t, n, k)
           e == n + Len(Piece(t, c, n))
           f == e - n + 1
<1>1. /\ e \in n .. Len(t) + 1
      /\ \A i \in n .. e - 1 : t[i] # c
      /\ e <= Len(t) => t[e] = c
      /\ Piece(t, c, n) = SubSeq(t, n, e - 1)
  <2> HIDE DEF k, rest, f, e
  <2>1. LET g == n + Len(Piece(t, c, n))
        IN  /\ g \in n .. Len(t) + 1
            /\ \A i \in n .. g - 1 : t[i] # c
            /\ g <= Len(t) => t[g] = c
            /\ Piece(t, c, n) = SubSeq(t, n, g - 1) /\ Piece(t, c, n) \in Seq(S)
            /\ \A i \in 1 .. g - n : Piece(t, c, n)[i] = t[n + i - 1]
    BY ONLY t \in Seq(S), n \in 1 .. Len(t) + 1, PieceIs
  <2> QED BY <2>1 DEF e
<1> HIDE DEF e
<1>2. /\ k \in Nat /\ n \in Nat \ {0} /\ n <= k + 1 /\ e \in Nat /\ n <= e /\ e <= k + 1
      /\ k <= Len(t) /\ k = Len(t)
  BY <1>1, LenProperties
<1> HIDE DEF k
<1>3. /\ rest \in Seq(S) /\ Len(rest) = k - n + 1
      /\ \A i \in 1 .. k - n + 1 : rest[i] = t[n + i - 1]
  BY <1>2, Part
<1> HIDE DEF rest
<1>4. 1 \in 1 .. Len(rest) + 1 /\ f \in 1 .. Len(rest) + 1 /\ f - 1 = e - n /\ f \in Nat
  BY <1>2, <1>3
<1>5. ASSUME NEW i \in 1 .. f - 1 PROVE rest[i] # c
  <2>1. i \in 1 .. k - n + 1 /\ n + i - 1 \in n .. e - 1
    BY <1>2, <1>4
  <2> QED BY <1>1, <1>3, <2>1
<1>6. ASSUME f <= Len(rest) PROVE rest[f] = c
  <2>1. f \in 1 .. k - n + 1 /\ n + f - 1 = e /\ e <= Len(t)
    BY <1>2, <1>3, <1>4, <1>6
  <2> QED BY <1>1, <1>3, <2>1
<1> HIDE DEF f
<1>7. Piece(rest, c, 1) = SubSeq(rest, 1, f - 1)
  <2> DEFINE one == 1
  <2>1. one \in 1 .. Len(rest) + 1 /\ f \in one .. Len(rest) + 1
    BY <1>4
  <2>2. \A i \in one .. f - 1 : rest[i] # c
    BY <1>5
  <2> HIDE DEF one
  <2>3. Piece(rest, c, one) = SubSeq(rest, one, f - 1)
    <3>1. rest \in Seq(S) /\ (f <= Len(rest) => rest[f] = c)
      BY <1>3, <1>6
    <3> DEFINE g == f - 1
    <3>2. /\ Piece(rest, c, one) = SubSeq(rest, one, f - 1) /\ Piece(rest, c, one) \in Seq(S)
          /\ Len(Piece(rest, c, one)) = f - one
          /\ \A i \in 1 .. f - one : Piece(rest, c, one)[i] = rest[one + i - 1]
      BY ONLY <2>1, <2>2, <3>1, PieceEnds
    <3> QED BY <3>2
  <2> QED BY <2>3 DEF one
<1>8. SubSeq(rest, 1, f - 1) = SubSeq(t, n, e - 1)
  <2> DEFINE one == 1  b == f - 1
  <2>1. /\ one \in Nat \ {0} /\ b \in Nat /\ one <= b + 1 /\ b <= k - n + 1
        /\ n + one - 1 = n /\ n + b - 1 = e - 1
    BY <1>2, <1>3, <1>4
  <2> HIDE DEF one, b
  <2>2. SubSeq(SubSeq(t, n, k), one, b) = SubSeq(t, n + one - 1, n + b - 1)
    BY <1>2, <2>1, PartOfPart
  <2> QED BY <2>1, <2>2 DEF one, b, rest
<1> QED BY <1>1, <1>2, <1>7, <1>8 DEF Before, rest

\* One more name behind dest.
Adds(S, T, t, n, m, w, from, o, out) ==
  LET name == ParamName(Piece(t, Comma, n))
  IN  /\ Comma \in S /\ S \subseteq T /\ t \in Seq(S) /\ n \in Starts(t, Comma)
      /\ m \in Seq(T) /\ w \in Seq(T) /\ Len(w) = Len(m)
      /\ from \in Nat \ {0} /\ o \in Nat /\ from <= o
      /\ Listed(t, n - 1) = IF o = from THEN <<>> ELSE <<Comma>> \o SubSeq(m, from, o - 1)
      /\ out \in Seq(T)
      /\ out = IF name = <<>> THEN <<>> ELSE (IF o > from THEN <<Comma>> ELSE <<>>) \o name
      /\ o + Len(out) - 1 <= Len(m)
      /\ \A i \in from .. o - 1 : w[i] = m[i]
      /\ \A i \in 1 .. Len(out) : w[o + i - 1] = out[i]

LEMMA NamesGrow ==
  ASSUME NEW S, NEW T, NEW t, NEW n, NEW m, NEW w, NEW from, NEW o, NEW out,
         Adds(S, T, t, n, m, w, from, o, out)
  PROVE  LET to == o + Len(out)
             list == Listed(t, n + Len(Piece(t, Comma, n)))
         IN  list = IF to = from THEN <<>> ELSE <<Comma>> \o SubSeq(w, from, to - 1)
<1> DEFINE piece == Piece(t, Comma, n)
           to == o + Len(out)
           list == Listed(t, n + Len(piece))
           old == Listed(t, n - 1)
           a == SubSeq(m, from, o - 1)
           b == SubSeq(w, from, to - 1)
           name == ParamName(piece)
<1>0. /\ Comma \in S /\ S \subseteq T /\ t \in Seq(S) /\ n \in Starts(t, Comma)
      /\ m \in Seq(T) /\ w \in Seq(T) /\ Len(w) = Len(m)
      /\ from \in Nat \ {0} /\ o \in Nat /\ from <= o
      /\ old = IF o = from THEN <<>> ELSE <<Comma>> \o a
      /\ out \in Seq(T)
      /\ out = IF name = <<>> THEN <<>> ELSE (IF o > from THEN <<Comma>> ELSE <<>>) \o name
      /\ o + Len(out) - 1 <= Len(m)
      /\ \A i \in from .. o - 1 : w[i] = m[i]
      /\ \A i \in 1 .. Len(out) : w[o + i - 1] = out[i]
  BY Zenon DEF Adds
<1> USE <1>0
<1>1. list = old \o (IF name = <<>> THEN <<>> ELSE <<Comma>> \o name) /\ old \in Seq(S)
  BY ListedNext
<1>2. Len(out) \in Nat /\ Len(m) \in Nat /\ to \in Nat /\ to >= o
  BY LenProperties
<1>3. name \in Seq(S)
  <2>1. Piece(t, Comma, n) \in Seq(S)
    BY StartIn, NextStart
  <2> QED BY <2>1, NameTyped
<1>4. SubSeq(w, from, o - 1) = a
  <2> DEFINE k == o - 1
  <2>1. k \in Nat /\ k <= Len(m) /\ k <= Len(w) /\ \A i \in from .. k : w[i] = m[i]
    BY <1>2
  <2> HIDE DEF k
  <2>2. SubSeq(w, from, k) = SubSeq(m, from, k)
    BY <2>1, SamePart
  <2> QED BY <2>2 DEF k
<1>5. SubSeq(w, o, to - 1) = out
  <2>1. /\ o \in Nat \ {0} /\ w \in Seq(T) /\ out \in Seq(T) /\ o + Len(out) - 1 <= Len(w)
        /\ \A i \in 1 .. Len(out) : w[o + i - 1] = out[i]
    OBVIOUS
  <2> QED BY ONLY <2>1, Written
<1> HIDE DEF list, old
<1>6. old = IF o = from THEN <<>> ELSE <<Comma>> \o a
  BY DEF old
<1>7. CASE name = <<>>
  <2>1. out = <<>> /\ to = o
    BY <1>7
  <2>2. list = old
    BY <1>1, <1>7, ConcatEmptySeq
  <2> QED BY <1>4, <1>6, <2>1, <2>2 DEF list
<1>8. CASE name # <<>>
  <2>1. Len(name) \in Nat /\ Len(name) > 0 /\ name \in Seq(T) /\ <<Comma>> \in Seq(T)
    BY <1>3, <1>8, EmptySeq, LenProperties
  <2>2. list = old \o (<<Comma>> \o name)
    BY <1>1, <1>8
  <2>3. CASE o = from
    <3>1. out = name
      <4>1. out = <<>> \o name
        BY <1>8, <2>3
      <4> QED BY <2>1, <4>1, ConcatEmptySeq
    <3>2. list = <<Comma>> \o name
      <4>1. <<Comma>> \o name \in Seq(T)
        BY <2>1, ConcatProperties
      <4>2. <<>> \o (<<Comma>> \o name) = <<Comma>> \o name
        BY <4>1, ConcatEmptySeq
      <4> QED BY <1>6, <2>2, <2>3, <4>2
    <3>3. b = name /\ to # from
      BY <1>2, <1>5, <2>1, <2>3, <3>1
    <3> QED BY <3>2, <3>3 DEF list
  <2>4. CASE o # from
    <3>1. out = <<Comma>> \o name
      BY <1>8, <2>4, SMTT(60)
    <3>2. list = (<<Comma>> \o a) \o out
      BY <1>6, <2>2, <2>4, <3>1
    <3>3. a \in Seq(T)
      <4> DEFINE k == o - 1
      <4>1. k \in Nat /\ from <= k + 1 /\ k <= Len(m)
        BY <1>2
      <4> HIDE DEF k
      <4>2. SubSeq(m, from, k) \in Seq(T)
        BY <4>1, Part
      <4> QED BY <4>2 DEF k
    <3>4. b = a \o out
      <4> DEFINE k == o - 1  j == to - 1
      <4>1. /\ w \in Seq(T) /\ from \in 1 .. Len(w) + 1 /\ k \in from - 1 .. Len(w)
            /\ j \in k .. Len(w) /\ k + 1 = o
        BY <1>2, <2>4
      <4> HIDE DEF k, j
      <4>2. SubSeq(w, from, k) \o SubSeq(w, k + 1, j) = SubSeq(w, from, j)
        BY <4>1, ConcatAdjacentSubSeq
      <4> QED BY <1>4, <1>5, <4>1, <4>2 DEF k, j
    <3> HIDE DEF a, b, to
    <3>5. (<<Comma>> \o a) \o out = <<Comma>> \o (a \o out)
      <4> DEFINE x == <<Comma>>
      <4>1. x \in Seq(T)
        BY <2>1
      <4> HIDE DEF x
      <4>2. (x \o a) \o out = x \o (a \o out)
        <5> DEFINE y == a  z == out
        <5>1. x \in Seq(T) /\ y \in Seq(T) /\ z \in Seq(T)
          BY <3>3, <4>1
        <5> HIDE DEF y, z
        <5>2. (x \o y) \o z = x \o (y \o z)
          BY ONLY <5>1, ConcatAssociative
        <5> QED BY <5>2 DEF y, z
      <4> QED BY <4>2 DEF x
    <3>6. to # from
      BY <1>2, <2>4
    <3> QED BY <3>2, <3>4, <3>5, <3>6 DEF list, to, b
  <2> QED BY <2>3, <2>4
<1> QED BY <1>7, <1>8

\* A round of strip_params, under the names of its lemma.
ParamDoes ==
  LET comma == strchr(mem, s, ",")
      w == Stripped(mem, s, d, Separator)
  IN  /\ d' = w.d
      /\ \/ /\ comma # 0 /\ s' = comma + 1 /\ mem' = w.mem
            /\ UNCHANGED <<pc, group, p>>
         \/ /\ comma = 0 /\ mem' = Cut(w.mem, d')
            /\ group' = Append(group, [key |-> key, value |-> dest])
            /\ UNCHANGED p /\ NextLine
      /\ UNCHANGED <<text, key, dest>>

LEMMA ParamIs ==
  ASSUME Param
  PROVE  ParamDoes
<1> DEFINE comma == strchr(mem, s, ",")
           m1 == strtrim(Cut(mem, comma), s)
           u == Unwrap(m1, s)
           m2 == IF Multiple(Str(u.mem, u.s))
                 THEN strtrim(Cut(u.mem, End(u.mem, u.s) - 2), u.s) ELSE u.mem
           m3 == Cut(m2, strchr(m2, u.s, "="))
           us == u.s
           slen == Len(Str(m3, us))
           m4 == Store(m3, d, Separator)
           to == d + Len(Separator)
           m5 == Store(m4, to, SubSeq(m4, us, us + slen - 1))
           ignored == Wrapped(Str(m1, s), "<", ">")
           result == IF ignored THEN m1 ELSE IF slen = 0 THEN m3 ELSE m5
           next == IF ignored \/ slen = 0 THEN d ELSE to + slen
           w == Stripped(mem, s, d, Separator)
<1>1. /\ d' = next
      /\ \/ /\ comma # 0 /\ s' = comma + 1 /\ mem' = result
            /\ UNCHANGED <<pc, group, p>>
         \/ /\ comma = 0 /\ mem' = Cut(result, d')
            /\ group' = Append(group, [key |-> key, value |-> dest])
            /\ UNCHANGED p /\ NextLine
      /\ UNCHANGED <<text, key, dest>>
  BY Zenon DEF Param
<1> DEFINE v == Bared(m1, s)
           x4 == Store(v.mem, d, Separator)
           xlen == Len(Str(v.mem, v.s))
           x5 == Store(x4, to, SubSeq(x4, v.s, v.s + xlen - 1))
<1>2. v = [mem |-> m3, s |-> us]
  BY Zenon DEF Bared
<1>3. w = [mem |-> IF ignored THEN m1 ELSE IF xlen = 0 THEN v.mem ELSE x5,
           d |-> IF ignored \/ xlen = 0 THEN d ELSE to + xlen]
  BY Zenon DEF Stripped
<1>4. v.mem = m3 /\ v.s = us
  <2> HIDE DEF v, m3, us
  <2> QED BY <1>2
<1>5. w = [mem |-> result, d |-> next]
  <2>1. xlen = slen /\ x4 = m4
    <3> HIDE DEF v, m3, us
    <3> QED BY <1>4, Zenon DEF xlen, slen, x4, m4
  <2>2. x5 = m5
    <3> HIDE DEF v, us, x4, m4, xlen, slen, to
    <3> QED BY <1>4, <2>1, Zenon DEF x5, m5
  <2> HIDE DEF v, w, ignored, m1, m3, x5, m5, xlen, slen, to
  <2> QED BY <1>3, <1>4, <2>1, <2>2, Zenon DEF result, next
<1>6. w.mem = result /\ w.d = next
  <2> HIDE DEF w, result, next
  <2> QED BY <1>5
<1> HIDE DEF w, result, next, comma
<1> QED BY <1>1, <1>6, Zenon DEF ParamDoes, w, comma

LEMMA ParamStep ==
  ASSUME HelpInv, Param
  PROVE  HelpInv'
<1> DEFINE comma == strchr(mem, s, Comma)
           w == Stripped(mem, s, d, Separator)
           W == w.mem
           line == Piece(text, "nl", key)
           P == Params(line)
           n == s - dest + 1
           piece == Piece(P, Comma, n)
           f == s + Len(piece)
           name == ParamName(piece)
           out == IF name = <<>> THEN <<>> ELSE Separator \o name
           end == key + Len(line)
<1>1. pc = "params" /\ Whole /\ AtParams
  BY DEF HelpInv, Param
<1>2. /\ d' = w.d
      /\ \/ /\ comma # 0 /\ s' = comma + 1 /\ mem' = W
            /\ UNCHANGED <<pc, group, p>>
         \/ /\ comma = 0 /\ mem' = Cut(W, d')
            /\ group' = Append(group, [key |-> key, value |-> dest])
            /\ UNCHANGED p /\ NextLine
      /\ text' = text /\ key' = key /\ dest' = dest
  BY ParamIs, Zenon DEF ParamDoes, Comma
<1> HIDE DEF comma, w
<1>3. /\ key \in 1 .. dest - 1 /\ dest \in 1 .. s /\ s \in 1 .. Len(mem)
      /\ key \in Starts(text, "nl") /\ Documents(line) /\ Follows
      /\ \E k \in 1 .. dest - 1 : IsString(mem, key, k)
      /\ Str(mem, key) = Name(line)
      /\ P \in Seq(Plain) /\ s - dest <= Len(P) /\ n \in Starts(P, Comma)
      /\ Str(mem, s) = SubSeq(P, n, Len(P))
      /\ d \in dest .. s /\ (s = dest \/ d < s)
      /\ Listed(P, s - dest) = IF d = dest THEN <<>> ELSE <<Comma>> \o SubSeq(mem, dest, d - 1)
  BY <1>1, Zenon DEF AtParams, Comma
<1>4. /\ mem \in Seq(Sym) /\ Len(mem) \in Nat /\ mem[Len(mem)] = NUL /\ Len(P) \in Nat
      /\ NUL \in Sym /\ NUL \notin Plain /\ Plain \subseteq Sym /\ Comma \in Plain
      /\ text \in Seq(Sym) /\ Len(text) \in Nat /\ Len(mem) = Len(text) + 1
  <2>1. NUL \notin Plain /\ Plain \subseteq Sym /\ Comma \in Plain /\ NUL \in Sym
    <3>1. NUL # ","
      BY DEF NUL
    <3> QED BY <3>1, HelpAssumption, Zenon DEF Sym, Plain, Comma
  <2> QED BY <1>1, <1>3, <2>1, LenProperties, CopyIs DEF Whole
<1>5. /\ key \in Nat /\ dest \in Nat /\ s \in Nat /\ d \in Nat /\ 1 <= key /\ key < dest
      /\ dest <= d /\ d <= s /\ s <= Len(mem) /\ d \in 1 .. s
      /\ n \in Nat /\ n >= 1 /\ n - 1 = s - dest
  BY <1>3, <1>4
<1> HIDE DEF P, line
<1>6. PICK e \in s .. Len(mem) : IsString(mem, s, e)
  BY <1>3, <1>4, StringIn
<1>7. e \in Nat /\ s <= e /\ e <= Len(mem) /\ e - s = Len(P) - n + 1 /\ n \in 1 .. Len(P) + 1
  <2>1. n \in 1 .. Len(P) + 1
    BY <1>3, StartIn
  <2>2. Len(Str(mem, s)) = e - s
    BY <1>4, <1>6, StringIs
  <2>3. Len(SubSeq(P, n, Len(P))) = Len(P) - n + 1
    <3> DEFINE k == Len(P)
    <3>1. n \in Nat \ {0} /\ k \in Nat /\ n <= k + 1 /\ k <= Len(P)
      BY <1>4, <1>5, <2>1
    <3> HIDE DEF n, k
    <3>2. Len(SubSeq(P, n, k)) = k - n + 1
      BY <1>3, <3>1, Part
    <3> QED BY <3>2 DEF k
  <2> QED BY <1>3, <1>4, <1>6, <2>1, <2>2, <2>3
\* The parameter looked at is the piece of P that begins there.
<1>8. Before(Str(mem, s), Comma) = piece
  <2>1. Before(SubSeq(P, n, Len(P)), Comma) = Piece(P, Comma, n)
    <3> HIDE DEF n
    <3> QED BY <1>3, <1>7, PieceOfRest
  <2> QED BY <1>3, <2>1
<1>9. Separator = IF d > dest THEN <<Comma>> ELSE <<>>
  BY Zenon DEF Separator, Comma
<1>10. Separator \in Seq(Sym) /\ d + Len(Separator) <= s
  <2>1. CASE d > dest
    <3>1. Separator = <<Comma>> /\ d < s
      BY <1>3, <1>5, <1>9, <2>1
    <3>2. Comma \in Sym
      BY <1>4
    <3> QED BY <1>5, <3>1, <3>2
  <2>2. CASE ~(d > dest)
    <3>1. Separator = <<>>
      BY <1>9, <2>2
    <3> QED BY <1>5, <3>1
  <2> QED BY <2>1, <2>2
<1> DEFINE g == IF comma = 0 THEN e ELSE comma
<1>11. /\ g \in s .. e /\ Len(piece) = g - s /\ (comma # 0 => g < e)
       /\ W \in Seq(Sym) /\ Len(W) = Len(mem)
       /\ out \in Seq(Sym) /\ w.d = d + Len(out) /\ w.d \in d .. g
       /\ W[g] = NUL
       /\ \A i \in 1 .. Len(out) : W[d + i - 1] = out[i]
       /\ \A i \in 1 .. Len(mem) : i < d \/ i > g => W[i] = mem[i]
  <2> DEFINE sep == Separator
  <2>1. /\ mem \in Seq(Sym) /\ NUL \in Sym /\ IsString(mem, s, e) /\ d \in 1 .. s
        /\ sep \in Seq(Sym) /\ d + Len(sep) <= s
    BY <1>4, <1>5, <1>6, <1>10
  <2> HIDE DEF sep
  <2> DEFINE r == strchr(mem, s, Comma)
             h == IF r = 0 THEN e ELSE r
             x == Stripped(mem, s, d, sep)
             pc0 == Before(Str(mem, s), Comma)
             nm == ParamName(pc0)
             y == IF nm = <<>> THEN <<>> ELSE sep \o nm
  <2>2. /\ h \in s .. e /\ Len(pc0) = h - s /\ (r # 0 => h < e)
        /\ x.mem \in Seq(Sym) /\ Len(x.mem) = Len(mem)
        /\ y \in Seq(Sym) /\ x.d = d + Len(y) /\ x.d \in d .. h
        /\ x.mem[h] = NUL
        /\ \A i \in 1 .. Len(y) : x.mem[d + i - 1] = y[i]
        /\ \A i \in 1 .. Len(mem) : i < d \/ i > h => x.mem[i] = mem[i]
    BY ONLY <2>1, StrippedIs
  <2>3. r = comma /\ pc0 = piece /\ x = w
    BY <1>8, Zenon DEF comma, w, sep
  <2> HIDE DEF r, pc0, x, piece
  <2> QED BY <2>2, <2>3, Zenon DEF sep
<1>12. g = f /\ f \in Nat
  <2> HIDE DEF g, piece
  <2>1. g \in s .. e /\ s \in Nat /\ e \in Nat /\ Len(piece) = g - s
    BY <1>5, <1>7, <1>11
  <2> QED BY ONLY <2>1
<1> HIDE DEF g, W, out
<1>13. /\ f \in s .. e /\ s <= f /\ f <= e /\ Len(piece) = f - s
       /\ comma # 0 => comma = f /\ f < e
       /\ comma = 0 => f = e
  <2>1. comma # 0 => g = comma
    BY DEF g
  <2>2. comma = 0 => g = e
    BY DEF g
  <2> HIDE DEF f, piece
  <2> QED BY <1>5, <1>7, <1>11, <1>12, <2>1, <2>2
<1>14. /\ W \in Seq(Sym) /\ Len(W) = Len(mem) /\ out \in Seq(Sym) /\ W[f] = NUL
       /\ d' = d + Len(out) /\ d' \in d .. f /\ d' \in Nat /\ d <= d' /\ d' <= f
       /\ \A i \in 1 .. Len(out) : W[d + i - 1] = out[i]
       /\ \A i \in 1 .. Len(mem) : i < d \/ i > f => W[i] = mem[i]
  <2> HIDE DEF f
  <2> QED BY <1>2, <1>5, <1>11, <1>12
<1> HIDE DEF f, piece
\* The string at s ends in front of the next line.
<1>15. /\ end \in e .. Len(mem) /\ end \in Nat
       /\ p = 0 => end = Len(mem)
       /\ p # 0 => /\ p = end + 1 /\ p \in Nat /\ p <= Len(mem) /\ mem[end] = NUL
                   /\ p \in Starts(text, "nl") /\ Intact(p)
  <2>1. \/ p = 0 /\ end = Len(mem)
        \/ /\ p = end + 1 /\ p <= Len(mem) /\ s < p
           /\ p \in Starts(text, "nl") /\ mem[p - 1] = NUL /\ Intact(p)
    BY <1>3, Zenon DEF Follows, line
  <2>2. p \in Nat
    BY <1>1, <1>4 DEF Whole
  <2>3. end \in Nat
    <3>1. Piece(text, "nl", key) \in Seq(Sym)
      BY <1>3, <1>4, MethodsNext, StartIn, NextStart
    <3>2. Len(line) \in Nat
      BY <3>1, LenProperties DEF line
    <3> QED BY <1>5, <3>2
  <2> HIDE DEF end
  <2>4. CASE p = 0
    <3>1. end = Len(mem)
      BY <2>1, <2>3, <2>4
    <3> QED BY <1>4, <1>7, <2>3, <2>4, <3>1
  <2>5. CASE p # 0
    <3>1. /\ p = end + 1 /\ p <= Len(mem) /\ s <= end /\ mem[end] = NUL
          /\ p \in Starts(text, "nl") /\ Intact(p)
      BY <1>5, <2>1, <2>2, <2>3, <2>5
    <3>2. e <= end
      <4>1. ~(end \in s .. e - 1)
        BY <1>6, <3>1 DEF IsString
      <4> QED BY <1>5, <1>7, <2>3, <3>1, <4>1
    <3> QED BY <1>4, <1>7, <2>2, <2>3, <2>5, <3>1, <3>2
  <2> QED BY <2>4, <2>5
<1> HIDE DEF end
\* What W keeps.
<1>16. /\ W[Len(mem)] = NUL /\ W[end] = NUL
       /\ p # 0 => \A i \in p .. Len(mem) : W[i] = Append(text, NUL)[i] /\ i > f
  <2>1. \A i \in f .. Len(mem) : mem[i] = NUL => W[i] = NUL
    <3>1. ASSUME NEW i \in f .. Len(mem), mem[i] = NUL PROVE W[i] = NUL
      <4>1. i \in 1 .. Len(mem) /\ (i = f \/ i > f)
        BY <1>5, <1>12, <1>13, <3>1
      <4> QED BY <1>14, <3>1, <4>1
    <3> QED BY <3>1
  <2>2. Len(mem) \in f .. Len(mem) /\ end \in f .. Len(mem)
    BY <1>4, <1>7, <1>12, <1>13, <1>15
  <2>3. mem[end] = NUL
    <3>1. CASE p = 0
      BY <1>4, <1>15, <3>1
    <3>2. CASE p # 0
      BY <1>15, <3>2
    <3> QED BY <3>1, <3>2
  <2>4. ASSUME p # 0, NEW i \in p .. Len(mem)
        PROVE  W[i] = Append(text, NUL)[i] /\ i > f
    <3>1. i \in 1 .. Len(mem) /\ i > f
      BY <1>5, <1>7, <1>12, <1>13, <1>15, <2>4
    <3>2. mem[i] = Append(text, NUL)[i]
      BY <1>15, <2>4 DEF Intact
    <3> QED BY <1>14, <3>1, <3>2
  <2> QED BY <1>4, <2>1, <2>2, <2>3, <2>4
\* The names up to here.
<1> DEFINE upto == n + Len(piece)
<1>17. /\ upto \in Nat /\ upto <= Len(P) + 1 /\ upto = f - dest + 1
       /\ comma = 0 => upto = Len(P) + 1
       /\ comma # 0 => upto <= Len(P) /\ upto + 1 \in Starts(P, Comma)
       /\ Listed(P, upto) \in Seq(Plain)
  <2>1. /\ upto \in n .. Len(P) + 1
        /\ upto <= Len(P) => upto + 1 \in Starts(P, Comma)
        /\ Listed(P, n - 1) \in Seq(Plain)
        /\ Listed(P, upto) = Listed(P, n - 1) \o (IF name = <<>> THEN <<>> ELSE <<Comma>> \o name)
    <3> HIDE DEF n
    <3> QED BY <1>3, <1>4, ListedNext DEF piece
  <2>2. name \in Seq(Plain)
    <3>1. piece \in Seq(Plain)
      <4> HIDE DEF n
      <4> QED BY <1>3, <1>7, NextStart DEF piece
    <3> QED BY <3>1, NameTyped
  <2>3. Listed(P, upto) \in Seq(Plain)
    <3> DEFINE x == <<Comma>> \o name
    <3>1. x \in Seq(Plain)
      <4>1. <<Comma>> \in Seq(Plain)
        BY <1>4
      <4> HIDE DEF name
      <4> QED BY <2>2, <4>1, ConcatProperties
    <3> HIDE DEF x, name, upto, n
    <3>2. <<>> \in Seq(Plain)
      OBVIOUS
    <3>3. Listed(P, n - 1) \o x \in Seq(Plain) /\ Listed(P, n - 1) \o <<>> \in Seq(Plain)
      BY <2>1, <3>1, <3>2, ConcatProperties
    <3> QED BY <2>1, <3>3 DEF x
  <2>4. upto = f - dest + 1
    BY <1>5, <1>12, <1>13
  <2>5. upto \in Nat /\ upto <= Len(P) + 1
    <3> HIDE DEF upto
    <3> QED BY <1>4, <1>5, <2>1
  <2> HIDE DEF upto
  <2>6. comma = 0 => upto = Len(P) + 1
    BY <1>4, <1>5, <1>7, <1>12, <1>13, <2>4
  <2>7. comma # 0 => upto <= Len(P)
    BY <1>4, <1>5, <1>7, <1>12, <1>13, <2>4
  <2> QED BY <2>1, <2>3, <2>4, <2>5, <2>6, <2>7
<1>18. Listed(P, upto) = IF d' = dest THEN <<>> ELSE <<Comma>> \o SubSeq(W, dest, d' - 1)
  <2>1. LET to == d + Len(out)
            list == Listed(P, n + Len(Piece(P, Comma, n)))
        IN  list = IF to = dest THEN <<>> ELSE <<Comma>> \o SubSeq(W, dest, to - 1)
    <3>1. Listed(P, n - 1) = IF d = dest THEN <<>> ELSE <<Comma>> \o SubSeq(mem, dest, d - 1)
      BY <1>3, <1>5
    <3>2. name = ParamName(Piece(P, Comma, n))
      BY DEF piece
    <3>3. out = IF name = <<>> THEN <<>>
                ELSE (IF d > dest THEN <<Comma>> ELSE <<>>) \o name
      BY <1>9 DEF out
    <3>4. d + Len(out) - 1 <= Len(mem)
      <4>1. d' <= Len(mem)
        BY <1>4, <1>7, <1>12, <1>13, <1>14
      <4>2. d' = d + Len(out) /\ d' \in Nat /\ Len(mem) \in Nat
        BY <1>4, <1>14
      <4>3. d \in Nat /\ Len(out) \in Nat
        BY <1>5, <1>14, LenProperties
      <4> QED BY ONLY <4>1, <4>2, <4>3
    <3>5. \A i \in dest .. d - 1 : W[i] = mem[i]
      BY <1>4, <1>5, <1>14
    <3>6. dest \in Nat \ {0} /\ dest <= d
      BY <1>5
    <3>7. /\ Comma \in Plain /\ Plain \subseteq Sym /\ P \in Seq(Plain) /\ n \in Starts(P, Comma)
          /\ mem \in Seq(Sym) /\ W \in Seq(Sym) /\ Len(W) = Len(mem)
          /\ d \in Nat /\ out \in Seq(Sym)
          /\ \A i \in 1 .. Len(out) : W[d + i - 1] = out[i]
      BY <1>3, <1>4, <1>5, <1>14
    <3> HIDE DEF n, name
    <3>8. Adds(Plain, Sym, P, n, mem, W, dest, d, out)
      <4>1. out = IF ParamName(Piece(P, Comma, n)) = <<>> THEN <<>>
                  ELSE (IF d > dest THEN <<Comma>> ELSE <<>>) \o ParamName(Piece(P, Comma, n))
        BY <3>2, <3>3, Zenon
      <4> QED BY ONLY <3>1, <3>4, <3>5, <3>6, <3>7, <4>1 DEF Adds
    <3> QED BY ONLY <3>8, NamesGrow
  <2> QED BY <1>14, <2>1 DEF piece
<1> HIDE DEF upto
\* The entries so far, and the key, are in front of what was written.
<1>19. ASSUME NEW m \in Seq(Sym), Len(m) = Len(mem),
              \A i \in 1 .. Len(mem) : i < d => m[i] = mem[i]
       PROVE  /\ \A later \in Nat : key <= later =>
                   AllKept(m, text, later, group) /\ AllOf(m, group) = AllOf(mem, group)
              /\ \E k \in 1 .. dest - 1 : IsString(m, key, k)
              /\ Str(m, key) = Name(line)
  <2>1. ASSUME NEW later \in Nat, key <= later
        PROVE  AllKept(m, text, later, group) /\ AllOf(m, group) = AllOf(mem, group)
    <3>1. AllKept(mem, text, key, group)
      BY <1>1 DEF HelpInv, Edge
    <3>2. key \in 1 .. Len(mem) + 1 /\ \A i \in 1 .. key - 1 : m[i] = mem[i]
      BY <1>4, <1>5, <1>19
    <3> QED BY <1>4, <1>19, <2>1, <3>1, <3>2, GroupStays
  <2>2. PICK k \in 1 .. dest - 1 : IsString(mem, key, k)
    BY <1>3
  <2>3. \A i \in key .. k : m[i] = mem[i]
    BY <1>4, <1>5, <1>19, <2>2
  <2>4. IsString(m, key, k) /\ Str(m, key) = Str(mem, key)
    BY <1>4, <1>19, <2>2, <2>3, SameString
  <2> QED BY <1>3, <2>1, <2>2, <2>4
<1>20. CASE comma # 0
  <2>1. s' = f + 1 /\ mem' = W /\ pc' = pc /\ group' = group /\ p' = p
    BY <1>2, <1>13, <1>20
  <2>2. f < e /\ upto <= Len(P) /\ upto + 1 \in Starts(P, Comma) /\ s' \in Nat /\ s' <= e
    BY <1>7, <1>12, <1>13, <1>17, <1>20, <2>1
  <2>3. s' - dest = upto /\ s' \in 1 .. Len(mem) /\ dest \in 1 .. s'
    BY <1>4, <1>5, <1>7, <1>12, <1>13, <1>17, <2>1, <2>2
  <2>4. /\ \A later \in Nat : key <= later =>
             AllKept(W, text, later, group) /\ AllOf(W, group) = AllOf(mem, group)
        /\ \E k \in 1 .. dest - 1 : IsString(W, key, k)
        /\ Str(W, key) = Name(line)
    BY <1>14, <1>19
  <2>5. Whole'
    <3>1. {s, p, key, dest, d}' \subseteq 0 .. Len(mem)
      <4>1. p' \in 0 .. Len(mem) /\ key' \in 0 .. Len(mem) /\ dest' \in 0 .. Len(mem)
        BY <1>1, <1>2, <2>1 DEF Whole
      <4>2. d' \in 0 .. Len(mem) /\ s' \in 0 .. Len(mem)
        BY <1>4, <1>7, <1>12, <1>13, <1>14, <2>3, SMTT(20)
      <4> QED BY <4>1, <4>2
    <3> QED BY <1>1, <1>2, <1>14, <1>16, <2>1, <3>1 DEF Whole
  <2>6. Follows'
    <3>1. (key + Len(Piece(text, "nl", key)))' = end
      BY <1>2 DEF end, line
    <3>2. CASE p = 0
      BY <1>14, <1>15, <2>1, <3>1, <3>2 DEF Follows
    <3>3. CASE p # 0
      <4>1. p' = end + 1 /\ p' <= Len(mem') /\ s' < p' /\ p' \in Starts(text', "nl")
        BY <1>2, <1>7, <1>14, <1>15, <2>1, <2>2, <3>3
      <4>2. mem'[p' - 1] = NUL
        BY <1>15, <1>16, <2>1, <3>3, <4>1
      <4>3. Intact(p)'
        BY <1>2, <1>14, <1>16, <2>1, <3>3 DEF Intact
      <4> QED BY <3>1, <4>1, <4>2, <4>3 DEF Follows
    <3> QED BY <3>2, <3>3
  <2>7. Str(W, s') = SubSeq(P, s' - dest + 1, Len(P))
    <3> DEFINE at == f + 1
    <3>1. at \in s .. e /\ at - s + 1 = Len(piece) + 2 /\ e - s = Len(P) - n + 1
      BY <1>5, <1>7, <1>12, <1>13, <2>2
    <3> HIDE DEF at
    <3>2. IsString(mem, at, e) /\ Str(mem, at) = SubSeq(Str(mem, s), at - s + 1, e - s)
      BY <1>4, <1>6, <3>1, LaterString
    <3>3. \A i \in at .. e : W[i] = mem[i]
      BY <1>4, <1>5, <1>7, <1>12, <1>13, <1>14, SMTT(30) DEF at
    <3>4. Str(W, at) = Str(mem, at)
      BY <1>4, <1>14, <3>2, <3>3, SameString
    <3> DEFINE j == Len(P)  a == Len(piece) + 2  b == j - n + 1
    <3>5. /\ n \in Nat \ {0} /\ j \in Nat /\ n <= j + 1 /\ j <= Len(P)
          /\ a \in Nat \ {0} /\ b \in Nat /\ a <= b + 1 /\ b <= j - n + 1
          /\ n + a - 1 = upto + 1 /\ n + b - 1 = j
      BY <1>4, <1>5, <1>7, <1>12, <1>13, <1>17, <2>2, SMTT(20) DEF upto
    <3> HIDE DEF j, a, b, n
    <3>6. SubSeq(SubSeq(P, n, j), a, b) = SubSeq(P, n + a - 1, n + b - 1)
      BY <1>3, <3>5, PartOfPart
    <3>7. Str(mem, at) = SubSeq(SubSeq(P, n, j), a, b)
      BY <1>3, <3>1, <3>2 DEF j, a, b
    <3> QED BY <2>1, <2>3, <3>4, <3>5, <3>6, <3>7 DEF at, j
  <2>8. AtParams'
    <3>1. Piece(text, "nl", key)' = line
      BY <1>2 DEF line
    <3>2. /\ key' \in 1 .. dest' - 1 /\ dest' \in 1 .. s' /\ s' \in 1 .. Len(mem')
          /\ d' \in dest' .. s' /\ d' < s' /\ s' - dest' <= Len(P)
      <4>1. s' = f + 1 /\ Len(mem') = Len(mem) /\ key' = key /\ dest' = dest
        BY <1>2, <1>14, <2>1
      <4>2. s' - dest' <= Len(P) /\ dest' \in 1 .. s' /\ s' \in 1 .. Len(mem')
        BY <2>2, <2>3, <4>1
      <4>3. d' \in dest' .. s' /\ d' < s'
        BY <1>5, <1>12, <1>14, <4>1
      <4> QED BY <1>3, <4>1, <4>2, <4>3
    <3>3. Listed(P, s' - dest') =
            IF d' = dest' THEN <<>> ELSE <<",">> \o SubSeq(mem', dest', d' - 1)
      BY <1>2, <1>18, <2>1, <2>3, Zenon DEF Comma
    <3>4. s' - dest' + 1 \in Starts(P, ",")
      BY <1>2, <2>2, <2>3, Zenon DEF Comma
    <3>5. /\ key' \in Starts(text', "nl") /\ Documents(line)
          /\ \E k \in 1 .. dest' - 1 : IsString(mem', key', k)
          /\ Str(mem', key') = Name(line)
          /\ P \in Seq(Plain)
          /\ Str(mem', s') = SubSeq(P, s' - dest' + 1, Len(P))
      BY <1>2, <1>3, <2>1, <2>4, <2>7, Zenon
    <3> QED BY <2>6, <3>1, <3>2, <3>3, <3>4, <3>5, Zenon DEF AtParams, P
  <2>9. AllKept(W, text, key, group) /\ AllOf(W, group) = AllOf(mem, group)
    BY <1>5, <2>4
  <2>10. Edge' = key /\ Edge = key /\ pc' = "params"
    BY <1>1, <1>2, <2>1 DEF Edge
  <2>11. AllOf(mem, group) = Methods(text, key - 1)
    BY <2>10 DEF HelpInv
  <2> QED BY <1>2, <2>1, <2>5, <2>8, <2>9, <2>10, <2>11 DEF HelpInv
<1>21. CASE comma = 0
  <2> DEFINE M == Cut(W, d')
             x == [key |-> key, value |-> dest]
  <2>1. mem' = M /\ group' = Append(group, x) /\ p' = p /\ s' = p /\ f = e
        /\ pc' = (IF p = 0 THEN "done" ELSE "line")
    BY <1>2, <1>13, <1>21 DEF NextLine
  <2>2. d' \in 1 .. Len(mem) /\ d' # 0
    BY <1>5, <1>7, <1>12, <1>13, <1>14
  <2>3. /\ M \in Seq(Sym) /\ Len(M) = Len(mem)
        /\ \A i \in 1 .. Len(mem) : M[i] = IF i = d' THEN NUL ELSE W[i]
    <3>1. DOMAIN W = 1 .. Len(mem) /\ \A i \in 1 .. Len(mem) : W[i] \in Sym
      BY <1>14, LenProperties, ElementOfSeq
    <3>2. M = [W EXCEPT ![d'] = NUL]
      BY <2>2 DEF Cut
    <3> HIDE DEF M
    <3> QED BY <1>4, <1>14, <2>2, <3>1, <3>2
  <2> HIDE DEF M
  <2>4. \A i \in 1 .. Len(mem) : i < d => M[i] = mem[i]
    <3>1. ASSUME NEW i \in 1 .. Len(mem), i < d PROVE M[i] = mem[i]
      <4>1. i # d'
        BY <1>5, <1>14, <3>1
      <4> QED BY <1>14, <2>3, <3>1, <4>1
    <3> QED BY <3>1
  <2>5. /\ \A later \in Nat : key <= later =>
             AllKept(M, text, later, group) /\ AllOf(M, group) = AllOf(mem, group)
        /\ \E k \in 1 .. dest - 1 : IsString(M, key, k)
        /\ Str(M, key) = Name(line)
    BY <1>19, <2>3, <2>4
  <2>6. /\ M[Len(mem)] = NUL /\ M[end] = NUL
        /\ p # 0 => \A i \in p .. Len(mem) : M[i] = Append(text, NUL)[i]
    <3>1. \A i \in 1 .. Len(mem) : W[i] = NUL => M[i] = NUL
      BY <2>3
    <3>2. Len(mem) \in 1 .. Len(mem) /\ end \in 1 .. Len(mem)
      BY <1>4, <1>5, <1>7, <1>15
    <3>3. ASSUME p # 0, NEW i \in p .. Len(mem) PROVE M[i] = Append(text, NUL)[i]
      <4>1. W[i] = Append(text, NUL)[i] /\ i > f /\ p \in Nat
        BY <1>15, <1>16, <3>3
      <4>2. i \in 1 .. Len(mem) /\ i # d'
        BY <1>12, <1>14, <3>3, <4>1
      <4> QED BY <2>3, <4>1, <4>2
    <3> QED BY <1>16, <3>1, <3>2, <3>3
  \* The value, in the memory and in the help.
  <2>7. IsString(M, dest, d') /\ Str(M, dest) = Names(P)
    <3>1. upto = Len(P) + 1
      BY <1>17, <1>21
    <3> DEFINE list == Listed(P, upto)
    <3>2. Names(P) = SubSeq(list, 2, Len(list))
      BY <3>1 DEF Names
    <3>3. list \in Seq(Plain)
      BY <1>17
    <3>4. list = IF d' = dest THEN <<>> ELSE <<Comma>> \o SubSeq(W, dest, d' - 1)
      BY <1>18
    <3> HIDE DEF list
    <3>5. CASE d' = dest
      <4>1. Names(P) = <<>>
        <5>1. list = <<>> /\ Len(list) = 0
          BY <3>4, <3>5
        <5> QED BY <3>2, <5>1, SubSeqEmpty
      <4>2. IsString(M, dest, dest)
        BY <1>4, <1>5, <2>2, <2>3, <3>5, SMTT(30) DEF IsString
      <4>3. Len(Str(M, dest)) = dest - dest /\ Str(M, dest) \in Seq(Sym)
        BY <2>3, <4>2, StringIs
      <4>4. Str(M, dest) = <<>>
        BY <1>5, <4>3, EmptySeq
      <4> QED BY <3>5, <4>1, <4>2, <4>4
    <3>6. CASE d' # dest
      <4> DEFINE k == d' - 1
                 v == SubSeq(W, dest, k)
                 long == <<Comma>> \o v
      <4>1. k \in Nat /\ dest \in Nat \ {0} /\ dest <= k /\ dest <= k + 1 /\ k <= Len(W) /\ k + 1 = d'
        BY <1>5, <1>14, <2>2, <3>6
      <4>2. list = long
        BY <3>4, <3>6
      <4> HIDE DEF k
      <4>3. /\ v \in Seq(Sym) /\ Len(v) = k - dest + 1
            /\ \A i \in 1 .. k - dest + 1 : v[i] = W[dest + i - 1]
        BY <1>14, <4>1, Part
      <4> HIDE DEF v
      <4>4. /\ long \in Seq(Sym) /\ Len(long) = 1 + Len(v)
            /\ \A i \in 1 .. Len(v) : long[i + 1] = v[i]
        <5> DEFINE one == <<Comma>>
        <5>1. one \in Seq(Sym) /\ Len(one) = 1 /\ Len(v) \in Nat
          BY <1>4, <4>3, LenProperties
        <5> HIDE DEF one
        <5>2. /\ one \o v \in Seq(Sym) /\ Len(one \o v) = Len(one) + Len(v)
              /\ \A i \in 1 .. Len(one) + Len(v) :
                   (one \o v)[i] = IF i <= Len(one) THEN one[i] ELSE v[i - Len(one)]
          BY <4>3, <5>1, ConcatProperties
        <5>3. ASSUME NEW i \in 1 .. Len(v) PROVE (one \o v)[i + 1] = v[i]
          <6>1. i + 1 \in 1 .. Len(one) + Len(v) /\ ~(i + 1 <= Len(one)) /\ (i + 1) - Len(one) = i
            BY <5>1
          <6> QED BY <5>2, <6>1
        <5> QED BY <5>1, <5>2, <5>3 DEF one
      <4> HIDE DEF long
      <4>5. ASSUME NEW i \in dest .. k PROVE W[i] # NUL
        <5> DEFINE j == i - dest + 1
        <5>1. j \in 1 .. k - dest + 1 /\ dest + j - 1 = i /\ j + 1 \in 1 .. Len(long)
          BY <4>1, <4>3, <4>4
        <5> HIDE DEF j
        <5>2. long[j + 1] = W[i]
          BY <4>3, <4>4, <5>1
        <5>3. long[j + 1] \in Plain
          BY <3>3, <4>2, <5>1, ElementOfSeq
        <5> QED BY <1>4, <5>2, <5>3
      <4>6. \A i \in dest .. k : M[i] = W[i]
        <5>1. ASSUME NEW i \in dest .. k PROVE M[i] = W[i]
          <6>1. i \in 1 .. Len(mem) /\ i # d'
            BY <1>14, <4>1
          <6> QED BY <2>3, <6>1
        <5> QED BY <5>1
      <4>7. IsString(M, dest, d')
        <5>1. M[d'] = NUL
          BY <2>2, <2>3
        <5>2. dest \in 1 .. Len(M) /\ d' \in dest .. Len(M) /\ d' - 1 = k
          BY <1>4, <1>5, <1>14, <2>2, <2>3, <4>1, SMTT(20)
        <5> QED BY <4>5, <4>6, <5>1, <5>2 DEF IsString
      <4>8. Str(M, dest) = SubSeq(M, dest, k)
        BY <2>3, <4>7, StringIs DEF k
      <4>9. SubSeq(M, dest, k) = v
        BY <1>14, <2>3, <4>1, <4>6, SamePart, SMTT(20) DEF v
      <4>10. SubSeq(long, 2, Len(long)) = v
        <5> DEFINE two == 2  l == Len(long)
        <5>1. two \in Nat \ {0} /\ l \in Nat /\ two <= l + 1 /\ l <= Len(long) /\ l - two + 1 = Len(v)
              /\ Len(v) \in Nat
          BY <4>3, <4>4, LenProperties
        <5>2. ASSUME NEW i \in 1 .. Len(v) PROVE two + i - 1 = i + 1
          BY <5>1
        <5> HIDE DEF two, l
        <5>3. /\ SubSeq(long, two, l) \in Seq(Sym) /\ Len(SubSeq(long, two, l)) = l - two + 1
              /\ \A i \in 1 .. l - two + 1 : SubSeq(long, two, l)[i] = long[two + i - 1]
          <6>1. long \in Seq(Sym)
            BY <4>4
          <6> QED BY ONLY <5>1, <6>1, Part, SMTT(30)
        <5>4. SubSeq(long, two, l) = v
          BY <4>3, <4>4, <5>1, <5>2, <5>3, SeqEqual
        <5> QED BY <5>4 DEF two, l
      <4> QED BY <3>2, <4>2, <4>7, <4>8, <4>9, <4>10
    <3> QED BY <3>5, <3>6
  <2>8. EntryOf(M, x) = Method(line)
    BY <2>5, <2>7 DEF EntryOf, Method, P
  \* Where the next line begins.
  <2>9. /\ Edge' = end + 1 /\ pc' \in {"line", "done"} /\ pc' # "params"
        /\ pc' = "line" => AtLine'
    <3>1. CASE p = 0
      BY <1>14, <1>15, <2>1, <2>3, <3>1 DEF Edge
    <3>2. CASE p # 0
      <4>1. p = end + 1 /\ p \in Nat /\ p <= Len(mem) /\ p \in Starts(text, "nl") /\ p \in 1 .. Len(mem)
        BY <1>15, <3>2
      <4>2. Intact(s)'
        BY <1>2, <2>1, <2>3, <2>6, <3>2 DEF Intact
      <4> QED BY <1>2, <2>1, <2>3, <3>2, <4>1, <4>2 DEF Edge, AtLine
    <3> QED BY <3>1, <3>2
  <2>10. end + 1 \in Nat /\ key <= end + 1 /\ dest - 1 <= end /\ d' <= end /\ dest - 1 \in Nat
    BY <1>5, <1>7, <1>13, <1>14, <1>15, <2>1, SMTT(30)
  <2>11. AllKept(M, text, end + 1, group) /\ AllOf(M, group) = AllOf(mem, group)
    BY <2>5, <2>10
  <2>12. Kept(M, text, end + 1, x)
    <3> DEFINE later == end + 1
    <3>1. \E k \in 1 .. later - 1 : IsString(M, x.key, k)
      <4>1. PICK k \in 1 .. dest - 1 : IsString(M, key, k)
        BY <2>5
      <4>2. k \in 1 .. later - 1
        BY <1>15, <2>10
      <4> QED BY <4>1, <4>2
    <3>2. \E v \in 1 .. later - 1 : IsString(M, x.value, v)
      <4>1. d' \in 1 .. later - 1
        BY <1>15, <2>2, <2>10
      <4> QED BY <2>7, <4>1
    <3>3. \E n0 \in Starts(text, "nl") :
            Documents(Piece(text, "nl", n0)) /\ EntryOf(M, x) = Method(Piece(text, "nl", n0))
      <4> HIDE DEF x
      <4> QED BY <1>3, <2>8 DEF line
    <3> HIDE DEF x, later
    <3>4. Kept(M, text, later, x)
      BY ONLY <3>1, <3>2, <3>3, Zenon DEF Kept
    <3> QED BY <3>4 DEF later
  <2>13. /\ group \in Seq([key : Nat, value : Nat]) /\ x \in [key : Nat, value : Nat]
         /\ Len(group) \in Nat
    BY <1>1, <1>5, LenProperties DEF Whole
  <2> HIDE DEF x
  <2>14. /\ group' \in Seq([key : Nat, value : Nat]) /\ DOMAIN group' = 1 .. Len(group) + 1
         /\ DOMAIN group = 1 .. Len(group)
         /\ \A i \in 1 .. Len(group) : group'[i] = group[i]
         /\ group'[Len(group) + 1] = x
    BY <2>1, <2>13, AppendProperties, LenProperties
  <2>15. AllKept(M, text, end + 1, group')
    <3>1. ASSUME NEW i \in DOMAIN group' PROVE Kept(M, text, end + 1, group'[i])
      <4>1. CASE i \in 1 .. Len(group)
        BY <2>11, <2>14, <4>1 DEF AllKept
      <4>2. CASE i = Len(group) + 1
        BY <2>12, <2>14, <4>2
      <4> QED BY <2>13, <2>14, <4>1, <4>2
    <3> QED BY <3>1 DEF AllKept
  <2>16. AllOf(M, group') = Append(AllOf(mem, group), Method(line))
    <3> DEFINE a == AllOf(mem, group)  V == {EntryOf(M, group[i]) : i \in DOMAIN group}
                                            \cup {Method(line)}
               b == AllOf(M, group')  c == Append(a, Method(line))
    <3>1. a = [i \in 1 .. Len(group) |-> EntryOf(M, group[i])]
      BY <2>11, <2>14 DEF AllOf
    <3>2. b = [i \in 1 .. Len(group) + 1 |-> EntryOf(M, group'[i])]
      BY <2>14 DEF AllOf
    <3>3. \A i \in 1 .. Len(group) : EntryOf(M, group[i]) \in V
      BY <2>14
    <3>4. Method(line) \in V
      OBVIOUS
    <3> HIDE DEF a, b, V
    <3>5. a \in Seq(V) /\ Len(a) = Len(group)
      BY <2>13, <3>1, <3>3
    <3>6. /\ c \in Seq(V) /\ Len(c) = Len(group) + 1 /\ c[Len(group) + 1] = Method(line)
          /\ \A i \in 1 .. Len(group) : c[i] = a[i]
      BY <3>4, <3>5, AppendProperties
    <3> HIDE DEF c
    <3>7. ASSUME NEW i \in 1 .. Len(group) + 1 PROVE b[i] = c[i] /\ b[i] \in V
      <4>1. CASE i \in 1 .. Len(group)
        BY <2>14, <3>1, <3>2, <3>3, <3>6, <4>1
      <4>2. CASE i = Len(group) + 1
        BY <2>8, <2>14, <3>2, <3>4, <3>6, <4>2
      <4> QED BY <2>13, <4>1, <4>2
    <3>8. b \in Seq(V) /\ Len(b) = Len(group) + 1
      BY <2>13, <3>2, <3>7
    <3>9. b = c
      BY <3>6, <3>7, <3>8, SeqEqual
    <3> QED BY <3>9 DEF a, b, c
  <2>17. Methods(text, end) = Append(AllOf(mem, group), Method(line))
    <3>1. /\ Methods(text, end) = Methods(text, key - 1) \o
                                  (IF Documents(line) THEN <<Method(line)>> ELSE <<>>)
          /\ Methods(text, key - 1) \in Seq(AllMethods(text))
      <4>1. \A i \in Starts(text, "nl") : Method(Piece(text, "nl", i)) \in AllMethods(text)
        BY DEF AllMethods
      <4> QED BY <1>3, <1>4, <4>1, MethodsNext DEF end, line
    <3>2. AllOf(mem, group) = Methods(text, key - 1)
      <4>1. Edge = key
        BY <1>1 DEF Edge
      <4> QED BY <4>1 DEF HelpInv
    <3>3. Method(line) \in AllMethods(text)
      BY <1>3 DEF AllMethods, line
    <3>4. Append(AllOf(mem, group), Method(line)) = AllOf(mem, group) \o <<Method(line)>>
      BY <3>1, <3>2, <3>3, AppendIsConcat
    <3> QED BY <1>3, <3>1, <3>2, <3>4
  <2>18. Whole'
    <3>1. {s, p, key, dest, d}' \subseteq 0 .. Len(mem)
      <4>1. p' \in 0 .. Len(mem) /\ key' \in 0 .. Len(mem) /\ dest' \in 0 .. Len(mem) /\ s' \in 0 .. Len(mem)
        BY <1>1, <1>2, <2>1 DEF Whole
      <4> QED BY <2>2, <4>1
    <3> QED BY <1>1, <1>2, <2>1, <2>3, <2>6, <2>9, <2>14, <3>1 DEF Whole
  <2>19. Edge' - 1 = end
    BY <1>15, <2>9
  <2> QED BY <1>2, <2>1, <2>9, <2>15, <2>16, <2>17, <2>18, <2>19 DEF HelpInv
<1> QED BY <1>20, <1>21

LEMMA HelpInvNext == HelpInv /\ [HelpNext]_helpVars => HelpInv'
<1> SUFFICES ASSUME HelpInv, [HelpNext]_helpVars PROVE HelpInv'
  OBVIOUS
<1>1. CASE Line
  BY <1>1, LineStep
<1>2. CASE Param
  BY <1>2, ParamStep
<1>3. CASE UNCHANGED helpVars
  BY <1>3, Zenon DEF helpVars, HelpInv, Whole, AtLine, Intact, AtParams, Follows, Edge, Listed
<1> QED BY <1>1, <1>2, <1>3 DEF HelpNext

\* The invariant holds for every help: at each line and each parameter, what
\* was done so far lies in front of the edge and says what the text says, and
\* what lies behind the cursors is as it came.
THEOREM HelpInductive == HelpSpec => []HelpInv
BY HelpInvInit, HelpInvNext, PTL DEF HelpSpec

-----------------------------------------------------------------------------
(* What follows from it.                                                   *)

\* The pointers of parse_api_help and strip_params stay inside the copy, whose
\* last NUL is never overwritten, and dest never overtakes the text.
THEOREM HelpInBounds == HelpSpec => []CursorsInBounds
<1>1. HelpInv => CursorsInBounds
  <2> SUFFICES ASSUME HelpInv PROVE CursorsInBounds
    OBVIOUS
  <2>1. Whole /\ (pc = "params" => AtParams)
    BY DEF HelpInv
  <2>2. Last(mem) = NUL
    BY <2>1 DEF Whole, Last
  <2>3. ASSUME pc = "params" PROVE d >= dest /\ (s = dest \/ d < s) /\ d <= s
    <3>1. d \in dest .. s /\ (s = dest \/ d < s)
      BY <2>1, <2>3, Zenon DEF AtParams
    <3>2. d \in Int
      BY <3>1
    <3> QED BY <3>1, <3>2
  <2> QED BY <2>1, <2>2, <2>3 DEF Whole, CursorsInBounds
<1> QED BY <1>1, HelpInductive, PTL

\* A sequence that is the end of another one.
LEMMA SuffixIs ==
  ASSUME NEW S, NEW t \in Seq(S), NEW n \in 1 .. Len(t) + 1
  PROVE  IsSuffix(SubSeq(t, n, Len(t)), t)
<1> DEFINE k == Len(t)
           u == SubSeq(t, n, k)
           l == k - n + 1
<1>1. n \in Nat \ {0} /\ k \in Nat /\ n <= k + 1 /\ k <= Len(t) /\ l \in Nat /\ l <= k
  BY LenProperties
<1>2. u \in Seq(S) /\ Len(u) = l /\ \A i \in 1 .. l : u[i] = t[n + i - 1]
  <2> HIDE DEF k
  <2> QED BY <1>1, Part
<1> DEFINE R(x) == [i \in 1 .. Len(x) |-> x[Len(x) - i + 1]]
<1>3. Reverse(u) = R(u) /\ Reverse(t) = R(t)
  BY Zenon DEF Reverse
<1> HIDE DEF u
<1>4. R(u) \in Seq(S) /\ Len(R(u)) = l /\ \A i \in 1 .. l : R(u)[i] = u[l - i + 1]
  <2>1. ASSUME NEW i \in 1 .. l PROVE u[l - i + 1] \in S
    <3>1. l - i + 1 \in 1 .. Len(u)
      BY <1>1, <1>2
    <3> QED BY <1>2, <3>1, ElementOfSeq
  <2> HIDE DEF l
  <2> QED BY <1>1, <1>2, <2>1
<1>5. R(t) \in Seq(S) /\ Len(R(t)) = k /\ \A i \in 1 .. k : R(t)[i] = t[k - i + 1]
  <2>1. ASSUME NEW i \in 1 .. k PROVE t[k - i + 1] \in S
    <3>1. k - i + 1 \in 1 .. Len(t)
      BY <1>1
    <3> QED BY <3>1, ElementOfSeq
  <2> QED BY <1>1, <2>1
<1>6. ASSUME NEW i \in 1 .. l PROVE R(u)[i] = R(t)[i]
  <2>1. /\ i \in 1 .. k /\ l - i + 1 \in 1 .. l /\ n + (l - i + 1) - 1 = k - i + 1
    BY <1>1
  <2> HIDE DEF R
  <2>2. R(u)[i] = u[l - i + 1] /\ R(t)[i] = t[k - i + 1]
    BY <1>4, <1>5, <2>1
  <2>3. u[l - i + 1] = t[n + (l - i + 1) - 1]
    BY <1>2, <2>1
  <2> QED BY <2>1, <2>2, <2>3
<1> HIDE DEF R, l, k
<1>7. IsPrefix(R(u), R(t))
  <2> DEFINE one == 1
  <2>1. one \in Nat \ {0} /\ one = 1
    OBVIOUS
  <2> HIDE DEF one
  <2>2. SubSeq(R(u), one, l) = SubSeq(R(t), one, l)
    <3>1. \A i \in one .. l : R(u)[i] = R(t)[i]
      BY <1>6, <2>1
    <3> QED BY <1>1, <1>4, <1>5, <2>1, <3>1, SamePart
  <2> QED BY <1>1, <1>4, <1>5, <2>1, <2>2 DEF IsPrefix
<1> QED BY <1>3, <1>7, Zenon DEF IsSuffix, u, k

\* What strip_params and the loop over the lines have still to read is what
\* http_post returned: parse_api_help writes only in front of it.
THEOREM HelpUnread == HelpSpec => []UnreadIntact
<1>1. HelpInv => UnreadIntact
  <2> SUFFICES ASSUME HelpInv PROVE UnreadIntact
    OBVIOUS
  <2> DEFINE copy == Append(text, NUL)
             z == Len(mem)
  <2>1. Whole /\ (pc = "params" => AtParams) /\ (pc = "line" => AtLine)
    BY DEF HelpInv
  <2>2. mem \in Seq(Sym) /\ copy \in Seq(Sym) /\ Len(copy) = z /\ z \in Nat
    BY <2>1, CopyIs, AppendProperties, LenProperties DEF Whole
  <2> HIDE DEF copy
  <2>3. ASSUME NEW from \in 0 .. z, from # 0, Intact(from)
        PROVE  SubSeq(mem, from, z) = SubSeq(copy, from, z)
    <3>1. \A i \in from .. z : mem[i] = copy[i]
      BY <2>3 DEF Intact, copy
    <3> HIDE DEF z
    <3>2. z <= Len(mem) /\ z <= Len(copy) /\ from \in Nat \ {0}
      BY <2>2, <2>3 DEF z
    <3> QED BY <2>2, <3>1, <3>2, SamePart
  <2>4. ASSUME pc = "params", p # 0
        PROVE  SubSeq(mem, p, z) = SubSeq(copy, p, z)
    <3>1. Intact(p) /\ p \in 0 .. z
      BY <2>1, <2>4 DEF AtParams, Follows, Whole
    <3> QED BY <2>3, <2>4, <3>1
  <2>5. ASSUME pc = "params" PROVE IsSuffix(Str(mem, s), Params(Piece(text, "nl", key)))
    <3> DEFINE t == Params(Piece(text, "nl", key))
               n == s - dest + 1
    <3>1. /\ t \in Seq(Plain) /\ dest \in 1 .. s /\ s \in 1 .. Len(mem) /\ s - dest <= Len(t)
          /\ Str(mem, s) = SubSeq(t, n, Len(t))
      BY <2>1, <2>5, Zenon DEF AtParams
    <3> HIDE DEF t
    <3>2. n \in 1 .. Len(t) + 1
      BY <2>2, <3>1, LenProperties
    <3>3. IsSuffix(SubSeq(t, n, Len(t)), t)
      BY ONLY <3>1, <3>2, SuffixIs
    <3> QED BY <3>1, <3>3 DEF t
  <2>6. ASSUME pc = "line" PROVE SubSeq(mem, s, z) = SubSeq(copy, s, z)
    <3>1. Intact(s) /\ s \in 1 .. z
      BY <2>1, <2>6 DEF AtLine
    <3> QED BY <2>2, <2>3, <3>1
  <2> QED BY <2>4, <2>5, <2>6 DEF UnreadIntact, copy, z
<1> QED BY <1>1, HelpInductive, PTL

\* parse_api_help gives the methods of the help in their order, each with the
\* names of its parameters, and at the end all of them.
THEOREM HelpIsParsed == HelpSpec => []HelpParsed
<1>1. HelpInv => HelpParsed
  <2> SUFFICES ASSUME HelpInv PROVE HelpParsed
    OBVIOUS
  <2> DEFINE all == AllMethods(text)
             whole == Meaning(text)
             l == Len(group)
  <2>1. /\ Whole /\ (pc = "params" => AtParams) /\ (pc = "line" => AtLine)
        /\ AllOf(mem, group) = Methods(text, Edge - 1)
    BY DEF HelpInv
  <2>2. /\ text \in Seq(Sym) /\ Len(text) \in Nat /\ Len(mem) = Len(text) + 1
        /\ pc \in {"line", "params", "done"} /\ l \in Nat /\ DOMAIN group = 1 .. l
    BY <2>1, CopyIs, LenProperties DEF Whole
  <2>3. Result = AllOf(mem, group)
    BY DEF Result, AllOf, Entry, EntryOf
  <2>4. \A i \in Starts(text, "nl") : Method(Piece(text, "nl", i)) \in all
    BY DEF AllMethods
  <2>5. ASSUME NEW n \in Starts(text, "nl")
        PROVE  Methods(text, n - 1) \in Seq(all) /\ Continues(all, Methods(text, n - 1), whole)
    <3> HIDE DEF all
    <3> QED BY <2>2, <2>4, MethodsNext
  <2>6. whole \in Seq(all)
    <3>1. 1 \in Starts(text, "nl")
      BY DEF Starts
    <3>2. PICK more \in Seq(all) : whole = Methods(text, 1 - 1) \o more
      BY <2>5, <3>1, Zenon DEF Continues
    <3> HIDE DEF all, whole
    <3> QED BY <2>5, <3>1, <3>2, ConcatProperties
  <2>7. Result \in Seq(all) /\ Continues(all, Result, whole)
    <3>1. CASE pc = "done"
      <4>1. Edge - 1 = Len(text) + 1
        BY <2>2, <3>1 DEF Edge
      <4>2. Result = whole
        BY <2>1, <2>3, <4>1 DEF Meaning
      <4>3. <<>> \in Seq(all) /\ whole = whole \o <<>>
        <5> HIDE DEF whole, all
        <5> QED BY <2>6, EmptySeq, ConcatEmptySeq
      <4> QED BY <2>6, <4>2, <4>3 DEF Continues
    <3>2. CASE pc \in {"line", "params"}
      <4>1. Edge \in Starts(text, "nl")
        BY <2>1, <3>2 DEF Edge, AtLine, AtParams
      <4> QED BY <2>1, <2>3, <2>5, <4>1
    <3> QED BY <2>2, <3>1, <3>2
  <2>8. Len(Result) = l
    <3>1. Result = [i \in 1 .. l |-> Entry(group[i])]
      BY <2>2 DEF Result
    <3> HIDE DEF l
    <3> QED BY <2>2, <2>7, <3>1
  <2>9. pc = "done" => Result = whole
    <3>1. ASSUME pc = "done" PROVE Result = whole
      <4>1. Edge - 1 = Len(text) + 1
        BY <2>2, <3>1 DEF Edge
      <4> QED BY <2>1, <2>3, <4>1 DEF Meaning
    <3> QED BY <3>1
  <2>10. SubSeq(whole, 1, l) = Result
    <3> HIDE DEF all, whole, l
    <3> DEFINE r == Result  one == 1
    <3>1. r \in Seq(all) /\ Len(r) = l /\ one = 1 /\ one \in Nat \ {0}
      BY <2>7, <2>8
    <3>2. PICK more \in Seq(all) : whole = r \o more
      BY <2>7 DEF Continues
    <3> HIDE DEF r, one
    <3>3. /\ Len(whole) = l + Len(more) /\ Len(more) \in Nat
          /\ \A i \in 1 .. l : whole[i] = r[i]
      <4>1. /\ Len(r \o more) = Len(r) + Len(more) /\ Len(more) \in Nat
            /\ \A i \in 1 .. Len(r) + Len(more) :
                 (r \o more)[i] = IF i <= Len(r) THEN r[i] ELSE more[i - Len(r)]
        BY ONLY <3>1, <3>2, ConcatProperties, LenProperties
      <4> QED BY <2>2, <3>1, <3>2, <4>1
    <3>4. SubSeq(whole, one, l) = SubSeq(r, one, l)
      <4>1. l <= Len(whole) /\ l <= Len(r) /\ \A i \in one .. l : whole[i] = r[i]
        BY <2>2, <3>1, <3>3
      <4> QED BY <2>2, <2>6, <3>1, <4>1, SamePart
    <3>5. SubSeq(r, one, l) = r
      <4>1. /\ SubSeq(r, one, l) \in Seq(all) /\ Len(SubSeq(r, one, l)) = l - one + 1
            /\ \A i \in 1 .. l - one + 1 : SubSeq(r, one, l)[i] = r[one + i - 1]
        BY <2>2, <3>1, Part
      <4>2. l - one + 1 = l /\ \A i \in 1 .. l : one + i - 1 = i
        BY <2>2, <3>1
      <4>3. \A i \in 1 .. l : SubSeq(r, one, l)[i] = r[i]
        BY <4>1, <4>2
      <4> QED BY <3>1, <4>1, <4>2, <4>3, SeqEqual
    <3> QED BY <3>1, <3>4, <3>5 DEF r
  <2> QED BY <2>8, <2>9, <2>10 DEF HelpParsed
<1> QED BY <1>1, HelpInductive, PTL


-----------------------------------------------------------------------------
(* What the cache gives back.                                              *)

\* No default value has a blank in front of its '='; a text begins and ends
\* with something other than a blank.
Tight(t) == \A i \in 2 .. Len(t) : t[i] = "=" => t[i - 1] \notin Blank
Ends(t) == t # <<>> => t[1] \notin Blank /\ t[Len(t)] \notin Blank

LEMMA TightPart ==
  ASSUME NEW S, NEW t \in Seq(S), Tight(t), NEW m \in Nat \ {0}, NEW n \in Nat, n <= Len(t)
  PROVE  SubSeq(t, m, n) \in Seq(S) /\ Tight(SubSeq(t, m, n))
<1> DEFINE u == SubSeq(t, m, n)
<1>1. CASE m <= n + 1
  <2>1. /\ u \in Seq(S) /\ Len(u) = n - m + 1
        /\ \A i \in 1 .. n - m + 1 : u[i] = t[m + i - 1]
    BY <1>1, Part
  <2> HIDE DEF u
  <2>2. ASSUME NEW i \in 2 .. Len(u), u[i] = "=" PROVE u[i - 1] \notin Blank
    <3> DEFINE j == m + i - 1
    <3>1. /\ i \in 1 .. n - m + 1 /\ i - 1 \in 1 .. n - m + 1
          /\ j \in 2 .. Len(t) /\ m + (i - 1) - 1 = j - 1
      BY <1>1, <2>1, LenProperties
    <3>2. u[i] = t[j] /\ u[i - 1] = t[j - 1]
      BY <2>1, <3>1
    <3> HIDE DEF j
    <3> QED BY <2>2, <3>1, <3>2 DEF Tight
  <2>3. Tight(u)
    BY <2>2 DEF Tight
  <2> QED BY <2>1, <2>3 DEF u
<1>2. CASE ~(m <= n + 1)
  <2>1. u = <<>> /\ <<>> \in Seq(S)
    BY <1>2, SubSeqEmpty
  <2>2. Tight(<<>>)
    BY DEF Tight
  <2> QED BY <2>1, <2>2
<1> QED BY <1>1, <1>2

LEMMA TrimEnds ==
  ASSUME NEW S, NEW t \in Seq(S)
  PROVE  Trim(t) \in Seq(S) /\ Ends(Trim(t)) /\ (Tight(t) => Tight(Trim(t)))
<1> DEFINE last == Max({0} \cup {n \in DOMAIN t : t[n] \notin Blank})
           u == Trim(t)
<1>1. /\ u \in Seq(S) /\ last \in 0 .. Len(t)
      /\ \E i \in 1 .. Len(t) + 1 :
           /\ i <= last + 1 /\ u = SubSeq(t, i, last)
           /\ i <= last => t[i] \notin Blank /\ t[last] \notin Blank
  BY TrimIs
<1> HIDE DEF last, u
<1>2. PICK i \in 1 .. Len(t) + 1 :
        /\ i <= last + 1 /\ u = SubSeq(t, i, last)
        /\ i <= last => t[i] \notin Blank /\ t[last] \notin Blank
  BY <1>1
<1>3. Len(t) \in Nat
  BY LenProperties
<1>4. i \in Nat \ {0} /\ last \in Nat /\ last <= Len(t)
  BY <1>1, <1>3
<1>5. Len(u) = last - i + 1 /\ \A j \in 1 .. last - i + 1 : u[j] = t[i + j - 1]
  BY <1>2, <1>4, Part
<1>6. Ends(u)
  <2> SUFFICES ASSUME u # <<>> PROVE u[1] \notin Blank /\ u[Len(u)] \notin Blank
    BY DEF Ends
  <2>1. Len(u) # 0
    BY <1>1, EmptySeq
  <2>2. /\ i <= last /\ 1 \in 1 .. last - i + 1 /\ last - i + 1 \in 1 .. last - i + 1
        /\ i + 1 - 1 = i /\ i + (last - i + 1) - 1 = last
    BY <1>2, <1>4, <1>5, <2>1
  <2> QED BY <1>2, <1>5, <2>2
<1>7. ASSUME Tight(t) PROVE Tight(u)
  BY <1>2, <1>4, <1>7, TightPart
<1> QED BY <1>1, <1>6, <1>7 DEF u

LEMMA TrimKeeps ==
  ASSUME NEW S, NEW t \in Seq(S), Ends(t)
  PROVE  Trim(t) = t
<1> DEFINE solid == {n \in DOMAIN t : t[n] \notin Blank}
           one == 1
           l == Len(t)
<1>1. l \in Nat /\ DOMAIN t = 1 .. l
  BY LenProperties
<1>2. CASE t = <<>>
  <2>1. solid = {}
    BY <1>1, <1>2
  <2> QED BY <1>2, <2>1 DEF Trim
<1>3. CASE t # <<>>
  <2>1. l # 0
    BY <1>3, EmptySeq
  <2>2. 1 \in solid /\ l \in solid
    BY <1>1, <1>3, <2>1 DEF Ends
  <2>3. solid \subseteq 1 .. l /\ solid # {} /\ solid \subseteq Nat /\ solid \subseteq 0 .. l
    BY <1>1, <2>2
  <2> HIDE DEF solid
  <2>4. /\ Min(solid) \in solid /\ \A n \in solid : Min(solid) <= n
        /\ Max(solid) \in solid /\ \A n \in solid : n <= Max(solid)
    BY <1>1, <2>3, MinIs, MaxIs
  <2>5. Min(solid) = one /\ Max(solid) = l
    <3> DEFINE a == Min(solid)  b == Max(solid)
    <3>1. a \in 1 .. l /\ a <= 1 /\ b \in 1 .. l /\ l <= b
      BY <2>2, <2>3, <2>4
    <3> HIDE DEF a, b, l
    <3>2. a = 1 /\ b = l
      BY <1>1, <3>1
    <3> QED BY <3>2 DEF a, b
  <2>6. Trim(t) = SubSeq(t, one, l)
    BY <2>3, <2>5 DEF Trim, solid
  <2>7. one = 1 /\ one \in Nat \ {0} /\ one <= l + 1 /\ l <= Len(t)
    BY <1>1
  <2>8. l - one + 1 = l /\ \A i \in 1 .. l : one + i - 1 = i
    BY <1>1
  <2> HIDE DEF one
  <2>9. /\ SubSeq(t, one, l) \in Seq(S) /\ Len(SubSeq(t, one, l)) = l - one + 1
        /\ \A i \in 1 .. l - one + 1 : SubSeq(t, one, l)[i] = t[one + i - 1]
    <3> HIDE DEF l
    <3> QED BY <1>1, <2>7, Part
  <2>10. \A i \in 1 .. l : SubSeq(t, one, l)[i] = t[i]
    BY <2>8, <2>9
  <2> QED BY <2>6, <2>8, <2>9, <2>10, SeqEqual
<1> QED BY <1>2, <1>3

\* A parameter's name begins and ends with something other than a blank.
LEMMA FrontEnds ==
  ASSUME NEW S, NEW t \in Seq(S), Tight(t), Ends(t)
  PROVE  Ends(Before(t, "="))
<1> DEFINE c == "="
<1>1. \A i \in 2 .. Len(t) : t[i] = c => t[i - 1] \notin Blank
  BY DEF Tight
<1> HIDE DEF c
<1> DEFINE u == Piece(t, c, 1)
           e == 1 + Len(u)
<1>2. Len(t) \in Nat /\ 1 \in 1 .. Len(t) + 1
  BY LenProperties
<1>3. /\ e \in 1 .. Len(t) + 1 /\ (e <= Len(t) => t[e] = c) /\ u \in Seq(S)
      /\ \A i \in 1 .. e - 1 : u[i] = t[1 + i - 1]
  BY <1>2, PieceIs
<1> HIDE DEF u
<1>4. Len(u) \in Nat
  BY <1>3, LenProperties
<1>5. Ends(u)
  <2> SUFFICES ASSUME u # <<>> PROVE u[1] \notin Blank /\ u[Len(u)] \notin Blank
    BY DEF Ends
  <2> DEFINE k == Len(u)
  <2>1. k \in Nat \ {0} /\ k <= Len(t) /\ (k < Len(t) => t[k + 1] = c)
    BY <1>2, <1>3, <1>4, EmptySeq
  <2>2. \A i \in 1 .. k : u[i] = t[i]
    BY <1>3, <1>4
  <2>3. t # <<>>
    BY <1>2, <2>1
  <2>4. u[1] = t[1] /\ u[k] = t[k]
    BY <2>1, <2>2
  <2>5. t[1] \notin Blank /\ t[Len(t)] \notin Blank
    BY <2>3 DEF Ends
  <2>6. CASE k < Len(t)
    <3>1. k + 1 \in 2 .. Len(t) /\ (k + 1) - 1 = k
      BY <1>2, <2>1, <2>6
    <3>2. t[k] \notin Blank
      BY <1>1, <2>1, <2>6, <3>1
    <3> QED BY <2>4, <2>5, <3>2
  <2>7. CASE k = Len(t)
    BY <2>4, <2>5, <2>7
  <2> QED BY <1>2, <2>1, <2>6, <2>7
<1> QED BY <1>5 DEF Before, u, c

LEMMA NameEnds ==
  ASSUME NEW S, NEW piece \in Seq(S), Tight(piece)
  PROVE  Ends(ParamName(piece))
<1> DEFINE whole == Trim(piece)
           bare == Bare(whole)
           single == Single(bare)
           Good(t) == t \in Seq(S) /\ Tight(t) /\ Ends(t)
<1>1. ASSUME NEW t \in Seq(S), Tight(t), NEW m \in Nat \ {0}, NEW n \in Nat, n <= Len(t)
      PROVE  Good(Trim(SubSeq(t, m, n)))
  BY <1>1, TightPart, TrimEnds
<1>2. Good(whole)
  BY TrimEnds
<1> HIDE DEF whole
<1>3. Good(bare)
  <2>1. CASE Wrapped(whole, "[", "]")
    <3> DEFINE m == 1 + 1  l == Len(whole) - 1
    <3>1. Inner(whole, 1, 1) = SubSeq(whole, m, l)
      BY DEF Inner
    <3>2. l \in Nat /\ l <= Len(whole) /\ m \in Nat \ {0}
      BY <1>2, <2>1, LenProperties DEF Wrapped
    <3> HIDE DEF m, l
    <3>3. Good(Trim(SubSeq(whole, m, l)))
      BY <1>1, <1>2, <3>2
    <3> QED BY <2>1, <3>1, <3>3 DEF Bare
  <2>2. CASE ~Wrapped(whole, "[", "]")
    BY <1>2, <2>2 DEF Bare
  <2> QED BY <2>1, <2>2
<1> HIDE DEF bare
<1>4. Good(single)
  <2>1. CASE Multiple(bare)
    <3> DEFINE m == 1 + 0  l == Len(bare) - 2
    <3>1. Inner(bare, 0, 2) = SubSeq(bare, m, l)
      BY DEF Inner
    <3>2. l \in Nat /\ l <= Len(bare) /\ m \in Nat \ {0}
      BY <1>3, <2>1, MultipleLen, LenProperties
    <3> HIDE DEF m, l
    <3>3. Good(Trim(SubSeq(bare, m, l)))
      BY <1>1, <1>3, <3>2
    <3> QED BY <2>1, <3>1, <3>3 DEF Single
  <2>2. CASE ~Multiple(bare)
    BY <1>3, <2>2 DEF Single
  <2> QED BY <2>1, <2>2
<1> HIDE DEF single
<1>5. Ends(Before(single, "="))
  BY <1>4, FrontEnds
<1>6. Ends(<<>>)
  BY DEF Ends
<1>7. ParamName(piece) = IF Wrapped(whole, "<", ">") THEN <<>> ELSE Before(single, "=")
  BY ParamNameIs DEF whole, bare, single
<1> QED BY <1>5, <1>6, <1>7

\* What is joined of parts of a kind is of that kind.
LEMMA JoinedKind ==
  ASSUME NEW T, NEW G \in SUBSET Seq(T), <<>> \in G, \A a, b \in G : a \o b \in G,
         NEW g, NEW k \in Nat, \A n \in 1 .. k : g[n] \in G
  PROVE  Joined(g, k) \in G
<1> DEFINE N == {i \in Nat : i <= k => Joined(g, i) \in G}
<1>1. 0 \in N
  <2>1. [n \in 1 .. 0 |-> g[n]] = <<>> /\ FlattenSeq(<<>>) = <<>>
    BY DEF FlattenSeq
  <2>2. Joined(g, 0) = <<>>
    BY <2>1 DEF Joined
  <2> QED BY <2>2
<1>2. ASSUME NEW i \in Nat, i \in N PROVE i + 1 \in N
  <2> SUFFICES ASSUME i + 1 <= k PROVE Joined(g, i + 1) \in G
    OBVIOUS
  <2>1. Joined(g, i) \in G
    BY <1>2
  <2>2. g[i + 1] \in G /\ \A n \in 1 .. i + 1 : g[n] \in Seq(T)
    OBVIOUS
  <2>3. Joined(g, i + 1) = Joined(g, i) \o g[i + 1]
    BY <2>2, JoinedNext
  <2> QED BY <2>1, <2>2, <2>3
<1>3. Nat \subseteq N
  <2> HIDE DEF N
  <2> QED BY <1>1, <1>2, SetInduction
<1> QED BY <1>3

\* Names, each with a comma in front: the first begins and the last ends with
\* something other than a blank.
Lists(S) ==
  {t \in Seq(S) : t # <<>> => Len(t) >= 2 /\ t[2] \notin Blank /\ t[Len(t)] \notin Blank}

LEMMA ListsJoin == ASSUME NEW S, NEW a \in Lists(S), NEW b \in Lists(S) PROVE a \o b \in Lists(S)
<1>1. /\ a \in Seq(S) /\ b \in Seq(S) /\ Len(a) \in Nat /\ Len(b) \in Nat
      /\ (a # <<>> => Len(a) >= 2 /\ a[2] \notin Blank /\ a[Len(a)] \notin Blank)
      /\ (b # <<>> => Len(b) >= 2 /\ b[2] \notin Blank /\ b[Len(b)] \notin Blank)
  BY LenProperties DEF Lists
<1>2. CASE a = <<>>
  BY <1>1, <1>2, ConcatEmptySeq
<1>3. CASE b = <<>>
  BY <1>1, <1>3, ConcatEmptySeq
<1>4. CASE a # <<>> /\ b # <<>>
  <2> DEFINE c == a \o b
  <2>1. /\ c \in Seq(S) /\ Len(c) = Len(a) + Len(b)
        /\ \A i \in 1 .. Len(a) + Len(b) : c[i] = IF i <= Len(a) THEN a[i] ELSE b[i - Len(a)]
    BY <1>1, ConcatProperties
  <2> HIDE DEF c
  <2>2. Len(c) >= 2 /\ c[2] = a[2]
    BY <1>1, <1>4, <2>1
  <2>3. c[Len(c)] = b[Len(b)]
    <3>1. /\ Len(c) \in 1 .. Len(a) + Len(b) /\ ~(Len(c) <= Len(a))
          /\ Len(c) - Len(a) = Len(b)
      BY <1>1, <1>4, <2>1
    <3> QED BY <2>1, <3>1
  <2>4. c \in Lists(S)
    BY <1>1, <1>4, <2>1, <2>2, <2>3 DEF Lists
  <2> QED BY <2>4 DEF c
<1> QED BY <1>2, <1>3, <1>4

LEMMA ListsOne ==
  ASSUME NEW S, NEW x \in S, NEW t \in Seq(S), t # <<>>, Ends(t)
  PROVE  <<x>> \o t \in Lists(S)
<1> DEFINE c == <<x>> \o t
<1>1. Len(t) \in Nat \ {0} /\ t[1] \notin Blank /\ t[Len(t)] \notin Blank
  BY EmptySeq DEF Ends
<1>2. c \in Seq(S) /\ Len(c) = 1 + Len(t) /\ \A i \in 1 .. Len(t) : c[i + 1] = t[i]
  <2> DEFINE one == <<x>>
  <2>1. one \in Seq(S) /\ Len(one) = 1
    OBVIOUS
  <2> HIDE DEF one
  <2>2. /\ one \o t \in Seq(S) /\ Len(one \o t) = Len(one) + Len(t)
        /\ \A i \in 1 .. Len(one) + Len(t) :
             (one \o t)[i] = IF i <= Len(one) THEN one[i] ELSE t[i - Len(one)]
    BY <2>1, ConcatProperties
  <2>3. ASSUME NEW i \in 1 .. Len(t) PROVE (one \o t)[i + 1] = t[i]
    <3>1. i + 1 \in 1 .. Len(one) + Len(t) /\ ~(i + 1 <= Len(one)) /\ (i + 1) - Len(one) = i
      BY <1>1, <2>1
    <3> QED BY <2>2, <3>1
  <2> QED BY <2>1, <2>2, <2>3 DEF one
<1> HIDE DEF c
<1>3. c[2] = t[1] /\ c[Len(c)] = t[Len(t)]
  <2>1. 1 \in 1 .. Len(t) /\ Len(t) \in 1 .. Len(t) /\ 1 + 1 = 2 /\ Len(c) = Len(t) + 1
    BY <1>1, <1>2
  <2> QED BY <1>2, <2>1
<1>4. c \in Lists(S)
  BY <1>1, <1>2, <1>3 DEF Lists
<1> QED BY <1>4 DEF c

\* The names of the parameters, all together.
LEMMA NamesEnds ==
  ASSUME NEW S, Comma \in S, NEW t \in Seq(S), Tight(t)
  PROVE  Names(t) \in Seq(S) /\ Ends(Names(t))
<1> DEFINE G(i) == LET nm == ParamName(Piece(t, Comma, i))
                   IN  IF i \notin Starts(t, Comma) \/ nm = <<>> THEN <<>> ELSE <<Comma>> \o nm
           k == Len(t) + 1
           g == [i \in 1 .. k |-> G(i)]
           list == Listed(t, k)
<1>1. Len(t) \in Nat /\ k \in Nat
  BY LenProperties
<1>2. <<>> \in Lists(S)
  BY DEF Lists
<1>3. ASSUME NEW i \in 1 .. k PROVE G(i) \in Lists(S)
  <2> DEFINE piece == Piece(t, Comma, i)
             nm == ParamName(piece)
  <2>1. piece \in Seq(S) /\ Tight(piece)
    <3> DEFINE e == i + Len(Piece(t, Comma, i))
    <3>1. e \in i .. Len(t) + 1 /\ Piece(t, Comma, i) = SubSeq(t, i, e - 1)
      BY PieceIs
    <3> HIDE DEF e
    <3> DEFINE f == e - 1
    <3>2. f \in Nat /\ f <= Len(t) /\ i \in Nat \ {0}
      BY <1>1, <3>1
    <3> HIDE DEF f
    <3>3. SubSeq(t, i, f) \in Seq(S) /\ Tight(SubSeq(t, i, f))
      BY <3>2, TightPart
    <3> QED BY <3>1, <3>3 DEF f
  <2> HIDE DEF piece
  <2>2. nm \in Seq(S) /\ Ends(nm)
    BY <2>1, NameTyped, NameEnds
  <2>3. G(i) = IF i \notin Starts(t, Comma) \/ nm = <<>> THEN <<>> ELSE <<Comma>> \o nm
    BY DEF nm, piece
  <2> HIDE DEF nm, G
  <2>4. nm # <<>> => <<Comma>> \o nm \in Lists(S)
    BY <2>2, ListsOne
  <2> QED BY <1>2, <2>3, <2>4
<1>4. list = Joined(g, k)
  <2>1. [i \in 1 .. k |-> G(i)] = [i \in 1 .. k |-> g[i]]
    <3>1. ASSUME NEW i \in 1 .. k PROVE G(i) = g[i]
      OBVIOUS
    <3> HIDE DEF G, g
    <3> QED BY <3>1
  <2>2. list = FlattenSeq([i \in 1 .. k |-> G(i)])
    BY Zenon DEF Listed, Comma
  <2> HIDE DEF G, g, list, k
  <2> QED BY <2>1, <2>2 DEF Joined
<1>5. \A i \in 1 .. k : g[i] \in Lists(S)
  <2> HIDE DEF G
  <2> QED BY <1>3
<1>6. list \in Lists(S)
  <2>1. Lists(S) \in SUBSET Seq(S)
    BY DEF Lists
  <2>2. \A a, b \in Lists(S) : a \o b \in Lists(S)
    BY ListsJoin
  <2> HIDE DEF g, list, k
  <2>3. Joined(g, k) \in Lists(S)
    BY ONLY <1>1, <1>2, <1>5, <2>1, <2>2, JoinedKind
  <2> QED BY <1>4, <2>3
<1>7. Names(t) = SubSeq(list, 2, Len(list))
  BY DEF Names
<1> HIDE DEF list
<1>8. /\ list \in Seq(S) /\ Len(list) \in Nat
      /\ list # <<>> => Len(list) >= 2 /\ list[2] \notin Blank /\ list[Len(list)] \notin Blank
  BY <1>6, LenProperties DEF Lists
<1>9. CASE list = <<>>
  <2>1. Names(t) = <<>> /\ <<>> \in Seq(S)
    <3>1. Len(list) = 0
      BY <1>9
    <3> QED BY <1>7, <3>1, SubSeqEmpty
  <2> QED BY <2>1 DEF Ends
<1>10. CASE list # <<>>
  <2> DEFINE two == 2  l == Len(list)  u == SubSeq(list, two, l)
  <2>1. /\ two \in Nat \ {0} /\ l \in Nat /\ two <= l + 1 /\ l <= Len(list) /\ two <= l
        /\ two = 2
    BY <1>8, <1>10
  <2> HIDE DEF two, l
  <2>2. u \in Seq(S) /\ Len(u) = l - two + 1 /\ \A i \in 1 .. l - two + 1 : u[i] = list[two + i - 1]
    BY <1>8, <2>1, Part
  <2> HIDE DEF u
  <2>3. /\ 1 \in 1 .. l - two + 1 /\ l - two + 1 \in 1 .. l - two + 1
        /\ two + 1 - 1 = two /\ two + (l - two + 1) - 1 = l
    BY <2>1
  <2>4. u[1] \notin Blank /\ u[Len(u)] \notin Blank
    BY <1>8, <1>10, <2>1, <2>2, <2>3 DEF l
  <2>5. u \in Seq(S) /\ Ends(u)
    BY <2>2, <2>4 DEF Ends
  <2> QED BY <1>7, <2>5 DEF u, two, l
<1> QED BY <1>9, <1>10

LEMMA SignatureIs ==
  ASSUME NEW S, NEW line \in Seq(S)
  PROVE  \E n \in 0 .. Len(line) : Signature(line) = SubSeq(line, 1, n)
<1> DEFINE ends == {n \in DOMAIN line : \/ line[n] \in {"#", ")"}
                                        \/ IsPrefix(<<"/", "/">>, SubSeq(line, n, Len(line)))}
<1>1. Len(line) \in Nat /\ DOMAIN line = 1 .. Len(line)
  BY LenProperties
<1>2. Signature(line) = IF ends = {} THEN line ELSE SubSeq(line, 1, Min(ends) - 1)
  BY Zenon DEF Signature
<1>3. ends \subseteq 1 .. Len(line)
  BY <1>1
<1> HIDE DEF ends
<1>4. CASE ends = {}
  <2>1. SubSeq(line, 1, Len(line)) = line
    <3> DEFINE one == 1  l == Len(line)
    <3>1. /\ one \in Nat \ {0} /\ l \in Nat /\ one <= l + 1 /\ l <= Len(line) /\ l - one + 1 = l
          /\ \A i \in 1 .. l : one + i - 1 = i
      BY <1>1
    <3> HIDE DEF one, l
    <3>2. /\ SubSeq(line, one, l) \in Seq(S) /\ Len(SubSeq(line, one, l)) = l - one + 1
          /\ \A i \in 1 .. l - one + 1 : SubSeq(line, one, l)[i] = line[one + i - 1]
      BY <3>1, Part
    <3>3. \A i \in 1 .. l : SubSeq(line, one, l)[i] = line[i]
      BY <3>1, <3>2
    <3>4. Len(line) = l
      BY DEF l
    <3>5. SubSeq(line, one, l) = line
      BY <3>1, <3>2, <3>3, <3>4, SeqEqual
    <3> QED BY <3>5 DEF one, l
  <2>2. Len(line) \in 0 .. Len(line)
    BY <1>1
  <2> QED BY <1>2, <1>4, <2>1, <2>2
<1>5. CASE ends # {}
  <2>1. Min(ends) \in ends
    <3>1. ends \subseteq Nat
      BY <1>1, <1>3
    <3> QED BY <1>5, <3>1, MinIs
  <2>2. Min(ends) - 1 \in 0 .. Len(line)
    <3> DEFINE x == Min(ends)
    <3>1. x \in 1 .. Len(line)
      BY <1>3, <2>1
    <3> HIDE DEF x
    <3>2. x - 1 \in 0 .. Len(line)
      BY <1>1, <3>1
    <3> QED BY <3>2 DEF x
  <2> QED BY <1>2, <1>5, <2>2
<1> QED BY <1>4, <1>5

\* A line without a '=' in its name, and without a blank in front of one.
LEMMA LineKept ==
  ASSUME NEW S, Comma \in S, NEW line \in Seq(S), Tight(line),
         \A n \in 1 .. Len(line) : line[n] = "=" => \E m \in 1 .. n : line[m] = "("
  PROVE  LET e == Method(line)
         IN  /\ e.key \in Seq(S) /\ e.value \in Seq(S) /\ Ends(e.key) /\ Ends(e.value)
             /\ \A i \in 1 .. Len(e.key) : e.key[i] # "="
             /\ e = [key |-> e.key, value |-> e.value]
<1> DEFINE sig == Signature(line)
           head == Before(sig, "(")
           name == Name(line)
           params == Params(line)
           list == Names(params)
           one == 1
<1>1. Len(line) \in Nat
  BY LenProperties
<1>2. PICK n \in 0 .. Len(line) : sig = SubSeq(line, 1, n)
  BY SignatureIs
<1>3. one = 1 /\ one \in Nat \ {0} /\ n \in Nat /\ n <= Len(line) /\ one <= n + 1 /\ n - one + 1 = n
      /\ \A i \in 1 .. n : one + i - 1 = i
  BY <1>1
<1> HIDE DEF one
<1>4. /\ sig \in Seq(S) /\ Len(sig) = n /\ Tight(sig) /\ \A i \in 1 .. n : sig[i] = line[i]
  <2> DEFINE u == SubSeq(line, one, n)
  <2>1. /\ u \in Seq(S) /\ Len(u) = n - one + 1
        /\ \A i \in 1 .. n - one + 1 : u[i] = line[one + i - 1]
    BY <1>3, Part
  <2>2. Tight(u)
    BY <1>3, TightPart
  <2> HIDE DEF u
  <2>3. \A i \in 1 .. n : u[i] = line[i]
    BY <1>3, <2>1
  <2>4. sig = u
    BY <1>2, <1>3 DEF u
  <2> HIDE DEF sig
  <2> QED BY <1>3, <2>1, <2>2, <2>3, <2>4
<1> HIDE DEF sig
<1>5. /\ head \in Seq(S) /\ Len(head) \in 0 .. n
      /\ \A i \in 1 .. Len(head) : head[i] # "(" /\ head[i] = line[i]
  <2> DEFINE c == "("
  <2> HIDE DEF c
  <2> DEFINE u == Piece(sig, c, one)  e == one + Len(u)
  <2>1. one \in 1 .. Len(sig) + 1
    BY <1>3, <1>4
  <2>2. /\ e \in one .. Len(sig) + 1 /\ (\A i \in one .. e - 1 : sig[i] # c) /\ u \in Seq(S)
        /\ \A i \in 1 .. e - one : u[i] = sig[one + i - 1]
    <3>1. LET f == one + Len(Piece(sig, c, one))
          IN  /\ f \in one .. Len(sig) + 1
              /\ \A i \in one .. f - 1 : sig[i] # c
              /\ f <= Len(sig) => sig[f] = c
              /\ Piece(sig, c, one) = SubSeq(sig, one, f - 1) /\ Piece(sig, c, one) \in Seq(S)
              /\ \A i \in 1 .. f - one : Piece(sig, c, one)[i] = sig[one + i - 1]
      BY ONLY <1>4, <2>1, PieceIs
    <3> QED BY <3>1
  <2> HIDE DEF u
  <2>3. Len(u) \in Nat
    BY <2>2, LenProperties
  <2>4. /\ Len(u) <= n /\ e - one = Len(u) /\ \A i \in 1 .. Len(u) : i \in 1 .. n /\ i \in one .. e - 1
    BY <1>3, <1>4, <2>2, <2>3
  <2>5. \A i \in 1 .. Len(u) : u[i] = line[i] /\ u[i] # c
    BY <1>3, <1>4, <2>2, <2>4
  <2>6. head = u
    BY <1>3 DEF Before, u, c
  <2> QED BY <2>2, <2>3, <2>4, <2>5, <2>6 DEF c
<1> HIDE DEF head
<1>6. name = Trim(head)
  BY Zenon DEF Name, head, sig
<1>7. name \in Seq(S) /\ Ends(name)
  BY <1>5, <1>6, TrimEnds
<1>8. \A i \in 1 .. Len(name) : name[i] # "="
  <2> DEFINE last == Max({0} \cup {i \in DOMAIN head : head[i] \notin Blank})
  <2>1. /\ last \in 0 .. Len(head)
        /\ \E i \in 1 .. Len(head) + 1 :
             /\ i <= last + 1 /\ Trim(head) = SubSeq(head, i, last)
             /\ i <= last => head[i] \notin Blank /\ head[last] \notin Blank
    BY <1>5, TrimIs
  <2> HIDE DEF last
  <2>2. PICK j \in 1 .. Len(head) + 1 : j <= last + 1 /\ Trim(head) = SubSeq(head, j, last)
    BY <2>1
  <2>3. j \in Nat \ {0} /\ last \in Nat /\ last <= Len(head) /\ Len(head) \in Nat
    BY <1>3, <1>5, <2>1
  <2>4. Len(name) = last - j + 1 /\ \A i \in 1 .. last - j + 1 : name[i] = head[j + i - 1]
    BY <1>5, <1>6, <2>2, <2>3, Part
  <2> HIDE DEF name
  <2>5. ASSUME NEW i \in 1 .. Len(name), name[i] = "=" PROVE FALSE
    <3> DEFINE x == j + i - 1
    <3>1. i \in 1 .. last - j + 1 /\ x \in 1 .. Len(head) /\ x \in 1 .. Len(line)
      BY <1>3, <1>5, <2>2, <2>3, <2>4
    <3>2. name[i] = head[x]
      BY <2>4, <3>1
    <3> HIDE DEF x
    <3>3. line[x] = "="
      BY <1>5, <2>5, <3>1, <3>2
    <3>4. PICK m \in 1 .. x : line[m] = "("
      BY <3>1, <3>3
    <3>5. m \in 1 .. Len(head)
      BY <2>3, <3>1
    <3> QED BY <1>5, <3>4, <3>5
  <2> QED BY <2>5
<1>9. params \in Seq(S) /\ Tight(params)
  <2> DEFINE m == Len(head) + 2
             rest == SubSeq(sig, m, n)
  <2>1. params = Trim(rest)
    <3>1. params = Trim(SubSeq(sig, Len(head) + 2, Len(sig)))
      BY Zenon DEF Params, head, sig
    <3> QED BY <1>4, <3>1
  <2>2. m \in Nat \ {0} /\ n <= Len(sig)
    BY <1>3, <1>4, <1>5
  <2> HIDE DEF m
  <2>3. rest \in Seq(S) /\ Tight(rest)
    BY <1>3, <1>4, <2>2, TightPart
  <2> HIDE DEF rest
  <2> QED BY <2>1, <2>3, TrimEnds
<1> HIDE DEF params
<1>10. list \in Seq(S) /\ Ends(list)
  BY <1>9, NamesEnds
<1> HIDE DEF name, list
<1> DEFINE e == [key |-> name, value |-> list]
<1>11. e.key = name /\ e.value = list
  OBVIOUS
<1>12. Method(line) = e
  BY DEF Method, name, list, params
<1> HIDE DEF e
<1>13. e = [key |-> e.key, value |-> e.value]
  BY <1>11 DEF e
<1>14. \A i \in 1 .. Len(e.key) : e.key[i] # "="
  BY <1>8, <1>11
<1> QED BY <1>7, <1>10, <1>11, <1>12, <1>13, <1>14

LEMMA PieceWithout ==
  ASSUME NEW S, NEW t \in Seq(S), NEW c, NEW n \in Starts(t, c)
  PROVE  Piece(t, c, n) \in Seq(S) /\ \A j \in 1 .. Len(Piece(t, c, n)) : Piece(t, c, n)[j] # c
<1> DEFINE line == Piece(t, c, n)
           e == n + Len(line)
<1>1. n \in 1 .. Len(t) + 1 /\ Len(t) \in Nat
  BY StartIn
<1>2. /\ e \in n .. Len(t) + 1 /\ (\A j \in n .. e - 1 : t[j] # c) /\ line \in Seq(S)
      /\ \A j \in 1 .. e - n : line[j] = t[n + j - 1]
  BY <1>1, PieceIs
<1> HIDE DEF line
<1>3. Len(line) \in Nat /\ e - n = Len(line)
  BY <1>1, <1>2, LenProperties
<1>4. ASSUME NEW j \in 1 .. Len(line) PROVE line[j] # c
  <2>1. n + j - 1 \in n .. e - 1
    BY <1>1, <1>3
  <2> QED BY <1>2, <1>3, <2>1
<1> QED BY <1>2, <1>4 DEF line

LEMMA LineTight ==
  ASSUME NEW S, NEW line \in Seq(S), \A j \in 1 .. Len(line) : line[j] # "nl",
         \A j \in 1 .. Len(line) : line[j] = "=" => ~(j > 1 /\ line[j - 1] = " ")
  PROVE  Tight(line)
<1>1. Len(line) \in Nat
  BY LenProperties
<1>2. ASSUME NEW j \in 2 .. Len(line), line[j] = "=" PROVE line[j - 1] \notin Blank
  <2>1. j \in 1 .. Len(line) /\ j > 1 /\ j - 1 \in 1 .. Len(line)
    <3> DEFINE l == Len(line)
    <3>1. l \in Nat /\ j \in 2 .. l
      BY <1>1
    <3> HIDE DEF l
    <3>2. j \in 1 .. l /\ j > 1 /\ j - 1 \in 1 .. l
      BY ONLY <3>1
    <3> QED BY <3>2 DEF l
  <2> QED BY <1>2, <2>1 DEF Blank
<1> QED BY <1>2 DEF Tight

-----------------------------------------------------------------------------
(* Texts in the cache: what PropertyTextProofs shows of them.              *)
CacheProofs == INSTANCE PropertyTextProofs WITH NL <- "nl", SEP <- "="

\* ApiHelp's instance of PropertyText and that of the proofs are the same.
LEMMA CacheText == \A g : Cache!Text(g) = CacheProofs!Text(g)
BY Zenon DEF Cache!Text, CacheProofs!Text, Cache!Line, CacheProofs!Line,
             Cache!UpTo, CacheProofs!UpTo, Cache!FlattenSeq, CacheProofs!FlattenSeq

LEMMA CacheTrim == \A t : Cache!strtrim(t) = CacheProofs!strtrim(t)
BY Zenon DEF Cache!strtrim, CacheProofs!strtrim,
             Cache!Min, CacheProofs!Min, Cache!Max, CacheProofs!Max

LEMMA TrimIsCacheTrim == \A t : CacheProofs!strtrim(t) = Trim(t)
BY Zenon DEF CacheProofs!strtrim, Trim, CacheProofs!Min, Min, CacheProofs!Max, Max

LEMMA CacheCString == \A t : Cache!CString(t) = CacheProofs!CString(t)
BY Zenon DEF Cache!CString, CacheProofs!CString, Cache!UpTo, CacheProofs!UpTo,
             Cache!SelectInSeq, CacheProofs!SelectInSeq, Cache!Min, CacheProofs!Min

LEMMA CacheLines == \A t : Cache!Lines(t) = CacheProofs!Lines(t)
BY ZenonT(60) DEF Cache!Lines, CacheProofs!Lines, Cache!strtrim, CacheProofs!strtrim,
             Cache!Cardinality, CacheProofs!Cardinality,
             Cache!Min, CacheProofs!Min, Cache!Max, CacheProofs!Max

LEMMA CacheKeyEnd == \A t : Cache!KeyEnd(t) = CacheProofs!KeyEnd(t)
BY Zenon DEF Cache!KeyEnd, CacheProofs!KeyEnd,
             Cache!SelectInSeq, CacheProofs!SelectInSeq, Cache!Min, CacheProofs!Min

LEMMA CacheEntry == \A t : Cache!Entry(t) = CacheProofs!Entry(t)
BY CacheTrim, CacheKeyEnd
   DEF Cache!Entry, CacheProofs!Entry, Cache!UpTo, CacheProofs!UpTo,
       Cache!From, CacheProofs!From

LEMMA CacheParses == \A t : Cache!parse_properties(t) = CacheProofs!parse_properties(t)
BY CacheCString, CacheLines, CacheKeyEnd, CacheEntry
   DEF Cache!parse_properties, CacheProofs!parse_properties

LEMMA CacheSorts == \A g : Cache!sort_properties(g) = CacheProofs!sort_properties(g)
BY Zenon DEF Cache!sort_properties, CacheProofs!sort_properties,
             Cache!Precedes, CacheProofs!Precedes, Cache!Less, CacheProofs!Less,
             Cache!Cardinality, CacheProofs!Cardinality

LEMMA CacheLoads == \A t : Cache!Loaded(t) = CacheProofs!Loaded(t)
BY CacheParses, CacheSorts, Zenon DEF Cache!Loaded, CacheProofs!Loaded

LEMMA SeqFrom ==
  ASSUME NEW T, NEW n \in Nat, NEW t \in [1 .. n -> T]
  PROVE  t \in Seq(T)
BY SeqDef

\* What is saved and without blanks around it comes back.
LEMMA CacheRoundTrip ==
  ASSUME NEW g \in CacheProofs!Group, CacheProofs!Storable(g), CacheProofs!Trimmed(g) = g
  PROVE  Cache!Loaded(Cache!Text(g)) = [err |-> "ok", group |-> Cache!sort_properties(g)]
<1>1. /\ Blank \subseteq CacheProofs!Symbol /\ {"nl", NUL, "="} \subseteq CacheProofs!Symbol
      /\ "nl" \in Blank /\ {NUL, "="} \cap Blank = {} /\ "=" # NUL
      /\ \A c \in CacheProofs!Symbol : Rank[c] \in Nat
      /\ \A c, e \in CacheProofs!Symbol : Rank[c] = Rank[e] => c = e
      /\ LineMax \in Nat \ {0}
  BY HelpAssumption DEF CacheProofs!Symbol, Blank, NUL
<1>2. CacheProofs!Loaded(CacheProofs!Text(g))
       = [err |-> "ok", group |-> CacheProofs!sort_properties(CacheProofs!Trimmed(g))]
  BY <1>1, CacheProofs!LoadsSorted, Zenon
<1> QED BY <1>2, CacheText, CacheLoads, CacheSorts, Zenon

\* A help without a '=' in a name, without a blank in front of a default value
\* and without a method too long for line[] is the same, but sorted, when it is
\* read from the cache: what is saved has no blanks at the ends of its keys and
\* values, no '=' in its keys, and no line of it is cut.
THEOREM HelpCached == HelpSpec => []CacheKeepsApi
<1>1. HelpInv => CacheKeepsApi
  <2> DEFINE odd(line) == \E n \in DOMAIN line :
               /\ line[n] = "="
               /\ \/ n > 1 /\ line[n - 1] = " "
                  \/ \A m \in 1 .. n : line[m] # "("
             fits(e) == Len(e.key) + 1 + Len(e.value) + 1 <= LineMax
             S == Char \ {"nl"}
             sym == CacheProofs!Symbol
  <2> SUFFICES ASSUME HelpInv,
                      ~(\E n \in Starts(text, "nl") : odd(Piece(text, "nl", n))),
                      \A n \in DOMAIN Result : fits(Result[n])
               PROVE  Cache!Loaded(Cache!Text(Result))
                       = [err |-> "ok", group |-> Cache!sort_properties(Result)]
    BY Zenon DEF CacheKeepsApi
  <2>1. Whole /\ AllKept(mem, text, Edge, group)
    BY DEF HelpInv
  <2>2. text \in Seq(Char) /\ sym = Char \cup {NUL} /\ NUL \notin Char
    BY <2>1, HelpAssumption DEF Whole, CacheProofs!Symbol
  <2>3. Comma \in S
    <3>1. Comma \in Char
      BY HelpAssumption, Zenon DEF Comma
    <3>2. Comma # "nl"
      BY Zenon DEF Comma
    <3> QED BY <3>1, <3>2
  <2> DEFINE good(e) == /\ e.key \in Seq(S) /\ e.value \in Seq(S) /\ Ends(e.key) /\ Ends(e.value)
                        /\ \A i \in 1 .. Len(e.key) : e.key[i] # "="
                        /\ e = [key |-> e.key, value |-> e.value]
  <2>4. ASSUME NEW i \in DOMAIN group PROVE good(Entry(group[i]))
    <3>1. PICK n \in Starts(text, "nl") : EntryOf(mem, group[i]) = Method(Piece(text, "nl", n))
      BY <2>1, Zenon DEF AllKept, Kept
    <3> DEFINE c == "nl"
               line == Piece(text, c, n)
    <3>2. line \in Seq(Char) /\ \A j \in 1 .. Len(line) : line[j] # c
      <4> HIDE DEF c
      <4>1. n \in Starts(text, c)
        BY DEF c
      <4> QED BY ONLY <2>2, <4>1, PieceWithout DEF line
    <3>3. ~odd(line)
      BY Zenon
    <3>4. Entry(group[i]) = Method(line)
      BY <3>1, Zenon DEF Entry, EntryOf, line, c
    <3> HIDE DEF line
    <3>5. DOMAIN line = 1 .. Len(line) /\ Len(line) \in Nat
      BY <3>2, LenProperties
    <3>6. line \in Seq(S)
      <4>1. \A j \in 1 .. Len(line) : line[j] \in S
        BY <3>2, ElementOfSeq
      <4> HIDE DEF S
      <4>2. line \in [1 .. Len(line) -> S]
        BY <3>2, <4>1, LenProperties
      <4> QED BY ONLY <3>5, <4>2, SeqFrom
    <3>7. Tight(line)
      <4>1. /\ \A j \in 1 .. Len(line) : line[j] # "nl"
            /\ \A j \in 1 .. Len(line) : line[j] = "=" => ~(j > 1 /\ line[j - 1] = " ")
        BY <3>2, <3>3, <3>5
      <4> QED BY ONLY <3>2, <4>1, LineTight
    <3>8. \A j \in 1 .. Len(line) : line[j] = "=" => \E m \in 1 .. j : line[m] = "("
      BY <3>3, <3>5
    <3> HIDE DEF S
    <3>9. good(Method(line))
      BY ONLY <2>3, <3>6, <3>7, <3>8, LineKept
    <3> QED BY <3>4, <3>9
  <2> HIDE DEF S, sym, fits
  <2>5. /\ DOMAIN Result = DOMAIN group /\ \A i \in DOMAIN group : Result[i] = Entry(group[i])
        /\ Len(group) \in Nat /\ DOMAIN group = 1 .. Len(group)
    BY <2>1, LenProperties DEF Result, Whole
  <2> HIDE DEF good
  <2>6. \A i \in 1 .. Len(group) : good(Result[i]) /\ fits(Result[i])
    BY <2>4, <2>5
  <2> DEFINE r == Result
  <2>7. r = [i \in 1 .. Len(group) |-> r[i]]
    BY <2>5 DEF Result
  <2> HIDE DEF r
  <2>8. S \subseteq sym /\ "nl" \notin S /\ NUL \notin S
    BY <2>2 DEF S
  <2>9. ASSUME NEW i \in 1 .. Len(group)
        PROVE  /\ r[i].key \in Seq(S) /\ r[i].value \in Seq(S)
               /\ r[i] \in [key : Seq(sym), value : Seq(sym)]
               /\ Trim(r[i].key) = r[i].key /\ Trim(r[i].value) = r[i].value
               /\ r[i] = [key |-> r[i].key, value |-> r[i].value]
    <3>1. /\ r[i].key \in Seq(S) /\ r[i].value \in Seq(S)
          /\ Ends(r[i].key) /\ Ends(r[i].value)
          /\ r[i] = [key |-> r[i].key, value |-> r[i].value]
      BY <2>6 DEF r, good
    <3>2. r[i].key \in Seq(sym) /\ r[i].value \in Seq(sym)
      BY <2>8, <3>1, SeqMonotonic
    <3> QED BY <3>1, <3>2, TrimKeeps
  <2>10. r \in CacheProofs!Group
    <3> DEFINE T == [key : Seq(sym), value : Seq(sym)]
    <3>1. \A i \in 1 .. Len(group) : r[i] \in T
      BY <2>9
    <3> HIDE DEF T
    <3>2. r \in [1 .. Len(group) -> T]
      BY <2>7, <3>1
    <3>3. r \in Seq(T)
      BY ONLY <2>5, <3>2, SeqFrom
    <3> QED BY <3>3 DEF CacheProofs!Group, sym, T
  <2>11. DOMAIN r = 1 .. Len(group)
    BY <2>7
  <2>12. CacheProofs!Storable(r)
    <3> SUFFICES ASSUME NEW i \in 1 .. Len(group)
                 PROVE  /\ \A j \in DOMAIN r[i].key : r[i].key[j] \notin {"=", "nl", NUL}
                        /\ \A j \in DOMAIN r[i].value : r[i].value[j] \notin {"nl", NUL}
                        /\ Len(r[i].key) + 1 + Len(r[i].value) < LineMax
      BY <2>11, Zenon DEF CacheProofs!Storable
    <3>1. \A t \in Seq(S) : /\ DOMAIN t = 1 .. Len(t) /\ Len(t) \in Nat
                            /\ \A j \in 1 .. Len(t) : t[j] \in S
      BY LenProperties, ElementOfSeq
    <3>2. \A j \in 1 .. Len(r[i].key) : r[i].key[j] # "="
      BY <2>6 DEF r, good
    <3>3. Len(r[i].key) + 1 + Len(r[i].value) < LineMax
      <4>1. Len(r[i].key) + 1 + Len(r[i].value) + 1 <= LineMax
        BY <2>6 DEF r, fits
      <4>2. Len(r[i].key) \in Nat /\ Len(r[i].value) \in Nat /\ LineMax \in Nat
        BY <2>9, <3>1, HelpAssumption
      <4> DEFINE k == Len(r[i].key)  v == Len(r[i].value)
      <4>3. k \in Nat /\ v \in Nat /\ LineMax \in Nat /\ k + 1 + v + 1 <= LineMax
        BY <4>1, <4>2
      <4> HIDE DEF k, v
      <4>4. k + 1 + v < LineMax
        BY ONLY <4>3, SMT
      <4> QED BY <4>4 DEF k, v
    <3> DEFINE k == r[i].key  v == r[i].value
    <3>4. k \in Seq(S) /\ v \in Seq(S)
      BY <2>9
    <3> HIDE DEF k, v
    <3>5. /\ DOMAIN k = 1 .. Len(k) /\ \A j \in DOMAIN k : k[j] \in S
          /\ DOMAIN v = 1 .. Len(v) /\ \A j \in DOMAIN v : v[j] \in S
      BY <3>1, <3>4
    <3>6. \A j \in DOMAIN k : k[j] # "="
      BY <3>2, <3>5 DEF k
    <3>7. /\ \A j \in DOMAIN k : k[j] \notin {"=", "nl", NUL}
          /\ \A j \in DOMAIN v : v[j] \notin {"nl", NUL}
      BY <2>8, <3>5, <3>6
    <3> QED BY <3>3, <3>7 DEF k, v
  <2>13. CacheProofs!Trimmed(r) = r
    <3>1. CacheProofs!Trimmed(r) = [i \in 1 .. Len(group) |->
            [key |-> Trim(r[i].key), value |-> Trim(r[i].value)]]
      BY <2>11, TrimIsCacheTrim DEF CacheProofs!Trimmed
    <3>2. \A i \in 1 .. Len(group) :
            [key |-> Trim(r[i].key), value |-> Trim(r[i].value)] = r[i]
      BY <2>9
    <3> QED BY <2>7, <3>1, <3>2
  <2>14. Cache!Loaded(Cache!Text(r)) = [err |-> "ok", group |-> Cache!sort_properties(r)]
    BY ONLY <2>10, <2>12, <2>13, CacheRoundTrip
  <2> QED BY <2>14 DEF r
<1> QED BY <1>1, HelpInductive, PTL
=============================================================================
