----------------------------- MODULE Induction -----------------------------
(***************************************************************************)
(* Induction over the natural numbers as facts about sets of them, a form  *)
(* that needs no operator as a parameter: the proof of a predicate P by    *)
(* induction names the set {n \in Nat : P(n)}.  And what follows from it   *)
(* for FlattenSeq, which several modules build their texts with, and for   *)
(* parts of sequences.                                                     *)
(***************************************************************************)
EXTENDS Integers, SequencesExt, SequenceTheorems, WellFoundedInduction, TLAPS

(* A set of natural numbers that is not empty has a least element.         *)
LEMMA LeastElement ==
  ASSUME NEW T, T \subseteq Nat, T # {}
  PROVE  \E n \in T : \A m \in T : n <= m
<1> DEFINE R == {ss \in Nat \X Nat : ss[1] < ss[2]}
<1>1. IsWellFoundedOn(R, Nat)
  BY NatLessThanWellFounded DEF OpToRel
<1> HIDE DEF R
<1>2. PICK n \in T : \A m \in T : <<m, n>> \notin R
  BY <1>1, WFMin
<1>3. ASSUME NEW m \in T PROVE n <= m
  <2>1. m \in Nat /\ n \in Nat /\ <<m, n>> \notin R
    BY <1>2
  <2> QED BY <2>1 DEF R
<1> QED BY <1>3

(* A set that holds 0 and, with a number, its successor holds all numbers. *)
LEMMA SetInduction ==
  ASSUME NEW S, 0 \in S, \A n \in Nat : n \in S => n + 1 \in S
  PROVE  Nat \subseteq S
<1> SUFFICES ASSUME Nat \ S # {} PROVE FALSE
  OBVIOUS
<1>1. PICK n \in Nat \ S : \A m \in Nat \ S : n <= m
  BY LeastElement
<1>2. n - 1 \in Nat /\ (n - 1) + 1 = n
  BY <1>1
<1>3. n - 1 \notin Nat \ S
  BY <1>1, <1>2
<1> QED BY <1>2, <1>3

-----------------------------------------------------------------------------
(* FlattenSeq of the community modules: it is a sequence, begins with its   *)
(* first part, and grows with a part appended.                             *)

Flattens(f, seqs) ==
  \A i \in 1 .. Len(seqs) : f[i] = IF i = 1 THEN seqs[i] ELSE f[i - 1] \o seqs[i]

LEMMA FlattenParts ==
  ASSUME NEW f, NEW seqs, Len(seqs) \in Nat, Flattens(f, seqs)
  PROVE  /\ Len(seqs) # 0 => f[1] = seqs[1]
         /\ \A m, n \in 1 .. Len(seqs) :
              n = m - 1 => f[m] = f[n] \o seqs[m]
<1>1. Len(seqs) # 0 => 1 \in 1 .. Len(seqs)
  OBVIOUS
<1>2. Len(seqs) # 0 => f[1] = seqs[1]
  BY <1>1, Zenon DEF Flattens
<1>3. ASSUME NEW m \in 1 .. Len(seqs), NEW n \in 1 .. Len(seqs), n = m - 1
      PROVE  f[m] = f[n] \o seqs[m]
  <2>1. m # 1
    BY <1>3
  <2> QED BY <1>3, <2>1, Zenon DEF Flattens
<1> QED BY <1>2, <1>3

LEMMA FlattenExists ==
  ASSUME NEW S, NEW seqs \in Seq(Seq(S)), seqs # <<>>
  PROVE  \E f \in [1 .. Len(seqs) -> Seq(S)] :
           Flattens(f, seqs) /\ FlattenSeq(seqs) = f[Len(seqs)]
<1> DEFINE D == 1 .. Len(seqs)
           Upto(n) == \E f \in [1 .. n -> Seq(S)] :
                        \A i \in 1 .. n : f[i] = IF i = 1 THEN seqs[i] ELSE f[i - 1] \o seqs[i]
           N == {n \in Nat : n <= Len(seqs) => Upto(n)}
<1> HIDE DEF Upto
<1>1. Len(seqs) \in Nat \ {0} /\ \A i \in D : seqs[i] \in Seq(S)
  BY EmptySeq, ElementOfSeq
<1>2. 0 \in N
  <2>1. [i \in 1 .. 0 |-> <<>>] \in [1 .. 0 -> Seq(S)]
    OBVIOUS
  <2>2. 1 .. 0 = {}
    OBVIOUS
  <2> QED BY <2>1, <2>2 DEF Upto
<1>3. ASSUME NEW n \in Nat, n \in N, n + 1 <= Len(seqs) PROVE Upto(n + 1)
  <2>1. n <= Len(seqs) /\ Upto(n)
    BY <1>1, <1>3
  <2>2. PICK f \in [1 .. n -> Seq(S)] :
          \A i \in 1 .. n : f[i] = IF i = 1 THEN seqs[i] ELSE f[i - 1] \o seqs[i]
    BY <2>1 DEF Upto
  <2> DEFINE last == IF n = 0 THEN seqs[1] ELSE f[n] \o seqs[n + 1]
             g == [i \in 1 .. n + 1 |-> IF i = n + 1 THEN last ELSE f[i]]
  <2>3. n + 1 \in D /\ seqs[n + 1] \in Seq(S)
    BY <1>1, <1>3, <2>1
  <2>4. last \in Seq(S)
    <3>1. CASE n = 0
      BY <2>3, <3>1
    <3>2. CASE n # 0
      <4>1. f[n] \in Seq(S)
        BY <2>1, <2>2, <3>2
      <4> QED BY <2>3, <3>2, <4>1, ConcatProperties
    <3> QED BY <3>1, <3>2
  <2> HIDE DEF last
  <2>5. g \in [1 .. n + 1 -> Seq(S)]
    BY <2>1, <2>4
  <2>6. ASSUME NEW i \in 1 .. n + 1
        PROVE  g[i] = IF i = 1 THEN seqs[i] ELSE g[i - 1] \o seqs[i]
    <3>1. CASE i = n + 1 /\ n = 0
      BY <3>1 DEF last
    <3>2. CASE i = n + 1 /\ n # 0
      <4>1. g[n] = f[n]
        BY <2>1, <3>2
      <4>2. last = f[n] \o seqs[n + 1]
        BY <3>2, Zenon DEF last
      <4>3. g[i] = last /\ i # 1 /\ i - 1 = n
        BY <3>2
      <4> QED BY <3>2, <4>1, <4>2, <4>3
    <3>3. CASE i # n + 1
      <4>1. i \in 1 .. n /\ g[i] = f[i]
        BY <2>1, <3>3
      <4>2. i # 1 => i - 1 \in 1 .. n /\ g[i - 1] = f[i - 1]
        BY <2>1, <4>1
      <4>3. f[i] = IF i = 1 THEN seqs[i] ELSE f[i - 1] \o seqs[i]
        BY <2>2, <4>1
      <4> HIDE DEF g
      <4> QED BY <4>1, <4>2, <4>3
    <3> QED BY <3>1, <3>2, <3>3
  <2> HIDE DEF g
  <2> QED BY <2>5, <2>6 DEF Upto
<1>4. Nat \subseteq N
  <2>1. \A n \in Nat : n \in N => n + 1 \in N
    BY <1>3
  <2> HIDE DEF N
  <2> QED BY <1>2, <2>1, SetInduction
<1>5. PICK f \in [D -> Seq(S)] : f = [i \in D |-> IF i = 1 THEN seqs[i] ELSE f[i - 1] \o seqs[i]]
  <2>1. Len(seqs) \in N
    BY <1>1, <1>4
  <2>2. PICK f \in [D -> Seq(S)] :
          \A i \in D : f[i] = IF i = 1 THEN seqs[i] ELSE f[i - 1] \o seqs[i]
    BY SMTT(30), <1>1, <2>1 DEF Upto
  <2> QED BY <2>2
<1> DEFINE Is(h) == h = [i \in D |-> IF i = 1 THEN seqs[i] ELSE h[i - 1] \o seqs[i]]
           flatten == CHOOSE h : Is(h)
<1>6. Is(flatten)
  BY <1>5
<1>7. FlattenSeq(seqs) = flatten[Len(seqs)]
  BY <1>1 DEF FlattenSeq
<1> HIDE DEF flatten
<1>8. ASSUME NEW h, Is(h) PROVE h \in [D -> Seq(S)]
  <2> DEFINE M == {n \in Nat : n + 1 \in D => h[n + 1] \in Seq(S)}
  <2>1. \A i \in D : h[i] = IF i = 1 THEN seqs[i] ELSE h[i - 1] \o seqs[i]
    BY <1>8
  <2>2. 0 \in M
    BY <1>1, <2>1
  <2>3. ASSUME NEW n \in Nat, n \in M PROVE n + 1 \in M
    <3>1. SUFFICES ASSUME n + 2 \in D PROVE h[n + 2] \in Seq(S)
      OBVIOUS
    <3>2. n + 1 \in D /\ h[n + 1] \in Seq(S) /\ seqs[n + 2] \in Seq(S)
      BY <1>1, <2>3, <3>1
    <3>3. n + 2 # 1 /\ (n + 2) - 1 = n + 1
      OBVIOUS
    <3>4. h[n + 2] = h[n + 1] \o seqs[n + 2]
      BY <2>1, <3>1, <3>3
    <3> QED BY <3>2, <3>4, ConcatProperties
  <2>4. Nat \subseteq M
    <3> HIDE DEF M
    <3> QED BY <2>2, <2>3, SetInduction
  <2>5. ASSUME NEW i \in D PROVE h[i] \in Seq(S)
    <3>1. i - 1 \in Nat /\ (i - 1) + 1 = i
      BY <1>1
    <3>2. i - 1 \in M
      BY <2>4, <3>1
    <3> QED BY <3>1, <3>2
  <2>6. DOMAIN h = D /\ h = [i \in D |-> h[i]]
    BY <1>8, Zenon
  <2> QED BY <2>5, <2>6
<1>9. flatten \in [D -> Seq(S)] /\ Flattens(flatten, seqs)
  BY <1>6, <1>8 DEF Flattens
<1> QED BY <1>7, <1>9

LEMMA FlattenHead ==
  ASSUME NEW S, NEW seqs \in Seq(Seq(S)), seqs # <<>>
  PROVE  /\ FlattenSeq(seqs) \in Seq(S) /\ FlattenSeq(<<>>) = <<>>
         /\ FlattenSeq(seqs) = seqs[1] \o FlattenSeq(Tail(seqs))
<1> DEFINE rest == Tail(seqs)
<1>1. /\ Len(seqs) \in Nat \ {0} /\ seqs[1] \in Seq(S)
      /\ \A i \in 1 .. Len(seqs) : seqs[i] \in Seq(S)
  BY EmptySeq, ElementOfSeq
<1>2. /\ rest \in Seq(Seq(S)) /\ Len(rest) = Len(seqs) - 1
      /\ \A i \in 1 .. Len(rest) : rest[i] = seqs[i + 1]
  BY HeadTailProperties
<1>3. PICK f \in [1 .. Len(seqs) -> Seq(S)] :
        Flattens(f, seqs) /\ FlattenSeq(seqs) = f[Len(seqs)]
  BY FlattenExists
<1>4. f[1] = seqs[1]
  BY <1>1, <1>3, FlattenParts
<1>5. FlattenSeq(<<>>) = <<>>
  BY DEF FlattenSeq
<1> HIDE DEF rest
<1>6. CASE rest = <<>>
  <2>1. Len(seqs) = 1 /\ seqs[1] \o <<>> = seqs[1]
    BY <1>1, <1>2, <1>6, ConcatEmptySeq
  <2> QED BY <1>1, <1>3, <1>4, <1>5, <1>6, <2>1 DEF rest
<1>7. CASE rest # <<>>
  <2>1. PICK h \in [1 .. Len(rest) -> Seq(S)] :
          Flattens(h, rest) /\ FlattenSeq(rest) = h[Len(rest)]
    BY <1>2, <1>7, FlattenExists
  <2>2. Len(rest) \in Nat \ {0}
    BY <1>2, <1>7, EmptySeq
  <2> DEFINE Shifted(n) == f[n + 2] = seqs[1] \o h[n + 1]
             N == {n \in Nat : n + 1 <= Len(rest) => Shifted(n)}
  <2> HIDE DEF Shifted
  <2>3. 0 \in N
    <3> DEFINE two == 2
    <3>1. two \in 1 .. Len(seqs) /\ 1 \in 1 .. Len(rest) /\ 1 = two - 1
          /\ 1 \in 1 .. Len(seqs)
      BY <1>1, <1>2, <2>2
    <3>2. rest[1] = seqs[two]
      BY <1>2, <3>1
    <3>3. f[two] = seqs[1] \o h[1]
      <4> HIDE DEF two
      <4>1. f[two] = f[1] \o seqs[two]
        BY <1>1, <1>3, <3>1, FlattenParts
      <4>2. h[1] = rest[1]
        BY <2>1, <2>2, FlattenParts
      <4> QED BY <1>4, <3>2, <4>1, <4>2
    <3>4. 0 + 2 = two /\ 0 + 1 = 1
      OBVIOUS
    <3> QED BY <3>3, <3>4, Zenon DEF Shifted
  <2>4. ASSUME NEW n \in Nat, n \in N, n + 2 <= Len(rest) PROVE Shifted(n + 1)
    <3> DEFINE i == n + 1  j == n + 2  k == n + 3
    <3>1. /\ i \in 1 .. Len(rest) /\ j \in 1 .. Len(rest)
          /\ j \in 1 .. Len(seqs) /\ k \in 1 .. Len(seqs)
          /\ i = j - 1 /\ j = k - 1 /\ j + 1 = k
      BY <1>1, <1>2, <2>2, <2>4
    <3>2. f[j] = seqs[1] \o h[i]
      <4>1. Shifted(n)
        BY <2>2, <2>4
      <4> QED BY <4>1 DEF Shifted
    <3>3. rest[j] = seqs[k]
      BY <1>2, <3>1
    <3>4. Shifted(n + 1) <=> f[k] = seqs[1] \o h[j]
      <4>1. (n + 1) + 2 = k /\ (n + 1) + 1 = j
        OBVIOUS
      <4> QED BY <4>1, Zenon DEF Shifted
    <3> HIDE DEF i, j, k
    <3>5. f[k] = f[j] \o seqs[k]
      BY <1>1, <1>3, <3>1, FlattenParts
    <3>8. h[j] = h[i] \o rest[j]
      <4>1. Len(rest) \in Nat
        BY <2>2
      <4> QED BY <2>1, <3>1, <4>1, FlattenParts, ZenonT(30)
    <3>6. h[i] \in Seq(S) /\ seqs[k] \in Seq(S) /\ seqs[1] \in Seq(S)
      BY <1>1, <2>1, <3>1
    <3>7. (seqs[1] \o h[i]) \o seqs[k] = seqs[1] \o (h[i] \o seqs[k])
      <4> DEFINE a == seqs[1]  b == h[i]  c == seqs[k]
      <4>1. a \in Seq(S) /\ b \in Seq(S) /\ c \in Seq(S)
        BY <3>6
      <4> HIDE DEF a, b, c
      <4>2. (a \o b) \o c = a \o (b \o c)
        BY ONLY <4>1, ConcatAssociative
      <4> QED BY <4>2 DEF a, b, c
    <3> QED BY <3>2, <3>3, <3>4, <3>5, <3>7, <3>8
  <2>5. Nat \subseteq N
    <3>1. \A n \in Nat : n \in N => n + 1 \in N
      <4>1. SUFFICES ASSUME NEW n \in Nat, n \in N, (n + 1) + 1 <= Len(rest)
                     PROVE  Shifted(n + 1)
        OBVIOUS
      <4>2. n + 2 <= Len(rest)
        BY <2>2, <4>1
      <4> QED BY <2>4, <4>1, <4>2
    <3> HIDE DEF N
    <3> QED BY <2>3, <3>1, SetInduction
  <2>6. Len(rest) - 1 \in N
    <3>1. Len(rest) - 1 \in Nat
      BY <2>2
    <3> HIDE DEF N
    <3> QED BY <2>5, <3>1
  <2>7. /\ (Len(rest) - 1) + 1 = Len(rest) /\ (Len(rest) - 1) + 2 = Len(seqs)
        /\ (Len(rest) - 1) + 1 <= Len(rest)
    BY <1>2, <1>1, <2>2
  <2>8. f[Len(seqs)] = seqs[1] \o h[Len(rest)]
    BY <2>6, <2>7 DEF Shifted
  <2>9. f[Len(seqs)] \in Seq(S)
    <3>1. Len(seqs) \in 1 .. Len(seqs)
      BY <1>1
    <3> QED BY <1>3, <3>1
  <2> QED BY <1>3, <1>5, <2>1, <2>8, <2>9 DEF rest
<1> QED BY <1>6, <1>7

(* A part appended is a part behind the whole.                             *)
LEMMA FlattenAppend ==
  ASSUME NEW S, NEW seqs \in Seq(Seq(S)), NEW s \in Seq(S)
  PROVE  FlattenSeq(Append(seqs, s)) = FlattenSeq(seqs) \o s
<1> DEFINE more == Append(seqs, s)
           size == Len(seqs)
           whole == size + 1
<1>1. /\ more \in Seq(Seq(S)) /\ Len(more) = whole /\ more[whole] = s
      /\ \A n \in 1 .. size : more[n] = seqs[n]
  BY AppendProperties
<1>2. size \in Nat /\ whole \in 1 .. whole /\ 1 \in 1 .. whole
  BY LenProperties
<1> HIDE DEF more, size, whole
<1>3. more # <<>>
  BY <1>1, <1>2, EmptySeq DEF whole
<1>4. PICK h \in [1 .. Len(more) -> Seq(S)] :
        Flattens(h, more) /\ FlattenSeq(more) = h[Len(more)]
  BY <1>1, <1>3, FlattenExists
<1>5. /\ h[1] = more[1]
      /\ \A m, n \in 1 .. whole : n = m - 1 => h[m] = h[n] \o more[m]
  <2>1. Len(more) \in Nat /\ Len(more) # 0
    BY <1>1, <1>2 DEF whole
  <2>2. /\ h[1] = more[1]
        /\ \A m, n \in 1 .. Len(more) : n = m - 1 => h[m] = h[n] \o more[m]
    BY <1>4, <2>1, FlattenParts
  <2> QED BY <1>1, <2>2
<1>6. CASE seqs = <<>>
  <2>1. size = 0 /\ whole = 1
    BY <1>6 DEF size, whole
  <2>2. FlattenSeq(seqs) = <<>>
    BY <1>6 DEF FlattenSeq
  <2>3. <<>> \o s = s
    BY ConcatEmptySeq
  <2>4. FlattenSeq(more) = s
    BY <1>1, <1>4, <1>5, <2>1
  <2> QED BY <2>2, <2>3, <2>4 DEF more
<1>7. CASE seqs # <<>>
  <2>1. PICK f \in [1 .. Len(seqs) -> Seq(S)] :
          Flattens(f, seqs) /\ FlattenSeq(seqs) = f[Len(seqs)]
    BY <1>7, FlattenExists
  <2>2. /\ f[1] = seqs[1]
        /\ \A m, n \in 1 .. size : n = m - 1 => f[m] = f[n] \o seqs[m]
    <3>1. Len(seqs) \in Nat /\ Len(seqs) # 0
      BY <1>2, <1>7, EmptySeq DEF size
    <3> QED BY <2>1, <3>1, FlattenParts DEF size
  <2>3. size \in Nat \ {0}
    BY <1>2, <1>7, EmptySeq DEF size
  <2> DEFINE Same(n) == h[n + 1] = f[n + 1]
             N == {n \in Nat : n + 1 <= size => Same(n)}
  <2>4. 0 \in N
    <3>1. 1 \in 1 .. size
      BY <2>3
    <3> QED BY <1>1, <1>5, <2>2, <3>1
  <2> HIDE DEF Same
  <2>5. ASSUME NEW n \in Nat, n \in N, n + 2 <= size PROVE Same(n + 1)
    <3> DEFINE j == n + 1  k == n + 2
    <3>1. /\ j \in 1 .. size /\ k \in 1 .. size /\ j = k - 1 /\ j + 1 = k
          /\ j \in 1 .. whole /\ k \in 1 .. whole
      BY <2>3, <2>5 DEF whole
    <3>2. h[j] = f[j]
      BY <2>5, <3>1 DEF Same
    <3> HIDE DEF j, k
    <3>3. h[k] = h[j] \o more[k] /\ f[k] = f[j] \o seqs[k] /\ more[k] = seqs[k]
      BY <1>1, <1>5, <2>2, <3>1
    <3>4. h[j + 1] = f[j + 1]
      BY <3>1, <3>2, <3>3
    <3> QED BY <3>4 DEF Same, j
  <2>6. Nat \subseteq N
    <3>1. ASSUME NEW n \in Nat, n \in N PROVE n + 1 \in N
      <4>1. n + 1 \in Nat /\ (n + 1) + 1 = n + 2
        OBVIOUS
      <4>2. (n + 1) + 1 <= size => Same(n + 1)
        BY <2>5, <3>1, <4>1
      <4> QED BY <4>1, <4>2
    <3> HIDE DEF N
    <3> QED BY <2>4, <3>1, SetInduction
  <2>7. h[size] = f[size]
    <3>1. PICK n \in Nat : size = n + 1
      <4>1. size - 1 \in Nat /\ size = (size - 1) + 1
        BY <2>3
      <4> QED BY <4>1
    <3>2. n \in N
      BY <2>6
    <3> QED BY <3>1, <3>2 DEF Same
  <2>8. size \in 1 .. whole /\ size = whole - 1
    BY <2>3 DEF whole
  <2>9. h[whole] = h[size] \o more[whole]
    BY <1>2, <1>5, <2>8
  <2> QED BY <1>1, <1>4, <2>1, <2>7, <2>9 DEF more, size
<1> QED BY <1>6, <1>7

(* Parts of one element each are the sequence of these.                    *)
LEMMA FlattenSingles ==
  ASSUME NEW S, NEW s \in Seq(S)
  PROVE  FlattenSeq([n \in DOMAIN s |-> <<s[n]>>]) = s
<1> DEFINE Single(k) == [n \in 1 .. k |-> <<s[n]>>]
           First(k) == [n \in 1 .. k |-> s[n]]
           N == {k \in Nat : k <= Len(s) => FlattenSeq(Single(k)) = First(k)}
<1>1. Len(s) \in Nat /\ DOMAIN s = 1 .. Len(s) /\ \A n \in 1 .. Len(s) : s[n] \in S
  BY LenProperties, ElementOfSeq
<1>2. 0 \in N
  <2>1. Single(0) = <<>> /\ First(0) = <<>>
    OBVIOUS
  <2>2. FlattenSeq(<<>>) = <<>>
    BY DEF FlattenSeq
  <2> QED BY <2>1, <2>2
<1>3. ASSUME NEW k \in Nat, k \in N PROVE k + 1 \in N
  <2> SUFFICES ASSUME k + 1 <= Len(s) PROVE FlattenSeq(Single(k + 1)) = First(k + 1)
    OBVIOUS
  <2>1. FlattenSeq(Single(k)) = First(k)
    BY <1>1, <1>3
  <2>2. s[k + 1] \in S /\ \A n \in 1 .. k : s[n] \in S
    BY <1>1
  <2>3. Single(k) \in Seq(Seq(S)) /\ <<s[k + 1]>> \in Seq(S) /\ First(k) \in Seq(S)
    BY <2>2
  <2>4. Single(k + 1) = Append(Single(k), <<s[k + 1]>>)
    BY <2>3
  <2>5. First(k + 1) = First(k) \o <<s[k + 1]>>
    BY <2>2
  <2> HIDE DEF Single, First
  <2> QED BY <2>1, <2>3, <2>4, <2>5, FlattenAppend
<1>4. Nat \subseteq N
  <2> HIDE DEF N
  <2> QED BY <1>2, <1>3, SetInduction
<1>5. Len(s) \in N
  BY <1>1, <1>4
<1>6. First(Len(s)) = s /\ Single(Len(s)) = [n \in DOMAIN s |-> <<s[n]>>]
  BY <1>1
<1> QED BY <1>1, <1>5, <1>6

-----------------------------------------------------------------------------
(* Parts of sequences, and the least element of a set as Min gives it.      *)

LEMMA Part ==
  ASSUME NEW S, NEW t \in Seq(S), NEW m \in Nat \ {0}, NEW n \in Nat,
         m <= n + 1, n <= Len(t)
  PROVE  /\ SubSeq(t, m, n) \in Seq(S) /\ Len(SubSeq(t, m, n)) = n - m + 1
         /\ \A i \in 1 .. n - m + 1 : SubSeq(t, m, n)[i] = t[m + i - 1]
<1>1. \A i \in m .. n : t[i] \in S
  BY ElementOfSeq, LenProperties
<1> QED BY <1>1, SubSeqProperties

\* Two texts with the same symbols from m to n.
LEMMA SamePart ==
  ASSUME NEW S, NEW t \in Seq(S), NEW u \in Seq(S), NEW m \in Nat \ {0}, NEW n \in Nat,
         n <= Len(t), n <= Len(u), \A i \in m .. n : t[i] = u[i]
  PROVE  SubSeq(t, m, n) = SubSeq(u, m, n)
<1>1. CASE m <= n + 1
  <2>1. /\ SubSeq(t, m, n) \in Seq(S) /\ Len(SubSeq(t, m, n)) = n - m + 1
        /\ SubSeq(u, m, n) \in Seq(S) /\ Len(SubSeq(u, m, n)) = n - m + 1
        /\ \A i \in 1 .. n - m + 1 : /\ SubSeq(t, m, n)[i] = t[m + i - 1]
                                     /\ SubSeq(u, m, n)[i] = u[m + i - 1]
    BY <1>1, Part
  <2>2. \A i \in 1 .. n - m + 1 : SubSeq(t, m, n)[i] = SubSeq(u, m, n)[i]
    BY <2>1
  <2> QED BY <2>1, <2>2, SeqEqual
<1>2. CASE ~(m <= n + 1)
  <2>1. SubSeq(t, m, n) = <<>> /\ SubSeq(u, m, n) = <<>>
    BY <1>2, SubSeqEmpty
  <2> QED BY <2>1
<1> QED BY <1>1, <1>2

LEMMA MinIs ==
  ASSUME NEW T, T \subseteq Nat, T # {}
  PROVE  Min(T) \in T /\ \A n \in T : Min(T) <= n
<1>1. \E n \in T : \A m \in T : n <= m
  BY LeastElement
<1> QED BY <1>1 DEF Min

\* A part of a part.
LEMMA PartOfPart ==
  ASSUME NEW S, NEW t \in Seq(S), NEW i \in Nat \ {0}, NEW j \in Nat,
         i <= j + 1, j <= Len(t),
         NEW m \in Nat \ {0}, NEW n \in Nat, m <= n + 1, n <= j - i + 1
  PROVE  SubSeq(SubSeq(t, i, j), m, n) = SubSeq(t, i + m - 1, i + n - 1)
<1> DEFINE a == i + m - 1  b == i + n - 1
           u == SubSeq(t, i, j)  v == SubSeq(u, m, n)  w == SubSeq(t, a, b)
<1>1. /\ u \in Seq(S) /\ Len(u) = j - i + 1
      /\ \A k \in 1 .. j - i + 1 : u[k] = t[i + k - 1]
  BY Part
<1> HIDE DEF u
<1>2. /\ v \in Seq(S) /\ Len(v) = n - m + 1
      /\ \A k \in 1 .. n - m + 1 : v[k] = u[m + k - 1]
  BY <1>1, Part
<1> HIDE DEF v
<1>3. Len(t) \in Nat
  BY LenProperties
<1>4. /\ a \in Nat \ {0} /\ b \in Nat /\ a <= b + 1 /\ b <= Len(t)
      /\ b - a + 1 = n - m + 1
  BY <1>3
<1> HIDE DEF a, b
<1>7. /\ w \in Seq(S) /\ Len(w) = n - m + 1
      /\ \A k \in 1 .. n - m + 1 : w[k] = t[a + k - 1]
  <2>1. /\ w \in Seq(S) /\ Len(w) = b - a + 1
        /\ \A k \in 1 .. b - a + 1 : w[k] = t[a + k - 1]
    BY <1>4, Part
  <2> QED BY <1>4, <2>1
<1> HIDE DEF w
<1>5. ASSUME NEW k \in 1 .. n - m + 1 PROVE v[k] = w[k]
  <2>1. m + k - 1 \in 1 .. j - i + 1 /\ i + (m + k - 1) - 1 = a + k - 1
    BY DEF a
  <2> QED BY <1>1, <1>2, <1>7, <2>1
<1>6. v = w
  BY <1>2, <1>7, <1>5, SeqEqual
<1> QED BY <1>6 DEF u, v, w, a, b

LEMMA MaxIs ==
  ASSUME NEW k \in Nat, NEW T, T \subseteq 0 .. k, T # {}
  PROVE  Max(T) \in T /\ \A n \in T : n <= Max(T)
<1> DEFINE R == {k - n : n \in T}
<1>1. R \subseteq Nat /\ R # {}
  <2>1. ASSUME NEW n \in T PROVE k - n \in Nat
    OBVIOUS
  <2> QED BY <2>1
<1>2. PICK r \in R : \A q \in R : r <= q
  <2> HIDE DEF R
  <2> QED BY <1>1, LeastElement
<1>3. PICK m \in T : r = k - m
  BY <1>2
<1>4. ASSUME NEW n \in T PROVE m >= n
  <2>1. k - n \in R
    OBVIOUS
  <2>2. k - m <= k - n
    BY <1>2, <1>3, <2>1
  <2>3. m \in Int /\ n \in Int
    OBVIOUS
  <2> QED BY <2>2, <2>3
<1>5. \E x \in T : \A y \in T : x >= y
  BY <1>4
<1>6. Max(T) \in T /\ \A y \in T : Max(T) >= y
  BY <1>5 DEF Max
<1>7. ASSUME NEW n \in T PROVE n <= Max(T)
  <2> DEFINE x == Max(T)
  <2>1. x \in 0 .. k /\ n \in 0 .. k /\ x >= n
    BY <1>6, Zenon
  <2> HIDE DEF x
  <2>2. n <= x
    BY <2>1
  <2> QED BY <2>2 DEF x
<1> QED BY <1>6, <1>7
=============================================================================
