------------------------ MODULE PropertyGroupProofs ------------------------
(* The block of a group and what is put into it, for every initial         *)
(* capacity and every input.                                               *)
EXTENDS PropertyGroup, Induction

GroupTypes ==
  /\ caller \in Callers /\ input \in Seq(Property)
  /\ pc \in {"add", "put", "done"} /\ next \in Nat \ {0}
  /\ entries \in Seq(Property) /\ capacity \in Nat

\* While a caller adds, each entry of its input has become one of the group.
Adding ==
  pc = "add" =>
    /\ Len(entries) = next - 1 /\ next <= Len(input) + 1
    /\ Len(entries) <= capacity /\ Initial[caller] <= capacity

\* Only a group that was shrunk to nothing has a capacity of 0.
Roomy == pc = "put" => caller = "api" /\ (input # <<>> => capacity >= 1)

GroupInv == GroupTypes /\ Adding /\ Roomy /\ FitsInBlock /\ NoStalePointer

(* What the constants are, in the form the steps below use.                *)
LEMMA Capacities ==
  /\ \A c \in Callers : Initial[c] \in Nat /\ Initial[c] >= 1
  /\ Initial["params"] >= 2 /\ "params" \in Callers
  /\ \A n \in 1 .. Len(Extra) : Extra[n] \in Property
BY GroupAssumption DEF Callers

(* Appending, as add_property does, and replacing a value, as put_property *)
(* does.                                                                   *)
LEMMA Appended ==
  ASSUME NEW s \in Seq(Property), NEW e \in Property
  PROVE  /\ Append(s, e) \in Seq(Property)
         /\ Len(Append(s, e)) = Len(s) + 1 /\ Len(s) \in Nat
OBVIOUS

LEMMA Replaced ==
  ASSUME NEW s \in Seq(Property), NEW n, NEW v \in Value
  PROVE  LET t == [s EXCEPT ![n].value = v]
         IN  t \in Seq(Property) /\ Len(t) = Len(s)
<1> DEFINE t == [s EXCEPT ![n].value = v]
<1>1. s \in [1 .. Len(s) -> Property] /\ Len(s) \in Nat
  OBVIOUS
<1>2. \A m \in 1 .. Len(s) : [s[m] EXCEPT !.value = v] \in Property
  BY <1>1 DEF Property
<1>3. t \in [1 .. Len(s) -> Property]
  BY <1>1, <1>2
<1> QED
  BY <1>1, <1>3

(* add_property of a group with room, or with a capacity to double.        *)
LEMMA AddKeepsRoom ==
  ASSUME GroupTypes, NEW e \in Property, NEW taken \in BOOLEAN,
         add_property(e, taken), Len(entries) <= capacity, capacity >= 1,
         taken \/ Len(entries) < capacity, ~stale
  PROVE  /\ entries' \in Seq(Property) /\ Len(entries') = Len(entries) + 1
         /\ capacity' \in Nat /\ Len(entries') <= capacity' /\ capacity <= capacity'
         /\ ~stale'
<1>1. /\ entries' \in Seq(Property) /\ Len(entries') = Len(entries) + 1
      /\ Len(entries) \in Nat /\ capacity \in Nat
  BY Appended DEF add_property, GroupTypes
<1>2. CASE Len(entries) = capacity
  <2>1. capacity' = capacity * 2 /\ stale' \in (IF taken THEN {FALSE} ELSE {stale, TRUE})
    BY <1>2, Zenon DEF add_property, realloc_properties
  <2>2. taken
    BY <1>1, <1>2
  <2>3. ~stale'
    BY <2>1, <2>2, Zenon
  <2> QED
    BY <1>1, <1>2, <2>1, <2>3
<1>3. CASE Len(entries) # capacity
  <2>1. capacity' = capacity /\ stale' = stale
    BY <1>3, Zenon DEF add_property
  <2> QED
    BY <1>1, <1>3, <2>1
<1> QED
  BY <1>2, <1>3

(* alloc_properties leaves an empty group with room for an entry.          *)
LEMMA GroupInvInit == GroupInit => GroupInv
<1> SUFFICES ASSUME GroupInit PROVE GroupInv
  OBVIOUS
<1>1. entries \in Seq(Property) /\ Len(entries) = 0
  BY DEF GroupInit
<1>2. input \in Seq(Property) /\ Len(input) \in Nat
  BY GroupAssumption DEF GroupInit
<1>3. capacity \in Nat /\ capacity >= 1 /\ capacity = Initial[caller]
  BY Capacities DEF GroupInit
<1> QED
  BY <1>1, <1>2, <1>3
     DEF GroupInit, GroupInv, GroupTypes, Adding, Roomy, FitsInBlock, NoStalePointer

(* Each operation on the group keeps its entries inside the block and the  *)
(* caller's pointer good.                                                  *)
LEMMA GroupInvNext == GroupInv /\ [GroupNext]_groupVars => GroupInv'
<1> SUFFICES ASSUME GroupInv, [GroupNext]_groupVars PROVE GroupInv'
  OBVIOUS
<1>1. /\ GroupTypes /\ Adding /\ Roomy /\ FitsInBlock /\ ~stale
      /\ Len(entries) \in Nat /\ Len(input) \in Nat
  BY DEF GroupInv, GroupTypes, NoStalePointer
<1>2. CASE Add
  <2> DEFINE e == input[next]
  <2>1. pc = "add" /\ next \in 1 .. Len(input) /\ e \in Property
    BY <1>1, <1>2 DEF Add, GroupTypes
  <2>2. /\ Len(entries) = next - 1 /\ Len(entries) <= capacity
        /\ Initial[caller] <= capacity /\ capacity \in Nat /\ next \in Nat
    BY <1>1, <2>1 DEF Adding, GroupTypes
  <2>3. capacity >= 1 /\ (caller = "params" => capacity >= 2)
    BY <1>1, <2>2, Capacities DEF GroupTypes
  <2>4. ResultTaken \in BOOLEAN /\ (ResultTaken \/ Len(entries) < capacity)
    BY <2>2, <2>3 DEF ResultTaken
  <2>5. /\ entries' \in Seq(Property) /\ Len(entries') = Len(entries) + 1
        /\ capacity' \in Nat /\ Len(entries') <= capacity' /\ capacity <= capacity'
        /\ ~stale'
    BY <1>1, <1>2, <2>1, <2>2, <2>3, <2>4, AddKeepsRoom DEF Add
  <2>6. caller' = caller /\ input' = input /\ pc' = "add" /\ next' = next + 1
    BY <1>2, <2>1 DEF Add
  <2>7. Initial[caller] \in Nat
    BY <1>1, Capacities DEF GroupTypes
  <2>8. GroupTypes'
    BY <1>1, <2>2, <2>5, <2>6 DEF GroupTypes
  <2>9. Adding'
    BY <1>1, <2>1, <2>2, <2>5, <2>6, <2>7 DEF Adding
  <2> QED
    BY <2>5, <2>6, <2>8, <2>9 DEF GroupInv, Roomy, FitsInBlock, NoStalePointer
<1>3. CASE Shrink
  <2>1. /\ pc = "add" /\ next > Len(input) /\ capacity' = Len(entries) /\ ~stale'
        /\ caller' = caller /\ input' = input /\ entries' = entries /\ next' = 1
        /\ pc' \in {"put", "done"} /\ (pc' = "put" => caller = "api")
    BY <1>3 DEF Shrink, realloc_properties
  <2>2. Len(entries) = Len(input)
    BY <1>1, <2>1 DEF Adding, GroupTypes
  <2>3. input # <<>> => Len(input) >= 1
    BY <1>1 DEF GroupTypes
  <2>4. GroupTypes'
    BY <1>1, <2>1 DEF GroupTypes
  <2> QED
    BY <1>1, <2>1, <2>2, <2>3, <2>4
       DEF GroupInv, Adding, Roomy, FitsInBlock, NoStalePointer
<1>4. CASE Put
  <2> DEFINE e == Extra[next]
  <2>1. /\ pc = "put" /\ next \in 1 .. Len(Extra) /\ e \in Property
        /\ pc' = pc /\ caller' = caller /\ input' = input /\ next' = next + 1
    BY <1>1, <1>4, Capacities, GroupAssumption DEF Put, GroupTypes
  <2>2. CASE add_property(e, TRUE)
    <3>1. /\ entries' \in Seq(Property) /\ Len(entries') = Len(entries) + 1
      BY <1>1, <2>1, <2>2, Appended DEF add_property, GroupTypes
    <3>2. capacity' \in {capacity, capacity * 2}
      BY <2>2, Zenon DEF add_property, realloc_properties
    <3>3. stale' \in {FALSE, stale}
      BY <2>2, Zenon DEF add_property, realloc_properties
    <3>4. ~stale'
      BY <1>1, <3>3, Zenon
    <3>5. capacity' \in Nat /\ (capacity >= 1 => capacity' >= 1)
      BY <1>1, <3>2 DEF GroupTypes
    <3>6. caller = "api" /\ (input # <<>> => capacity >= 1 /\ Len(entries) <= capacity)
      BY <1>1, <2>1 DEF Roomy, FitsInBlock
    <3>7. ASSUME input # <<>> PROVE Len(entries') <= capacity'
      BY <1>1, <2>1, <2>2, <3>6, <3>7, AddKeepsRoom
    <3>8. GroupTypes'
      BY <1>1, <2>1, <3>1, <3>5 DEF GroupTypes
    <3> QED
      BY <1>1, <2>1, <3>4, <3>5, <3>6, <3>7, <3>8
         DEF GroupInv, Adding, Roomy, FitsInBlock, NoStalePointer
  <2>3. CASE /\ \E at : entries' = [entries EXCEPT ![at].value = e.value]
             /\ UNCHANGED <<capacity, stale>>
    <3>1. e.value \in Value
      BY <2>1 DEF Property
    <3>2. entries' \in Seq(Property) /\ Len(entries') = Len(entries)
      BY <1>1, <2>3, <3>1, Replaced DEF GroupTypes
    <3> QED
      BY <1>1, <2>1, <2>3, <3>2
         DEF GroupInv, GroupTypes, Adding, Roomy, FitsInBlock, NoStalePointer
  <2> QED
    BY <1>4, <2>2, <2>3 DEF Put
<1>5. CASE Return
  BY <1>1, <1>5
     DEF Return, GroupInv, GroupTypes, Adding, Roomy, FitsInBlock, NoStalePointer
<1>6. CASE UNCHANGED groupVars
  BY <1>1, <1>6
     DEF groupVars, GroupInv, GroupTypes, Adding, Roomy, FitsInBlock, NoStalePointer
<1> QED
  BY <1>2, <1>3, <1>4, <1>5, <1>6 DEF GroupNext

(* No caller writes an entry behind the block of its group, except         *)
(* fetch_api after a help that lists no method.                            *)
THEOREM EntriesFit == GroupSpec => []FitsInBlock
<1>1. GroupInv => FitsInBlock
  BY DEF GroupInv
<1> QED
  BY <1>1, GroupInvInit, GroupInvNext, PTL DEF GroupSpec

(* No caller uses a group that realloc() has freed, although               *)
(* build_param_list drops two of the pointers it is given.                 *)
THEOREM PointersGood == GroupSpec => []NoStalePointer
<1>1. GroupInv => NoStalePointer
  BY DEF GroupInv
<1> QED
  BY <1>1, GroupInvInit, GroupInvNext, PTL DEF GroupSpec

-----------------------------------------------------------------------------
(* put_property: what find_property finds, and what becomes of the group.  *)
FirstOfKey(g, n) == \A m \in 1 .. n - 1 : g[m].key # g[n].key

\* h is g with e put at the position at.
PutAt(g, e, h, at) ==
  /\ Len(h) \in {Len(g), Len(g) + 1} /\ at \in 1 .. Len(h) /\ h[at] = e
  /\ at <= Len(g) => Len(h) = Len(g) /\ g[at].key = e.key
  /\ \A n \in 1 .. Len(g) : n # at => h[n] = g[n]
  /\ \A n \in 1 .. at - 1 : g[n].key # e.key

(* find_property returns the first entry with the key, or none.            *)
LEMMA FindFirst ==
  ASSUME NEW g \in Seq(Property), NEW k
  PROVE  LET n == Find(g, k) IN
         /\ n = 0 => \A m \in 1 .. Len(g) : g[m].key # k
         /\ n # 0 => /\ n \in 1 .. Len(g) /\ g[n].key = k
                     /\ \A m \in 1 .. n - 1 : g[m].key # k
<1> DEFINE I == {n \in 1 .. Len(g) : g[n].key = k}
<1>1. Len(g) \in Nat
  OBVIOUS
<1>2. Find(g, k) = IF I # {} THEN Min(I) ELSE 0
  BY DEF Find, SelectInSeq
<1>3. CASE I = {}
  <2>1. Find(g, k) = 0
    BY <1>2, <1>3, Zenon
  <2> QED BY <1>3, <2>1
<1>4. CASE I # {}
  <2>1. Find(g, k) = Min(I)
    BY <1>2, <1>4, Zenon
  <2>2. PICK n \in I : \A m \in I : n <= m
    <3>1. I \subseteq Nat
      BY <1>1
    <3> HIDE DEF I
    <3> QED BY <1>4, <3>1, LeastElement
  <2>3. Min(I) = n
    <3>1. \A m \in I : m \in Nat
      BY <1>1
    <3> HIDE DEF I
    <3> QED BY <2>2, <3>1 DEF Min
  <2>4. n \in 1 .. Len(g) /\ g[n].key = k
    BY <2>2
  <2>5. ASSUME NEW m \in 1 .. n - 1 PROVE g[m].key # k
    <3>1. m \in 1 .. Len(g) /\ ~(n <= m)
      BY <1>1, <2>4
    <3> QED BY <2>2, <3>1
  <2>6. Find(g, k) = n /\ n # 0
    BY <2>1, <2>3, <2>4
  <2> QED BY <2>4, <2>5, <2>6
<1> QED BY <1>3, <1>4

(* A round of put_all_properties puts its entry where it was found, or at  *)
(* the end.                                                                *)
LEMMA PutLands ==
  ASSUME GroupTypes, Put
  PROVE  \E at : PutAt(entries, Extra[next], entries', at)
<1> DEFINE e == Extra[next]
           at == Find(entries, e.key)
<1>1. entries \in Seq(Property) /\ Len(entries) \in Nat /\ e \in Property
  <2>1. next \in 1 .. Len(Extra)
    BY GroupAssumption DEF GroupTypes, Put
  <2> QED BY <2>1, Capacities DEF GroupTypes
<1>2. \/ at = 0 /\ entries' = Append(entries, e)
      \/ at # 0 /\ entries' = [entries EXCEPT ![at].value = e.value]
  BY DEF Put, add_property
<1>3. /\ at = 0 => \A m \in 1 .. Len(entries) : entries[m].key # e.key
      /\ at # 0 => /\ at \in 1 .. Len(entries) /\ entries[at].key = e.key
                   /\ \A m \in 1 .. at - 1 : entries[m].key # e.key
  BY <1>1, FindFirst
<1> HIDE DEF e, at
<1>4. CASE at = 0
  <2> DEFINE h == Append(entries, e)
  <2>1. /\ Len(h) = Len(entries) + 1 /\ h[Len(entries) + 1] = e
        /\ \A n \in 1 .. Len(entries) : h[n] = entries[n]
    BY <1>1
  <2> HIDE DEF h
  <2>2. PutAt(entries, e, h, Len(entries) + 1)
    BY <1>1, <1>3, <1>4, <2>1 DEF PutAt
  <2> QED BY <1>2, <1>4, <2>2 DEF h, e
<1>5. CASE at # 0
  <2> DEFINE h == [entries EXCEPT ![at].value = e.value]
  <2>1. at \in 1 .. Len(entries) /\ entries[at].key = e.key
    BY <1>3, <1>5
  <2>2. entries[at] \in Property
    BY <1>1, <2>1
  <2>3. [entries[at] EXCEPT !.value = e.value] = e
    BY <1>1, <2>1, <2>2 DEF Property
  <2>4. Len(h) = Len(entries)
    BY <1>1
  <2>5. h[at] = [entries[at] EXCEPT !.value = e.value]
    BY <1>1, <2>1
  <2>6. \A n \in 1 .. Len(entries) : n # at => h[n] = entries[n]
    BY <1>1, <2>1
  <2> HIDE DEF h
  <2>7. PutAt(entries, e, h, at)
    BY <1>1, <1>3, <1>5, <2>1, <2>3, <2>4, <2>5, <2>6 DEF PutAt
  <2> QED BY <1>2, <1>5, <2>7 DEF h, e
<1> QED BY <1>4, <1>5

-----------------------------------------------------------------------------
(* The group g after the first k entries of Extra were put into base.      *)
Kept(base, g, k) ==
  /\ Len(base) <= Len(g)
  /\ \A n \in 1 .. Len(base) :
       /\ g[n].key = base[n].key
       /\ g[n] # base[n] => FirstOfKey(base, n) /\ \E i \in 1 .. k : g[n] = Extra[i]

Overridden(g, k) ==
  \A i \in 1 .. k :
    (\A l \in i + 1 .. k : Extra[l].key # Extra[i].key) =>
      \E n \in 1 .. Len(g) : g[n] = Extra[i] /\ FirstOfKey(g, n)

Added(base, g) == \A n \in Len(base) + 1 .. Len(g) : FirstOfKey(g, n)

Merged(base, g, k) == Kept(base, g, k) /\ Overridden(g, k) /\ Added(base, g)

(* An entry put keeps the keys where they are, and so what is first.       *)
LEMMA PutKeepsKeys ==
  ASSUME NEW g \in Seq(Property), NEW e, NEW h \in Seq(Property), NEW at,
         PutAt(g, e, h, at)
  PROVE  /\ \A n \in 1 .. Len(g) : h[n].key = g[n].key
         /\ \A n \in 1 .. Len(g) : FirstOfKey(g, n) => FirstOfKey(h, n)
         /\ FirstOfKey(h, at)
<1>1. Len(g) \in Nat /\ Len(h) \in Nat /\ at \in 1 .. Len(h)
  BY DEF PutAt
<1>2. \A n \in 1 .. Len(g) : h[n].key = g[n].key
  BY <1>1 DEF PutAt
<1>3. \A n \in 1 .. Len(g) : FirstOfKey(g, n) => FirstOfKey(h, n)
  <2>1. \A n \in 1 .. Len(g) : \A m \in 1 .. n - 1 : m \in 1 .. Len(g)
    BY <1>1
  <2> QED BY <1>2, <2>1 DEF FirstOfKey
<1>4. FirstOfKey(h, at)
  <2>1. \A m \in 1 .. at - 1 : m \in 1 .. Len(g)
    BY <1>1 DEF PutAt
  <2>2. h[at] = e /\ \A n \in 1 .. at - 1 : g[n].key # e.key
    BY DEF PutAt
  <2> QED BY <1>2, <2>1, <2>2 DEF FirstOfKey
<1> QED BY <1>2, <1>3, <1>4

(* One more entry put keeps the group one into which those were put.       *)
LEMMA PutMerges ==
  ASSUME NEW base \in Seq(Property), NEW g \in Seq(Property), NEW h \in Seq(Property),
         NEW k \in 0 .. Len(Extra) - 1, NEW at,
         Merged(base, g, k), PutAt(g, Extra[k + 1], h, at)
  PROVE  Merged(base, h, k + 1)
<1> DEFINE e == Extra[k + 1]
<1>1. /\ Len(base) \in Nat /\ Len(g) \in Nat /\ Len(h) \in Nat /\ Len(Extra) \in Nat
      /\ k \in Nat
  BY GroupAssumption
<1>2. /\ \A n \in 1 .. Len(g) : h[n].key = g[n].key
      /\ \A n \in 1 .. Len(g) : FirstOfKey(g, n) => FirstOfKey(h, n)
      /\ FirstOfKey(h, at)
  BY PutKeepsKeys
<1>3. /\ Len(h) \in {Len(g), Len(g) + 1} /\ at \in 1 .. Len(h) /\ h[at] = e
      /\ at <= Len(g) => Len(h) = Len(g) /\ g[at].key = e.key
      /\ \A n \in 1 .. Len(g) : n # at => h[n] = g[n]
      /\ \A n \in 1 .. at - 1 : g[n].key # e.key
  BY DEF PutAt
<1>4. Kept(base, g, k) /\ Overridden(g, k) /\ Added(base, g)
  BY DEF Merged
<1>5. Kept(base, h, k + 1)
  <2>1. Len(base) <= Len(h)
    BY <1>1, <1>3, <1>4 DEF Kept
  <2>2. ASSUME NEW n \in 1 .. Len(base)
        PROVE  /\ h[n].key = base[n].key
               /\ h[n] # base[n] => /\ FirstOfKey(base, n)
                                    /\ \E i \in 1 .. k + 1 : h[n] = Extra[i]
    <3>1. /\ n \in 1 .. Len(g) /\ g[n].key = base[n].key
          /\ g[n] # base[n] => FirstOfKey(base, n) /\ \E i \in 1 .. k : g[n] = Extra[i]
      BY <1>1, <1>4 DEF Kept
    <3>2. CASE n # at
      <4>1. h[n] = g[n]
        BY <1>3, <3>1, <3>2
      <4>2. 1 .. k \subseteq 1 .. k + 1
        BY <1>1
      <4> QED BY <3>1, <4>1, <4>2
    <3>3. CASE n = at
      <4>1. k + 1 \in 1 .. k + 1 /\ h[n] = Extra[k + 1]
        BY <1>1, <1>3, <3>3
      <4>2. g[n].key = e.key /\ \A m \in 1 .. n - 1 : g[m].key # e.key
        BY <1>1, <1>3, <3>1, <3>3
      <4>3. \A m \in 1 .. n - 1 : g[m].key = base[m].key
        <5>1. \A m \in 1 .. n - 1 : m \in 1 .. Len(base)
          BY <1>1
        <5> QED BY <1>4, <5>1 DEF Kept
      <4>4. FirstOfKey(base, n)
        BY <3>1, <4>2, <4>3 DEF FirstOfKey
      <4> QED BY <1>2, <3>1, <4>1, <4>4
    <3> QED BY <3>2, <3>3
  <2> QED BY <2>1, <2>2 DEF Kept
<1>6. Overridden(h, k + 1)
  <2> SUFFICES ASSUME NEW i \in 1 .. k + 1,
                      \A l \in i + 1 .. k + 1 : Extra[l].key # Extra[i].key
               PROVE  \E n \in 1 .. Len(h) : h[n] = Extra[i] /\ FirstOfKey(h, n)
    BY DEF Overridden
  <2>1. CASE i = k + 1
    BY <1>2, <1>3, <2>1
  <2>2. CASE i # k + 1
    <3>1. /\ i \in 1 .. k /\ k + 1 \in i + 1 .. k + 1
          /\ i + 1 .. k \subseteq i + 1 .. k + 1
      BY <1>1, <2>2
    <3>2. PICK n \in 1 .. Len(g) : g[n] = Extra[i] /\ FirstOfKey(g, n)
      BY <1>4, <3>1 DEF Overridden
    <3>3. n # at
      BY <1>1, <1>3, <3>1, <3>2
    <3>4. h[n] = Extra[i] /\ FirstOfKey(h, n) /\ n \in 1 .. Len(h)
      BY <1>1, <1>2, <1>3, <3>2, <3>3
    <3> QED BY <3>4
  <2> QED BY <2>1, <2>2
<1>7. Added(base, h)
  <2> SUFFICES ASSUME NEW n \in Len(base) + 1 .. Len(h) PROVE FirstOfKey(h, n)
    BY DEF Added
  <2>1. CASE n <= Len(g)
    <3>1. n \in 1 .. Len(g) /\ FirstOfKey(g, n)
      BY <1>1, <1>4, <2>1 DEF Added
    <3> QED BY <1>2, <3>1
  <2>2. CASE ~(n <= Len(g))
    <3>1. n = at
      BY <1>1, <1>3, <2>2
    <3> QED BY <1>2, <3>1
  <2> QED BY <2>1, <2>2
<1> QED BY <1>5, <1>6, <1>7 DEF Merged

-----------------------------------------------------------------------------
(* The group is the beginning of the input until it is shrunk; then it is  *)
(* the input with the first entries of Extra put into it.                  *)
MergeInv ==
  /\ pc = "add" => \A n \in 1 .. Len(entries) : entries[n] = input[n]
  /\ caller = "api" /\ pc # "add" =>
       /\ next <= Len(Extra) + 1 /\ Merged(input, entries, next - 1)
       /\ pc = "done" => next = Len(Extra) + 1

(* An empty group is the beginning of every input.                         *)
LEMMA MergeInvInit == GroupInit => MergeInv
<1> SUFFICES ASSUME GroupInit PROVE MergeInv
  OBVIOUS
<1>1. pc = "add" /\ Len(entries) = 0
  BY DEF GroupInit
<1>2. 1 .. Len(entries) = {}
  BY <1>1
<1> QED BY <1>1, <1>2 DEF MergeInv

(* Adding, shrinking and putting keep what has been merged.                *)
LEMMA MergeInvNext == GroupInv /\ GroupInv' /\ MergeInv /\ [GroupNext]_groupVars => MergeInv'
<1> SUFFICES ASSUME GroupInv, GroupInv', MergeInv, [GroupNext]_groupVars PROVE MergeInv'
  OBVIOUS
<1>1. /\ GroupTypes /\ Adding /\ Roomy /\ GroupTypes'
      /\ Len(entries) \in Nat /\ Len(input) \in Nat /\ Len(Extra) \in Nat
  BY GroupAssumption DEF GroupInv, GroupTypes
<1>2. CASE Add
  <2>1. /\ pc = "add" /\ pc' = "add" /\ entries' = Append(entries, input[next])
        /\ input' = input /\ next = Len(entries) + 1
    BY <1>1, <1>2 DEF Add, add_property, Adding, GroupTypes
  <2>2. \A n \in 1 .. Len(entries) : entries[n] = input[n]
    BY <2>1 DEF MergeInv
  <2> DEFINE e == input[next]
             h == Append(entries, e)
  <2>3. /\ Len(h) = Len(entries) + 1 /\ h[Len(entries) + 1] = e
        /\ \A n \in 1 .. Len(entries) : h[n] = entries[n]
    BY <1>1 DEF GroupTypes
  <2>4. \A n \in 1 .. Len(h) : h[n] = input[n]
    <3> HIDE DEF h
    <3> QED BY <1>1, <2>1, <2>2, <2>3
  <2> QED BY <2>1, <2>4 DEF MergeInv
<1>3. CASE Shrink
  <2>1. /\ pc = "add" /\ next > Len(input) /\ next' = 1 /\ pc' \in {"put", "done"}
        /\ (caller = "api" => pc' = "put")
        /\ entries' = entries /\ input' = input /\ caller' = caller
    BY <1>3 DEF Shrink
  <2>2. Len(entries) = Len(input) /\ \A n \in 1 .. Len(entries) : entries[n] = input[n]
    BY <1>1, <2>1 DEF Adding, MergeInv, GroupTypes
  <2>3. Kept(input, entries, 0)
    BY <1>1, <2>2 DEF Kept
  <2>4. Overridden(entries, 0)
    BY DEF Overridden
  <2>5. Added(input, entries)
    BY <1>1, <2>2 DEF Added
  <2>6. Merged(input', entries', next' - 1)
    BY <2>1, <2>3, <2>4, <2>5 DEF Merged
  <2> QED BY <1>1, <2>1, <2>6 DEF MergeInv
<1>4. CASE Put
  <2>1. /\ pc = "put" /\ pc' = pc /\ next <= Len(Extra) /\ next' = next + 1
        /\ caller' = caller /\ input' = input /\ next \in Nat \ {0}
        /\ caller = "api"
    BY <1>1, <1>4 DEF Put, GroupTypes, Roomy
  <2>2. PICK at : PutAt(entries, Extra[next], entries', at)
    BY <1>1, <1>4, PutLands
  <2>3. PICK k : k = next - 1
    OBVIOUS
  <2>4. k \in 0 .. Len(Extra) - 1 /\ next = k + 1 /\ next' - 1 = k + 1
    BY <1>1, <2>1, <2>3
  <2>5. Merged(input, entries, k) /\ PutAt(entries, Extra[k + 1], entries', at)
    BY <2>1, <2>2, <2>3, <2>4 DEF MergeInv
  <2>6. input \in Seq(Property) /\ entries \in Seq(Property) /\ entries' \in Seq(Property)
    BY <1>1 DEF GroupTypes
  <2>7. Merged(input, entries', k + 1)
    BY <2>4, <2>5, <2>6, PutMerges
  <2> QED BY <1>1, <2>1, <2>4, <2>7 DEF MergeInv
<1>5. CASE Return
  <2>1. /\ pc' = "done" /\ UNCHANGED <<caller, input, next, entries>>
        /\ pc \in {"add", "put"} /\ (pc = "add" => caller # "api")
        /\ (pc = "put" => next > Len(Extra))
    BY <1>5 DEF Return
  <2> QED BY <1>1, <2>1 DEF MergeInv, GroupTypes
<1>6. CASE UNCHANGED groupVars
  BY <1>6 DEF groupVars, MergeInv
<1> QED
  BY <1>2, <1>3, <1>4, <1>5, <1>6 DEF GroupNext

(* Of the entries of Extra with a key there is a last one.                 *)
LEMMA LastOfKey ==
  ASSUME NEW i \in DOMAIN Extra
  PROVE  \E m \in DOMAIN Extra :
           /\ Extra[m].key = Extra[i].key
           /\ \A l \in m + 1 .. Len(Extra) : Extra[l].key # Extra[i].key
<1> DEFINE T == {n \in Nat : \E m \in 1 .. Len(Extra) :
                               Extra[m].key = Extra[i].key /\ n = Len(Extra) - m}
<1>1. Len(Extra) \in Nat /\ DOMAIN Extra = 1 .. Len(Extra)
  BY GroupAssumption
<1>2. Len(Extra) - i \in T
  BY <1>1
<1>3. PICK n \in T : \A o \in T : n <= o
  <2>1. T \subseteq Nat /\ T # {}
    BY <1>2
  <2> HIDE DEF T
  <2> QED BY <2>1, LeastElement
<1>4. PICK m \in 1 .. Len(Extra) : Extra[m].key = Extra[i].key /\ n = Len(Extra) - m
  BY <1>3
<1>5. ASSUME NEW l \in m + 1 .. Len(Extra), Extra[l].key = Extra[i].key PROVE FALSE
  <2>1. /\ Len(Extra) - l \in Nat /\ l \in 1 .. Len(Extra)
        /\ ~(Len(Extra) - m <= Len(Extra) - l)
    <3> DEFINE size == Len(Extra)
    <3>1. size \in Nat /\ m \in 1 .. size /\ l \in m + 1 .. size
      BY <1>1
    <3> HIDE DEF size, T
    <3>2. size - l \in Nat /\ l \in 1 .. size /\ ~(size - m <= size - l)
      BY <3>1
    <3> QED BY <3>2 DEF size
  <2>2. Len(Extra) - l \in T
    BY <1>5, <2>1
  <2> QED BY <1>3, <1>4, <2>1, <2>2
<1> QED BY <1>1, <1>4, <1>5

(* At the end this is what PutAllOverrides says.                           *)
LEMMA MergeShown == GroupInv /\ MergeInv => PutAllOverrides
<1> SUFFICES ASSUME GroupInv, MergeInv, caller = "api", pc = "done"
             PROVE  /\ \A n \in DOMAIN input :
                        /\ entries[n].key = input[n].key
                        /\ entries[n] # input[n] =>
                             /\ \A m \in 1 .. n - 1 : input[m].key # input[n].key
                             /\ entries[n] \in ToSet(Extra)
                    /\ \A e \in ToSet(Extra) :
                         \E n \in DOMAIN entries :
                           /\ entries[n].key = e.key
                           /\ \A m \in 1 .. n - 1 : entries[m].key # e.key
                           /\ entries[n] = Extra[CHOOSE m \in DOMAIN Extra :
                                 /\ Extra[m].key = e.key
                                 /\ \A l \in m + 1 .. Len(Extra) : Extra[l].key # e.key]
                    /\ \A n \in Len(input) + 1 .. Len(entries) : \A m \in 1 .. n - 1 :
                         entries[m].key # entries[n].key
  BY DEF PutAllOverrides
<1>1. /\ Len(Extra) \in Nat /\ DOMAIN Extra = 1 .. Len(Extra)
      /\ Len(input) \in Nat /\ DOMAIN input = 1 .. Len(input)
      /\ Len(entries) \in Nat /\ DOMAIN entries = 1 .. Len(entries)
  BY GroupAssumption DEF GroupInv, GroupTypes
<1>2. ToSet(Extra) = {Extra[i] : i \in DOMAIN Extra}
  BY DEF ToSet
<1>3. Merged(input, entries, Len(Extra))
  BY <1>1 DEF MergeInv
<1>4. \A n \in DOMAIN input :
        /\ entries[n].key = input[n].key
        /\ entries[n] # input[n] =>
             /\ \A m \in 1 .. n - 1 : input[m].key # input[n].key
             /\ entries[n] \in ToSet(Extra)
  BY <1>1, <1>2, <1>3 DEF Merged, Kept, FirstOfKey
<1>5. ASSUME NEW e \in ToSet(Extra)
      PROVE  \E n \in DOMAIN entries :
               /\ entries[n].key = e.key
               /\ \A m \in 1 .. n - 1 : entries[m].key # e.key
               /\ entries[n] = Extra[CHOOSE m \in DOMAIN Extra :
                     /\ Extra[m].key = e.key
                     /\ \A l \in m + 1 .. Len(Extra) : Extra[l].key # e.key]
  <2> DEFINE IsLast(m) == /\ Extra[m].key = e.key
                          /\ \A l \in m + 1 .. Len(Extra) : Extra[l].key # e.key
             last == CHOOSE m \in DOMAIN Extra : IsLast(m)
  <2>1. PICK i \in DOMAIN Extra : e = Extra[i]
    BY <1>2
  <2>2. \E m \in DOMAIN Extra : IsLast(m)
    BY <2>1, LastOfKey
  <2>3. last \in DOMAIN Extra /\ IsLast(last)
    <3> HIDE DEF IsLast
    <3> QED BY <2>2, Zenon
  <2>4. /\ last \in 1 .. Len(Extra) /\ Extra[last].key = e.key
        /\ \A l \in last + 1 .. Len(Extra) : Extra[l].key # Extra[last].key
    BY <1>1, <2>3
  <2> HIDE DEF last
  <2>5. PICK n \in 1 .. Len(entries) : entries[n] = Extra[last] /\ FirstOfKey(entries, n)
    BY <1>3, <2>4 DEF Merged, Overridden
  <2>6. /\ n \in DOMAIN entries /\ entries[n].key = e.key
        /\ \A m \in 1 .. n - 1 : entries[m].key # e.key
    BY <1>1, <2>4, <2>5 DEF FirstOfKey
  <2> QED BY <2>5, <2>6 DEF last
<1>6. \A n \in Len(input) + 1 .. Len(entries) : \A m \in 1 .. n - 1 :
        entries[m].key # entries[n].key
  BY <1>3 DEF Merged, Added, FirstOfKey
<1> QED BY <1>4, <1>5, <1>6

(* The undocumented methods that fetch_api puts into the parsed help are   *)
(* all there, each once as the last one put, and every other entry is      *)
(* where it was, whatever the help documents.                              *)
THEOREM ExtraOverrides == GroupSpec => []PutAllOverrides
<1>1. GroupInv /\ MergeInv => PutAllOverrides
  BY MergeShown
<1>2. GroupInv /\ MergeInv /\ [GroupNext]_groupVars => GroupInv' /\ MergeInv'
  BY GroupInvNext, MergeInvNext
<1>3. GroupInit => GroupInv /\ MergeInv
  BY GroupInvInit, MergeInvInit
<1> QED
  BY <1>1, <1>2, <1>3, PTL DEF GroupSpec
=============================================================================
