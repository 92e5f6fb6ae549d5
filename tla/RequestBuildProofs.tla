------------------------- MODULE RequestBuildProofs -------------------------
(* The request never overruns its buffer, and is the JSON text of a plain  *)
(* group, for every group and every initial capacity of at least 3; and it *)
(* goes where the URL of the config file says, for every URL and every     *)
(* size of a port and of a long.                                           *)
EXTENDS RequestBuild, Induction

Symbol == Char \cup {"{", "}", ":", ",", "NUL"}

\* At the head of the loop there is room for the closing brace and the NUL.
JsonInv ==
  /\ group \in Groups /\ i \in 1 .. Len(group) + 1 /\ done \in BOOLEAN
  /\ text \in Seq(Symbol) /\ capacity \in Nat
  /\ ~done => Len(text) + 2 <= capacity
  /\ NoOverrun

(* Short sequences and their concatenation, over any set of symbols.       *)
LEMMA Short ==
  ASSUME NEW S, NEW a \in S, NEW b \in S, NEW c \in S
  PROVE  /\ <<a>> \in Seq(S) /\ Len(<<a>>) = 1
         /\ <<a, b>> \in Seq(S) /\ Len(<<a, b>>) = 2
         /\ <<a, b, c>> \in Seq(S) /\ Len(<<a, b, c>>) = 3
         /\ <<>> \in Seq(S)
OBVIOUS

LEMMA Joined ==
  ASSUME NEW S, NEW s \in Seq(S), NEW t \in Seq(S)
  PROVE  s \o t \in Seq(S) /\ Len(s \o t) = Len(s) + Len(t) /\ Len(s) \in Nat
OBVIOUS

LEMMA Wider ==
  ASSUME NEW A, NEW B, A \subseteq B, NEW s \in Seq(A)
  PROVE  s \in Seq(B)
OBVIOUS

LEMMA Symbols ==
  /\ QUOTE \in Symbol /\ Char \subseteq Symbol
  /\ {"{", "}", ":", ",", "NUL"} \subseteq Symbol
BY JsonAssumption DEF Symbol

(* An argument of build_json_request is a sequence of entries.             *)
LEMMA GroupType ==
  ASSUME group \in Groups
  PROVE  /\ Len(group) \in Nat
         /\ \A n \in 1 .. Len(group) : group[n] \in [key : Seq(Char), value : Seq(Char)]
<1> DEFINE E == [key : Seq(Char), value : Seq(Char)]
<1>1. group \in Seq(E)
  BY JsonAssumption
<1> HIDE DEF E
<1>2. Len(group) \in Nat /\ \A n \in 1 .. Len(group) : group[n] \in E
  BY <1>1
<1> QED
  BY <1>2 DEF E

(* An entry is as long as xlen in build_json_request says, less the two    *)
(* symbols that close the object.                                          *)
LEMMA PieceLength ==
  ASSUME NEW e \in [key : Seq(Char), value : Seq(Char)]
  PROVE  Piece(e) \in Seq(Symbol) /\ Len(Piece(e)) + 2 = Room(e)
<1> DEFINE head == Comma \o <<QUOTE>>
           middle == head \o e.key
           colon == middle \o <<QUOTE, ":", QUOTE>>
           tail == colon \o e.value
           whole == tail \o <<QUOTE>>
<1>1. e.key \in Seq(Symbol) /\ e.value \in Seq(Symbol)
  BY Symbols, Wider
<1>2. Comma \in Seq(Symbol)
  BY Symbols, Short DEF Comma
<1>3. /\ <<QUOTE>> \in Seq(Symbol) /\ Len(<<QUOTE>>) = 1
      /\ <<QUOTE, ":", QUOTE>> \in Seq(Symbol) /\ Len(<<QUOTE, ":", QUOTE>>) = 3
  BY Symbols, Short
<1>4. head \in Seq(Symbol) /\ Len(head) = Len(Comma) + 1 /\ Len(Comma) \in Nat
  BY <1>2, <1>3, Joined
<1>5. /\ middle \in Seq(Symbol) /\ Len(middle) = Len(head) + Len(e.key)
      /\ Len(e.key) \in Nat
  BY <1>1, <1>4, Joined
<1>6. colon \in Seq(Symbol) /\ Len(colon) = Len(middle) + 3
  BY <1>3, <1>5, Joined
<1>7. /\ tail \in Seq(Symbol) /\ Len(tail) = Len(colon) + Len(e.value)
      /\ Len(e.value) \in Nat
  BY <1>1, <1>6, Joined
<1>8. whole \in Seq(Symbol) /\ Len(whole) = Len(tail) + 1
  BY <1>3, <1>7, Joined
<1>9. Piece(e) = whole
  BY DEF Piece
<1> HIDE DEF whole, tail, colon, middle, head
<1>10. Room(e) = Len(Comma) + Len(e.key) + Len(e.value) + 7
  BY <1>4, <1>5, <1>7 DEF Room
<1>11. Len(whole) + 2 = Room(e)
  BY <1>4, <1>5, <1>6, <1>7, <1>8, <1>10
<1> QED
  BY <1>8, <1>9, <1>11

(* build_json_request starts with an open brace in a buffer of at least 3. *)
LEMMA JsonInvInit == JsonInit => JsonInv
<1> SUFFICES ASSUME JsonInit PROVE JsonInv
  OBVIOUS
<1>1. group \in Groups /\ Len(group) \in Nat
  BY GroupType DEF JsonInit
<1>2. text \in Seq(Symbol) /\ Len(text) = 1
  BY Symbols, Short DEF JsonInit
<1>3. capacity \in Nat /\ capacity >= 3 /\ i = 1 /\ done = FALSE
  BY JsonAssumption DEF JsonInit
<1>4. Len(text) + 2 <= capacity /\ Len(text) <= capacity /\ i \in 1 .. Len(group) + 1
  BY <1>1, <1>2, <1>3
<1> QED
  BY <1>1, <1>2, <1>3, <1>4 DEF JsonInv, NoOverrun

(* Each step of the loop, and the end, keep the room.                      *)
LEMMA JsonInvNext == JsonInv /\ [JsonNext]_jsonVars => JsonInv'
<1> SUFFICES ASSUME JsonInv, [JsonNext]_jsonVars PROVE JsonInv'
  OBVIOUS
<1>1. Len(group) \in Nat /\ Len(text) \in Nat
  BY GroupType DEF JsonInv
<1>2. CASE Double
  BY <1>1, <1>2 DEF JsonInv, Double, NoOverrun
<1>3. CASE WriteEntry
  <2> DEFINE e == group[i]
  <2>1. e \in [key : Seq(Char), value : Seq(Char)]
    BY <1>1, <1>3, GroupType DEF JsonInv, WriteEntry
  <2>2. Piece(e) \in Seq(Symbol) /\ Len(Piece(e)) + 2 = Room(e)
    BY <2>1, PieceLength
  <2>3. text' \in Seq(Symbol) /\ Len(text') = Len(text) + Len(Piece(e))
    BY <2>2, <1>3, Joined DEF WriteEntry, JsonInv
  <2>4. Len(Piece(e)) \in Nat /\ Len(text) + Room(e) <= capacity
    BY <2>2, <1>3 DEF WriteEntry, Fits
  <2>5. Len(text') + 2 <= capacity
    BY <2>2, <2>3, <2>4, <1>1 DEF JsonInv
  <2> QED
    BY <2>3, <2>5, <1>1, <1>3 DEF WriteEntry, JsonInv, NoOverrun
<1>4. CASE Finish
  <2>1. <<"}", "NUL">> \in Seq(Symbol) /\ Len(<<"}", "NUL">>) = 2
    BY Symbols, Short
  <2>2. text' \in Seq(Symbol) /\ Len(text') = Len(text) + 2
    BY <2>1, <1>4, Joined DEF Finish, JsonInv
  <2> QED
    BY <2>2, <1>1, <1>4 DEF Finish, JsonInv, NoOverrun
<1>5. CASE UNCHANGED jsonVars
  BY <1>5 DEF jsonVars, JsonInv, NoOverrun
<1> QED
  BY <1>2, <1>3, <1>4, <1>5 DEF JsonNext

(* build_json_request writes inside its buffer, whatever it is given.      *)
THEOREM JsonInBounds == JsonSpec => []NoOverrun
<1>1. JsonInv => NoOverrun
  BY DEF JsonInv
<1> QED
  BY <1>1, JsonInvInit, JsonInvNext, PTL DEF JsonSpec

-----------------------------------------------------------------------------
(* What Encode puts together is what the loop writes.                      *)
Separator(n) == IF n = 1 THEN <<>> ELSE <<",">>
Member(g, n) == Separator(n) \o Quoted(g[n].key) \o <<":">> \o Quoted(g[n].value)
Members(g, k) == FlattenSeq([n \in 1 .. k |-> Member(g, n)])

LEMMA EncodeMembers ==
  ASSUME NEW g \in Groups
  PROVE  Encode(g) = <<"{">> \o Members(g, Len(g)) \o <<"}">>
<1>1. DOMAIN g = 1 .. Len(g)
  BY JsonAssumption
<1> QED BY <1>1 DEF Encode, Members, Member, Separator

(* Without a quote, a backslash or a control character nothing is escaped. *)
LEMMA QuotedPlain ==
  ASSUME NEW s \in Seq(Char), DOMAIN Escape \cap ToSet(s) = {}
  PROVE  Quoted(s) = <<QUOTE>> \o s \o <<QUOTE>>
<1>1. \A n \in DOMAIN s : s[n] \notin DOMAIN Escape
  BY DEF ToSet
<1>2. [n \in DOMAIN s |->
         IF s[n] \in DOMAIN Escape THEN <<BACKSLASH>> \o Escape[s[n]] ELSE <<s[n]>>]
        = [n \in DOMAIN s |-> <<s[n]>>]
  BY <1>1, Zenon
<1>3. FlattenSeq([n \in DOMAIN s |-> <<s[n]>>]) = s
  BY FlattenSingles
<1> HIDE DEF Quoted
<1>4. Quoted(s) = <<QUOTE>> \o FlattenSeq([n \in DOMAIN s |-> <<s[n]>>]) \o <<QUOTE>>
  BY <1>2, Zenon DEF Quoted
<1> QED BY <1>3, <1>4

(* The pieces of a member, grouped as the code appends them and as Encode  *)
(* has them: what comes before the colon, the colon, the quoted value.     *)
Regrouped(comma, q, a, b, c) ==
  (((comma \o q) \o a) \o ((q \o c) \o q) \o b) \o q
    = ((comma \o ((q \o a) \o q)) \o c) \o ((q \o b) \o q)

LEMMA Regroup ==
  ASSUME NEW comma \in Seq(Symbol), NEW q \in Seq(Symbol), NEW a \in Seq(Symbol),
         NEW b \in Seq(Symbol), NEW c \in Seq(Symbol)
  PROVE  Regrouped(comma, q, a, b, c)
<1> DEFINE head == (comma \o q) \o a
           most == (head \o q) \o c
<1>1. /\ head \in Seq(Symbol) /\ head \o q \in Seq(Symbol)
      /\ most \in Seq(Symbol) /\ most \o q \in Seq(Symbol)
  BY ConcatProperties
<1>2. comma \o ((q \o a) \o q) = head \o q
  <2> DEFINE qa == q \o a
  <2>1. head = comma \o qa
    BY SMTT(30)
  <2>2. qa \in Seq(Symbol)
    BY ConcatProperties
  <2> HIDE DEF qa, head
  <2>3. (comma \o qa) \o q = comma \o (qa \o q)
    BY ONLY SMTT(30), <2>2, comma \in Seq(Symbol), q \in Seq(Symbol)
  <2> QED BY <2>1, <2>3 DEF qa
<1> HIDE DEF head
<1>3. head \in Seq(Symbol)
  BY <1>1
<1>4. head \o ((q \o c) \o q) = most \o q
  <2> DEFINE qc == q \o c
  <2>1. (head \o q) \o c = head \o (q \o c)
    BY ONLY SMTT(30), <1>3, c \in Seq(Symbol), q \in Seq(Symbol)
  <2>2. qc \in Seq(Symbol)
    BY ConcatProperties
  <2> HIDE DEF qc
  <2>3. (head \o qc) \o q = head \o (qc \o q)
    BY ONLY SMTT(30), <1>3, <2>2, q \in Seq(Symbol)
  <2> QED BY <2>1, <2>3 DEF qc
<1> HIDE DEF most
<1>5. most \in Seq(Symbol)
  BY <1>1
<1>6. ((most \o q) \o b) \o q = most \o ((q \o b) \o q)
  <2> DEFINE mq == most \o q
             bq == b \o q
  <2>1. mq \in Seq(Symbol)
    BY <1>1
  <2>2. bq \in Seq(Symbol)
    BY ConcatProperties
  <2>3. (q \o b) \o q = q \o (b \o q)
    BY ONLY q \in Seq(Symbol), b \in Seq(Symbol)
  <2> HIDE DEF bq
  <2>4. (most \o q) \o bq = most \o (q \o bq)
    BY ONLY SMTT(30), <1>5, <2>2, q \in Seq(Symbol)
  <2> HIDE DEF mq
  <2>5. (mq \o b) \o q = mq \o (b \o q)
    BY ONLY SMTT(30), <2>1, b \in Seq(Symbol), q \in Seq(Symbol)
  <2> QED BY <2>3, <2>4, <2>5 DEF mq, bq
<1>7. (comma \o ((q \o a) \o q)) \o c = most
  BY <1>2 DEF most
<1>8. (head \o ((q \o c) \o q)) \o b = (most \o q) \o b
  BY <1>4
<1> QED BY <1>6, <1>7, <1>8 DEF head, Regrouped

(* What holds of every element of a concatenation holds of its parts'.     *)
LEMMA ConcatParts ==
  ASSUME NEW S, NEW s \in Seq(S), NEW t \in Seq(S), NEW X, X \cap ToSet(s \o t) = {}
  PROVE  X \cap ToSet(s) = {} /\ X \cap ToSet(t) = {}
<1> DEFINE both == s \o t
<1>1. /\ DOMAIN both = 1 .. Len(s) + Len(t) /\ DOMAIN s = 1 .. Len(s)
      /\ DOMAIN t = 1 .. Len(t) /\ Len(s) \in Nat /\ Len(t) \in Nat
      /\ \A n \in 1 .. Len(s) : both[n] = s[n]
  OBVIOUS
<1>2. ASSUME NEW n \in 1 .. Len(t) PROVE both[Len(s) + n] = t[n]
  BY <1>1
<1> HIDE DEF both
<1>3. \A n \in 1 .. Len(s) : n \in DOMAIN both
  BY <1>1
<1>4. \A n \in 1 .. Len(t) : Len(s) + n \in DOMAIN both
  BY <1>1
<1>5. ToSet(s) \subseteq ToSet(both)
  BY <1>1, <1>3 DEF ToSet
<1>6. ToSet(t) \subseteq ToSet(both)
  BY <1>1, <1>2, <1>4 DEF ToSet
<1> QED BY <1>5, <1>6 DEF both

(* A member of a plain group, without its escapes.                         *)
LEMMA PlainMember ==
  ASSUME NEW g \in Groups, Plain(g), NEW k \in 1 .. Len(g)
  PROVE  LET q == <<QUOTE>>  a == g[k].key  b == g[k].value
         IN  /\ Member(g, k) = ((Separator(k) \o ((q \o a) \o q)) \o <<":">>) \o ((q \o b) \o q)
             /\ Member(g, k) \in Seq(Symbol)
<1> DEFINE Entries == [key : Seq(Char), value : Seq(Char)]
           e == g[k]
           q == <<QUOTE>>
<1>1. e \in Entries /\ DOMAIN g = 1 .. Len(g)
  <2>1. g \in Seq(Entries)
    BY JsonAssumption
  <2> HIDE DEF Entries
  <2> QED BY <2>1
<1>2. /\ e.key \in Seq(Char) /\ e.value \in Seq(Char)
      /\ e.key \in Seq(Symbol) /\ e.value \in Seq(Symbol)
  BY <1>1, Symbols, Wider
<1>3. /\ DOMAIN Escape \cap ToSet(e.key) = {}
      /\ DOMAIN Escape \cap ToSet(e.value) = {}
  <2>1. e \in ToSet(g)
    BY <1>1 DEF ToSet
  <2>2. DOMAIN Escape \cap ToSet(e.key \o e.value) = {}
    BY <2>1 DEF Plain
  <2> QED BY <1>2, <2>2, ConcatParts
<1>4. Quoted(e.key) = (q \o e.key) \o q /\ Quoted(e.value) = (q \o e.value) \o q
  BY <1>2, <1>3, QuotedPlain
<1>5. /\ Separator(k) \in Seq(Symbol) /\ q \in Seq(Symbol)
      /\ <<":">> \in Seq(Symbol)
  BY Symbols, Short DEF Separator
<1> DEFINE a == e.key  b == e.value  c == <<":">>  r == Separator(k)
<1>6. Member(g, k) = ((r \o ((q \o a) \o q)) \o c) \o ((q \o b) \o q)
  BY <1>4 DEF Member
<1>7. /\ a \in Seq(Symbol) /\ b \in Seq(Symbol) /\ c \in Seq(Symbol)
      /\ r \in Seq(Symbol) /\ q \in Seq(Symbol)
  BY <1>2, <1>5
<1>8. ((r \o ((q \o a) \o q)) \o c) \o ((q \o b) \o q) \in Seq(Symbol)
  <2> HIDE DEF a, b, c, q, r
  <2> QED BY <1>7, ConcatProperties
<1> QED BY <1>6, <1>8

(* A piece is the member of its place.                                     *)
LEMMA PieceIsMember ==
  ASSUME NEW g \in Groups, Plain(g), NEW k \in 1 .. Len(g), i = k
  PROVE  Piece(g[k]) = Member(g, k)
<1> DEFINE q == <<QUOTE>>  a == g[k].key  b == g[k].value  c == <<":">>
           comma == Separator(k)
<1>1. a \in Seq(Symbol) /\ b \in Seq(Symbol)
  <2> DEFINE Entries == [key : Seq(Char), value : Seq(Char)]
  <2>1. g \in Seq(Entries)
    BY JsonAssumption
  <2>2. g[k] \in Entries
    <3> HIDE DEF Entries
    <3> QED BY <2>1
  <2> QED BY <2>2, Symbols, Wider
<1>2. q \in Seq(Symbol) /\ c \in Seq(Symbol) /\ comma \in Seq(Symbol)
  BY Symbols, Short DEF Separator
<1>3. Comma = comma
  <2>1. (i > 1) <=> ~(k = 1)
    BY JsonAssumption
  <2>2. CASE k = 1
    BY <2>1, <2>2, Zenon DEF Comma, Separator
  <2>3. CASE ~(k = 1)
    BY <2>1, <2>3, Zenon DEF Comma, Separator
  <2> QED BY <2>2, <2>3
<1>4. <<QUOTE, ":", QUOTE>> = (q \o c) \o q
  <2>1. QUOTE \in Symbol /\ ":" \in Symbol
    BY Symbols
  <2> QED BY <2>1
<1>5. Piece(g[k]) = (((comma \o q) \o a) \o ((q \o c) \o q) \o b) \o q
  BY <1>3, <1>4 DEF Piece
<1>6. Member(g, k) = ((comma \o ((q \o a) \o q)) \o c) \o ((q \o b) \o q)
  BY PlainMember
<1> HIDE DEF q, a, b, c, comma
<1>7. Regrouped(comma, q, a, b, c)
  BY <1>1, <1>2, Regroup
<1> QED BY <1>5, <1>6, <1>7 DEF Regrouped

(* The members up to a place, and the next one.                            *)
LEMMA MembersGrow ==
  ASSUME NEW g \in Groups, Plain(g), NEW k \in 1 .. Len(g)
  PROVE  Members(g, k) = Members(g, k - 1) \o Member(g, k)
<1> DEFINE parts == [n \in 1 .. k - 1 |-> Member(g, n)]
           more == [n \in 1 .. k |-> Member(g, n)]
           last == Member(g, k)
<1>1. k - 1 \in Nat /\ k \in Nat /\ \A n \in 1 .. k : n \in 1 .. Len(g)
  BY JsonAssumption
<1>2. \A n \in 1 .. k : Member(g, n) \in Seq(Symbol)
  BY <1>1, PlainMember
<1>3. parts \in Seq(Seq(Symbol)) /\ last \in Seq(Symbol)
  BY <1>1, <1>2
<1>4. more = Append(parts, last)
  <2> DEFINE T == Seq(Symbol)
             M(n) == Member(g, n)
  <2>1. \A n \in 1 .. k : M(n) \in T
    BY <1>2
  <2> HIDE DEF T, M
  <2>2. [n \in 1 .. k |-> M(n)] = Append([n \in 1 .. k - 1 |-> M(n)], M(k))
    BY <1>1, <2>1
  <2> QED BY <2>2 DEF M
<1>5. FlattenSeq(Append(parts, last)) = FlattenSeq(parts) \o last
  <2> HIDE DEF parts, last
  <2> QED BY <1>3, FlattenAppend
<1>6. Members(g, k) = FlattenSeq(more) /\ Members(g, k - 1) = FlattenSeq(parts)
  BY DEF Members
<1> HIDE DEF parts, more, last
<1>7. Members(g, k) = Members(g, k - 1) \o last
  BY <1>4, <1>5, <1>6
<1> QED BY <1>7 DEF last

(* An empty object has no member.                                          *)
LEMMA NoMembers == \A g : Members(g, 0) = <<>>
<1> SUFFICES ASSUME NEW g PROVE Members(g, 0) = <<>>
  OBVIOUS
<1>1. [n \in 1 .. 0 |-> Member(g, n)] = <<>>
  OBVIOUS
<1> QED BY <1>1 DEF Members, FlattenSeq

(* The members of a plain group are symbols.                               *)
LEMMA MembersType ==
  ASSUME NEW g \in Groups, Plain(g), NEW k \in 0 .. Len(g)
  PROVE  Members(g, k) \in Seq(Symbol)
<1> DEFINE parts == [n \in 1 .. k |-> Member(g, n)]
<1>1. k \in Nat /\ \A n \in 1 .. k : n \in 1 .. Len(g)
  BY JsonAssumption
<1>2. \A n \in 1 .. k : Member(g, n) \in Seq(Symbol)
  BY <1>1, PlainMember
<1>3. parts \in Seq(Seq(Symbol))
  BY <1>1, <1>2
<1>4. CASE parts = <<>>
  BY <1>4, Short DEF Members, FlattenSeq
<1>5. CASE parts # <<>>
  <2>1. FlattenSeq(parts) \in Seq(Symbol)
    <3> HIDE DEF parts
    <3> QED BY <1>3, <1>5, FlattenHead
  <2> QED BY <2>1 DEF Members
<1> QED BY <1>4, <1>5

(* The brace and the NUL are written at once, and are two symbols.         *)
LEMMA Ending ==
  ASSUME NEW s \in Seq(Symbol), NEW x \in Symbol, NEW y \in Symbol
  PROVE  s \o <<x, y>> = (s \o <<x>>) \o <<y>>
<1> DEFINE p == <<x>>  r == <<y>>
<1>1. p \in Seq(Symbol) /\ r \in Seq(Symbol)
  OBVIOUS
<1>2. p \o r = <<x, y>>
  <2> DEFINE u == p \o r  v == <<x, y>>
  <2>1. Len(u) = 2 /\ u[1] = x /\ u[2] = y /\ u \in Seq(Symbol)
    OBVIOUS
  <2>2. Len(v) = 2 /\ v[1] = x /\ v[2] = y /\ v \in Seq(Symbol)
    OBVIOUS
  <2> HIDE DEF u, v
  <2>3. \A n \in 1 .. 2 : n = 1 \/ n = 2
    OBVIOUS
  <2>4. u = v
    BY <2>1, <2>2, <2>3, SeqEqual
  <2> QED BY <2>4 DEF u, v
<1>3. (s \o p) \o r = s \o (p \o r)
  <2> HIDE DEF p, r
  <2> QED BY ONLY <1>1, s \in Seq(Symbol)
<1> QED BY <1>2, <1>3

(* The text is the object's beginning, and then the object.                *)
TextInv ==
  Plain(group) =>
    /\ ~done => text = <<"{">> \o Members(group, i - 1)
    /\ done => /\ i = Len(group) + 1
               /\ text = ((<<"{">> \o Members(group, Len(group))) \o <<"}">>) \o <<"NUL">>

(* The object begins with its brace.                                       *)
LEMMA TextInvInit == JsonInit => TextInv
<1> SUFFICES ASSUME JsonInit PROVE TextInv
  OBVIOUS
<1>1. i = 1
  BY Zenon DEF JsonInit
<1>2. ~done /\ text = <<"{">>
  BY Zenon DEF JsonInit
<1>3. <<"{">> = <<"{">> \o <<>>
  <2>1. <<"{">> \in Seq(Symbol)
    BY Symbols, Short
  <2> QED BY <2>1, ConcatEmptySeq
<1>4. Members(group, i - 1) = <<>>
  <2>1. i - 1 = 0
    BY <1>1
  <2> QED BY <2>1, NoMembers
<1> QED BY <1>2, <1>3, <1>4, Zenon DEF TextInv

(* Each entry becomes the next member; doubling leaves the text alone.     *)
LEMMA TextInvNext == JsonInv /\ TextInv /\ [JsonNext]_jsonVars => TextInv'
<1> SUFFICES ASSUME JsonInv, TextInv, [JsonNext]_jsonVars, Plain(group)', group' = group
             PROVE  /\ ~done' => text' = <<"{">> \o Members(group, i' - 1)
                    /\ done' => /\ i' = Len(group) + 1
                                /\ text' = ((<<"{">> \o Members(group, Len(group))) \o <<"}">>)
                                             \o <<"NUL">>
  <2>1. JsonInv /\ [JsonNext]_jsonVars => group' = group
    BY DEF JsonNext, Double, WriteEntry, Finish, jsonVars
  <2> QED BY <2>1 DEF TextInv
<1>1. group \in Groups /\ Plain(group) /\ Len(group) \in Nat /\ i \in 1 .. Len(group) + 1
  BY GroupType DEF JsonInv
<1>2. /\ ~done => text = <<"{">> \o Members(group, i - 1)
      /\ done => /\ i = Len(group) + 1
                 /\ text = ((<<"{">> \o Members(group, Len(group))) \o <<"}">>) \o <<"NUL">>
  BY <1>1 DEF TextInv
<1>3. CASE Double
  BY <1>2, <1>3 DEF Double
<1>4. CASE WriteEntry
  <2> DEFINE open == <<"{">>
             before == Members(group, i - 1)
             m == Member(group, i)
  <2>1. i \in 1 .. Len(group) /\ i' - 1 = i /\ ~done /\ ~done'
    <3>1. i <= Len(group) /\ i' = i + 1
      BY <1>4 DEF WriteEntry
    <3>2. i \in 1 .. Len(group) /\ i' - 1 = i /\ ~(i = Len(group) + 1)
      BY <1>1, <3>1
    <3>3. ~done
      BY <1>2, <3>2, Zenon
    <3>4. ~done'
      BY <1>4, <3>3, Zenon DEF WriteEntry
    <3> QED BY <3>2, <3>3, <3>4
  <2>2. Piece(group[i]) = m
    <3>1. PICK k \in 1 .. Len(group) : i = k
      BY <2>1
    <3> QED BY <1>1, <3>1, PieceIsMember
  <2>3. text' = (open \o before) \o m
    BY <1>2, <1>4, <2>1, <2>2 DEF WriteEntry
  <2>4. Members(group, i) = before \o m
    BY <1>1, <2>1, MembersGrow
  <2>5. before \in Seq(Symbol) /\ m \in Seq(Symbol) /\ open \in Seq(Symbol)
    <3>1. i - 1 \in 0 .. Len(group)
      BY <1>1
    <3>2. before \in Seq(Symbol)
      BY <1>1, <3>1, MembersType
    <3>3. m \in Seq(Symbol)
      BY <1>1, <2>1, PlainMember
    <3> QED BY <3>2, <3>3, Symbols, Short
  <2>6. (open \o before) \o m = open \o (before \o m)
    <3> HIDE DEF open, before, m
    <3> QED BY ONLY <2>5
  <2> QED BY <2>1, <2>3, <2>4, <2>6
<1>5. CASE Finish
  <2> DEFINE most == <<"{">> \o Members(group, Len(group))
  <2>1. i = Len(group) + 1 /\ i - 1 = Len(group) /\ i' = i /\ ~done /\ done'
    <3>1. i > Len(group) /\ i' = i
      BY <1>5 DEF Finish
    <3>2. i = Len(group) + 1 /\ i - 1 = Len(group)
      BY <1>1, <3>1
    <3>3. ~done /\ done'
      BY <1>5, Zenon DEF Finish
    <3> QED BY <3>1, <3>2, <3>3
  <2>2. text' = most \o <<"}", "NUL">>
    BY <1>2, <1>5, <2>1 DEF Finish
  <2>3. most \in Seq(Symbol) /\ <<"}">> \in Seq(Symbol) /\ <<"NUL">> \in Seq(Symbol)
    <3>1. Len(group) \in 0 .. Len(group)
      BY <1>1
    <3>2. Members(group, Len(group)) \in Seq(Symbol)
      BY <1>1, <3>1, MembersType
    <3>3. <<"{">> \in Seq(Symbol)
      BY Symbols, Short
    <3> QED BY <3>2, <3>3, Symbols, Short, ConcatProperties
  <2>4. most \o <<"}", "NUL">> = (most \o <<"}">>) \o <<"NUL">>
    <3>1. "}" \in Symbol /\ "NUL" \in Symbol
      BY Symbols
    <3> HIDE DEF most
    <3> QED BY ONLY <2>3, <3>1, Ending, Zenon
  <2> QED BY <2>1, <2>2, <2>4
<1>6. CASE UNCHANGED jsonVars
  BY <1>2, <1>6 DEF jsonVars
<1> QED BY <1>3, <1>4, <1>5, <1>6 DEF JsonNext

LEMMA PlainIsJson == JsonInv /\ TextInv => PlainRequestIsJson
<1> SUFFICES ASSUME JsonInv, TextInv, Plain(group), done
             PROVE  text = Encode(group) \o <<"NUL">>
  BY DEF PlainRequestIsJson, RequestIsJson
<1>1. group \in Groups
  BY DEF JsonInv
<1>2. Encode(group) = (<<"{">> \o Members(group, Len(group))) \o <<"}">>
  BY <1>1, EncodeMembers
<1> QED BY <1>2 DEF TextInv

(* A request is the JSON text of its group, for every group without a      *)
(* quote, a backslash or a control character, however long its entries are *)
(* and however often the buffer is doubled.                                *)
THEOREM JsonIsJson == JsonSpec => []PlainRequestIsJson
<1>1. JsonInv /\ TextInv /\ [JsonNext]_jsonVars => JsonInv' /\ TextInv'
  BY JsonInvNext, TextInvNext
<1> QED
  BY <1>1, PlainIsJson, JsonInvInit, TextInvInit, PTL DEF JsonSpec

-----------------------------------------------------------------------------
(* Numerals, and what strtol() reads.                                      *)

Numbers == {"0", "1", "2", "3", "4", "5", "6", "7", "8", "9", "a", "b", "c", "d", "e", "f"}
Space == " "

LEMMA NumeralsAre ==
  /\ Len(Numerals) = 16 /\ Numerals \in Seq(Numbers)
  /\ \A n \in 1 .. 16 : Numerals[n] \notin {"x", "+", "-", ":", Space}
  /\ \A m, n \in 1 .. 16 : Numerals[m] = Numerals[n] => m = n
<1>1. Len(Numerals) = 16
  BY DEF Numerals
<1>2. \A n \in 1 .. 16 : Numerals[n] \in Numbers
  BY DEF Numerals, Numbers
<1>3. Numerals \in Seq(Numbers)
  <2>1. Numerals = [n \in 1 .. 16 |-> Numerals[n]]
    BY DEF Numerals
  <2> QED BY <1>2, <2>1
<1>4. "x" \notin Numbers /\ "+" \notin Numbers /\ "-" \notin Numbers /\ ":" \notin Numbers
  BY DEF Numbers
<1>5. Space \notin Numbers
  BY Zenon DEF Numbers, Space
<1>6. \A m, n \in 1 .. 16 : Numerals[m] = Numerals[n] => m = n
  BY DEF Numerals
<1> QED BY <1>1, <1>2, <1>3, <1>4, <1>5, <1>6

LEMMA DigitIs == ASSUME NEW n \in 1 .. 16 PROVE Digit(Numerals[n]) = n - 1
<1> DEFINE I == {m \in 1 .. Len(Numerals) : Numerals[m] = Numerals[n]}
<1>1. I = {n}
  BY NumeralsAre
<1>2. Min({n}) = n
  BY DEF Min
<1>3. Digit(Numerals[n]) = (IF I # {} THEN Min(I) ELSE 0) - 1
  BY DEF Digit, SelectInSeq
<1> HIDE DEF I
<1> QED BY <1>1, <1>2, <1>3

\* The first b numerals.
FirstNumerals(b) == {Numerals[n] : n \in 1 .. b}

LEMMA DigitsAre == ASSUME NEW b \in 1 .. 16 PROVE ToSet(Digits(b)) = FirstNumerals(b)
<1>1. \A n \in 1 .. b : Digits(b)[n] = Numerals[n]
  BY NumeralsAre, Part DEF Digits
<1>2. DOMAIN Digits(b) = 1 .. b
  BY NumeralsAre, Part, LenProperties DEF Digits
<1> HIDE DEF Digits
<1> QED BY <1>1, <1>2 DEF ToSet, FirstNumerals

\* v holds the values of the fronts of w.
Horner(v, base, w) == v[0] = 0 /\ \A n \in 1 .. Len(w) : v[n] = base * v[n - 1] + Digit(w[n])

LEMMA ValueIs ==
  ASSUME NEW base, NEW w, Len(w) \in Nat
  PROVE  \E v : Horner(v, base, w) /\ Value(base, w) = v[Len(w)]
<1> DEFINE Reads(v, k) == v = [n \in 0 .. k |->
                                IF n = 0 THEN 0 ELSE base * v[n - 1] + Digit(w[n])]
           N == {k \in Nat : \E v : Reads(v, k)}
<1>1. 0 \in N
  <2> DEFINE v == [n \in 0 .. 0 |-> 0]
  <2>1. Reads(v, 0)
    OBVIOUS
  <2> QED BY <2>1
<1>2. ASSUME NEW k \in Nat, k \in N PROVE k + 1 \in N
  <2>1. PICK v : Reads(v, k)
    BY <1>2
  <2> DEFINE u == [n \in 0 .. k + 1 |-> IF n <= k THEN v[n] ELSE base * v[k] + Digit(w[k + 1])]
  <2>2. ASSUME NEW n \in 0 .. k + 1
        PROVE  u[n] = IF n = 0 THEN 0 ELSE base * u[n - 1] + Digit(w[n])
    <3>1. CASE n <= k
      <4>1. u[n] = v[n] /\ (n # 0 => u[n - 1] = v[n - 1])
        BY <3>1
      <4>2. v[n] = IF n = 0 THEN 0 ELSE base * v[n - 1] + Digit(w[n])
        BY <2>1, <3>1
      <4> QED BY <4>1, <4>2
    <3>2. CASE n = k + 1
      <4>1. n # 0 /\ n - 1 = k /\ u[k] = v[k] /\ u[n] = base * v[k] + Digit(w[n])
        BY <3>2
      <4> QED BY <4>1
    <3> QED BY <3>1, <3>2
  <2>3. Reads(u, k + 1)
    BY <2>2
  <2> HIDE DEF u, Reads
  <2> QED BY <2>3
<1>3. Nat \subseteq N
  <2> HIDE DEF N
  <2> QED BY <1>1, <1>2, SetInduction
<1> DEFINE v == CHOOSE v : Reads(v, Len(w))
<1>4. Reads(v, Len(w))
  <2>1. \E x : Reads(x, Len(w))
    BY <1>3
  <2> QED BY <2>1
<1>5. Value(base, w) = v[Len(w)]
  BY DEF Value
<1> HIDE DEF v
<1>6. Horner(v, base, w)
  BY <1>4 DEF Horner
<1> QED BY <1>5, <1>6

-----------------------------------------------------------------------------
(* What is written in decimal is read as it was meant.                     *)

LEMMA DecimalDefined ==
  /\ DOMAIN Decimal = 0 .. 2 * LongMax
  /\ \A n \in 0 .. 2 * LongMax :
       Decimal[n] = IF n < 10 THEN <<Numerals[n + 1]>>
                    ELSE Append(Decimal[n \div 10], Numerals[(n % 10) + 1])
<1> DEFINE Body(f, n) == IF n < 10 THEN <<Numerals[n + 1]>>
                         ELSE Append(f[n \div 10], Numerals[(n % 10) + 1])
           Writes(f, k) == f = [n \in 0 .. k |-> Body(f, n)]
           N == {k \in Nat : \E f : Writes(f, k)}
           z == 2 * LongMax
<1>1. 0 \in N
  <2> DEFINE f == [n \in 0 .. 0 |-> <<Numerals[n + 1]>>]
  <2>1. Writes(f, 0)
    OBVIOUS
  <2> QED BY <2>1
<1>2. ASSUME NEW k \in Nat, k \in N PROVE k + 1 \in N
  <2>1. PICK f : Writes(f, k)
    BY <1>2
  <2> DEFINE g == [n \in 0 .. k + 1 |-> IF n <= k THEN f[n] ELSE Body(f, n)]
  <2>2. ASSUME NEW n \in 0 .. k + 1 PROVE g[n] = Body(g, n)
    <3>1. n >= 10 => n \div 10 \in 0 .. k
      OBVIOUS
    <3>2. n >= 10 => g[n \div 10] = f[n \div 10]
      <4> DEFINE m == n \div 10
      <4>1. n >= 10 => m \in 0 .. k
        BY <3>1
      <4> HIDE DEF m
      <4>2. n >= 10 => g[m] = f[m]
        BY <4>1
      <4> QED BY <4>2 DEF m
    <3>3. Body(g, n) = Body(f, n)
      <4> HIDE DEF g
      <4> QED BY <3>2
    <3>4. n <= k => f[n] = Body(f, n)
      <4> HIDE DEF Body
      <4> QED BY <2>1
    <3> HIDE DEF Body
    <3> QED BY <3>3, <3>4
  <2>3. Writes(g, k + 1)
    <3>1. g = [n \in 0 .. k + 1 |-> g[n]]
      OBVIOUS
    <3> HIDE DEF g, Body
    <3> QED BY <2>2, <3>1
  <2> HIDE DEF g, Writes
  <2> QED BY <2>3
<1>3. Nat \subseteq N
  <2> HIDE DEF N
  <2> QED BY <1>1, <1>2, SetInduction
<1>4. z \in Nat
  BY UrlAssumption
<1>5. Writes(Decimal, z)
  <2>1. \E f : Writes(f, z)
    BY <1>3, <1>4
  <2>2. Decimal = CHOOSE f : Writes(f, z)
    BY DEF Decimal
  <2> HIDE DEF Writes
  <2> QED BY <2>1, <2>2
<1> HIDE DEF z
<1>6. DOMAIN Decimal = 0 .. z /\ \A n \in 0 .. z : Decimal[n] = Body(Decimal, n)
  <2> HIDE DEF Body
  <2> QED BY <1>5
<1> QED BY <1>6 DEF z

\* w is n in decimal: what is read from it is n, and it has no leading zero.
IsDecimal(w, n) ==
  /\ w \in Seq(FirstNumerals(10)) /\ Len(w) \in Nat \ {0}
  /\ IF n = 0 THEN Len(w) = 1 /\ w[1] = Numerals[1] ELSE w[1] # Numerals[1]
  /\ \A v : Horner(v, 10, w) => v[Len(w)] = n

LEMMA DecimalIs == ASSUME NEW n \in 0 .. 2 * LongMax PROVE IsDecimal(Decimal[n], n)
<1> DEFINE z == 2 * LongMax
           T == {m \in 0 .. z : ~IsDecimal(Decimal[m], m)}
<1>1. z \in Nat
  BY UrlAssumption
<1> HIDE DEF z
<1> SUFFICES ASSUME T # {} PROVE FALSE
  BY DEF z
<1>2. PICK m \in T : \A k \in T : m <= k
  <2>1. T \subseteq Nat
    BY <1>1
  <2> HIDE DEF T
  <2> QED BY <2>1, LeastElement
<1>3. m \in 0 .. z /\ m \in Nat /\ ~IsDecimal(Decimal[m], m)
  BY <1>1, <1>2
<1>4. \A k \in 1 .. 10 : Numerals[k] \in FirstNumerals(10)
  BY DEF FirstNumerals
<1>5. CASE m < 10
  <2> DEFINE c == Numerals[m + 1]
             w == <<c>>
  <2>1. m + 1 \in 1 .. 10 /\ m + 1 \in 1 .. 16 /\ (m + 1) - 1 = m
    BY <1>3, <1>5
  <2>2. Decimal[m] = w
    BY <1>3, <1>5, DecimalDefined DEF z
  <2>3. c \in FirstNumerals(10) /\ Digit(c) = m /\ (c = Numerals[1] <=> m = 0)
    <3>1. Digit(Numerals[m + 1]) = (m + 1) - 1
      BY <2>1, DigitIs
    <3>2. Numerals[m + 1] = Numerals[1] => m + 1 = 1
      BY <2>1, NumeralsAre, SMTT(20)
    <3> QED BY <1>3, <1>4, <2>1, <3>1, <3>2
  <2> HIDE DEF c
  <2>4. w \in Seq(FirstNumerals(10)) /\ Len(w) = 1 /\ w[1] = c
    BY <2>3
  <2> HIDE DEF w
  <2>5. ASSUME NEW v, Horner(v, 10, w) PROVE v[Len(w)] = m
    <3>1. v[0] = 0 /\ v[1] = 10 * v[0] + Digit(w[1])
      <4>1. 1 \in 1 .. Len(w) /\ 1 - 1 = 0
        BY <2>4
      <4> QED BY <2>5, <4>1 DEF Horner
    <3> QED BY <1>3, <2>3, <2>4, <3>1
  <2>6. IsDecimal(w, m)
    <3>1. IF m = 0 THEN Len(w) = 1 /\ w[1] = Numerals[1] ELSE w[1] # Numerals[1]
      BY <2>3, <2>4
    <3> QED BY <2>4, <2>5, <3>1 DEF IsDecimal
  <2> QED BY <1>3, <2>2, <2>6
<1>6. CASE m >= 10
  <2> DEFINE k == m \div 10
             r == m % 10
             c == Numerals[r + 1]
             u == Decimal[k]
             w == Append(u, c)
  <2>1. k \in Nat /\ k < m /\ k # 0 /\ r \in 0 .. 9 /\ m = 10 * k + r
    BY <1>3, <1>6
  <2>2. Decimal[m] = w
    <3>1. m \in 0 .. 2 * LongMax /\ ~(m < 10)
      BY <1>3, <1>6 DEF z
    <3>2. Decimal[m] = IF m < 10 THEN <<Numerals[m + 1]>>
                       ELSE Append(Decimal[m \div 10], Numerals[(m % 10) + 1])
      BY ONLY <3>1, DecimalDefined
    <3> QED BY ONLY <3>1, <3>2 DEF w, u, c, k, r
  <2> HIDE DEF k, r
  <2>3. k \in 0 .. z /\ k \notin T
    BY <1>1, <1>2, <1>3, <2>1
  <2>4. IsDecimal(u, k)
    BY <2>3
  <2>5. c \in FirstNumerals(10) /\ Digit(c) = r
    <3>1. r + 1 \in 1 .. 10 /\ r + 1 \in 1 .. 16 /\ (r + 1) - 1 = r
      BY <2>1
    <3>2. Digit(Numerals[r + 1]) = (r + 1) - 1
      BY <3>1, DigitIs
    <3> QED BY <1>4, <3>1, <3>2
  <2> HIDE DEF c, u
  <2>6. /\ u \in Seq(FirstNumerals(10)) /\ Len(u) \in Nat \ {0} /\ u[1] # Numerals[1]
        /\ \A v : Horner(v, 10, u) => v[Len(u)] = k
    BY <2>1, <2>4 DEF IsDecimal
  <2>7. /\ w \in Seq(FirstNumerals(10)) /\ Len(w) = Len(u) + 1
        /\ \A x \in 1 .. Len(u) : w[x] = u[x]
        /\ w[Len(u) + 1] = c
    BY <2>5, <2>6, AppendProperties
  <2> HIDE DEF w
  <2>8. ASSUME NEW v, Horner(v, 10, w) PROVE v[Len(w)] = m
    <3>1. Horner(v, 10, u)
      <4>1. ASSUME NEW x \in 1 .. Len(u) PROVE v[x] = 10 * v[x - 1] + Digit(u[x])
        <5>1. x \in 1 .. Len(w)
          BY <2>6, <2>7
        <5>2. v[x] = 10 * v[x - 1] + Digit(w[x])
          BY <2>8, <5>1 DEF Horner
        <5> QED BY <2>7, <5>2
      <4> QED BY <2>8, <4>1 DEF Horner
    <3>2. v[Len(u)] = k
      BY <2>6, <3>1
    <3>3. v[Len(w)] = 10 * v[Len(u)] + Digit(w[Len(w)])
      <4>1. Len(w) \in 1 .. Len(w) /\ Len(w) - 1 = Len(u)
        BY <2>6, <2>7
      <4>2. v[Len(w)] = 10 * v[Len(w) - 1] + Digit(w[Len(w)])
        BY <2>8, <4>1 DEF Horner
      <4> QED BY <4>1, <4>2
    <3> QED BY <2>1, <2>5, <2>7, <3>2, <3>3
  <2>9. IsDecimal(w, m)
    <3>1. m # 0 /\ w[1] # Numerals[1] /\ Len(w) \in Nat \ {0}
      BY <1>3, <1>6, <2>6, <2>7
    <3> QED BY <2>7, <2>8, <3>1 DEF IsDecimal
  <2> QED BY <1>3, <2>2, <2>9
<1> QED BY <1>3, <1>5, <1>6

\* strtol() reads what is written in decimal, up to the largest long.
LEMMA DecimalIsRead ==
  ASSUME NEW n \in 0 .. 2 * LongMax
  PROVE  strtol(Decimal[n]) = IF n <= LongMax THEN n ELSE LongMax
<1> DEFINE w == Decimal[n]
           drop(s, m) == SubSeq(s, m + 1, Len(s))
           some(s, set) == IF s = <<>> THEN FALSE ELSE Head(s) \in set
           first == SelectInSeq(Append(w, ":"), LAMBDA c : c # " ")
           number == drop(w, first - 1)
           signed == some(number, {"+", "-"})
           body == IF signed THEN Tail(number) ELSE number
           hex == IsPrefix(<<"0", "x">>, body) /\ some(drop(body, 2), ToSet(Numerals))
           base == IF hex THEN 16 ELSE IF some(body, {"0"}) THEN 8 ELSE 10
           rest == IF hex THEN drop(body, 2) ELSE body
           end == SelectInSeq(Append(rest, ":"), LAMBDA c : c \notin ToSet(Digits(base)))
           read == Value(base, SubSeq(rest, 1, end - 1))
           T == FirstNumerals(10)
           l == Len(w)
<1>1. strtol(w) = IF signed /\ Head(number) = "-" THEN Max({-read, -LongMax - 1})
                  ELSE Min({read, LongMax})
  BY Zenon DEF strtol
<1>2. IsDecimal(w, n)
  BY DecimalIs
<1> HIDE DEF w
<1>3. /\ w \in Seq(T) /\ l \in Nat \ {0} /\ (n = 0 => l = 1 /\ w[1] = Numerals[1])
      /\ (n # 0 => w[1] # Numerals[1]) /\ \A v : Horner(v, 10, w) => v[l] = n
      /\ w # <<>>
  BY <1>2, EmptySeq DEF IsDecimal
<1>4. /\ n \in Nat /\ LongMax \in Nat
  BY UrlAssumption
<1>5. T \subseteq Numbers /\ \A c \in T : c \notin {"x", "+", "-", ":", Space}
  <2>1. \A m \in 1 .. 10 : m \in 1 .. 16 /\ Numerals[m] \in Numbers
    <3>1. ASSUME NEW m \in 1 .. 10 PROVE m \in 1 .. 16 /\ Numerals[m] \in Numbers
      <4>1. m \in 1 .. 16 /\ Numerals \in Seq(Numbers) /\ Len(Numerals) = 16
        BY NumeralsAre
      <4> QED BY ONLY <4>1, ElementOfSeq
    <3> QED BY <3>1
  <2> QED BY <2>1, NumeralsAre DEF FirstNumerals
<1>6. \A m \in 1 .. l : w[m] \in T
  BY <1>3, ElementOfSeq
<1> DEFINE A == T \cup {":"}
           t == Append(w, ":")
<1>7. /\ t \in Seq(A) /\ Len(t) = l + 1 /\ t[l + 1] = ":"
      /\ \A m \in 1 .. l : t[m] = w[m]
  <2>1. w \in Seq(A) /\ ":" \in A
    BY <1>3
  <2> HIDE DEF A, w
  <2> QED BY <2>1, AppendProperties
<1> HIDE DEF t, T, l
<1>8. first = 1
  <2> DEFINE I == {m \in 1 .. Len(t) : t[m] # Space}
  <2>1. first = IF I # {} THEN Min(I) ELSE 0
    BY Zenon DEF SelectInSeq, Space, t
  <2>2. 1 \in I /\ I \subseteq Nat
    <3>1. 1 \in 1 .. l /\ 1 \in 1 .. Len(t)
      BY <1>3, <1>7
    <3>2. w[1] # Space
      BY <1>5, <1>6, <3>1
    <3> QED BY <1>7, <3>1, <3>2
  <2> HIDE DEF I, first
  <2>3. Min(I) \in I /\ Min(I) <= 1
    BY <2>2, MinIs
  <2>4. \A m \in I : m # 0
    BY DEF I
  <2> DEFINE x == Min(I)
  <2>5. x \in Nat /\ x # 0 /\ x <= 1 /\ first = x
    BY <2>1, <2>2, <2>3, <2>4
  <2> HIDE DEF x
  <2> QED BY <2>5
<1> HIDE DEF first
<1>9. number = w
  <2>1. (first - 1) + 1 = 1
    BY <1>8
  <2> QED BY <1>3, <2>1, SubSeqFull
<1> HIDE DEF number
<1>10. signed = FALSE
  <2>1. Head(w) = w[1] /\ w[1] \in T
    BY <1>3, <1>6
  <2> QED BY <1>3, <1>5, <1>9, <2>1
<1> HIDE DEF signed
<1>11. body = w
  BY <1>9, <1>10
<1> HIDE DEF body
<1>12. hex = FALSE
  <2> SUFFICES ASSUME IsPrefix(<<"0", "x">>, w) PROVE FALSE
    BY <1>11
  <2> DEFINE x == <<"0", "x">>  two == 2
  <2>1. x[two] = "x" /\ Len(x) = two /\ x \in Seq(T \cup {"0", "x"}) /\ two = 2
    OBVIOUS
  <2> HIDE DEF x, two
  <2>2. two <= l /\ SubSeq(x, 1, two) = SubSeq(w, 1, two)
    BY <2>1 DEF IsPrefix, x, l
  <2>3. SubSeq(x, 1, two)[two] = x[two]
    BY <2>1, SubSeqProperties
  <2>4. SubSeq(w, 1, two)[two] = w[two]
    BY <1>3, <2>1, <2>2, SubSeqProperties DEF l
  <2>5. w[two] \in T
    BY <1>3, <1>6, <2>1, <2>2
  <2> QED BY <1>5, <2>1, <2>2, <2>3, <2>4, <2>5
<1> HIDE DEF hex
<1>13. base = IF n = 0 THEN 8 ELSE 10
  <2>1. "0" = Numerals[1] /\ Head(w) = w[1]
    BY <1>3 DEF Numerals
  <2> QED BY <1>3, <1>11, <1>12, <2>1
<1>14. rest = w
  BY <1>11, <1>12
<1> HIDE DEF base, rest
<1>15. end = l + 1
  <2> DEFINE J == {m \in 1 .. Len(t) : t[m] \notin ToSet(Digits(base))}
  <2>1. end = IF J # {} THEN Min(J) ELSE 0
    BY <1>14, Zenon DEF SelectInSeq, t
  <2>2. ToSet(Digits(base)) = FirstNumerals(base) /\ base \in 1 .. 16
    BY <1>13, DigitsAre
  <2>3. \A m \in 1 .. l : w[m] \in FirstNumerals(base)
    <3>1. CASE n = 0
      <4>1. Numerals[1] \in FirstNumerals(8)
        BY DEF FirstNumerals
      <4> QED BY <1>3, <1>13, <3>1, <4>1
    <3>2. CASE n # 0
      BY <1>6, <1>13, <3>2 DEF T
    <3> QED BY <3>1, <3>2
  <2>4. ":" \notin FirstNumerals(base)
    BY <2>2, NumeralsAre DEF FirstNumerals
  <2>5. J = {l + 1}
    <3>1. \A m \in 1 .. Len(t) : m # l + 1 => m \in 1 .. l
      BY <1>3, <1>7
    <3>2. l + 1 \in 1 .. Len(t)
      BY <1>3, <1>7
    <3>3. ASSUME NEW m \in 1 .. Len(t), m # l + 1 PROVE t[m] \in ToSet(Digits(base))
      BY <1>7, <2>2, <2>3, <3>1, <3>3
    <3> HIDE DEF t
    <3> QED BY <1>7, <2>2, <2>4, <3>2, <3>3
  <2>6. Min({l + 1}) = l + 1
    BY <1>3 DEF Min
  <2> HIDE DEF J, end
  <2> QED BY <2>1, <2>5, <2>6
<1> HIDE DEF end
<1>16. read = Value(base, w)
  <2>1. end - 1 = l
    BY <1>3, <1>15
  <2>2. SubSeq(w, 1, l) = w
    BY <1>3, SubSeqFull DEF l
  <2> QED BY <1>14, <2>1, <2>2
<1> HIDE DEF read
<1>17. read = n
  <2>1. PICK v : Horner(v, base, w) /\ Value(base, w) = v[l]
    <3>1. Len(w) \in Nat
      BY <1>3 DEF l
    <3> QED BY <3>1, ValueIs DEF l
  <2>2. CASE n = 0
    <3>1. v[0] = 0 /\ v[1] = 8 * v[0] + Digit(w[1])
      <4>1. 1 \in 1 .. Len(w) /\ 1 - 1 = 0
        BY <1>3 DEF l
      <4> QED BY <1>13, <2>1, <2>2, <4>1 DEF Horner
    <3>2. Digit(w[1]) = 0
      <4>1. Digit(Numerals[1]) = 1 - 1
        BY DigitIs
      <4> QED BY <1>3, <2>2, <4>1
    <3> QED BY <1>3, <1>16, <2>1, <2>2, <3>1, <3>2
  <2>3. CASE n # 0
    BY <1>3, <1>13, <1>16, <2>1, <2>3
  <2> QED BY <2>2, <2>3
<1>18. Min({n, LongMax}) = IF n <= LongMax THEN n ELSE LongMax
  <2>1. Min({n, LongMax}) \in {n, LongMax} /\ \A x \in {n, LongMax} : Min({n, LongMax}) <= x
    <3> DEFINE M == {n, LongMax}
    <3>1. M \subseteq Nat /\ M # {}
      BY <1>4
    <3> HIDE DEF M
    <3>2. Min(M) \in M /\ \A x \in M : Min(M) <= x
      BY <3>1, MinIs
    <3> QED BY <3>2 DEF M
  <2> DEFINE x == Min({n, LongMax})
  <2>2. x \in {n, LongMax} /\ x <= n /\ x <= LongMax
    BY <2>1
  <2> HIDE DEF x
  <2>3. x = IF n <= LongMax THEN n ELSE LongMax
    BY <1>4, <2>2
  <2> QED BY <2>3 DEF x
<1> QED BY <1>1, <1>10, <1>17, <1>18 DEF w

-----------------------------------------------------------------------------
(* parse_url.                                                              *)

\* The URL is one that parse_url accepts, and what it takes from it.
Accepted ==
  strstartswith(strUrl, Scheme) >= 0 /\ Colon # 0 /\ IS_VALID_PORT(strtol(AfterColon))
Taken ==
  /\ port = strtol(AfterColon) % (MaxPort + 1)
  /\ hostname = SubSeq(strUrl, strstartswith(strUrl, Scheme) + 1, Colon - 1)

UrlInv ==
  /\ strUrl \in Urls /\ pc \in {"start", "resolve", "done"}
  /\ pc \in {"start", "resolve"} => err = "ok" /\ addr = "0.0.0.0"
  /\ pc = "resolve" => Accepted
  /\ pc = "resolve" \/ (pc = "done" /\ Accepted) => Taken
  /\ pc = "done" => IF Accepted THEN \/ addr = "host" /\ err = "ok"
                                     \/ addr = "0.0.0.0" /\ err = "EAI"
                    ELSE err = "EINVAL"

LEMMA UrlInvInit == UrlInit => UrlInv
BY DEF UrlInit, UrlInv

LEMMA UrlInvNext == UrlInv /\ [UrlNext]_urlVars => UrlInv'
<1> SUFFICES ASSUME UrlInv, [UrlNext]_urlVars PROVE UrlInv'
  OBVIOUS
<1>1. strUrl' = strUrl
  BY DEF UrlNext, BadUrl, GoodPort, Resolve, urlVars
<1>2. Colon' = Colon
  BY <1>1 DEF Colon, SelectInSubSeq
<1>3. AfterColon' = AfterColon
  BY <1>1, <1>2 DEF AfterColon
<1>4. Accepted' = Accepted
  BY <1>1, <1>2, <1>3 DEF Accepted
<1>5. port' = port /\ hostname' = hostname => Taken' = Taken
  BY <1>1, <1>2, <1>3 DEF Taken
<1>6. strstartswith(strUrl, Scheme) \in Int
  <2>1. Len(Scheme) \in Int
    BY UrlAssumption, LenProperties
  <2> QED BY <2>1 DEF strstartswith
<1>7. CASE BadUrl
  <2>1. ~Accepted
    BY <1>6, <1>7 DEF BadUrl, Accepted
  <2> QED BY <1>1, <1>4, <1>7, <2>1 DEF BadUrl, UrlInv
<1>8. CASE GoodPort
  <2>1. Accepted /\ pc' = "resolve" /\ pc = "start" /\ err' = err /\ addr' = addr
    BY <1>8 DEF GoodPort, Accepted
  <2>2. Taken'
    BY <1>1, <1>8, <1>2, <1>3 DEF GoodPort, Taken
  <2> QED BY <1>1, <1>4, <2>1, <2>2 DEF UrlInv
<1>9. CASE Resolve
  BY <1>1, <1>4, <1>5, <1>9 DEF Resolve, UrlInv
<1>10. CASE UNCHANGED urlVars
  BY <1>1, <1>4, <1>5, <1>10 DEF urlVars, UrlInv
<1> QED BY <1>7, <1>8, <1>9, <1>10 DEF UrlNext

\* The ':' that parse_url finds is the first one behind the scheme.
LEMMA ColonIs ==
  ASSUME strUrl \in Urls, IsPrefix(Scheme, strUrl),
         NEW k \in DOMAIN strUrl, k > Len(Scheme), strUrl[k] = ":",
         ":" \notin ToSet(SubSeq(strUrl, Len(Scheme) + 1, k - 1))
  PROVE  strstartswith(strUrl, Scheme) = Len(Scheme) /\ Colon = k /\ k # 0 /\ Len(Scheme) \in Nat
<1> DEFINE l == Len(Scheme)
           m == l + 1
           z == Len(strUrl)
           colon == ":"
<1>1. /\ strUrl \in Seq(UrlChar) /\ l \in Nat /\ z \in Nat /\ k \in 1 .. z
      /\ m \in Nat \ {0} /\ m <= k /\ m \in 1 .. z
  BY UrlAssumption, LenProperties
<1>2. strstartswith(strUrl, Scheme) = l
  BY DEF strstartswith
<1> HIDE DEF l, z, colon
<1> DEFINE front == SubSeq(strUrl, m, k - 1)
           I == {x \in m .. z : strUrl[x] = colon}
<1>3. Colon = IF I # {} THEN Min(I) ELSE 0
  BY <1>2 DEF Colon, SelectInSubSeq, z, colon
<1>4. k \in I
  BY <1>1 DEF colon
<1>5. ASSUME NEW x \in m .. k - 1 PROVE strUrl[x] # colon
  <2> DEFINE j == x - m + 1
             e == k - 1
  <2>1. /\ e \in Nat /\ m <= e + 1 /\ e <= Len(strUrl) /\ j \in 1 .. e - m + 1
        /\ m + j - 1 = x
    BY <1>1 DEF z
  <2> HIDE DEF j, e, m
  <2>2. /\ SubSeq(strUrl, m, e) \in Seq(UrlChar) /\ Len(SubSeq(strUrl, m, e)) = e - m + 1
        /\ \A y \in 1 .. e - m + 1 : SubSeq(strUrl, m, e)[y] = strUrl[m + y - 1]
    BY <1>1, <2>1, Part
  <2>3. SubSeq(strUrl, m, e)[j] = strUrl[x] /\ j \in DOMAIN SubSeq(strUrl, m, e)
    BY <2>1, <2>2, LenProperties
  <2>4. strUrl[x] \in ToSet(SubSeq(strUrl, m, e))
    BY <2>3 DEF ToSet
  <2> QED BY <2>4 DEF m, e, l, colon
<1>6. Min(I) = k
  <2>1. I \subseteq Nat /\ \A x \in I : x >= k
    BY <1>1, <1>5
  <2> HIDE DEF I
  <2>2. Min(I) \in I /\ Min(I) <= k
    BY <1>4, <2>1, MinIs
  <2> DEFINE x == Min(I)
  <2>3. x \in Nat /\ x <= k /\ x >= k
    BY <2>1, <2>2
  <2> HIDE DEF x
  <2>4. x = k
    BY <1>1, <2>3
  <2> QED BY <2>4 DEF x
<1>7. Colon = k
  BY <1>3, <1>4, <1>6
<1> QED BY <1>1, <1>2, <1>7 DEF l

LEMMA CastKeeps == ASSUME NEW a \in Nat, NEW b \in Nat, a < b PROVE a % b = a
OBVIOUS

LEMMA UrlAsWritten == UrlInv => ConnectsAsWritten
<1> SUFFICES ASSUME UrlInv, pc = "done",
                    NEW k \in DOMAIN strUrl, k > Len(Scheme), strUrl[k] = ":",
                    IsPrefix(Scheme, strUrl),
                    ":" \notin ToSet(SubSeq(strUrl, Len(Scheme) + 1, k - 1)),
                    NEW n \in DOMAIN Decimal,
                    Decimal[n] = SubSeq(strUrl, k + 1, Len(strUrl))
             PROVE  IF n \in 1 .. MaxPort
                    THEN /\ port = n /\ hostname = SubSeq(strUrl, Len(Scheme) + 1, k - 1)
                         /\ (err = "ok" <=> addr = "host")
                    ELSE err = "EINVAL"
  BY Zenon DEF ConnectsAsWritten
<1>1. /\ strstartswith(strUrl, Scheme) = Len(Scheme) /\ Colon = k /\ k # 0 /\ Len(Scheme) \in Nat
  BY ColonIs DEF UrlInv
<1>2. n \in 0 .. 2 * LongMax /\ MaxPort \in Nat /\ LongMax \in Nat /\ LongMax > MaxPort /\ n \in Nat
  BY DecimalDefined, UrlAssumption
<1> DEFINE r == strtol(AfterColon)
<1>3. r = IF n <= LongMax THEN n ELSE LongMax
  <2>1. AfterColon = Decimal[n]
    BY <1>1 DEF AfterColon
  <2> QED BY <1>2, <2>1, DecimalIsRead
<1> HIDE DEF r
<1>4. IS_VALID_PORT(r) <=> n \in 1 .. MaxPort
  BY <1>2, <1>3 DEF IS_VALID_PORT
<1>5. Accepted <=> n \in 1 .. MaxPort
  BY <1>1, <1>4 DEF Accepted, r
<1>6. ASSUME n \in 1 .. MaxPort PROVE r % (MaxPort + 1) = n
  <2>1. r = n /\ n < MaxPort + 1 /\ MaxPort + 1 > 0
    BY <1>2, <1>3, <1>6
  <2> DEFINE b == MaxPort + 1
  <2>2. b \in Nat /\ n < b
    BY <1>2, <2>1
  <2> HIDE DEF b
  <2>3. n % b = n
    BY <1>2, <2>2, CastKeeps
  <2> QED BY <2>1, <2>3 DEF b
<1>7. CASE n \in 1 .. MaxPort
  <2>1. Taken /\ Accepted
    BY <1>5, <1>7 DEF UrlInv
  <2>2. port = n /\ hostname = SubSeq(strUrl, Len(Scheme) + 1, k - 1)
    BY <1>1, <1>6, <1>7, <2>1 DEF Taken, r
  <2>3. err = "ok" <=> addr = "host"
    BY <2>1 DEF UrlInv
  <2> QED BY <1>7, <2>2, <2>3
<1>8. CASE n \notin 1 .. MaxPort
  BY <1>5, <1>8 DEF UrlInv
<1> QED BY <1>7, <1>8

\* parse_url connects to the host and port that a URL of the documented form
\* names, and refuses it only for a port that no socket has or a host that no
\* resolver knows: for every size of a port and of a long, and every scheme.
THEOREM UrlConnects == UrlSpec => []ConnectsAsWritten
BY UrlInvInit, UrlInvNext, UrlAsWritten, PTL DEF UrlSpec

-----------------------------------------------------------------------------
(* main() and fetch_api() do one after the other.                          *)

\* A request goes where the config file says, stays in its buffer and, if nothing
\* in it needs an escape, is JSON: building it does not touch the URL, and parsing
\* the URL not the request.
THEOREM RequestAsConfigured ==
  RequestSpec => [](ConnectsAsWritten /\ NoOverrun /\ PlainRequestIsJson)
<1> DEFINE Inv == UrlInv /\ JsonInv /\ TextInv
<1>1. RequestInit => Inv
  BY UrlInvInit, JsonInvInit, TextInvInit DEF RequestInit
<1>2. Inv /\ [RequestNext]_<<urlVars, jsonVars>> => Inv'
  <2> SUFFICES ASSUME Inv, [RequestNext]_<<urlVars, jsonVars>> PROVE Inv'
    OBVIOUS
  <2>1. [UrlNext]_urlVars /\ [JsonNext]_jsonVars
    BY Zenon DEF RequestNext, ParseUrl, BuildRequest
  <2> QED BY <2>1, UrlInvNext, JsonInvNext, TextInvNext
<1>3. Inv => ConnectsAsWritten /\ NoOverrun /\ PlainRequestIsJson
  BY UrlAsWritten, PlainIsJson DEF JsonInv
<1> HIDE DEF Inv
<1> QED BY <1>1, <1>2, <1>3, PTL DEF RequestSpec
=============================================================================
