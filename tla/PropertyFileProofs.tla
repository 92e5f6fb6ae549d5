------------------------- MODULE PropertyFileProofs -------------------------
(***************************************************************************)
(* What holds of the files that property.c and sys_file.c work on, for any *)
(* processes, files and groups, and in whatever order the processes load,  *)
(* save and die.                                                           *)
(***************************************************************************)
EXTENDS FileUsers, PropertyTextProofs

-----------------------------------------------------------------------------
(* What a write at an offset does to the contents of a file.               *)

LEMMA Overlaid ==
  ASSUME NEW contents \in Seq(Symbol), NEW n \in Nat, NEW chunk \in Seq(Symbol)
  PROVE  LET new == Overlay(contents, n, chunk) IN
         /\ new \in Seq(Symbol) /\ Len(contents) <= Len(new)
         /\ Len(new) = Len(contents) \/ Len(new) = n + Len(chunk)
         /\ \A i \in n + 1 .. n + Len(chunk) : i <= Len(new) /\ new[i] = chunk[i - n]
         /\ \A i \in 1 .. Len(contents) :
              i \notin n + 1 .. n + Len(chunk) => new[i] = contents[i]
<1> DEFINE len == IF chunk = <<>> \/ n + Len(chunk) <= Len(contents)
                  THEN Len(contents) ELSE n + Len(chunk)
           at(i) == IF i \in n + 1 .. n + Len(chunk) THEN chunk[i - n]
                    ELSE IF i \in DOMAIN contents THEN contents[i] ELSE NUL
           new == [i \in 1 .. len |-> at(i)]
<1>1. /\ Len(contents) \in Nat /\ Len(chunk) \in Nat
      /\ DOMAIN contents = 1 .. Len(contents) /\ NUL \in Symbol
  BY LenProperties, TextAssumption
<1>2. /\ len \in Nat /\ Len(contents) <= len
      /\ len = Len(contents) \/ len = n + Len(chunk)
  <2>1. CASE chunk = <<>> \/ n + Len(chunk) <= Len(contents)
    <3>1. len = Len(contents)
      BY <2>1, Zenon
    <3> HIDE DEF len
    <3> QED BY <1>1, <3>1
  <2>2. CASE ~(chunk = <<>> \/ n + Len(chunk) <= Len(contents))
    <3>1. ~(n + Len(chunk) <= Len(contents)) /\ len = n + Len(chunk)
      BY <2>2, Zenon
    <3> HIDE DEF len
    <3> QED BY <1>1, <3>1
  <2> QED BY <2>1, <2>2
<1>3. n + Len(chunk) <= len \/ n + 1 .. n + Len(chunk) = {}
  <2>1. chunk = <<>> => Len(chunk) = 0
    BY EmptySeq
  <2> QED BY <1>1, <2>1
<1>4. ASSUME NEW i \in 1 .. len PROVE at(i) \in Symbol
  <2>1. CASE i \in n + 1 .. n + Len(chunk)
    <3>1. i - n \in 1 .. Len(chunk)
      BY <1>1, <2>1
    <3> QED BY <2>1, <3>1, ElementOfSeq
  <2>2. CASE i \notin n + 1 .. n + Len(chunk)
    BY <1>1, <2>2, ElementOfSeq
  <2> QED BY <2>1, <2>2
<1>5. Overlay(contents, n, chunk) = new
  BY DEF Overlay
<1>6. ASSUME NEW i \in n + 1 .. n + Len(chunk) PROVE i \in 1 .. len /\ at(i) = chunk[i - n]
  BY <1>1, <1>3
<1>7. ASSUME NEW i \in 1 .. Len(contents), i \notin n + 1 .. n + Len(chunk)
      PROVE  i \in 1 .. len /\ at(i) = contents[i]
  <2>1. at(i) = contents[i]
    BY <1>1, <1>7, Zenon
  <2>2. i \in 1 .. len
    <3> HIDE DEF len
    <3>1. Len(contents) \in Nat /\ len \in Nat /\ Len(contents) <= len
      BY <1>1, <1>2
    <3> QED BY ONLY <3>1, i \in 1 .. Len(contents)
  <2> QED BY <2>1, <2>2, Zenon
<1> HIDE DEF len, at
<1>8. new \in Seq(Symbol) /\ Len(new) = len /\ \A i \in 1 .. len : new[i] = at(i)
  BY <1>2, <1>4
<1> HIDE DEF new
<1> QED BY <1>2, <1>5, <1>6, <1>7, <1>8

(* Whatever another writer is still to write stays covered; what this one  *)
(* wrote has arrived.                                                      *)
LEMMA FlushCovers ==
  ASSUME NEW text \in Seq(Symbol), NEW contents \in Seq(Symbol), NEW n \in Nat,
         NEW chunk \in Seq(Symbol), HoldsAt(text, n, chunk), NEW C,
         Len(contents) <= Len(text),
         \A i \in 1 .. Len(text) :
           (i <= Len(contents) /\ contents[i] = text[i]) \/ i \in C
  PROVE  LET new == Overlay(contents, n, chunk) IN
         /\ Len(new) <= Len(text)
         /\ \A i \in 1 .. Len(text) :
              \/ i <= Len(new) /\ new[i] = text[i]
              \/ i \in C /\ i \notin n + 1 .. n + Len(chunk)
<1> DEFINE new == Overlay(contents, n, chunk)
<1>1. /\ new \in Seq(Symbol) /\ Len(contents) <= Len(new)
      /\ Len(new) = Len(contents) \/ Len(new) = n + Len(chunk)
      /\ \A i \in n + 1 .. n + Len(chunk) : i <= Len(new) /\ new[i] = chunk[i - n]
      /\ \A i \in 1 .. Len(contents) :
           i \notin n + 1 .. n + Len(chunk) => new[i] = contents[i]
  BY Overlaid
<1> HIDE DEF new
<1>2. Len(new) \in Nat /\ Len(text) \in Nat /\ Len(chunk) \in Nat /\ Len(contents) \in Nat
  BY <1>1, LenProperties
<1>3. Len(new) <= Len(text)
  BY <1>1, <1>2 DEF HoldsAt
<1>4. ASSUME NEW i \in 1 .. Len(text)
      PROVE  \/ i <= Len(new) /\ new[i] = text[i]
             \/ i \in C /\ i \notin n + 1 .. n + Len(chunk)
  <2>1. CASE i \in n + 1 .. n + Len(chunk)
    <3>1. i - n \in 1 .. Len(chunk) /\ n + (i - n) = i
      BY <1>2, <2>1
    <3>2. text[n + (i - n)] = chunk[i - n]
      BY <3>1 DEF HoldsAt
    <3> QED BY <1>1, <2>1, <3>1, <3>2
  <2>2. CASE i \notin n + 1 .. n + Len(chunk)
    <3>1. CASE i <= Len(contents) /\ contents[i] = text[i]
      <4>1. i \in 1 .. Len(contents)
        BY <1>2, <3>1
      <4> QED BY <1>1, <1>2, <2>2, <3>1, <4>1
    <3>2. CASE i \in C
      BY <2>2, <3>2
    <3> QED BY <3>1, <3>2
  <2> QED BY <2>1, <2>2
<1> QED BY <1>3, <1>4 DEF new

-----------------------------------------------------------------------------
(* The inductive invariant.                                                *)

FileTypes ==
  /\ disk \in [Path -> Seq(Symbol) \cup {Absent}]
  /\ stage \in [Proc -> {"idle", "size", "read", "write"}]
  /\ path \in [Proc -> Path \cup {Absent}] /\ off \in [Proc -> Nat]
  /\ todo \in [Proc -> Group] /\ pending \in [Proc -> Seq(Symbol)]
  /\ \A p \in Proc : Len(pending[p]) <= StdioBuf
  /\ group \in [Proc -> Group]
  /\ ferr \in [Proc -> FileErrors \cup {"ok"}]
  /\ intent \in [Path -> Group \cup {Absent, Unknown}]
  /\ expect \in [Proc -> Group \cup {Absent, Unknown}]
  /\ lost \in [Proc -> BOOLEAN]

(* Nobody works on a file that is not there, and only a save creates one.  *)
Opened(p) == stage[p] # "idle" => path[p] \in Path /\ disk[path[p]] # Absent
Created(f) == intent[f] = Absent <=> disk[f] = Absent

(* What a writer has buffered, and what it has still to write, is the rest *)
(* of the text its file should hold, from the writer's offset on.          *)
EndsWith(text, n, s, rest) ==
  /\ HoldsAt(text, n, s) /\ HoldsAt(text, n + Len(s), rest)
  /\ Len(text) = n + Len(s) + Len(rest)

Writes(p) ==
  stage[p] = "write" /\ intent[path[p]] # Unknown =>
    EndsWith(Text(intent[path[p]]), off[p], pending[p], Text(todo[p]))

(* A file agrees with the text it should hold, but where a writer is still *)
(* to come by.                                                             *)
Covered(f) ==
  intent[f] \notin {Absent, Unknown} =>
    LET text == Text(intent[f]) IN
    /\ Len(disk[f]) <= Len(text)
    /\ \A i \in 1 .. Len(text) :
         \/ i <= Len(disk[f]) /\ disk[f][i] = text[i]
         \/ \E p \in Busy(f, {"write"}) : off[p] < i

(* A load that still expects a group has met no writer so far, and it has  *)
(* measured the file it reads.                                             *)
Loads(p) ==
  expect[p] # Unknown =>
    /\ stage[p] # "write"
    /\ stage[p] \in {"size", "read"} =>
         expect[p] = intent[path[p]] /\ Busy(path[p], {"write"}) = {}
    /\ stage[p] = "read" => off[p] = Len(disk[path[p]])

(* What it returned is the text of that group, parsed and sorted.          *)
Answered(p) ==
  stage[p] = "idle" /\ expect[p] # Unknown =>
    \/ expect[p] = Absent /\ ferr[p] \in {"ENOENT", "EACCES"}
    \/ expect[p] # Absent /\ ferr[p] \in {"EACCES", "EIO"}
    \/ /\ expect[p] # Absent
       /\ LET loaded == Loaded(Text(expect[p]))
          IN  ferr[p] = loaded.err /\ group[p] = loaded.group

ProcInv(p) == Opened(p) /\ Writes(p) /\ Loads(p) /\ Answered(p)
PathInv(f) == Created(f) /\ Covered(f)
FileInv ==
  FileTypes /\ (\A p \in Proc : ProcInv(p)) /\ (\A f \in Path : PathInv(f))

LEMMA Markers ==
  /\ \A g \in Group : g # Absent /\ g # Unknown
  /\ \A s \in Seq(Symbol) : s # Absent
  /\ Absent # Unknown /\ Absent \notin Path /\ <<>> \in Group /\ <<>> \in Seq(Symbol)
  /\ StdioBuf \in Nat /\ LineMax \in Nat /\ LineMax <= StdioBuf
<1>1. <<>> \in Group /\ <<>> \in Seq(Symbol)
  BY EmptySeq DEF Group
<1> QED BY <1>1, FileAssumption, TextAssumption DEF Group

(* What nobody touches stays true: of a process whose own state stays, and *)
(* of a file whose contents stay and whose writers stay where they are.    *)
Keeps(q) ==
  /\ stage'[q] = stage[q] /\ path'[q] = path[q] /\ off'[q] = off[q]
  /\ todo'[q] = todo[q] /\ pending'[q] = pending[q]
  /\ ferr'[q] = ferr[q] /\ group'[q] = group[q]
  /\ expect'[q] \in {expect[q], Unknown}

KeepsFile(f) ==
  /\ disk'[f] = disk[f] /\ intent'[f] \in {intent[f], Unknown}
  /\ \A q \in Proc : q \in Busy(f, {"write"}) =>
       stage'[q] = stage[q] /\ path'[q] = path[q] /\ off'[q] = off[q]

LEMMA ProcKeeps ==
  ASSUME NEW q \in Proc, ProcInv(q), Keeps(q),
         stage[q] # "idle" =>
           intent'[path[q]] \in {intent[path[q]], Unknown} /\ disk'[path[q]] # Absent,
         stage[q] \in {"size", "read"} /\ expect'[q] # Unknown =>
           /\ intent'[path[q]] = intent[path[q]] /\ disk'[path[q]] = disk[path[q]]
           /\ Busy(path[q], {"write"})' = {}
  PROVE  ProcInv(q)'
<1>1. Opened(q)'
  BY DEF ProcInv, Opened, Keeps
<1>2. Writes(q)'
  BY DEF ProcInv, Writes, Keeps
<1>3. Loads(q)'
  BY DEF ProcInv, Loads, Keeps
<1>4. Answered(q)'
  BY DEF ProcInv, Answered, Keeps
<1> QED BY <1>1, <1>2, <1>3, <1>4 DEF ProcInv

LEMMA FileKeeps ==
  ASSUME NEW f \in Path, Covered(f), KeepsFile(f)
  PROVE  Covered(f)'
<1> SUFFICES ASSUME intent'[f] \notin {Absent, Unknown} PROVE Covered(f)'
  BY DEF Covered
<1>1. intent'[f] = intent[f] /\ disk'[f] = disk[f]
  BY DEF KeepsFile
<1>2. \A q \in Busy(f, {"write"}) : q \in Busy(f, {"write"})' /\ off'[q] = off[q]
  BY DEF KeepsFile, Busy
<1> QED BY <1>1, <1>2 DEF Covered

LEMMA InitFileInv == FileInit => FileInv
<1> SUFFICES ASSUME FileInit PROVE FileInv
  OBVIOUS
<1>1. FileTypes
  <2>1. /\ \A p \in Proc : pending[p] = <<>>
        /\ Len(<<>>) = 0 /\ 0 <= StdioBuf
    BY Markers DEF FileInit
  <2> QED BY <2>1, Markers DEF FileInit, FileTypes
<1>2. ASSUME NEW p \in Proc PROVE ProcInv(p)
  BY <1>2 DEF FileInit, ProcInv, Opened, Writes, Loads, Answered
<1>3. ASSUME NEW f \in Path PROVE PathInv(f)
  BY <1>3 DEF FileInit, PathInv, Created, Covered
<1> QED BY <1>1, <1>2, <1>3 DEF FileInv

(* load_properties: opening the file.                                      *)
LEMMA StartLoadInv ==
  ASSUME FileInv, NEW p \in Proc, NEW f \in Path, StartLoad(p, f)
  PROVE  FileInv'
<1>1. /\ FileTypes /\ (\A q \in Proc : ProcInv(q)) /\ (\A e \in Path : PathInv(e))
      /\ stage[p] = "idle"
  BY DEF FileInv, StartLoad
<1>2. FileTypes'
  <2>1. stage' \in [Proc -> {"idle", "size", "read", "write"}]
    BY <1>1 DEF FileTypes, StartLoad, Return
  <2>5. path' \in [Proc -> Path \cup {Absent}]
    BY <1>1 DEF FileTypes, StartLoad
  <2>6. off' \in [Proc -> Nat]
    BY <1>1 DEF FileTypes, StartLoad, Return
  <2>2. ferr' \in [Proc -> FileErrors \cup {"ok"}] /\ group' \in [Proc -> Group]
    <3>1. ferr' \in [Proc -> FileErrors \cup {"ok"}]
      BY <1>1 DEF FileTypes, StartLoad, Return, FileErrors
    <3>2. group' = [group EXCEPT ![p] = <<>>]
      BY DEF StartLoad, Return
    <3> QED BY <1>1, <3>1, <3>2, Markers DEF FileTypes
  <2>3. /\ expect' \in [Proc -> Group \cup {Absent, Unknown}]
        /\ lost' \in [Proc -> BOOLEAN]
    BY <1>1 DEF FileTypes, StartLoad
  <2>4. UNCHANGED <<disk, todo, pending, intent>>
    BY DEF StartLoad
  <2> QED BY <1>1, <2>1, <2>2, <2>3, <2>4, <2>5, <2>6 DEF FileTypes
<1>3. /\ path'[p] = f /\ stage'[p] \in {"idle", "size"}
      /\ expect'[p] = IF Busy(f, {"write"}) = {} THEN intent[f] ELSE Unknown
      /\ disk' = disk /\ intent' = intent /\ todo' = todo /\ pending' = pending
  BY <1>1 DEF FileTypes, StartLoad, Return
<1>4. \A q \in Proc : q # p =>
        /\ stage'[q] = stage[q] /\ path'[q] = path[q] /\ off'[q] = off[q]
        /\ ferr'[q] = ferr[q] /\ group'[q] = group[q] /\ expect'[q] = expect[q]
  BY <1>1 DEF FileTypes, StartLoad, Return
<1>5. \A e \in Path : Busy(e, {"write"})' = Busy(e, {"write"})
  <2>1. ASSUME NEW e \in Path, NEW q \in Proc
        PROVE  q \in Busy(e, {"write"})' <=> q \in Busy(e, {"write"})
    BY <1>1, <1>3, <1>4 DEF Busy
  <2> QED BY <2>1 DEF Busy
<1>6. ASSUME NEW q \in Proc, q # p PROVE ProcInv(q)'
  <2>1. Keeps(q)
    BY <1>3, <1>4, <1>6 DEF Keeps
  <2>2. /\ stage[q] # "idle" => path[q] \in Path /\ disk[path[q]] # Absent
        /\ stage[q] \in {"size", "read"} /\ expect[q] # Unknown =>
             Busy(path[q], {"write"}) = {}
    BY <1>1 DEF ProcInv, Opened, Loads
  <2> QED BY <1>1, <1>3, <1>4, <1>5, <1>6, <2>1, <2>2, ProcKeeps
<1>7. ProcInv(p)'
  <2>1. Writes(p)'
    BY <1>3 DEF Writes
  <2>2. CASE stage'[p] = "size"
    <3>1. disk[f] # Absent
      BY <2>2, <1>1 DEF StartLoad, Return, FileTypes
    <3>2. Opened(p)' /\ Answered(p)'
      BY <1>3, <2>2, <3>1 DEF Opened, Answered
    <3>3. Loads(p)'
      BY <1>3, <1>5, <2>2 DEF Loads
    <3> QED BY <2>1, <3>2, <3>3 DEF ProcInv
  <2>3. CASE stage'[p] = "idle"
    <3>1. (disk[f] = Absent /\ ferr'[p] = "ENOENT") \/ ferr'[p] = "EACCES"
      BY <2>3, <1>1 DEF StartLoad, Return, FileTypes
    <3>2. disk[f] = Absent <=> intent[f] = Absent
      BY <1>1 DEF PathInv, Created
    <3>3. Answered(p)'
      BY <1>3, <3>1, <3>2 DEF Answered
    <3>4. Opened(p)' /\ Loads(p)'
      BY <2>3 DEF Opened, Loads
    <3> QED BY <2>1, <3>3, <3>4 DEF ProcInv
  <2> QED BY <1>3, <2>2, <2>3
<1>8. ASSUME NEW e \in Path PROVE PathInv(e)'
  <2>1. KeepsFile(e)
    BY <1>1, <1>3, <1>4 DEF KeepsFile, Busy
  <2> QED BY <1>1, <1>3, <2>1, FileKeeps DEF PathInv, Created
<1> QED BY <1>2, <1>6, <1>7, <1>8 DEF FileInv

-----------------------------------------------------------------------------
(* save_properties: opening the file, which empties it.                    *)
LEMMA StartSaveInv ==
  ASSUME FileInv, NEW p \in Proc, NEW f \in Path, NEW g \in Group, StartSave(p, f, g)
  PROVE  FileInv'
<1>1. /\ FileTypes /\ (\A q \in Proc : ProcInv(q)) /\ (\A e \in Path : PathInv(e))
      /\ stage[p] = "idle" /\ path'[p] = f
  BY DEF FileInv, FileTypes, StartSave
<1>2. FileTypes'
  <2>1. Len(<<>>) = 0 /\ Len(<<>>) <= StdioBuf
    BY Markers
  <2>2. disk' \in [Path -> Seq(Symbol) \cup {Absent}]
    BY ZenonT(60), <1>1, Markers DEF FileTypes, StartSave, Truncated
  <2>3. stage' \in [Proc -> {"idle", "size", "read", "write"}]
    BY ZenonT(60), <1>1 DEF FileTypes, StartSave
  <2>7. path' \in [Proc -> Path \cup {Absent}]
    BY <1>1 DEF FileTypes, StartSave
  <2>11. off' \in [Proc -> Nat]
    BY <1>1 DEF FileTypes, StartSave
  <2>4. todo' \in [Proc -> Group]
    <3>1. todo' = todo \/ todo' = [todo EXCEPT ![p] = g]
      BY DEF StartSave
    <3> QED BY <1>1, <3>1 DEF FileTypes
  <2>8. /\ pending' \in [Proc -> Seq(Symbol)]
        /\ \A q \in Proc : pending'[q] \in {pending[q], <<>>}
    <3>1. pending' = pending \/ pending' = [pending EXCEPT ![p] = <<>>]
      BY DEF StartSave
    <3> QED BY ZenonT(30), <1>1, <3>1, Markers DEF FileTypes
  <2>9. \A q \in Proc : Len(pending'[q]) <= StdioBuf
    BY <1>1, <2>1, <2>8 DEF FileTypes
  <2>5. /\ ferr' \in [Proc -> FileErrors \cup {"ok"}]
        /\ group' \in [Proc -> Group] /\ lost' \in [Proc -> BOOLEAN]
    <3>1. ferr' \in [Proc -> FileErrors \cup {"ok"}] /\ lost' \in [Proc -> BOOLEAN]
      BY <1>1 DEF FileTypes, StartSave, FileErrors
    <3>2. group' = [group EXCEPT ![p] = <<>>]
      BY DEF StartSave
    <3> QED BY <1>1, <3>1, <3>2, Markers DEF FileTypes
  <2>6. intent' \in [Path -> Group \cup {Absent, Unknown}]
    <3>1. intent' = intent \/ \E x \in {g, Unknown} : intent' = [intent EXCEPT ![f] = x]
      BY Zenon DEF StartSave
    <3>2. ASSUME NEW x \in {g, Unknown} PROVE x \in Group \cup {Absent, Unknown}
      OBVIOUS
    <3>3. intent \in [Path -> Group \cup {Absent, Unknown}]
      BY <1>1 DEF FileTypes
    <3> QED BY <3>1, <3>2, <3>3, Zenon
  <2>10. expect' \in [Proc -> Group \cup {Absent, Unknown}]
    BY ZenonT(30), <1>1 DEF FileTypes, StartSave
  <2> QED BY <2>2, <2>3, <2>4, <2>5, <2>6, <2>7, <2>8, <2>9, <2>10, <2>11 DEF FileTypes
<1>3. \A q \in Proc : q # p =>
        /\ stage'[q] = stage[q] /\ path'[q] = path[q] /\ off'[q] = off[q]
        /\ todo'[q] = todo[q] /\ pending'[q] = pending[q]
        /\ ferr'[q] = ferr[q] /\ group'[q] = group[q]
        /\ expect'[q] \in {expect[q], Unknown}
        /\ stage'[p] = "write" /\ q \in Busy(f, {"size", "read"}) => expect'[q] = Unknown
  BY <1>1 DEF FileTypes, StartSave
<1>4. /\ \A e \in Path : e # f => disk'[e] = disk[e] /\ intent'[e] = intent[e]
      /\ expect'[p] = Unknown
  BY <1>1 DEF FileTypes, StartSave
<1>5. \A e \in Path : e # f => Busy(e, {"write"})' = Busy(e, {"write"})
  <2>1. ASSUME NEW e \in Path, NEW q \in Proc, e # f
        PROVE  q \in Busy(e, {"write"})' <=> q \in Busy(e, {"write"})
    BY <1>1, <1>3, <2>1 DEF Busy
  <2> QED BY <2>1 DEF Busy
<1>6. CASE stage' = stage
  <2>1. disk' = disk /\ intent' = intent /\ stage'[p] = "idle"
    BY <1>1, <1>6 DEF StartSave, FileTypes
  <2>2. Busy(f, {"write"})' = Busy(f, {"write"})
    <3>1. ASSUME NEW q \in Proc
          PROVE  q \in Busy(f, {"write"})' <=> q \in Busy(f, {"write"})
      BY <1>1, <1>3, <2>1 DEF Busy
    <3> QED BY <3>1 DEF Busy
  <2>3. ASSUME NEW q \in Proc, q # p PROVE ProcInv(q)'
    <3>1. Keeps(q)
      BY <1>3, <2>3 DEF Keeps
    <3>2. /\ stage[q] # "idle" => path[q] \in Path /\ disk[path[q]] # Absent
          /\ stage[q] \in {"size", "read"} /\ expect[q] # Unknown =>
               Busy(path[q], {"write"}) = {}
      BY <1>1 DEF ProcInv, Opened, Loads
    <3>3. expect'[q] # Unknown => expect[q] # Unknown
      BY <1>3, <2>3
    <3>4. \A e \in Path : Busy(e, {"write"})' = Busy(e, {"write"})
      BY <1>5, <2>2
    <3>5. stage[q] # "idle" =>
            intent'[path[q]] \in {intent[path[q]], Unknown} /\ disk'[path[q]] # Absent
      BY <2>1, <3>2
    <3>6. stage[q] \in {"size", "read"} /\ expect'[q] # Unknown =>
            /\ intent'[path[q]] = intent[path[q]] /\ disk'[path[q]] = disk[path[q]]
            /\ Busy(path[q], {"write"})' = {}
      <4>1. stage[q] \in {"size", "read"} => path[q] \in Path
        BY <3>2
      <4>2. stage[q] \in {"size", "read"} =>
              Busy(path[q], {"write"})' = Busy(path[q], {"write"})
        BY <3>1, <3>4, <4>1 DEF Keeps
      <4> QED BY <2>1, <3>2, <3>3, <4>2
    <3> QED BY <1>1, <3>1, <3>5, <3>6, ProcKeeps
  <2>4. ProcInv(p)'
    BY <1>4, <2>1 DEF ProcInv, Opened, Writes, Loads, Answered
  <2>5. ASSUME NEW e \in Path PROVE PathInv(e)'
    <3>1. KeepsFile(e)
      BY <1>1, <1>3, <2>1 DEF KeepsFile, Busy
    <3> QED BY <1>1, <2>1, <3>1, FileKeeps DEF PathInv, Created
  <2> QED BY <1>2, <2>3, <2>4, <2>5 DEF FileInv
<1>7. CASE stage' # stage
  <2>1. /\ stage'[p] = "write" /\ disk'[f] = <<>> /\ off'[p] = 0
        /\ todo'[p] = g /\ pending'[p] = <<>>
        /\ intent'[f] = IF Busy(f, {"write"}) = {} \/ intent[f] = g THEN g ELSE Unknown
    BY <1>1, <1>7 DEF StartSave, FileTypes, Truncated
  <2>2. ASSUME NEW q \in Proc, q # p PROVE ProcInv(q)'
    <3>1. Keeps(q)
      BY <1>3, <2>2 DEF Keeps
    <3>2. /\ stage[q] # "idle" => path[q] \in Path /\ disk[path[q]] # Absent
          /\ stage[q] \in {"size", "read"} /\ expect[q] # Unknown =>
               Busy(path[q], {"write"}) = {}
      BY <1>1 DEF ProcInv, Opened, Loads
    <3>3. CASE stage[q] # "idle" /\ path[q] = f
      <4>1. CASE stage[q] = "write"
        <5>1. q \in Busy(f, {"write"})
          BY <3>3, <4>1 DEF Busy
        <5>2. intent'[f] \in {intent[f], Unknown}
          BY <2>1, <5>1
        <5> QED BY <1>1, <2>1, <3>1, <3>3, <4>1, <5>2, Markers, ProcKeeps
      <4>2. CASE stage[q] # "write"
        <5>1. stage[q] \in {"size", "read"}
          BY <1>1, <3>3, <4>2 DEF FileTypes
        <5>2. expect'[q] = Unknown
          BY <1>3, <2>1, <2>2, <3>3, <5>1 DEF Busy
        <5>3. Opened(q)' /\ Writes(q)' /\ Loads(q)' /\ Answered(q)'
          BY <2>1, <3>1, <3>3, <5>1, <5>2, Markers
             DEF Keeps, Opened, Writes, Loads, Answered
        <5> QED BY <5>3 DEF ProcInv
      <4> QED BY <4>1, <4>2
    <3>4. CASE ~(stage[q] # "idle" /\ path[q] = f)
      <4>1. expect'[q] # Unknown => expect[q] # Unknown
        BY <1>3, <2>2
      <4>2. stage[q] # "idle" =>
              /\ disk'[path[q]] = disk[path[q]] /\ intent'[path[q]] = intent[path[q]]
              /\ Busy(path[q], {"write"})' = Busy(path[q], {"write"})
        <5>1. SUFFICES ASSUME stage[q] # "idle"
                       PROVE  /\ disk'[path[q]] = disk[path[q]]
                              /\ intent'[path[q]] = intent[path[q]]
                              /\ Busy(path[q], {"write"})' = Busy(path[q], {"write"})
          OBVIOUS
        <5>2. path[q] \in Path /\ path[q] # f /\ path'[q] = path[q]
          BY <3>1, <3>2, <3>4, <5>1 DEF Keeps
        <5> QED BY <1>4, <1>5, <5>2
      <4>3. stage[q] # "idle" =>
              intent'[path[q]] \in {intent[path[q]], Unknown} /\ disk'[path[q]] # Absent
        BY <3>2, <4>2
      <4>4. stage[q] \in {"size", "read"} /\ expect'[q] # Unknown =>
              /\ intent'[path[q]] = intent[path[q]] /\ disk'[path[q]] = disk[path[q]]
              /\ Busy(path[q], {"write"})' = {}
        BY <3>2, <4>1, <4>2
      <4> QED BY <1>1, <3>1, <4>3, <4>4, ProcKeeps
    <3> QED BY <3>3, <3>4
  <2>3. ProcInv(p)'
    <3>1. Writes(p)'
      <4>1. Text(g) \in Seq(Symbol) /\ Len(Text(g)) \in Nat
        BY TextHead
      <4>2. Len(<<>>) = 0 /\ 0 + 0 = 0 /\ 0 + 0 + Len(Text(g)) = Len(Text(g))
        BY <4>1
      <4>3. HoldsAt(Text(g), 0, <<>>) /\ HoldsAt(Text(g), 0, Text(g))
        BY <4>1 DEF HoldsAt
      <4>4. intent'[f] # Unknown => intent'[f] = g
        BY <2>1
      <4> QED BY <1>1, <2>1, <4>2, <4>3, <4>4 DEF Writes, EndsWith
    <3>2. Opened(p)' /\ Loads(p)' /\ Answered(p)'
      BY <1>1, <1>4, <2>1, Markers DEF Opened, Loads, Answered
    <3> QED BY <3>1, <3>2 DEF ProcInv
  <2>4. ASSUME NEW e \in Path PROVE PathInv(e)'
    <3>1. CASE e = f
      <4>1. Created(f)'
        BY <2>1, Markers DEF Created
      <4>2. Covered(f)'
        <5>1. SUFFICES ASSUME intent'[f] # Unknown PROVE Covered(f)'
          BY DEF Covered
        <5>2. intent'[f] = g /\ Text(g) \in Seq(Symbol) /\ Len(Text(g)) \in Nat
          BY <2>1, <5>1, TextHead
        <5>3. Len(disk'[f]) = 0 /\ p \in Busy(f, {"write"})' /\ off'[p] = 0
          BY <1>1, <2>1 DEF Busy
        <5>4. \A i \in 1 .. Len(Text(g)) : off'[p] < i
          BY <5>2, <5>3
        <5> QED BY <5>2, <5>3, <5>4 DEF Covered
      <4> QED BY <3>1, <4>1, <4>2 DEF PathInv
    <3>2. CASE e # f
      <4>1. KeepsFile(e)
        BY <1>1, <1>3, <1>4, <3>2 DEF KeepsFile, Busy
      <4> QED BY <1>1, <1>4, <3>2, <4>1, FileKeeps DEF PathInv, Created
    <3> QED BY <3>1, <3>2
  <2> QED BY <1>2, <2>2, <2>3, <2>4 DEF FileInv
<1> QED BY <1>6, <1>7

-----------------------------------------------------------------------------
(* A file nobody is writing agrees with its text everywhere, and that is   *)
(* what a load of it returns.                                              *)

LEMMA FileInvHolds == FileInv => FileHoldsTheSave
<1> SUFFICES ASSUME FileInv, NEW f \in Path, Busy(f, {"write"}) = {}, intent[f] # Unknown
             PROVE  disk[f] = IF intent[f] = Absent THEN Absent ELSE Text(intent[f])
  BY DEF FileHoldsTheSave
<1>1. FileTypes /\ Created(f) /\ Covered(f)
  BY DEF FileInv, PathInv
<1>2. CASE intent[f] = Absent
  BY <1>1, <1>2 DEF Created
<1>3. CASE intent[f] # Absent
  <2> DEFINE text == Text(intent[f])
  <2>1. intent[f] \in Group /\ disk[f] \in Seq(Symbol)
    BY <1>1, <1>3 DEF FileTypes, Created
  <2>2. text \in Seq(Symbol) /\ Len(text) \in Nat /\ Len(disk[f]) \in Nat
    BY <2>1, TextHead, LenProperties
  <2>3. /\ Len(disk[f]) <= Len(text)
        /\ \A i \in 1 .. Len(text) : i <= Len(disk[f]) /\ disk[f][i] = text[i]
    BY <1>1, <1>3 DEF Covered
  <2> HIDE DEF text
  <2>4. Len(disk[f]) = Len(text)
    <3>1. Len(text) # 0 => Len(text) \in 1 .. Len(text)
      BY <2>2
    <3> QED BY <2>2, <2>3, <3>1
  <2>5. disk[f] = text
    BY <2>1, <2>2, <2>3, <2>4, SeqEqual
  <2> QED BY <1>3, <2>5 DEF text
<1> QED BY <1>2, <1>3

LEMMA JunkTypes ==
  ASSUME NEW n \in Nat
  PROVE  Uninitialised(n) \subseteq Seq(Symbol)
<1> SUFFICES ASSUME NEW junk \in Uninitialised(n) PROVE junk \in Seq(Symbol)
  OBVIOUS
<1>1. PICK k \in 0 .. Smaller(n, MaxJunk) :
        junk \in IF k < n THEN {s \o <<NUL>> : s \in [1 .. k -> Symbol]}
                          ELSE [1 .. k -> Symbol]
  BY DEF Uninitialised
<1>2. k \in Nat
  BY FileAssumption DEF Smaller
<1>3. [1 .. k -> Symbol] \subseteq Seq(Symbol)
  BY <1>2
<1>4. <<NUL>> \in Seq(Symbol)
  BY TextAssumption
<1>5. \A s \in [1 .. k -> Symbol] : s \o <<NUL>> \in Seq(Symbol)
  BY <1>3, <1>4, ConcatProperties
<1> QED BY <1>1, <1>3, <1>5

LEMMA Filled == Uninitialised(0) = {<<>>}
<1>1. 0 .. Smaller(0, MaxJunk) = {0}
  BY FileAssumption DEF Smaller
<1>2. [1 .. 0 -> Symbol] = {<<>>}
  <2>1. 1 .. 0 = {}
    OBVIOUS
  <2>2. \A s \in [1 .. 0 -> Symbol] : s = <<>>
    BY <2>1
  <2>3. <<>> \in [1 .. 0 -> Symbol]
    BY <2>1
  <2> QED BY <2>2, <2>3
<1>3. ~(0 < 0)
  OBVIOUS
<1> QED BY <1>1, <1>2, <1>3 DEF Uninitialised

(* sys_size and sys_read: neither changes a file.                          *)
LEMMA ReaderKeeps ==
  ASSUME FileInv, NEW p \in Proc, stage[p] # "write", stage'[p] # "write",
         UNCHANGED <<disk, path, intent>>,
         \A q \in Proc : q # p => Keeps(q) /\ expect'[q] = expect[q]
  PROVE  /\ \A q \in Proc : q # p => ProcInv(q)'
         /\ \A f \in Path : PathInv(f)'
         /\ \A f \in Path : Busy(f, {"write"})' = Busy(f, {"write"})
<1>1. /\ FileTypes /\ (\A q \in Proc : ProcInv(q)) /\ (\A e \in Path : PathInv(e))
  BY DEF FileInv
<1>2. \A e \in Path : Busy(e, {"write"})' = Busy(e, {"write"})
  <2>1. ASSUME NEW e \in Path, NEW q \in Proc
        PROVE  q \in Busy(e, {"write"})' <=> q \in Busy(e, {"write"})
    BY DEF Busy, Keeps
  <2> QED BY <2>1 DEF Busy
<1>3. ASSUME NEW q \in Proc, q # p PROVE ProcInv(q)'
  <2>1. Keeps(q)
    BY <1>3
  <2>2. /\ stage[q] # "idle" => path[q] \in Path /\ disk[path[q]] # Absent
        /\ stage[q] \in {"size", "read"} /\ expect[q] # Unknown =>
             Busy(path[q], {"write"}) = {}
    BY <1>1 DEF ProcInv, Opened, Loads
  <2>3. stage[q] # "idle" => Busy(path[q], {"write"})' = Busy(path[q], {"write"})
    BY <1>2, <2>2
  <2> QED BY <1>1, <1>3, <2>1, <2>2, <2>3, ProcKeeps
<1>4. ASSUME NEW e \in Path PROVE PathInv(e)'
  <2>1. KeepsFile(e)
    BY DEF KeepsFile, Busy, Keeps
  <2> QED BY <1>1, <2>1, FileKeeps DEF PathInv, Created
<1> QED BY <1>2, <1>3, <1>4

LEMMA MeasureInv ==
  ASSUME FileInv, NEW p \in Proc, Measure(p)
  PROVE  FileInv'
<1>1. /\ FileTypes /\ (\A q \in Proc : ProcInv(q)) /\ (\A e \in Path : PathInv(e))
      /\ stage[p] = "size" /\ UNCHANGED <<disk, path, todo, pending, fileHistory>>
  BY DEF FileInv, Measure
<1>2. path[p] \in Path /\ disk[path[p]] \in Seq(Symbol) /\ Len(disk[path[p]]) \in Nat
  <2>1. path[p] \in Path /\ disk[path[p]] # Absent
    BY <1>1 DEF ProcInv, Opened
  <2> QED BY <1>1, <2>1, LenProperties DEF FileTypes
<1>3. /\ stage' \in [Proc -> {"idle", "size", "read", "write"}]
      /\ stage'[p] \in {"idle", "read"} /\ off' \in [Proc -> Nat]
  <2>1. /\ stage' \in [Proc -> {"idle", "size", "read", "write"}]
        /\ stage'[p] \in {"idle", "read"}
    BY <1>1 DEF FileTypes, Measure, Return
  <2>2. off' \in [Proc -> Nat]
    <3>1. \E n \in Nat : off' = [off EXCEPT ![p] = n]
      BY <1>2 DEF Measure, Return
    <3> QED BY <1>1, <3>1 DEF FileTypes
  <2> QED BY <2>1, <2>2
<1>4. FileTypes'
  <2>1. ferr' \in [Proc -> FileErrors \cup {"ok"}] /\ group' \in [Proc -> Group]
    <3>1. ferr' = ferr \/ ferr' = [ferr EXCEPT ![p] = "EIO"]
      BY DEF Measure, Return
    <3>2. group' = group \/ group' = [group EXCEPT ![p] = <<>>]
      BY DEF Measure, Return
    <3>3. ferr' \in [Proc -> FileErrors \cup {"ok"}]
      BY <1>1, <3>1 DEF FileTypes, FileErrors
    <3>4. group \in [Proc -> Group] /\ <<>> \in Group
      BY <1>1, Markers DEF FileTypes
    <3>5. group' \in [Proc -> Group]
      BY <3>2, <3>4
    <3> QED BY <3>3, <3>5
  <2> QED BY <1>1, <1>3, <2>1 DEF FileTypes, fileHistory
<1>5. \A q \in Proc : q # p => Keeps(q) /\ expect'[q] = expect[q]
  BY <1>1 DEF FileTypes, Measure, Return, fileHistory, Keeps
<1>6. /\ \A q \in Proc : q # p => ProcInv(q)'
      /\ \A f \in Path : PathInv(f)'
      /\ \A f \in Path : Busy(f, {"write"})' = Busy(f, {"write"})
  BY <1>1, <1>3, <1>5, ReaderKeeps DEF fileHistory
<1>7. ProcInv(p)'
  <2>1. Opened(p)' /\ Writes(p)'
    BY <1>1, <1>3 DEF ProcInv, Opened, Writes
  <2>2. expect[p] # Unknown => expect[p] = intent[path[p]] /\ Busy(path[p], {"write"}) = {}
    BY <1>1 DEF ProcInv, Loads
  <2>3. Loads(p)'
    <3>1. stage'[p] = "read" => off'[p] = Len(disk[path[p]])
      BY <1>1 DEF Measure, Return, FileTypes
    <3>2. Busy(path[p], {"write"})' = Busy(path[p], {"write"})
      BY <1>1, <1>2, <1>6
    <3> QED BY <1>1, <1>3, <2>2, <3>1, <3>2 DEF Loads, fileHistory
  <2>4. Answered(p)'
    <3>1. stage'[p] = "idle" => ferr'[p] = "EIO"
      BY <1>1 DEF Measure, Return, FileTypes
    <3>2. expect'[p] = Absent => disk[path[p]] = Absent
      BY <1>1, <1>2, <2>2, Markers DEF PathInv, Created, fileHistory
    <3>3. expect'[p] # Absent
      BY <1>2, <3>2, Markers
    <3> QED BY <3>1, <3>3 DEF Answered
  <2> QED BY <2>1, <2>3, <2>4 DEF ProcInv
<1> QED BY <1>4, <1>6, <1>7 DEF FileInv

LEMMA ReadInv ==
  ASSUME FileInv, NEW p \in Proc, Read(p)
  PROVE  FileInv'
<1> DEFINE f == path[p]
           all == Smaller(off[p], Len(disk[f]))
           Got(n, junk) == Loaded(UpTo(disk[f], n) \o junk)
<1>1. /\ FileTypes /\ (\A q \in Proc : ProcInv(q)) /\ (\A e \in Path : PathInv(e))
      /\ stage[p] = "read" /\ UNCHANGED <<disk, path, todo, pending, intent, lost>>
  BY DEF FileInv, Read
<1>2. f \in Path /\ disk[f] \in Seq(Symbol) /\ Len(disk[f]) \in Nat /\ off[p] \in Nat
  <2>1. f \in Path /\ disk[f] # Absent
    BY <1>1 DEF ProcInv, Opened
  <2> QED BY <1>1, <2>1, LenProperties DEF FileTypes
<1>3. \/ \E n \in 0 .. all : \E junk \in Uninitialised(off[p] - n) :
           /\ Return(p, Got(n, junk).err, Got(n, junk).group)
           /\ expect' = IF n = all THEN expect ELSE [expect EXCEPT ![p] = Unknown]
      \/ Return(p, "EIO", <<>>) /\ UNCHANGED expect
  BY DEF Read
<1>4. \E e \in FileErrors \cup {"ok"}, result \in Group : Return(p, e, result)
  <2>1. CASE Return(p, "EIO", <<>>)
    BY <2>1, Markers DEF FileErrors
  <2>2. CASE ~Return(p, "EIO", <<>>)
    <3>1. PICK n \in 0 .. all : \E junk \in Uninitialised(off[p] - n) :
                 Return(p, Got(n, junk).err, Got(n, junk).group)
      BY <1>3, <2>2
    <3>2. PICK junk \in Uninitialised(off[p] - n) :
                 Return(p, Got(n, junk).err, Got(n, junk).group)
      BY <3>1
    <3>3. Got(n, junk).err \in FileErrors \cup {"ok"}
      BY LoadedErr DEF FileErrors
    <3>4. UpTo(disk[f], n) \in Seq(Symbol) /\ junk \in Seq(Symbol)
      <4>1. n \in 0 .. Len(disk[f]) /\ off[p] - n \in Nat
        BY <1>2 DEF Smaller
      <4> QED BY <1>2, <4>1, Split, JunkTypes
    <3>5. Got(n, junk).group \in Group
      BY <3>4, ConcatProperties, LoadedTypes
    <3> QED BY <3>2, <3>3, <3>5
  <2> QED BY <2>1, <2>2
<1>5. expect' = expect \/ expect' = [expect EXCEPT ![p] = Unknown]
  BY <1>3
<1>6. stage'[p] = "idle"
  BY <1>1, <1>4 DEF Return, FileTypes
<1>7. FileTypes'
  <2>1. stage' \in [Proc -> {"idle", "size", "read", "write"}] /\ off' \in [Proc -> Nat]
    BY <1>1, <1>4 DEF FileTypes, Return
  <2>2. ferr' \in [Proc -> FileErrors \cup {"ok"}]
    BY <1>1, <1>4 DEF FileTypes, Return
  <2>4. group' \in [Proc -> Group]
    BY <1>1, <1>4 DEF FileTypes, Return
  <2>3. expect' \in [Proc -> Group \cup {Absent, Unknown}]
    BY <1>1, <1>5 DEF FileTypes
  <2> QED BY <1>1, <2>1, <2>2, <2>3, <2>4 DEF FileTypes
<1>8. \A q \in Proc : q # p => Keeps(q) /\ expect'[q] = expect[q]
  BY <1>1, <1>4, <1>5 DEF FileTypes, Return, Keeps
<1>9. (\A q \in Proc : q # p => ProcInv(q)') /\ (\A e \in Path : PathInv(e)')
  BY <1>1, <1>6, <1>8, ReaderKeeps
<1>10. ProcInv(p)'
  <2>1. Opened(p)' /\ Writes(p)' /\ Loads(p)'
    BY <1>6 DEF Opened, Writes, Loads
  <2>2. SUFFICES ASSUME expect'[p] # Unknown PROVE Answered(p)'
    BY <2>1 DEF ProcInv, Answered
  <2>3. /\ expect'[p] = expect[p] /\ expect[p] # Unknown
        /\ expect[p] = intent[f] /\ Busy(f, {"write"}) = {} /\ off[p] = Len(disk[f])
    BY <1>1, <1>5, <2>2 DEF ProcInv, Loads, FileTypes
  <2>4. expect[p] # Absent /\ disk[f] = Text(expect[p])
    <3>1. expect[p] # Absent
      BY <1>1, <1>2, <2>3, Markers DEF PathInv, Created
    <3> QED BY <1>2, <2>3, <3>1, FileInvHolds DEF FileHoldsTheSave
  <2>5. CASE Return(p, "EIO", <<>>)
    <3>1. ferr'[p] = "EIO"
      BY <1>1, <2>5 DEF Return, FileTypes
    <3> QED BY <2>3, <2>4, <3>1 DEF Answered
  <2>6. CASE ~Return(p, "EIO", <<>>)
    <3>1. PICK n \in 0 .. all : \E junk \in Uninitialised(off[p] - n) :
            /\ Return(p, Got(n, junk).err, Got(n, junk).group)
            /\ expect' = IF n = all THEN expect ELSE [expect EXCEPT ![p] = Unknown]
      BY <1>3, <2>6
    <3>2. n = all
      BY <1>1, <2>2, <3>1 DEF FileTypes
    <3>3. all = Len(disk[f]) /\ off[p] - n = 0
      BY <1>2, <2>3, <3>2 DEF Smaller
    <3>4. Return(p, Got(n, <<>>).err, Got(n, <<>>).group)
      BY <3>1, <3>3, Filled
    <3>5. UpTo(disk[f], n) \o <<>> = disk[f]
      BY <1>2, <3>2, <3>3, SubSeqFull, ConcatEmptySeq DEF UpTo
    <3>6. /\ ferr'[p] = Loaded(Text(expect[p])).err
          /\ group'[p] = Loaded(Text(expect[p])).group
      BY <1>1, <2>4, <3>4, <3>5 DEF Return, FileTypes
    <3> QED BY <2>3, <2>4, <3>6 DEF Answered
  <2> QED BY <2>5, <2>6
<1> QED BY <1>7, <1>9, <1>10 DEF FileInv

-----------------------------------------------------------------------------
(* A writer's steps: what is not its own, and not its file's, stays.       *)
LEMMA WriterKeeps ==
  ASSUME FileInv, NEW p \in Proc, stage[p] = "write",
         stage'[p] \in {"write", "idle"}, UNCHANGED path,
         \A q \in Proc : q # p => Keeps(q) /\ expect'[q] = expect[q],
         \A e \in Path : e # path[p] => disk'[e] = disk[e] /\ intent'[e] = intent[e],
         disk'[path[p]] # Absent, intent'[path[p]] \in {intent[path[p]], Unknown}
  PROVE  /\ \A q \in Proc : q # p => ProcInv(q)'
         /\ \A e \in Path : Created(e)' /\ (e # path[p] => Covered(e)')
<1> DEFINE f == path[p]
<1>1. /\ FileTypes /\ (\A q \in Proc : ProcInv(q)) /\ (\A e \in Path : PathInv(e))
      /\ f \in Path /\ disk[f] # Absent
  BY DEF FileInv, ProcInv, Opened
<1>2. p \in Busy(f, {"write"})
  BY DEF Busy
<1>3. \A e \in Path : e # f => Busy(e, {"write"})' = Busy(e, {"write"})
  <2>1. ASSUME NEW e \in Path, NEW q \in Proc, e # f
        PROVE  q \in Busy(e, {"write"})' <=> q \in Busy(e, {"write"})
    BY <2>1 DEF Busy, Keeps
  <2> QED BY <2>1 DEF Busy
<1>4. ASSUME NEW q \in Proc, q # p PROVE ProcInv(q)'
  <2>1. Keeps(q) /\ expect'[q] = expect[q] /\ path'[q] = path[q]
    BY <1>4
  <2>2. stage[q] # "idle" => path[q] \in Path /\ disk[path[q]] # Absent
    BY <1>1 DEF ProcInv, Opened
  <2>3. stage[q] # "idle" =>
          intent'[path[q]] \in {intent[path[q]], Unknown} /\ disk'[path[q]] # Absent
    BY <2>1, <2>2
  <2>4. stage[q] \in {"size", "read"} /\ expect'[q] # Unknown =>
          /\ intent'[path[q]] = intent[path[q]] /\ disk'[path[q]] = disk[path[q]]
          /\ Busy(path[q], {"write"})' = {}
    <3>1. SUFFICES ASSUME stage[q] \in {"size", "read"}, expect'[q] # Unknown
                   PROVE  /\ intent'[path[q]] = intent[path[q]]
                          /\ disk'[path[q]] = disk[path[q]]
                          /\ Busy(path[q], {"write"})' = {}
      OBVIOUS
    <3>2. Busy(path[q], {"write"}) = {} /\ path[q] \in Path
      BY <1>1, <2>1, <2>2, <3>1 DEF ProcInv, Loads
    <3>3. path[q] # f
      BY <1>2, <3>2
    <3> QED BY <1>3, <2>1, <3>2, <3>3
  <2> QED BY <1>1, <2>1, <2>3, <2>4, ProcKeeps
<1>5. ASSUME NEW e \in Path, e # f PROVE Covered(e)' /\ Created(e)'
  <2>1. KeepsFile(e)
    BY <1>5 DEF KeepsFile, Busy, Keeps
  <2> QED BY <1>1, <1>5, <2>1, FileKeeps DEF PathInv, Created
<1>6. Created(f)'
  <2>1. intent[f] # Absent /\ Unknown # Absent
    BY <1>1, Markers DEF PathInv, Created
  <2>2. intent'[f] # Absent
    BY <2>1
  <2> QED BY <2>2 DEF Created
<1> QED BY <1>4, <1>5, <1>6

(* A flush of what the text holds there.                                   *)
LEMMA Flushed ==
  ASSUME FileInv, NEW p \in Proc, stage[p] = "write",
         NEW chunk \in Seq(Symbol), NEW n \in 0 .. Len(chunk), Flush(p, chunk, n),
         intent[path[p]] # Unknown => HoldsAt(Text(intent[path[p]]), off[p], chunk)
  PROVE  /\ disk' \in [Path -> Seq(Symbol) \cup {Absent}] /\ disk'[path[p]] # Absent
         /\ \A e \in Path : e # path[p] => disk'[e] = disk[e] /\ intent'[e] = intent[e]
         /\ intent' \in [Path -> Group \cup {Absent, Unknown}]
         /\ intent'[path[p]] \in {intent[path[p]], Unknown}
         /\ lost' \in [Proc -> BOOLEAN]
         /\ n # Len(chunk) => intent'[path[p]] = Unknown
         /\ intent'[path[p]] # Unknown =>
              LET text == Text(intent[path[p]]) IN
              /\ Len(disk'[path[p]]) <= Len(text)
              /\ \A i \in 1 .. Len(text) :
                   \/ i <= Len(disk'[path[p]]) /\ disk'[path[p]][i] = text[i]
                   \/ /\ \E q \in Busy(path[p], {"write"}) : off[q] < i
                      /\ i \notin off[p] + 1 .. off[p] + Len(chunk)
<1> DEFINE f == path[p]
<1>1. /\ FileTypes /\ f \in Path /\ disk[f] \in Seq(Symbol) /\ off[p] \in Nat
      /\ Covered(f) /\ Created(f)
  <2>1. FileTypes /\ f \in Path /\ disk[f] # Absent
    BY DEF FileInv, ProcInv, Opened
  <2> QED BY <2>1 DEF FileInv, PathInv, FileTypes
<1>2. UpTo(chunk, n) \in Seq(Symbol) /\ UpTo(chunk, Len(chunk)) = chunk
  BY Split
<1>3. Overlay(disk[f], off[p], UpTo(chunk, n)) \in Seq(Symbol)
  BY <1>1, <1>2, Overlaid
<1>4. disk' = [disk EXCEPT ![f] = Overlay(disk[f], off[p], UpTo(chunk, n))]
  BY DEF Flush
<1>5. /\ disk' \in [Path -> Seq(Symbol) \cup {Absent}]
      /\ disk'[f] = Overlay(disk[f], off[p], UpTo(chunk, n)) /\ disk'[f] # Absent
      /\ \A e \in Path : e # f => disk'[e] = disk[e]
  BY <1>1, <1>3, <1>4, Markers DEF FileTypes
<1>6. \/ n = Len(chunk) /\ intent' = intent /\ lost' = lost
      \/ /\ n # Len(chunk) /\ intent' = [intent EXCEPT ![f] = Unknown]
         /\ lost' = [lost EXCEPT ![p] = TRUE]
  BY DEF Flush
<1>7. /\ \A e \in Path : e # f => intent'[e] = intent[e]
      /\ intent' \in [Path -> Group \cup {Absent, Unknown}]
      /\ intent'[f] \in {intent[f], Unknown} /\ lost' \in [Proc -> BOOLEAN]
      /\ n # Len(chunk) => intent'[f] = Unknown
  BY <1>1, <1>6 DEF FileTypes
<1>8. ASSUME intent'[f] # Unknown
      PROVE  LET text == Text(intent[f]) IN
             /\ Len(disk'[f]) <= Len(text)
             /\ \A i \in 1 .. Len(text) :
                  \/ i <= Len(disk'[f]) /\ disk'[f][i] = text[i]
                  \/ /\ \E q \in Busy(f, {"write"}) : off[q] < i
                     /\ i \notin off[p] + 1 .. off[p] + Len(chunk)
  <2> DEFINE text == Text(intent[f])
             C == {i \in Nat : \E q \in Busy(f, {"write"}) : off[q] < i}
  <2>1. intent'[f] = intent[f] /\ intent[f] # Unknown /\ n = Len(chunk)
    BY <1>7, <1>8
  <2>2. intent[f] \in Group /\ text \in Seq(Symbol) /\ Len(text) \in Nat
    <3>1. intent[f] # Absent
      BY <1>1, Markers DEF Created
    <3> QED BY <1>1, <2>1, <3>1, TextHead DEF FileTypes
  <2>3. /\ Len(disk[f]) <= Len(text)
        /\ \A i \in 1 .. Len(text) : (i <= Len(disk[f]) /\ disk[f][i] = text[i]) \/ i \in C
    BY <1>1, <2>1, <2>2, Markers DEF Covered
  <2>4. disk'[f] = Overlay(disk[f], off[p], chunk)
    BY <1>2, <1>5, <2>1
  <2>5. HoldsAt(text, off[p], chunk)
    BY <2>1
  <2> HIDE DEF text, C
  <2>6. /\ Len(disk'[f]) <= Len(text)
        /\ \A i \in 1 .. Len(text) :
             \/ i <= Len(disk'[f]) /\ disk'[f][i] = text[i]
             \/ i \in C /\ i \notin off[p] + 1 .. off[p] + Len(chunk)
    BY ZenonT(30), <1>1, <2>2, <2>3, <2>4, <2>5, FlushCovers
  <2> QED BY <2>6 DEF C, text
<1> QED BY <1>5, <1>7, <1>8

(* A line goes into the buffer, as a whole or in two parts, the first of   *)
(* which fills the buffer that is flushed.                                 *)
LEMMA LineMoves ==
  ASSUME NEW text \in Seq(Symbol), NEW n \in Nat, NEW s \in Seq(Symbol),
         NEW first \in Seq(Symbol), NEW left \in Seq(Symbol), NEW rest \in Seq(Symbol),
         EndsWith(text, n, s, (first \o left) \o rest)
  PROVE  HoldsAt(text, n, s \o first) /\ EndsWith(text, n + Len(s \o first), left, rest)
<1> DEFINE line == first \o left
           full == s \o first
<1>0. /\ HoldsAt(text, n, s) /\ HoldsAt(text, n + Len(s), line \o rest)
      /\ Len(text) = n + Len(s) + Len(line \o rest)
  BY DEF EndsWith
<1>1. /\ Len(s) \in Nat /\ Len(first) \in Nat /\ Len(left) \in Nat /\ Len(rest) \in Nat
      /\ line \in Seq(Symbol) /\ Len(line) = Len(first) + Len(left)
      /\ Len(full) = Len(s) + Len(first)
  BY LenProperties, ConcatProperties
<1>2. HoldsAt(text, n + Len(s), line) /\ HoldsAt(text, (n + Len(s)) + Len(line), rest)
      /\ Len(line \o rest) = Len(line) + Len(rest)
  <2>1. n + Len(s) \in Nat
    BY <1>1
  <2> HIDE DEF line
  <2> QED BY ZenonT(30), <1>0, <1>1, <2>1, HoldsConcat, ConcatProperties
<1>3. HoldsAt(text, n + Len(s), first) /\ HoldsAt(text, (n + Len(s)) + Len(first), left)
  <2>1. n + Len(s) \in Nat
    BY <1>1
  <2> QED BY <1>2, <2>1, HoldsConcat
<1>4. HoldsAt(text, n, full)
  BY <1>0, <1>3, HoldsConcat
<1> HIDE DEF line, full
<1>6. /\ n + Len(full) = (n + Len(s)) + Len(first)
      /\ n + Len(full) + Len(left) = (n + Len(s)) + Len(line)
      /\ Len(text) = n + Len(full) + Len(left) + Len(rest)
  BY <1>0, <1>1, <1>2
<1>7. /\ HoldsAt(text, n, full) /\ HoldsAt(text, n + Len(full), left)
      /\ HoldsAt(text, n + Len(full) + Len(left), rest)
      /\ Len(text) = n + Len(full) + Len(left) + Len(rest)
  BY <1>2, <1>3, <1>4, <1>6
<1> QED BY <1>7 DEF full, EndsWith

LEMMA LineFits ==
  ASSUME NEW text \in Seq(Symbol), NEW n \in Nat, NEW s \in Seq(Symbol),
         NEW line \in Seq(Symbol), NEW rest \in Seq(Symbol),
         EndsWith(text, n, s, line \o rest)
  PROVE  EndsWith(text, n, s \o line, rest)
<1> DEFINE whole == s \o line
<1>1. line \o <<>> = line /\ <<>> \in Seq(Symbol) /\ Len(<<>>) = 0
  BY Markers, ConcatEmptySeq
<1>2. EndsWith(text, n, s, (line \o <<>>) \o rest)
  BY <1>1
<1>3. HoldsAt(text, n, whole) /\ EndsWith(text, n + Len(whole), <<>>, rest)
  BY <1>1, <1>2, LineMoves
<1>4. Len(whole) \in Nat
  BY ConcatProperties, LenProperties
<1> HIDE DEF whole
<1>5. (n + Len(whole)) + Len(<<>>) = n + Len(whole)
  BY <1>1, <1>4
<1>6. EndsWith(text, n, whole, rest)
  BY <1>3, <1>5 DEF EndsWith
<1> QED BY <1>6 DEF whole

LEMMA WriteLineInv ==
  ASSUME FileInv, NEW p \in Proc, WriteLine(p)
  PROVE  FileInv'
<1> DEFINE f == path[p]
           line == Line(Head(todo[p]))
           room == Room(p)
           full == pending[p] \o UpTo(line, room)
           left == From(line, room + 1)
           text == Text(intent[f])
           rest == Text(Tail(todo[p]))
<1>1. /\ FileTypes /\ (\A q \in Proc : ProcInv(q)) /\ (\A e \in Path : PathInv(e))
      /\ stage[p] = "write" /\ todo[p] # <<>> /\ UNCHANGED <<stage, path, group, expect>>
      /\ todo' = [todo EXCEPT ![p] = Tail(@)]
  BY DEF FileInv, WriteLine
<1>2. /\ f \in Path /\ disk[f] \in Seq(Symbol) /\ intent[f] # Absent
      /\ expect[p] = Unknown
  <2>1. f \in Path /\ disk[f] # Absent /\ expect[p] = Unknown
    BY <1>1 DEF ProcInv, Opened, Loads
  <2> QED BY <1>1, <2>1 DEF FileTypes, PathInv, Created
<1>3. /\ todo[p] \in Group /\ Tail(todo[p]) \in Group
      /\ line \in Seq(Symbol) /\ Len(line) \in Nat /\ Len(line) <= LineMax
      /\ Text(todo[p]) = line \o rest /\ rest \in Seq(Symbol)
      /\ pending[p] \in Seq(Symbol) /\ Len(pending[p]) \in Nat /\ off[p] \in Nat
  <2>1. todo[p] \in Group /\ pending[p] \in Seq(Symbol) /\ off[p] \in Nat
    BY <1>1 DEF FileTypes
  <2>2. Tail(todo[p]) \in Group /\ Head(todo[p]) \in [key : Seq(Symbol), value : Seq(Symbol)]
    BY <1>1, <2>1, HeadTailProperties DEF Group
  <2> QED BY <1>1, <2>1, <2>2, LineTypes, TextHead, LenProperties
<1>4. room \in Nat /\ room = StdioBuf - Len(pending[p]) /\ room <= StdioBuf
  BY <1>1, <1>3, Markers DEF Room, FileTypes
<1>5. ASSUME intent[f] # Unknown
      PROVE  /\ text \in Seq(Symbol)
             /\ EndsWith(text, off[p], pending[p], line \o rest)
  <2>1. intent[f] \in Group
    BY <1>1, <1>2, <1>5 DEF FileTypes
  <2> QED BY <1>1, <1>3, <1>5, <2>1, TextHead DEF ProcInv, Writes
<1>6. todo' \in [Proc -> Group] /\ todo'[p] = Tail(todo[p])
  BY <1>1, <1>3 DEF FileTypes
<1>7. \/ /\ Len(line) <= room
         /\ pending' = [pending EXCEPT ![p] = pending[p] \o line]
         /\ ferr' = [ferr EXCEPT ![p] = "ok"]
         /\ UNCHANGED <<disk, off, intent, lost>>
      \/ /\ Len(line) > room
         /\ \E n \in 0 .. Len(full) :
              /\ Flush(p, full, n) /\ off' = [off EXCEPT ![p] = off[p] + n]
              /\ pending' = [pending EXCEPT ![p] = IF n = Len(full) THEN left ELSE <<>>]
              /\ ferr' = [ferr EXCEPT ![p] =
                            IF n < Len(full) /\ room = 0 THEN "ENOSPC" ELSE "ok"]
  BY DEF WriteLine
<1>8. /\ ferr' \in [Proc -> FileErrors \cup {"ok"}]
      /\ \A q \in Proc : q # p => Keeps(q) /\ expect'[q] = expect[q]
  BY <1>1, <1>7 DEF FileTypes, FileErrors, Keeps
<1> HIDE DEF line, room, full, left, rest
<1>9. CASE Len(line) <= room
  <2> DEFINE whole == pending[p] \o line
  <2>1. UNCHANGED <<disk, off, intent, lost>> /\ pending' = [pending EXCEPT ![p] = whole]
    BY <1>3, <1>4, <1>7, <1>9
  <2>2. whole \in Seq(Symbol) /\ Len(whole) = Len(pending[p]) + Len(line)
    BY <1>3, ConcatProperties
  <2> HIDE DEF whole
  <2>3. /\ pending' \in [Proc -> Seq(Symbol)] /\ pending'[p] = whole
        /\ \A q \in Proc : Len(pending'[q]) <= StdioBuf
    <3>1. Len(whole) <= StdioBuf
      BY <1>3, <1>4, <1>9, <2>2, Markers
    <3> QED BY <1>1, <2>1, <2>2, <3>1 DEF FileTypes
  <2>4. FileTypes'
    BY <1>1, <1>6, <1>8, <2>1, <2>3 DEF FileTypes
  <2>5. /\ \A q \in Proc : q # p => ProcInv(q)'
        /\ \A e \in Path : Created(e)' /\ (e # f => Covered(e)')
    BY <1>1, <1>2, <1>8, <2>1, Markers, WriterKeeps
  <2>6. Writes(p)'
    <3>1. SUFFICES ASSUME intent[f] # Unknown
                   PROVE  EndsWith(text, off[p], whole, rest)
      BY <1>1, <1>6, <2>1, <2>3 DEF Writes, rest
    <3> HIDE DEF text
    <3> QED BY <1>3, <1>5, <3>1, LineFits DEF whole
  <2>7. ProcInv(p)'
    BY <1>1, <1>2, <2>1, <2>6, Markers DEF ProcInv, Opened, Loads, Answered
  <2>8. Covered(f)'
    <3>1. KeepsFile(f)
      BY <1>1, <2>1 DEF KeepsFile
    <3> QED BY <1>1, <1>2, <3>1, FileKeeps DEF PathInv
  <2>9. \A e \in Path : PathInv(e)'
    BY <1>1, <2>5, <2>8 DEF PathInv
  <2> QED BY <2>4, <2>5, <2>7, <2>9 DEF FileInv
<1>10. CASE Len(line) > room
  <2>1. PICK n \in 0 .. Len(full) :
          /\ Flush(p, full, n) /\ off' = [off EXCEPT ![p] = off[p] + n]
          /\ pending' = [pending EXCEPT ![p] = IF n = Len(full) THEN left ELSE <<>>]
    BY <1>3, <1>4, <1>7, <1>10
  <2>2. /\ full \in Seq(Symbol) /\ Len(full) \in Nat
        /\ left \in Seq(Symbol) /\ Len(left) = Len(line) - room
    <3>1. room \in 0 .. Len(line)
      BY <1>3, <1>4, <1>10
    <3> QED BY <1>3, <3>1, Split, ConcatProperties, LenProperties DEF full, left
  <2>3. ASSUME intent[f] # Unknown
        PROVE  HoldsAt(text, off[p], full) /\ EndsWith(text, off[p] + Len(full), left, rest)
    <3> DEFINE first == UpTo(line, room)
    <3>1. first \in Seq(Symbol) /\ left \in Seq(Symbol) /\ first \o left = line
      <4>1. room \in 0 .. Len(line)
        BY <1>3, <1>4, <1>10
      <4> QED BY <1>3, <4>1, Split DEF left
    <3> HIDE DEF text, first
    <3>2. EndsWith(text, off[p], pending[p], (first \o left) \o rest)
      BY <1>5, <2>3, <3>1
    <3>3. full = pending[p] \o first
      BY DEF full, first
    <3> QED BY <1>3, <1>5, <2>3, <3>1, <3>2, <3>3, LineMoves
  <2>4. /\ disk' \in [Path -> Seq(Symbol) \cup {Absent}] /\ disk'[f] # Absent
        /\ \A e \in Path : e # f => disk'[e] = disk[e] /\ intent'[e] = intent[e]
        /\ intent' \in [Path -> Group \cup {Absent, Unknown}]
        /\ intent'[f] \in {intent[f], Unknown}
        /\ lost' \in [Proc -> BOOLEAN]
        /\ n # Len(full) => intent'[f] = Unknown
        /\ intent'[f] # Unknown =>
             /\ Len(disk'[f]) <= Len(text)
             /\ \A i \in 1 .. Len(text) :
                  \/ i <= Len(disk'[f]) /\ disk'[f][i] = text[i]
                  \/ /\ \E q \in Busy(f, {"write"}) : off[q] < i
                     /\ i \notin off[p] + 1 .. off[p] + Len(full)
    BY <1>1, <2>1, <2>2, <2>3, Flushed
  <2>5. /\ off' \in [Proc -> Nat] /\ off'[p] = off[p] + n
        /\ pending' \in [Proc -> Seq(Symbol)]
        /\ n = Len(full) => pending'[p] = left
        /\ \A q \in Proc : Len(pending'[q]) <= StdioBuf
    <3>1. Len(left) <= StdioBuf /\ Len(<<>>) = 0 /\ n \in Nat
      BY SMTT(30), <1>3, <1>4, <2>2, Markers
    <3>2. PICK buffer \in {left, <<>>} :
            pending' = [pending EXCEPT ![p] = buffer] /\ (n = Len(full) => buffer = left)
      BY <2>1
    <3>3. buffer \in Seq(Symbol) /\ Len(buffer) <= StdioBuf
      <4>1. CASE buffer = left
        BY <2>2, <3>1, <4>1
      <4>2. CASE buffer = <<>>
        BY <3>1, <4>2, Markers
      <4> QED BY <3>2, <4>1, <4>2
    <3>4. off' \in [Proc -> Nat] /\ off'[p] = off[p] + n
      BY <1>1, <1>3, <2>1, <3>1 DEF FileTypes
    <3> QED BY <1>1, <3>2, <3>3, <3>4 DEF FileTypes
  <2>6. FileTypes'
    BY <1>1, <1>6, <1>8, <2>4, <2>5 DEF FileTypes
  <2>7. /\ \A q \in Proc : q # p => ProcInv(q)'
        /\ \A e \in Path : Created(e)' /\ (e # f => Covered(e)')
    <3> HIDE DEF text
    <3> QED BY <1>1, <1>8, <2>4, WriterKeeps
  <2>8. ProcInv(p)'
    <3>1. Writes(p)'
      <4>1. SUFFICES ASSUME intent'[f] # Unknown
                     PROVE  Writes(p)'
        BY <1>1 DEF Writes
      <4>2. intent'[f] = intent[f] /\ n = Len(full) /\ intent[f] # Unknown
        BY <2>4, <4>1
      <4> QED BY <1>1, <1>6, <2>3, <2>5, <4>2 DEF Writes, rest
    <3> QED BY <1>1, <1>2, <2>4, <3>1 DEF ProcInv, Opened, Loads, Answered
  <2>9. Covered(f)'
    <3>1. SUFFICES ASSUME intent'[f] # Unknown PROVE Covered(f)'
      BY <1>1 DEF Covered
    <3>2. intent'[f] = intent[f] /\ n = Len(full) /\ Len(text) \in Nat
      BY <1>5, <2>4, <3>1, LenProperties
    <3>3. ASSUME NEW i \in 1 .. Len(text), NEW q \in Busy(f, {"write"}), off[q] < i,
                 i \notin off[p] + 1 .. off[p] + Len(full)
          PROVE  q \in Busy(f, {"write"})' /\ off'[q] < i
      <4>1. q \in Busy(f, {"write"})'
        BY <1>1 DEF Busy
      <4>2. CASE q = p
        <5>1. off[p] + Len(full) < i
          BY <1>3, <2>2, <3>2, <3>3, <4>2
        <5> QED BY <2>5, <3>2, <4>1, <4>2, <5>1
      <4>3. CASE q # p
        BY <1>8, <3>3, <4>1, <4>3 DEF Keeps, Busy
      <4> QED BY <4>2, <4>3
    <3>4. \A i \in 1 .. Len(text) :
            \/ i <= Len(disk'[f]) /\ disk'[f][i] = text[i]
            \/ \E q \in Busy(f, {"write"})' : off'[q] < i
      BY <2>4, <3>1, <3>3
    <3> QED BY <1>1, <2>4, <3>1, <3>2, <3>4 DEF Covered
  <2>10. \A e \in Path : PathInv(e)'
    BY <1>1, <2>7, <2>9 DEF PathInv
  <2> QED BY <2>6, <2>7, <2>8, <2>10 DEF FileInv
<1> QED BY <1>3, <1>4, <1>9, <1>10

LEMMA CloseInv ==
  ASSUME FileInv, NEW p \in Proc, Close(p)
  PROVE  FileInv'
<1> DEFINE f == path[p]
           text == Text(intent[f])
<1>1. /\ FileTypes /\ (\A q \in Proc : ProcInv(q)) /\ (\A e \in Path : PathInv(e))
      /\ stage[p] = "write" /\ todo[p] = <<>> /\ UNCHANGED <<path, todo, expect>>
      /\ Return(p, ferr[p], <<>>) /\ pending' = [pending EXCEPT ![p] = <<>>]
  BY DEF FileInv, Close
<1>2. /\ f \in Path /\ intent[f] # Absent /\ expect[p] = Unknown
      /\ pending[p] \in Seq(Symbol) /\ Len(pending[p]) \in Nat /\ off[p] \in Nat
  <2>1. f \in Path /\ disk[f] # Absent /\ expect[p] = Unknown
    BY <1>1 DEF ProcInv, Opened, Loads
  <2> QED BY <1>1, <2>1, LenProperties DEF FileTypes, PathInv, Created
<1>3. PICK n \in 0 .. Len(pending[p]) : Flush(p, pending[p], n)
  BY DEF Close
<1>4. ASSUME intent[f] # Unknown
      PROVE  /\ HoldsAt(text, off[p], pending[p]) /\ Len(text) \in Nat
             /\ Len(text) = off[p] + Len(pending[p])
  <2>1. intent[f] \in Group /\ Text(<<>>) = <<>> /\ Len(<<>>) = 0
    BY <1>1, <1>2, <1>4, Markers, TextHead DEF FileTypes
  <2>2. EndsWith(text, off[p], pending[p], <<>>) /\ Len(text) \in Nat
    BY <1>1, <1>4, <2>1, TextHead DEF ProcInv, Writes
  <2> HIDE DEF text
  <2> QED BY <1>2, <2>1, <2>2 DEF EndsWith
<1>5. /\ disk' \in [Path -> Seq(Symbol) \cup {Absent}] /\ disk'[f] # Absent
      /\ \A e \in Path : e # f => disk'[e] = disk[e] /\ intent'[e] = intent[e]
      /\ intent' \in [Path -> Group \cup {Absent, Unknown}]
      /\ intent'[f] \in {intent[f], Unknown} /\ lost' \in [Proc -> BOOLEAN]
      /\ intent'[f] # Unknown =>
           /\ Len(disk'[f]) <= Len(text)
           /\ \A i \in 1 .. Len(text) :
                \/ i <= Len(disk'[f]) /\ disk'[f][i] = text[i]
                \/ /\ \E q \in Busy(f, {"write"}) : off[q] < i
                   /\ i \notin off[p] + 1 .. off[p] + Len(pending[p])
  BY <1>1, <1>2, <1>3, <1>4, Flushed
<1>6. /\ stage'[p] = "idle"
      /\ \A q \in Proc : q # p => Keeps(q) /\ expect'[q] = expect[q]
  BY <1>1 DEF Return, FileTypes, Keeps
<1>7. FileTypes'
  <2>1. stage' \in [Proc -> {"idle", "size", "read", "write"}] /\ off' \in [Proc -> Nat]
    BY <1>1 DEF FileTypes, Return
  <2>2. ferr' \in [Proc -> FileErrors \cup {"ok"}]
    BY <1>1 DEF FileTypes, Return
  <2>3. group' \in [Proc -> Group]
    BY <1>1, Markers DEF FileTypes, Return
  <2>4. /\ pending' \in [Proc -> Seq(Symbol)]
        /\ \A q \in Proc : Len(pending'[q]) <= StdioBuf
    BY <1>1, Markers, EmptySeq DEF FileTypes
  <2> QED BY <1>1, <1>5, <2>1, <2>2, <2>3, <2>4 DEF FileTypes
<1>8. /\ \A q \in Proc : q # p => ProcInv(q)'
      /\ \A e \in Path : Created(e)' /\ (e # f => Covered(e)')
  <2> HIDE DEF text
  <2> QED BY <1>1, <1>5, <1>6, WriterKeeps
<1>9. ProcInv(p)'
  BY <1>1, <1>2, <1>6 DEF ProcInv, Opened, Writes, Loads, Answered
<1>10. Covered(f)'
  <2>1. SUFFICES ASSUME intent'[f] # Unknown PROVE Covered(f)'
    BY <1>1 DEF Covered
  <2>2. intent'[f] = intent[f] /\ intent[f] # Unknown
    BY <1>5, <2>1
  <2>3. ASSUME NEW i \in 1 .. Len(text), NEW q \in Busy(f, {"write"}), off[q] < i,
               i \notin off[p] + 1 .. off[p] + Len(pending[p])
        PROVE  q \in Busy(f, {"write"})' /\ off'[q] < i
    <3>1. q # p
      BY <1>2, <1>4, <2>2, <2>3
    <3>2. q \in Proc /\ path[q] = f /\ stage[q] \in {"write"} /\ path' = path
      BY <1>1, <2>3 DEF Busy
    <3>3. stage'[q] = stage[q] /\ path'[q] = path[q] /\ off'[q] = off[q]
      BY <1>6, <3>1, <3>2 DEF Keeps
    <3> QED BY <2>3, <3>2, <3>3 DEF Busy
  <2>4. \A i \in 1 .. Len(text) :
          \/ i <= Len(disk'[f]) /\ disk'[f][i] = text[i]
          \/ \E q \in Busy(f, {"write"})' : off'[q] < i
    BY <1>5, <2>1, <2>3
  <2> QED BY <1>1, <1>5, <2>1, <2>2, <2>4 DEF Covered
<1>11. \A e \in Path : PathInv(e)'
  BY <1>1, <1>8, <1>10 DEF PathInv
<1> QED BY <1>7, <1>8, <1>9, <1>11 DEF FileInv

LEMMA KillInv ==
  ASSUME FileInv, NEW p \in Proc, Kill(p)
  PROVE  FileInv'
<1> DEFINE f == path[p]
<1>1. /\ FileTypes /\ (\A q \in Proc : ProcInv(q)) /\ (\A e \in Path : PathInv(e))
      /\ UNCHANGED <<disk, path, lost>> /\ Return(p, ferr[p], <<>>)
      /\ todo' = [todo EXCEPT ![p] = <<>>] /\ pending' = [pending EXCEPT ![p] = <<>>]
      /\ expect' = [expect EXCEPT ![p] = Unknown]
      /\ intent' = IF stage[p] = "write" THEN [intent EXCEPT ![f] = Unknown] ELSE intent
  BY DEF FileInv, Kill
<1>2. /\ stage'[p] = "idle" /\ expect'[p] = Unknown
      /\ \A q \in Proc : q # p => Keeps(q) /\ expect'[q] = expect[q]
  BY <1>1 DEF Return, FileTypes, Keeps
<1>3. FileTypes'
  <2>1. stage' \in [Proc -> {"idle", "size", "read", "write"}] /\ off' \in [Proc -> Nat]
    BY <1>1 DEF FileTypes, Return
  <2>2. ferr' \in [Proc -> FileErrors \cup {"ok"}]
    BY <1>1 DEF FileTypes, Return
  <2>3. group' \in [Proc -> Group]
    BY <1>1, Markers DEF FileTypes, Return
  <2>4. /\ pending' \in [Proc -> Seq(Symbol)]
        /\ \A q \in Proc : Len(pending'[q]) <= StdioBuf
    BY <1>1, Markers, EmptySeq DEF FileTypes
  <2>5. todo' \in [Proc -> Group] /\ expect' \in [Proc -> Group \cup {Absent, Unknown}]
    BY <1>1, Markers DEF FileTypes
  <2>6. intent' \in [Path -> Group \cup {Absent, Unknown}]
    BY <1>1 DEF FileTypes
  <2> QED BY <1>1, <2>1, <2>2, <2>3, <2>4, <2>5, <2>6 DEF FileTypes
<1>4. ProcInv(p)'
  BY <1>2 DEF ProcInv, Opened, Writes, Loads, Answered
<1>5. CASE stage[p] = "write"
  <2>1. f \in Path /\ disk[f] # Absent
    BY <1>1, <1>5 DEF ProcInv, Opened
  <2>2. /\ intent'[f] = Unknown
        /\ \A e \in Path : e # f => disk'[e] = disk[e] /\ intent'[e] = intent[e]
    BY <1>1, <1>5, <2>1 DEF FileTypes
  <2>3. /\ \A q \in Proc : q # p => ProcInv(q)'
        /\ \A e \in Path : Created(e)' /\ (e # f => Covered(e)')
    BY <1>1, <1>2, <1>5, <2>1, <2>2, WriterKeeps
  <2>4. Covered(f)'
    BY <1>1, <2>2 DEF Covered
  <2>5. \A e \in Path : PathInv(e)'
    BY <1>1, <2>3, <2>4 DEF PathInv
  <2> QED BY <1>3, <1>4, <2>3, <2>5 DEF FileInv
<1>6. CASE stage[p] # "write"
  <2>1. intent' = intent
    BY <1>1, <1>6
  <2>2. (\A q \in Proc : q # p => ProcInv(q)') /\ (\A e \in Path : PathInv(e)')
    BY <1>1, <1>2, <1>6, <2>1, ReaderKeeps
  <2> QED BY <1>3, <1>4, <2>2 DEF FileInv
<1> QED BY <1>5, <1>6

LEMMA FileStepInv ==
  ASSUME FileInv, NEW p \in Proc, FileStep(p)
  PROVE  FileInv'
BY MeasureInv, ReadInv, WriteLineInv, CloseInv DEF FileStep

LEMMA FileIdle ==
  ASSUME FileInv, UNCHANGED fileVars
  PROVE  FileInv'
<1>1. FileTypes'
  BY DEF FileInv, FileTypes, fileVars, fileState, fileHistory
<1>2. ASSUME NEW p \in Proc PROVE ProcInv(p)'
  BY DEF FileInv, ProcInv, Opened, Writes, Loads, Answered, Busy,
         fileVars, fileState, fileHistory
<1>3. ASSUME NEW f \in Path PROVE PathInv(f)'
  BY DEF FileInv, PathInv, Created, Covered, Busy, fileVars, fileState, fileHistory
<1> QED BY <1>1, <1>2, <1>3 DEF FileInv

LEMMA FileNextInv == FileInv /\ [FileNext]_fileVars => FileInv'
<1> SUFFICES ASSUME FileInv, [FileNext]_fileVars PROVE FileInv'
  OBVIOUS
<1>1. CASE UNCHANGED fileVars
  BY <1>1, FileIdle
<1>2. ASSUME NEW p \in Proc, User(p) PROVE FileInv'
  <2>1. ASSUME NEW f \in Path, StartLoad(p, f) PROVE FileInv'
    BY <2>1, StartLoadInv
  <2>2. ASSUME NEW f \in Path, NEW g \in Groups, StartSave(p, f, g) PROVE FileInv'
    <3>1. g \in Group
      BY GroupsAssumption DEF Group
    <3> QED BY <2>2, <3>1, StartSaveInv
  <2>3. CASE FileStep(p)
    BY <2>3, FileStepInv
  <2>4. CASE Kill(p)
    BY <2>4, KillInv
  <2> QED BY <1>2, <2>1, <2>2, <2>3, <2>4 DEF User
<1> QED BY <1>1, <1>2 DEF FileNext

(* The invariant holds of any processes that load and save any groups.     *)
LEMMA FileInvariant == FileSpec => []FileInv
<1>1. FileInit => FileInv
  BY InitFileInv
<1>2. FileInv /\ [FileNext]_fileVars => FileInv'
  BY FileNextInv
<1> QED BY <1>1, <1>2, PTL DEF FileSpec

-----------------------------------------------------------------------------
(* Whose text it is.  A text that fits in stdio's buffer reaches the file  *)
(* in one flush, at the file's beginning: as long as those who save it     *)
(* agree, the file holds the beginning of that text, and nothing else.     *)

Authored(f) ==
  author[f] \notin {Absent, Unknown} /\ Len(Text(author[f])) <= StdioBuf =>
    /\ disk[f] # Absent /\ IsPrefix(disk[f], Text(author[f]))
    /\ \A p \in Busy(f, {"write"}) :
         off[p] = 0 /\ pending[p] \o Text(todo[p]) = Text(author[f])

(* A load that knows whose text it read has returned what that text says,  *)
(* or the beginning of it.                                                 *)
Tells(p, g) ==
  \E n \in 0 .. Len(Text(g)) :
    Loaded(UpTo(Text(g), n)) = [err |-> ferr[p], group |-> group[p]]

Originates(p) ==
  origin[p] # Unknown =>
    /\ stage[p] = "idle"
    /\ origin[p] # Absent /\ Len(Text(origin[p])) <= StdioBuf => Tells(p, origin[p])

AuthorInv ==
  /\ author \in [Path -> Group \cup {Absent, Unknown}]
  /\ origin \in [Proc -> Group \cup {Absent, Unknown}]
  /\ \A f \in Path : Authored(f)
  /\ \A p \in Proc : Originates(p)

(* A file whose contents and author stay, and no writer of it moves.       *)
LEMMA AuthorKeeps ==
  ASSUME NEW f \in Path, Authored(f), disk'[f] = disk[f], author'[f] = author[f],
         \A q \in Proc : q \in Busy(f, {"write"})' =>
           /\ q \in Busy(f, {"write"}) /\ off'[q] = off[q]
           /\ pending'[q] = pending[q] /\ todo'[q] = todo[q]
  PROVE  Authored(f)'
<1>1. \A q \in Busy(f, {"write"})' :
        /\ q \in Busy(f, {"write"}) /\ off'[q] = off[q]
        /\ pending'[q] = pending[q] /\ todo'[q] = todo[q]
  BY DEF Busy
<1> QED BY <1>1 DEF Authored

LEMMA OriginKeeps ==
  ASSUME NEW q \in Proc, Originates(q), stage'[q] = stage[q], ferr'[q] = ferr[q],
         group'[q] = group[q], origin'[q] = origin[q]
  PROVE  Originates(q)'
BY DEF Originates, Tells

(* The beginning of a text over the beginning of the same text.            *)
LEMMA PrefixOverlaid ==
  ASSUME NEW text \in Seq(Symbol), NEW contents \in Seq(Symbol), IsPrefix(contents, text),
         NEW n \in 0 .. Len(text)
  PROVE  LET new == Overlay(contents, 0, UpTo(text, n)) IN
         new \in Seq(Symbol) /\ IsPrefix(new, text)
<1> DEFINE chunk == UpTo(text, n)
           new == Overlay(contents, 0, chunk)
<1>1. /\ Len(text) \in Nat /\ Len(contents) \in Nat /\ n \in Nat /\ n <= Len(text)
      /\ Len(contents) <= Len(text) /\ \A i \in 1 .. Len(contents) : contents[i] = text[i]
  BY LenProperties, PrefixIs
<1>2. chunk \in Seq(Symbol) /\ Len(chunk) = n /\ \A i \in 1 .. n : chunk[i] = text[i]
  <2>1. chunk \in Seq(Symbol) /\ Len(chunk) = n
    BY Split
  <2>2. 1 <= n + 1 /\ 1 \in Nat \ {0}
    BY <1>1
  <2>3. \A i \in 1 .. n - 1 + 1 : SubSeq(text, 1, n)[i] = text[1 + i - 1]
    BY ONLY <1>1, <2>2, Part, text \in Seq(Symbol)
  <2>4. n - 1 + 1 = n /\ \A i \in 1 .. n : 1 + i - 1 = i
    BY <1>1
  <2> QED BY <2>1, <2>3, <2>4 DEF UpTo
<1> HIDE DEF chunk
<1>3. /\ new \in Seq(Symbol) /\ Len(contents) <= Len(new)
      /\ Len(new) = Len(contents) \/ Len(new) = 0 + Len(chunk)
      /\ \A i \in 0 + 1 .. 0 + Len(chunk) : i <= Len(new) /\ new[i] = chunk[i - 0]
      /\ \A i \in 1 .. Len(contents) :
           i \notin 0 + 1 .. 0 + Len(chunk) => new[i] = contents[i]
  BY <1>2, Overlaid
<1>4. 0 + 1 = 1 /\ 0 + n = n /\ \A i \in 1 .. n : i - 0 = i
  BY <1>1
<1> HIDE DEF new
<1>5. /\ Len(new) = Len(contents) \/ Len(new) = n
      /\ \A i \in 1 .. n : new[i] = text[i]
      /\ \A i \in 1 .. Len(contents) : i \notin 1 .. n => new[i] = text[i]
  BY <1>1, <1>2, <1>3, <1>4
<1>6. Len(new) <= Len(text) /\ \A i \in 1 .. Len(new) : new[i] = text[i]
  BY <1>1, <1>5
<1>7. IsPrefix(new, text)
  BY <1>3, <1>6, PrefixIs
<1> QED BY <1>3, <1>7 DEF new, chunk

LEMMA PrefixUpTo ==
  ASSUME NEW x \in Seq(Symbol), NEW text \in Seq(Symbol), IsPrefix(x, text),
         NEW n \in 0 .. Len(x)
  PROVE  n \in 0 .. Len(text) /\ UpTo(x, n) = UpTo(text, n)
<1>1. /\ Len(text) \in Nat /\ Len(x) \in Nat /\ n \in Nat /\ n <= Len(x)
      /\ Len(x) <= Len(text) /\ \A i \in 1 .. Len(x) : x[i] = text[i]
  BY LenProperties, PrefixIs
<1>2. n \in 0 .. Len(text) /\ n <= Len(text) /\ 1 <= n + 1 /\ 1 \in Nat \ {0}
  BY <1>1
<1>3. /\ SubSeq(x, 1, n) \in Seq(Symbol) /\ Len(SubSeq(x, 1, n)) = n - 1 + 1
      /\ \A i \in 1 .. n - 1 + 1 : SubSeq(x, 1, n)[i] = x[1 + i - 1]
  BY ONLY <1>1, <1>2, Part, x \in Seq(Symbol)
<1>4. /\ SubSeq(text, 1, n) \in Seq(Symbol) /\ Len(SubSeq(text, 1, n)) = n - 1 + 1
      /\ \A i \in 1 .. n - 1 + 1 : SubSeq(text, 1, n)[i] = text[1 + i - 1]
  BY ONLY <1>1, <1>2, Part, text \in Seq(Symbol)
<1>5. n - 1 + 1 = n /\ \A i \in 1 .. n : 1 + i - 1 = i /\ i \in 1 .. Len(x)
  BY <1>1
<1>6. \A i \in 1 .. n : SubSeq(x, 1, n)[i] = SubSeq(text, 1, n)[i]
  BY <1>1, <1>3, <1>4, <1>5
<1> QED BY <1>2, <1>3, <1>4, <1>5, <1>6, SeqEqual DEF UpTo

LEMMA LoadedIs ==
  ASSUME NEW s
  PROVE  Loaded(s) = [err |-> Loaded(s).err, group |-> Loaded(s).group]
<1> DEFINE parsed == parse_properties(s)
<1>1. \E e, g : parsed = [err |-> e, group |-> g]
  BY DEF parse_properties
<1> HIDE DEF parsed
<1>2. PICK e, g : parsed = [err |-> e, group |-> g]
  BY <1>1
<1>3. Loaded(s) = [err |-> e, group |-> sort_properties(g)]
  BY <1>2 DEF Loaded, parsed
<1> QED BY <1>3

LEMMA InitAuthorInv == FileInit => AuthorInv
BY Markers DEF FileInit, AuthorInv, Authored, Originates

(* A step of one process that leaves the files and their authors alone.    *)
LEMMA BystanderKeeps ==
  ASSUME FileInv, AuthorInv, NEW p \in Proc, stage'[p] # "write",
         UNCHANGED <<disk, author>>,
         \A q \in Proc : q # p => Keeps(q) /\ origin'[q] = origin[q]
  PROVE  /\ \A f \in Path : Authored(f)'
         /\ \A q \in Proc : q # p => Originates(q)'
<1>1. ASSUME NEW f \in Path PROVE Authored(f)'
  <2>1. ASSUME NEW q \in Proc, q \in Busy(f, {"write"})'
        PROVE  /\ q \in Busy(f, {"write"}) /\ off'[q] = off[q]
               /\ pending'[q] = pending[q] /\ todo'[q] = todo[q]
    <3>1. q # p
      BY <2>1 DEF Busy
    <3> QED BY <2>1, <3>1 DEF Busy, Keeps
  <2> QED BY <2>1, AuthorKeeps DEF AuthorInv
<1>2. ASSUME NEW q \in Proc, q # p PROVE Originates(q)'
  BY <1>2, OriginKeeps DEF AuthorInv, Keeps
<1> QED BY <1>1, <1>2

LEMMA StartLoadAuthor ==
  ASSUME FileInv, AuthorInv, NEW p \in Proc, NEW f \in Path, StartLoad(p, f)
  PROVE  AuthorInv'
<1>1. FileTypes /\ UNCHANGED <<disk, author>> /\ origin' = [origin EXCEPT ![p] = Unknown]
  BY DEF FileInv, StartLoad
<1>2. /\ stage'[p] # "write"
      /\ \A q \in Proc : q # p => Keeps(q)
  BY <1>1 DEF FileTypes, StartLoad, Return, Keeps
<1>3. origin' \in [Proc -> Group \cup {Absent, Unknown}] /\ origin'[p] = Unknown
      /\ \A q \in Proc : q # p => origin'[q] = origin[q]
  BY <1>1 DEF AuthorInv
<1>4. (\A e \in Path : Authored(e)') /\ \A q \in Proc : q # p => Originates(q)'
  BY <1>1, <1>2, <1>3, BystanderKeeps
<1>5. Originates(p)'
  BY <1>3 DEF Originates
<1> QED BY <1>1, <1>3, <1>4, <1>5 DEF AuthorInv

LEMMA MeasureAuthor ==
  ASSUME FileInv, AuthorInv, NEW p \in Proc, Measure(p)
  PROVE  AuthorInv'
<1>1. /\ FileTypes /\ UNCHANGED <<disk, author, origin, expect>>
      /\ stage[p] = "size" /\ UNCHANGED <<path, todo, pending>>
  BY DEF FileInv, Measure, fileHistory
<1>2. /\ stage'[p] # "write"
      /\ \A q \in Proc : q # p => Keeps(q)
  BY <1>1 DEF FileTypes, Measure, Return, Keeps
<1>3. (\A e \in Path : Authored(e)') /\ \A q \in Proc : q # p => Originates(q)'
  BY <1>1, <1>2, BystanderKeeps
<1>4. Originates(p)'
  BY <1>1 DEF AuthorInv, Originates
<1> QED BY <1>1, <1>3, <1>4 DEF AuthorInv

LEMMA ReadAuthor ==
  ASSUME FileInv, AuthorInv, NEW p \in Proc, Read(p)
  PROVE  AuthorInv'
<1> DEFINE f == path[p]
           all == Smaller(off[p], Len(disk[f]))
<1>1. /\ FileTypes /\ UNCHANGED <<disk, author, path, todo, pending>> /\ stage[p] = "read"
      /\ f \in Path /\ disk[f] # Absent
  BY DEF FileInv, Read, ProcInv, Opened
<1>2. /\ origin[p] = Unknown /\ disk[f] \in Seq(Symbol) /\ Len(disk[f]) \in Nat
      /\ off[p] \in Nat /\ all \in Nat /\ all <= Len(disk[f]) /\ all <= off[p]
  <2>1. disk[f] \in Seq(Symbol) /\ off[p] \in Nat
    BY <1>1 DEF FileTypes
  <2>2. Len(disk[f]) \in Nat
    BY <2>1, LenProperties
  <2> QED BY <1>1, <2>1, <2>2 DEF AuthorInv, Originates, Smaller
<1>3. \/ \E n \in 0 .. all : \E junk \in Uninitialised(off[p] - n) :
           LET r == Loaded(UpTo(disk[f], n) \o junk) IN
           /\ Return(p, r.err, r.group)
           /\ expect' = IF n = all THEN expect ELSE [expect EXCEPT ![p] = Unknown]
           /\ origin' = [origin EXCEPT ![p] =
                           IF junk = <<>> \/ junk[1] = NUL THEN author[f] ELSE Unknown]
      \/ Return(p, "EIO", <<>>) /\ UNCHANGED <<expect, origin>>
  BY DEF Read
<1>4. stage'[p] = "idle" /\ \A q \in Proc : q # p => Keeps(q)
  BY <1>1, <1>3 DEF FileTypes, Return, Keeps
<1>5. origin' = origin \/ \E x \in {author[f], Unknown} : origin' = [origin EXCEPT ![p] = x]
  BY <1>3
<1>6. /\ origin' \in [Proc -> Group \cup {Absent, Unknown}]
      /\ \A q \in Proc : q # p => origin'[q] = origin[q]
  <2>1. ASSUME NEW x \in {author[f], Unknown} PROVE x \in Group \cup {Absent, Unknown}
    BY <1>1 DEF AuthorInv
  <2> QED BY <1>5, <2>1, Zenon DEF AuthorInv
<1>7. (\A e \in Path : Authored(e)') /\ \A q \in Proc : q # p => Originates(q)'
  BY <1>1, <1>4, <1>6, BystanderKeeps
<1>8. Originates(p)'
  <2>1. SUFFICES ASSUME origin'[p] # Unknown, origin'[p] # Absent,
                        Len(Text(origin'[p])) <= StdioBuf
                 PROVE  \E n \in 0 .. Len(Text(origin'[p])) :
                          Loaded(UpTo(Text(origin'[p]), n)) =
                            [err |-> ferr'[p], group |-> group'[p]]
    BY <1>4 DEF Originates, Tells
  <2>2. origin' # origin
    BY <1>2, <2>1
  <2>3. PICK n \in 0 .. all : \E junk \in Uninitialised(off[p] - n) :
           LET r == Loaded(UpTo(disk[f], n) \o junk) IN
           /\ Return(p, r.err, r.group)
           /\ origin' = [origin EXCEPT ![p] =
                           IF junk = <<>> \/ junk[1] = NUL THEN author[f] ELSE Unknown]
    BY <1>3, <2>2
  <2>4. PICK junk \in Uninitialised(off[p] - n) :
           LET r == Loaded(UpTo(disk[f], n) \o junk) IN
           /\ Return(p, r.err, r.group)
           /\ origin' = [origin EXCEPT ![p] =
                           IF junk = <<>> \/ junk[1] = NUL THEN author[f] ELSE Unknown]
    BY <2>3
  <2> DEFINE s == UpTo(disk[f], n)
             text == Text(author[f])
  <2>5. origin'[p] = author[f] /\ (junk = <<>> \/ junk[1] = NUL)
    BY <2>1, <2>4 DEF AuthorInv
  <2>6. author[f] \in Group /\ text \in Seq(Symbol) /\ IsPrefix(disk[f], text)
    <3>1. author[f] \in Group \cup {Absent, Unknown} /\ Authored(f)
      BY <1>1 DEF AuthorInv
    <3>2. author[f] \in Group /\ author[f] \notin {Absent, Unknown}
      BY <2>1, <2>5, <3>1
    <3> QED BY <2>1, <2>5, <3>1, <3>2, TextHead DEF Authored
  <2>7. junk \in Seq(Symbol) /\ n \in 0 .. Len(disk[f]) /\ n \in Nat
    <3>1. n \in 0 .. Len(disk[f]) /\ off[p] - n \in Nat
      BY <1>2
    <3> QED BY <3>1, JunkTypes
  <2>8. s \in Seq(Symbol) /\ Loaded(s \o junk) = Loaded(s)
    <3>1. s \in Seq(Symbol)
      BY <1>2, <2>7, Split
    <3> HIDE DEF s
    <3> QED BY <2>5, <2>7, <3>1, CStringCut DEF Loaded
  <2>9. n \in 0 .. Len(text) /\ s = UpTo(text, n)
    <3> HIDE DEF text
    <3> QED BY <1>2, <2>6, <2>7, PrefixUpTo
  <2>10. ferr'[p] = Loaded(s).err /\ group'[p] = Loaded(s).group
    BY <1>1, <2>4, <2>8 DEF Return, FileTypes
  <2>11. Loaded(s) = [err |-> ferr'[p], group |-> group'[p]]
    <3> HIDE DEF s
    <3> QED BY <2>10, LoadedIs
  <2> QED BY <2>5, <2>9, <2>11
<1> QED BY <1>1, <1>6, <1>7, <1>8 DEF AuthorInv

(* A save begins: its group is the file's author, unless one of another    *)
(* group is under way.                                                     *)
LEMMA StartSaveAuthor ==
  ASSUME FileInv, AuthorInv, NEW p \in Proc, NEW f \in Path, NEW g \in Group,
         StartSave(p, f, g)
  PROVE  AuthorInv'
<1>1. /\ FileTypes /\ path' = [path EXCEPT ![p] = f] /\ stage[p] = "idle"
      /\ origin' = [origin EXCEPT ![p] = Unknown]
  BY DEF FileInv, StartSave
<1>2. origin' \in [Proc -> Group \cup {Absent, Unknown}] /\ origin'[p] = Unknown
      /\ \A q \in Proc : q # p => origin'[q] = origin[q]
  BY <1>1 DEF AuthorInv
<1>3. \A q \in Proc : q # p =>
        /\ stage'[q] = stage[q] /\ path'[q] = path[q] /\ off'[q] = off[q]
        /\ todo'[q] = todo[q] /\ pending'[q] = pending[q]
        /\ ferr'[q] = ferr[q] /\ group'[q] = group[q]
  BY <1>1 DEF FileTypes, StartSave
<1>4. ASSUME NEW q \in Proc PROVE Originates(q)'
  <2>1. CASE q = p
    BY <1>2, <2>1 DEF Originates
  <2>2. CASE q # p
    BY <1>2, <1>3, <2>2, OriginKeeps DEF AuthorInv
  <2> QED BY <2>1, <2>2
<1>5. /\ author' \in [Path -> Group \cup {Absent, Unknown}]
      /\ \A e \in Path : e # f => author'[e] = author[e] /\ disk'[e] = disk[e]
  <2>1. author' = author \/ \E x \in {g, Unknown} : author' = [author EXCEPT ![f] = x]
    BY Zenon DEF StartSave
  <2>2. ASSUME NEW x \in {g, Unknown} PROVE x \in Group \cup {Absent, Unknown}
    OBVIOUS
  <2>3. author \in [Path -> Group \cup {Absent, Unknown}]
    BY DEF AuthorInv
  <2>4. disk' = disk \/ disk' = [disk EXCEPT ![f] = Truncated(@)]
    BY DEF StartSave
  <2>5. \A e \in Path : e # f => disk'[e] = disk[e]
    BY <1>1, <2>4 DEF FileTypes
  <2> QED BY <2>1, <2>2, <2>3, <2>5, Zenon
<1>6. ASSUME NEW e \in Path, e # f PROVE Authored(e)'
  <2>1. ASSUME NEW q \in Proc, q \in Busy(e, {"write"})'
        PROVE  /\ q \in Busy(e, {"write"}) /\ off'[q] = off[q]
               /\ pending'[q] = pending[q] /\ todo'[q] = todo[q]
    <3>1. q # p
      BY <1>1, <1>6, <2>1 DEF Busy, FileTypes
    <3> QED BY <1>3, <2>1, <3>1 DEF Busy
  <2> QED BY <1>5, <1>6, <2>1, AuthorKeeps DEF AuthorInv
<1>7. Authored(f)'
  <2>1. CASE stage' = stage
    <3>1. UNCHANGED <<disk, author, off, todo, pending>> /\ stage'[p] = "idle"
      BY <1>1, <2>1 DEF StartSave, FileTypes
    <3>2. ASSUME NEW q \in Proc, q \in Busy(f, {"write"})'
          PROVE  q \in Busy(f, {"write"})
      BY <1>3, <3>1, <3>2 DEF Busy
    <3> QED BY <3>1, <3>2, AuthorKeeps DEF AuthorInv
  <2>2. CASE stage' # stage
    <3>1. /\ disk'[f] = <<>> /\ off'[p] = 0 /\ todo'[p] = g /\ pending'[p] = <<>>
          /\ author'[f] = IF Busy(f, {"write"}) = {} \/ author[f] = g THEN g ELSE Unknown
      BY <1>1, <2>2 DEF StartSave, FileTypes, Truncated, AuthorInv
    <3>2. SUFFICES ASSUME author'[f] \notin {Absent, Unknown}, Len(Text(author'[f])) <= StdioBuf
                   PROVE  /\ disk'[f] # Absent /\ IsPrefix(disk'[f], Text(author'[f]))
                          /\ \A q \in Busy(f, {"write"})' :
                               off'[q] = 0 /\ pending'[q] \o Text(todo'[q]) = Text(author'[f])
      BY DEF Authored
    <3>3. author'[f] = g /\ (Busy(f, {"write"}) = {} \/ author[f] = g)
      BY <3>1, <3>2
    <3>4. Text(g) \in Seq(Symbol) /\ <<>> \o Text(g) = Text(g)
      BY TextHead, ConcatEmptySeq
    <3>5. disk'[f] # Absent /\ IsPrefix(disk'[f], Text(g))
      <4>1. <<>> \in Seq(Symbol) /\ Len(<<>>) = 0 /\ Len(Text(g)) \in Nat
        BY <3>4, Markers, LenProperties
      <4>2. Len(<<>>) <= Len(Text(g)) /\ 1 .. Len(<<>>) = {}
        BY <4>1
      <4> QED BY <3>1, <3>4, <4>1, <4>2, Markers, PrefixIs
    <3>6. ASSUME NEW q \in Busy(f, {"write"})'
          PROVE  off'[q] = 0 /\ pending'[q] \o Text(todo'[q]) = Text(g)
      <4>1. CASE q = p
        BY <3>1, <3>4, <4>1
      <4>2. CASE q # p
        <5>1. q \in Proc /\ q \in Busy(f, {"write"})
          BY <1>3, <3>6, <4>2 DEF Busy
        <5>2. author[f] = g /\ g \notin {Absent, Unknown} /\ Len(Text(g)) <= StdioBuf
          BY <3>2, <3>3, <5>1
        <5>3. off[q] = 0 /\ pending[q] \o Text(todo[q]) = Text(g)
          BY <5>1, <5>2 DEF AuthorInv, Authored
        <5> QED BY <1>3, <4>2, <5>1, <5>3
      <4> QED BY <4>1, <4>2
    <3> QED BY <3>3, <3>5, <3>6
  <2> QED BY <2>1, <2>2
<1> QED BY <1>2, <1>4, <1>5, <1>6, <1>7 DEF AuthorInv

(* What a writer of a text that fits in the buffer does: its lines gather  *)
(* there, and it flushes them once, when it closes the file.               *)
LEMMA WriteLineAuthor ==
  ASSUME FileInv, AuthorInv, NEW p \in Proc, WriteLine(p)
  PROVE  AuthorInv'
<1> DEFINE f == path[p]
           line == Line(Head(todo[p]))
           rest == Text(Tail(todo[p]))
<1>1. /\ FileTypes /\ stage[p] = "write" /\ todo[p] # <<>> /\ f \in Path /\ disk[f] # Absent
      /\ UNCHANGED <<stage, path, group, author, origin>>
      /\ todo' = [todo EXCEPT ![p] = Tail(@)]
      /\ off' = off \/ \E n : off' = [off EXCEPT ![p] = n]
      /\ \E x : pending' = [pending EXCEPT ![p] = x]
      /\ \E e : ferr' = [ferr EXCEPT ![p] = e]
      /\ disk' = disk \/ \E x : disk' = [disk EXCEPT ![f] = x]
  BY DEF FileInv, WriteLine, Flush, ProcInv, Opened
<1>2. \A q \in Proc : q # p =>
        /\ todo'[q] = todo[q] /\ pending'[q] = pending[q] /\ off'[q] = off[q]
        /\ ferr'[q] = ferr[q]
  BY <1>1 DEF FileTypes
<1>3. \A e \in Path : e # f => disk'[e] = disk[e]
  BY <1>1 DEF FileTypes
<1>4. origin[p] = Unknown
  BY <1>1 DEF AuthorInv, Originates
<1>5. ASSUME NEW q \in Proc PROVE Originates(q)'
  <2>1. CASE q = p
    BY <1>1, <1>4, <2>1 DEF Originates
  <2>2. CASE q # p
    BY <1>1, <1>2, <2>2, OriginKeeps DEF AuthorInv
  <2> QED BY <2>1, <2>2
<1>6. ASSUME NEW e \in Path, e # f PROVE Authored(e)'
  <2>1. ASSUME NEW q \in Proc, q \in Busy(e, {"write"})'
        PROVE  /\ q \in Busy(e, {"write"}) /\ off'[q] = off[q]
               /\ pending'[q] = pending[q] /\ todo'[q] = todo[q]
    <3>1. q # p
      BY <1>1, <1>6, <2>1 DEF Busy
    <3> QED BY <1>1, <1>2, <2>1, <3>1 DEF Busy
  <2> QED BY <1>1, <1>3, <1>6, <2>1, AuthorKeeps DEF AuthorInv
<1>7. Authored(f)'
  <2>1. SUFFICES ASSUME author[f] \notin {Absent, Unknown}, Len(Text(author[f])) <= StdioBuf
                 PROVE  Authored(f)'
    BY <1>1 DEF Authored
  <2> DEFINE text == Text(author[f])
  <2>2. /\ IsPrefix(disk[f], text)
        /\ \A q \in Busy(f, {"write"}) : off[q] = 0 /\ pending[q] \o Text(todo[q]) = text
    BY <1>1, <2>1 DEF AuthorInv, Authored
  <2>3. p \in Busy(f, {"write"})
    BY <1>1 DEF Busy
  <2>4. /\ pending[p] \in Seq(Symbol) /\ line \in Seq(Symbol) /\ rest \in Seq(Symbol)
        /\ Text(todo[p]) = line \o rest
    <3>1. todo[p] \in Group /\ pending[p] \in Seq(Symbol)
      BY <1>1 DEF FileTypes
    <3>2. Tail(todo[p]) \in Group /\ Head(todo[p]) \in [key : Seq(Symbol), value : Seq(Symbol)]
      BY <1>1, <3>1, HeadTailProperties DEF Group
    <3> QED BY <1>1, <3>1, <3>2, LineTypes, TextHead
  <2> HIDE DEF line, rest, text
  <2>5. /\ (pending[p] \o line) \o rest = text
        /\ Len(pending[p]) \in Nat /\ Len(line) \in Nat
        /\ Len(pending[p]) + Len(line) <= StdioBuf
    <3>1. pending[p] \o (line \o rest) = text
      BY <2>2, <2>3, <2>4
    <3>2. (pending[p] \o line) \o rest = text
      <4> DEFINE buffered == pending[p]
      <4> HIDE DEF buffered
      <4>1. buffered \in Seq(Symbol) /\ line \in Seq(Symbol) /\ rest \in Seq(Symbol)
        BY <2>4 DEF buffered
      <4>2. (buffered \o line) \o rest = buffered \o (line \o rest)
        BY ONLY <4>1, ConcatAssociative
      <4> QED BY <3>1, <4>2 DEF buffered
    <3>3. /\ Len(pending[p]) \in Nat /\ Len(line) \in Nat /\ Len(rest) \in Nat
      BY <2>4, LenProperties
    <3>4. pending[p] \o line \in Seq(Symbol) /\ Len(pending[p] \o line) = Len(pending[p]) + Len(line)
      BY <2>4, ConcatProperties
    <3>5. Len(text) = (Len(pending[p]) + Len(line)) + Len(rest)
      BY <2>4, <3>2, <3>4, ConcatProperties
    <3>6. Len(text) <= StdioBuf /\ StdioBuf \in Nat
      BY <2>1, Markers DEF text
    <3> QED BY <3>2, <3>3, <3>5, <3>6
  <2>6. Len(line) <= Room(p)
    BY <2>5, Markers DEF Room
  <2>7. UNCHANGED <<disk, off>> /\ pending' = [pending EXCEPT ![p] = pending[p] \o line]
    <3>1. Room(p) \in Int
      BY <2>5, Markers DEF Room
    <3>2. ~(Len(line) > Room(p))
      BY <2>5, <2>6, <3>1
    <3> QED BY <3>2, Zenon DEF WriteLine, line
  <2>8. pending'[p] = pending[p] \o line /\ todo'[p] = Tail(todo[p])
    BY <1>1, <2>7 DEF FileTypes
  <2>9. ASSUME NEW q \in Busy(f, {"write"})'
        PROVE  off'[q] = 0 /\ pending'[q] \o Text(todo'[q]) = text
    <3>1. q \in Busy(f, {"write"}) /\ q \in Proc
      BY <1>1, <2>9 DEF Busy
    <3>2. CASE q = p
      BY <2>2, <2>3, <2>5, <2>7, <2>8, <3>2 DEF rest
    <3>3. CASE q # p
      BY <1>2, <2>2, <2>7, <3>1, <3>3
    <3> QED BY <3>2, <3>3
  <2> QED BY <1>1, <2>2, <2>7, <2>9 DEF Authored, text
<1> QED BY <1>1, <1>5, <1>6, <1>7 DEF AuthorInv

LEMMA CloseAuthor ==
  ASSUME FileInv, AuthorInv, NEW p \in Proc, Close(p)
  PROVE  AuthorInv'
<1> DEFINE f == path[p]
<1>1. /\ FileTypes /\ stage[p] = "write" /\ todo[p] = <<>> /\ f \in Path /\ disk[f] # Absent
      /\ UNCHANGED <<path, todo, author, origin, expect>>
      /\ pending' = [pending EXCEPT ![p] = <<>>] /\ Return(p, ferr[p], <<>>)
  BY DEF FileInv, Close, ProcInv, Opened
<1>2. PICK n \in 0 .. Len(pending[p]) : Flush(p, pending[p], n)
  BY DEF Close
<1>3. /\ stage'[p] = "idle"
      /\ \A q \in Proc : q # p =>
           /\ stage'[q] = stage[q] /\ off'[q] = off[q] /\ pending'[q] = pending[q]
           /\ ferr'[q] = ferr[q] /\ group'[q] = group[q]
  BY <1>1 DEF Return, FileTypes
<1>4. /\ disk'[f] = Overlay(disk[f], off[p], UpTo(pending[p], n))
      /\ \A e \in Path : e # f => disk'[e] = disk[e]
  BY <1>1, <1>2 DEF Flush, FileTypes
<1>5. origin[p] = Unknown
  BY <1>1 DEF AuthorInv, Originates
<1>6. ASSUME NEW q \in Proc PROVE Originates(q)'
  <2>1. CASE q = p
    BY <1>1, <1>5, <2>1 DEF Originates
  <2>2. CASE q # p
    BY <1>1, <1>3, <2>2, OriginKeeps DEF AuthorInv
  <2> QED BY <2>1, <2>2
<1>7. ASSUME NEW e \in Path, NEW q \in Proc, q \in Busy(e, {"write"})'
      PROVE  /\ q # p /\ q \in Busy(e, {"write"}) /\ off'[q] = off[q]
             /\ pending'[q] = pending[q] /\ todo'[q] = todo[q]
  <2>1. q # p
    BY <1>3, <1>7 DEF Busy
  <2> QED BY <1>1, <1>3, <1>7, <2>1 DEF Busy
<1>8. ASSUME NEW e \in Path, e # f PROVE Authored(e)'
  BY <1>1, <1>4, <1>7, <1>8, AuthorKeeps DEF AuthorInv
<1>9. Authored(f)'
  <2>1. SUFFICES ASSUME author[f] \notin {Absent, Unknown}, Len(Text(author[f])) <= StdioBuf
                 PROVE  Authored(f)'
    BY <1>1 DEF Authored
  <2> DEFINE text == Text(author[f])
  <2>2. /\ IsPrefix(disk[f], text)
        /\ \A q \in Busy(f, {"write"}) : off[q] = 0 /\ pending[q] \o Text(todo[q]) = text
    BY <1>1, <2>1 DEF AuthorInv, Authored
  <2>3. off[p] = 0 /\ pending[p] = text
    <3>1. p \in Busy(f, {"write"}) /\ pending[p] \in Seq(Symbol)
      BY <1>1 DEF Busy, FileTypes
    <3>2. off[p] = 0 /\ pending[p] \o Text(<<>>) = text
      BY <1>1, <2>2, <3>1
    <3>3. Text(<<>>) = <<>> /\ pending[p] \o <<>> = pending[p]
      BY <3>1, Markers, TextHead, ConcatEmptySeq
    <3> QED BY <3>2, <3>3
  <2>4. disk[f] \in Seq(Symbol) /\ text \in Seq(Symbol) /\ n \in 0 .. Len(text)
    <3>1. pending[p] \in Seq(Symbol) /\ disk[f] \in Seq(Symbol)
      BY <1>1 DEF FileTypes
    <3> QED BY <2>3, <3>1
  <2> HIDE DEF text
  <2>5. disk'[f] \in Seq(Symbol) /\ IsPrefix(disk'[f], text)
    BY <1>4, <2>2, <2>3, <2>4, PrefixOverlaid
  <2>6. disk'[f] # Absent
    BY <2>5, Markers
  <2>7. \A q \in Busy(f, {"write"})' :
          off'[q] = 0 /\ pending'[q] \o Text(todo'[q]) = text
    <3>1. \A q \in Busy(f, {"write"})' : q \in Proc
      BY DEF Busy
    <3> QED BY <1>1, <1>7, <2>2, <3>1
  <2> QED BY <1>1, <2>5, <2>6, <2>7 DEF Authored, text
<1> QED BY <1>1, <1>6, <1>8, <1>9 DEF AuthorInv

LEMMA KillAuthor ==
  ASSUME FileInv, AuthorInv, NEW p \in Proc, Kill(p)
  PROVE  AuthorInv'
<1>1. /\ FileTypes /\ UNCHANGED <<disk, path, author>> /\ Return(p, ferr[p], <<>>)
      /\ todo' = [todo EXCEPT ![p] = <<>>] /\ pending' = [pending EXCEPT ![p] = <<>>]
      /\ expect' = [expect EXCEPT ![p] = Unknown]
      /\ origin' = [origin EXCEPT ![p] = Unknown]
  BY DEF FileInv, Kill
<1>2. /\ stage'[p] # "write"
      /\ \A q \in Proc : q # p => Keeps(q)
  BY <1>1 DEF Return, FileTypes, Keeps
<1>3. origin' \in [Proc -> Group \cup {Absent, Unknown}] /\ origin'[p] = Unknown
      /\ \A q \in Proc : q # p => origin'[q] = origin[q]
  BY <1>1 DEF AuthorInv
<1>4. (\A e \in Path : Authored(e)') /\ \A q \in Proc : q # p => Originates(q)'
  BY <1>1, <1>2, <1>3, BystanderKeeps
<1>5. Originates(p)'
  BY <1>3 DEF Originates
<1> QED BY <1>1, <1>3, <1>4, <1>5 DEF AuthorInv

LEMMA FileStepAuthor ==
  ASSUME FileInv, AuthorInv, NEW p \in Proc, FileStep(p)
  PROVE  AuthorInv'
BY MeasureAuthor, ReadAuthor, WriteLineAuthor, CloseAuthor DEF FileStep

LEMMA AuthorIdle ==
  ASSUME AuthorInv, UNCHANGED fileVars
  PROVE  AuthorInv'
<1>1. ASSUME NEW f \in Path PROVE Authored(f)'
  BY DEF AuthorInv, Authored, Busy, fileVars, fileState, fileHistory
<1>2. ASSUME NEW p \in Proc PROVE Originates(p)'
  BY DEF AuthorInv, Originates, Tells, fileVars, fileState, fileHistory
<1> QED BY <1>1, <1>2 DEF AuthorInv, fileVars, fileHistory

LEMMA AuthorNextInv == FileInv /\ AuthorInv /\ [FileNext]_fileVars => AuthorInv'
<1> SUFFICES ASSUME FileInv, AuthorInv, [FileNext]_fileVars PROVE AuthorInv'
  OBVIOUS
<1>1. CASE UNCHANGED fileVars
  BY <1>1, AuthorIdle
<1>2. ASSUME NEW p \in Proc, User(p) PROVE AuthorInv'
  <2>1. ASSUME NEW f \in Path, StartLoad(p, f) PROVE AuthorInv'
    BY <2>1, StartLoadAuthor
  <2>2. ASSUME NEW f \in Path, NEW g \in Groups, StartSave(p, f, g) PROVE AuthorInv'
    <3>1. g \in Group
      BY GroupsAssumption DEF Group
    <3> QED BY <2>2, <3>1, StartSaveAuthor
  <2>3. CASE FileStep(p)
    BY <2>3, FileStepAuthor
  <2>4. CASE Kill(p)
    BY <2>4, KillAuthor
  <2> QED BY <1>2, <2>1, <2>2, <2>3, <2>4 DEF User
<1> QED BY <1>1, <1>2 DEF FileNext

LEMMA AuthorInvariant == FileSpec => [](FileInv /\ AuthorInv)
<1>1. FileInit => FileInv /\ AuthorInv
  BY InitFileInv, InitAuthorInv
<1>2. FileInv /\ AuthorInv /\ [FileNext]_fileVars => FileInv' /\ AuthorInv'
  BY FileNextInv, AuthorNextInv
<1> QED BY <1>1, <1>2, PTL DEF FileSpec

(* Everything the processes keep has its type: what a load returns is a    *)
(* group whatever the file holds, torn or with memory that fread() left    *)
(* uninitialised, and no buffer is overfilled.                             *)
THEOREM FileTyped == FileSpec => []FileTypeOK
<1>1. FileInv /\ AuthorInv => FileTypeOK
  BY DEF FileInv, FileTypes, AuthorInv, FileTypeOK, Group
<1> QED BY <1>1, AuthorInvariant, PTL

(* A file that nobody is saving holds the group saved last, whoever saved  *)
(* before and in whatever order the saves were flushed, unless one of them *)
(* was killed, lost a flush or met one of another group: save_properties   *)
(* and sys_close of property.c and sys_file.c.                             *)
THEOREM FileHolds == FileSpec => []FileHoldsTheSave
<1>1. FileInv => FileHoldsTheSave
  BY FileInvHolds
<1> QED BY <1>1, FileInvariant, PTL

(* The invariant says what is loaded; what is in it, the round trip says.  *)
LEMMA FileInvLoads == FileInv => LoadReturnsTheSave
<1> SUFFICES ASSUME FileInv, NEW p \in Proc, stage[p] = "idle", expect[p] # Unknown
             PROVE  \/ expect[p] = Absent /\ ferr[p] \in {"ENOENT", "EACCES"}
                    \/ expect[p] # Absent /\ ferr[p] \in {"EACCES", "EIO"}
                    \/ /\ expect[p] # Absent /\ ferr[p] \in {"ok", "EINVAL"}
                       /\ Storable(expect[p]) =>
                            ferr[p] = "ok" /\ group[p] = sort_properties(Trimmed(expect[p]))
  BY DEF LoadReturnsTheSave
<1>1. expect[p] \in Group \cup {Absent, Unknown} /\ Answered(p)
  BY DEF FileInv, FileTypes, ProcInv
<1> DEFINE loaded == Loaded(Text(expect[p]))
<1>2. \/ expect[p] = Absent /\ ferr[p] \in {"ENOENT", "EACCES"}
      \/ expect[p] # Absent /\ ferr[p] \in {"EACCES", "EIO"}
      \/ expect[p] # Absent /\ ferr[p] = loaded.err /\ group[p] = loaded.group
  BY <1>1 DEF Answered
<1>3. /\ loaded.err \in {"ok", "EINVAL"}
      /\ loaded.err = parse_properties(Text(expect[p])).err
      /\ loaded.group = sort_properties(parse_properties(Text(expect[p])).group)
  BY LoadedErr
<1> HIDE DEF loaded
<1>4. ASSUME expect[p] # Absent, Storable(expect[p])
      PROVE  loaded.err = "ok" /\ loaded.group = sort_properties(Trimmed(expect[p]))
  <2>1. parse_properties(Text(expect[p])) = [err |-> "ok", group |-> Trimmed(expect[p])]
    BY <1>1, <1>4, RoundTrip
  <2> QED BY <1>3, <2>1
<1> QED BY <1>2, <1>3, <1>4

(* A load that nothing disturbed returns the group saved last, sorted, or  *)
(* fails for a reason of its own; only a text that no group could have     *)
(* left is rejected: load_properties and parse_properties of property.c.   *)
THEOREM FileLoads == FileSpec => []LoadReturnsTheSave
<1>1. FileInv => LoadReturnsTheSave
  BY FileInvLoads
<1> QED BY <1>1, FileInvariant, PTL

(* Whatever happens to a file - kills, lost flushes, reads cut short, a    *)
(* shorter text over a longer one in the middle of a load - a load returns *)
(* what one text says that was saved there, or the beginning of that text, *)
(* and never a mix of two: save_properties and load_properties of          *)
(* property.c, sys_write, sys_read and sys_close of sys_file.c.  The text  *)
(* must fit in stdio's buffer, which sends it to the file in one piece.    *)
THEOREM FileLoadsOneSave == FileSpec => []LoadsOneSave
<1>1. AuthorInv => LoadsOneSave
  BY DEF AuthorInv, Originates, Tells, LoadsOneSave
<1> QED BY <1>1, AuthorInvariant, PTL
=============================================================================
