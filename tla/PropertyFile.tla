---------------------------- MODULE PropertyFile ----------------------------
(***************************************************************************)
(* property.c and sys_file.c: groups of properties saved to files and      *)
(* loaded from them by several processes, each through its own FILE.       *)
(*                                                                         *)
(* A file opened for saving is truncated at once and filled when stdio     *)
(* flushes its buffer; loading measures the file before it reads it.       *)
(* Between any two of these steps another process may work on the same     *)
(* file, or the process may be killed.  Any call into the file system may  *)
(* fail: it is full, the file is not accessible.                           *)
(***************************************************************************)
EXTENDS PropertyText

CONSTANTS
  Proc, Path,
  StdioBuf,   \* the size of stdio's buffer
  MaxJunk,    \* bound: symbols other than NUL in uninitialised memory
  Absent, Unknown

ASSUME FileAssumption ==
  /\ {StdioBuf, MaxJunk} \subseteq Nat /\ LineMax <= StdioBuf
  /\ {Absent, Unknown} \cap Seq([key : Seq(Symbol), value : Seq(Symbol)]) = {}
  /\ Absent # Unknown /\ Absent \notin Seq(Symbol) \cup Path

VARIABLES
  disk,     \* a file's contents, or Absent

  stage,    \* per process: "idle", "size", "read" or "write"
  path,     \* the file it works on, or did
  off,      \* the length it measured, or where it writes next
  todo,     \* entries still to be written
  pending,  \* written, but not flushed
  group,    \* what load_properties returned; <<>> for NULL
  ferr,     \* *errp

  intent,   \* the group a file should hold, Absent or Unknown (history)
  expect,   \* the group a load should return, likewise (history)
  lost,     \* its last save lost symbols in a flush (history)
  author,   \* the group whose save emptied a file last (history): Absent if
            \* there is none, Unknown if the save of another was under way
  origin    \* the author of what its last load read (history), Unknown if
            \* there was none or symbols of uninitialised memory were read, too

fileState == <<stage, path, off, todo, pending, group, ferr>>
fileHistory == <<intent, expect, lost, author, origin>>
fileVars == <<disk, fileState, fileHistory>>

FileErrors == {"ENOENT", "EACCES", "EIO", "EINVAL", "ENOSPC"}

FileInit ==
  /\ disk = [f \in Path |-> Absent]
  /\ stage = [p \in Proc |-> "idle"] /\ path = [p \in Proc |-> Absent]
  /\ off = [p \in Proc |-> 0] /\ todo = [p \in Proc |-> <<>>]
  /\ pending = [p \in Proc |-> <<>>] /\ group = [p \in Proc |-> <<>>]
  /\ ferr = [p \in Proc |-> "ok"]
  /\ intent = [f \in Path |-> Absent] /\ expect = [p \in Proc |-> Unknown]
  /\ lost = [p \in Proc |-> FALSE]
  /\ author = [f \in Path |-> Absent] /\ origin = [p \in Proc |-> Unknown]

Busy(f, stages) == {p \in Proc : path[p] = f /\ stage[p] \in stages}

Smaller(m, n) == IF m <= n THEN m ELSE n

\* Mutant: the file is opened with "a+b" after it has been emptied.
OverlayAppend(contents, n, chunk) == contents \o chunk

\* chunk written at offset n: a gap behind the end of the file reads as NUL.
Overlay(contents, n, chunk) ==
  [i \in 1 .. IF chunk = <<>> \/ n + Len(chunk) <= Len(contents)
              THEN Len(contents) ELSE n + Len(chunk) |->
     IF i \in n + 1 .. n + Len(chunk) THEN chunk[i - n]
     ELSE IF i \in DOMAIN contents THEN contents[i] ELSE NUL]

-----------------------------------------------------------------------------
(* The FILE is closed and its offset gone: the call has failed or is over. *)
Return(p, e, result) ==
  /\ stage' = [stage EXCEPT ![p] = "idle"] /\ off' = [off EXCEPT ![p] = 0]
  /\ ferr' = [ferr EXCEPT ![p] = e] /\ group' = [group EXCEPT ![p] = result]

\* load_properties: fopen(), which fails when there is no such file.
StartLoad(p, f) ==
  /\ stage[p] = "idle" /\ path' = [path EXCEPT ![p] = f]
  /\ \/ /\ disk[f] # Absent
        /\ stage' = [stage EXCEPT ![p] = "size"]
        /\ ferr' = [ferr EXCEPT ![p] = "ok"] /\ group' = [group EXCEPT ![p] = <<>>]
        /\ UNCHANGED off
     \/ disk[f] = Absent /\ Return(p, "ENOENT", <<>>)
     \/ Return(p, "EACCES", <<>>)
  /\ expect' = [expect EXCEPT ![p] =
                  IF Busy(f, {"write"}) = {} THEN intent[f] ELSE Unknown]
  /\ lost' = [lost EXCEPT ![p] = FALSE] /\ origin' = [origin EXCEPT ![p] = Unknown]
  /\ UNCHANGED <<disk, todo, pending, intent, author>>

Measure(p) ==   \* sys_size
  /\ stage[p] = "size"
  /\ \/ /\ off' = [off EXCEPT ![p] = Len(disk[path[p]])]
        /\ stage' = [stage EXCEPT ![p] = "read"] /\ UNCHANGED <<ferr, group>>
     \/ Return(p, "EIO", <<>>)
  /\ UNCHANGED <<disk, path, todo, pending, fileHistory>>

\* What the n symbols of memory that fread() did not fill may hold.
Uninitialised(n) ==
  UNION {IF k < n THEN {s \o <<NUL>> : s \in [1 .. k -> Symbol]}
                  ELSE [1 .. k -> Symbol] : k \in 0 .. Smaller(n, MaxJunk)}

Read(p) ==   \* sys_read: anything short of an error with no data is success
  /\ stage[p] = "read"
  /\ LET all == Smaller(off[p], Len(disk[path[p]])) IN
     \/ \E n \in 0 .. all : \E junk \in Uninitialised(off[p] - n) :
          /\ n = all \/ n > 0
          /\ LET r == Loaded(UpTo(disk[path[p]], n) \o junk)
             IN  Return(p, r.err, r.group)
          /\ expect' = IF n = all THEN expect ELSE [expect EXCEPT ![p] = Unknown]
          /\ origin' = [origin EXCEPT ![p] =
                          IF junk = <<>> \/ junk[1] = NUL THEN author[path[p]] ELSE Unknown]
     \/ Return(p, "EIO", <<>>) /\ UNCHANGED <<expect, origin>>
  /\ UNCHANGED <<disk, path, todo, pending, intent, lost, author>>

-----------------------------------------------------------------------------
\* Mutant: fopen() with "r+b", and "w+b" only for a new file.
NotTruncated(contents) == IF contents = Absent THEN <<>> ELSE contents

\* fopen() with "w+b", whatever the file held.
Truncated(contents) == <<>>

(* save_properties: the file is empty before its first line is written.    *)
StartSave(p, f, g) ==
  /\ stage[p] = "idle" /\ path' = [path EXCEPT ![p] = f]
  /\ group' = [group EXCEPT ![p] = <<>>] /\ lost' = [lost EXCEPT ![p] = FALSE]
  /\ origin' = [origin EXCEPT ![p] = Unknown]
  /\ \/ /\ disk' = [disk EXCEPT ![f] = Truncated(@)]
        /\ stage' = [stage EXCEPT ![p] = "write"] /\ off' = [off EXCEPT ![p] = 0]
        /\ todo' = [todo EXCEPT ![p] = g] /\ pending' = [pending EXCEPT ![p] = <<>>]
        /\ ferr' = [ferr EXCEPT ![p] = "ok"]
        \* saves that overlap leave nothing certain, unless they agree
        /\ intent' = [intent EXCEPT ![f] =
                        IF Busy(f, {"write"}) = {} \/ @ = g THEN g ELSE Unknown]
        /\ author' = [author EXCEPT ![f] =
                        IF Busy(f, {"write"}) = {} \/ @ = g THEN g ELSE Unknown]
        /\ expect' = [q \in Proc |->
                        IF q = p \/ q \in Busy(f, {"size", "read"})
                        THEN Unknown ELSE expect[q]]
     \/ /\ ferr' = [ferr EXCEPT ![p] = "EACCES"]
        /\ expect' = [expect EXCEPT ![p] = Unknown]
        /\ UNCHANGED <<disk, stage, off, todo, pending, intent, author>>

\* write(2) takes n symbols of chunk; what it does not take is lost.
Flush(p, chunk, n) ==
  LET f == path[p] IN
  /\ disk' = [disk EXCEPT ![f] = Overlay(@, off[p], UpTo(chunk, n))]
  /\ IF n = Len(chunk) THEN UNCHANGED <<intent, lost>>
     ELSE intent' = [intent EXCEPT ![f] = Unknown] /\ lost' = [lost EXCEPT ![p] = TRUE]

Room(p) == StdioBuf - Len(pending[p])

WriteLine(p) ==   \* sys_write: fails only if not one symbol found a place
  /\ stage[p] = "write" /\ todo[p] # <<>>
  /\ todo' = [todo EXCEPT ![p] = Tail(@)]
  /\ LET line == Line(Head(todo[p]))
         room == Room(p)
         full == pending[p] \o UpTo(line, room)
     IN  \/ /\ Len(line) <= room
            /\ pending' = [pending EXCEPT ![p] = @ \o line]
            /\ ferr' = [ferr EXCEPT ![p] = "ok"]
            /\ UNCHANGED <<disk, off, intent, lost>>
         \/ /\ Len(line) > room
            /\ \E n \in 0 .. Len(full) :
                 /\ Flush(p, full, n) /\ off' = [off EXCEPT ![p] = @ + n]
                 /\ pending' = [pending EXCEPT ![p] =
                                  IF n = Len(full) THEN From(line, room + 1) ELSE <<>>]
                 /\ ferr' = [ferr EXCEPT ![p] =
                               IF n < Len(full) /\ room = 0 THEN "ENOSPC" ELSE "ok"]
  /\ UNCHANGED <<stage, path, group, expect, author, origin>>

\* Mutant: nobody closes the file, and the program leaves with _exit().
CloseUnflushed(p) ==
  /\ stage[p] = "write" /\ todo[p] = <<>> /\ Return(p, ferr[p], <<>>)
  /\ pending' = [pending EXCEPT ![p] = <<>>]
  /\ UNCHANGED <<disk, path, todo, fileHistory>>

Close(p) ==   \* sys_close: nobody learns whether fclose() could flush
  /\ stage[p] = "write" /\ todo[p] = <<>>
  /\ \E n \in 0 .. Len(pending[p]) : Flush(p, pending[p], n)
  /\ Return(p, ferr[p], <<>>) /\ pending' = [pending EXCEPT ![p] = <<>>]
  /\ UNCHANGED <<path, todo, expect, author, origin>>

FileStep(p) == Measure(p) \/ Read(p) \/ WriteLine(p) \/ Close(p)

Kill(p) ==   \* what stdio has not flushed dies with the process
  /\ Return(p, ferr[p], <<>>) /\ todo' = [todo EXCEPT ![p] = <<>>]
  /\ pending' = [pending EXCEPT ![p] = <<>>]
  /\ intent' = IF stage[p] = "write" THEN [intent EXCEPT ![path[p]] = Unknown]
                                     ELSE intent
  /\ expect' = [expect EXCEPT ![p] = Unknown]
  /\ origin' = [origin EXCEPT ![p] = Unknown]
  /\ UNCHANGED <<disk, path, lost, author>>

-----------------------------------------------------------------------------
(* Types; no line, however long an entry is, is more than stdio can buffer. *)
FileTypeOK ==
  LET Group == Seq([key : Seq(Symbol), value : Seq(Symbol)]) IN
  /\ disk \in [Path -> Seq(Symbol) \cup {Absent}]
  /\ stage \in [Proc -> {"idle", "size", "read", "write"}]
  /\ path \in [Proc -> Path \cup {Absent}] /\ off \in [Proc -> Nat]
  /\ {todo, group} \subseteq [Proc -> Group]
  /\ pending \in [Proc -> Seq(Symbol)]
  /\ \A p \in Proc : Len(pending[p]) <= StdioBuf
  /\ ferr \in [Proc -> FileErrors \cup {"ok"}]
  /\ intent \in [Path -> Group \cup {Absent, Unknown}]
  /\ expect \in [Proc -> Group \cup {Absent, Unknown}]
  /\ lost \in [Proc -> BOOLEAN]
  /\ author \in [Path -> Group \cup {Absent, Unknown}]
  /\ origin \in [Proc -> Group \cup {Absent, Unknown}]

(* A file that nobody is saving holds exactly the group saved last - even  *)
(* if several processes saved that same group at the same time - unless a  *)
(* save was killed, lost a flush or overlapped with one of another group.  *)
FileHoldsTheSave ==
  \A f \in Path : Busy(f, {"write"}) = {} /\ intent[f] # Unknown =>
    disk[f] = IF intent[f] = Absent THEN Absent ELSE Text(intent[f])

(* Outside the same disturbances, and a read cut short, a load returns     *)
(* what was saved, sorted and without the blanks around keys and values,   *)
(* or ENOENT for a file nobody has saved.                                  *)
LoadReturnsTheSave ==
  \A p \in Proc : stage[p] = "idle" /\ expect[p] # Unknown =>
    \/ expect[p] = Absent /\ ferr[p] \in {"ENOENT", "EACCES"}
    \/ expect[p] # Absent /\ ferr[p] \in {"EACCES", "EIO"}
    \/ /\ expect[p] # Absent /\ ferr[p] \in {"ok", "EINVAL"}
       /\ Storable(expect[p]) =>
            ferr[p] = "ok" /\ group[p] = sort_properties(Trimmed(expect[p]))

(* A load never mixes what two saves wrote, whatever happened to the file: *)
(* a kill, a lost flush, a short read, a save of a shorter group over a    *)
(* longer one between the load's own steps.  What it returns is what one   *)
(* text says that was saved there, or the beginning of it - if the text    *)
(* fits in stdio's buffer, the saves that overlap agree, and the load does *)
(* not go on to read uninitialised memory.                                 *)
LoadsOneSave ==
  \A p \in Proc :
    LET text == Text(origin[p]) IN
    stage[p] = "idle" /\ origin[p] \notin {Absent, Unknown} /\ Len(text) <= StdioBuf =>
      \E n \in 0 .. Len(text) : Loaded(UpTo(text, n)) = [err |-> ferr[p], group |-> group[p]]
=============================================================================
