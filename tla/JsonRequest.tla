---------------------------- MODULE JsonRequest ----------------------------
(***************************************************************************)
(* json.c: build_json_request puts an object together in a buffer that     *)
(* doubles until the next entry fits; what closes the object is written    *)
(* without another look at the capacity.                                   *)
(*                                                                         *)
(* text is buffer[0 .. ofs-1].  realloc() follows the doubling at once, so *)
(* that capacity is the size of the block whenever something is written.   *)
(***************************************************************************)
EXTENDS Integers, SequencesExt

CONSTANTS
  Char,             \* what keys and values are made of
  QUOTE, BACKSLASH, \* two of them
  Control,          \* the control characters among them, U+0001 to U+001F
  Escape,           \* what RFC 8259 writes behind a backslash for each of these
  Groups,           \* the groups a request is built from
  InitialCapacity   \* 64

ASSUME JsonAssumption ==
  /\ {QUOTE, BACKSLASH} \cup Control \subseteq Char
  /\ Escape \in [{QUOTE, BACKSLASH} \cup Control -> Seq(Char) \ {<<>>}]
  /\ Groups \subseteq Seq([key : Seq(Char), value : Seq(Char)])
  /\ InitialCapacity \in Nat /\ InitialCapacity >= 3

VARIABLES
  group,     \* the argument (rigid)
  i,         \* the next entry
  text, capacity,
  done       \* the object is closed and returned

jsonVars == <<group, i, text, capacity, done>>

JsonInit ==
  /\ group \in Groups /\ i = 1 /\ text = <<"{">>
  /\ capacity = InitialCapacity /\ done = FALSE

Comma == IF i > 1 THEN <<",">> ELSE <<>>

\* Mutant: room is kept for what the entry itself needs, and no more.
EntryRoomOnly(e) == Len(Comma) + Len(e.key) + Len(e.value) + 5

\* xlen: two pairs of quotes and the colon; a closing brace and the NUL.
Room(e) == Len(Comma) + Len(e.key) + Len(e.value) + (2 + 1 + 2 + 1 + 1)
Fits(e) == Len(text) + Room(e) <= capacity

Double ==
  /\ i <= Len(group) /\ ~Fits(group[i])
  /\ capacity' = 2 * capacity /\ UNCHANGED <<group, i, text, done>>

\* Mutant: no comma.
PieceAlone(e) ==
  <<QUOTE>> \o e.key \o <<QUOTE, ":", QUOTE>> \o e.value \o <<QUOTE>>

Piece(e) ==
  Comma \o <<QUOTE>> \o e.key \o <<QUOTE, ":", QUOTE>> \o e.value \o <<QUOTE>>

WriteEntry ==
  /\ i <= Len(group) /\ Fits(group[i])
  /\ text' = text \o Piece(group[i]) /\ i' = i + 1
  /\ UNCHANGED <<group, capacity, done>>

Finish ==
  /\ i > Len(group) /\ ~done
  /\ text' = text \o <<"}", "NUL">> /\ done' = TRUE
  /\ UNCHANGED <<group, i, capacity>>

JsonNext == Double \/ WriteEntry \/ Finish
JsonSpec == JsonInit /\ [][JsonNext]_jsonVars

-----------------------------------------------------------------------------
(* Nothing is written behind the buffer, the closing brace and the NUL     *)
(* included, whatever the lengths of the entries.                          *)
NoOverrun == Len(text) <= capacity

\* The same group as JSON text, written down as RFC 8259 has it: a string may
\* hold any character except quote, backslash and the control characters, which
\* have to be escaped.
Quoted(s) ==
  <<QUOTE>> \o FlattenSeq([n \in DOMAIN s |->
    IF s[n] \in DOMAIN Escape THEN <<BACKSLASH>> \o Escape[s[n]] ELSE <<s[n]>>])
    \o <<QUOTE>>
Encode(g) ==
  LET member(n) == (IF n = 1 THEN <<>> ELSE <<",">>)
                     \o Quoted(g[n].key) \o <<":">> \o Quoted(g[n].value)
  IN  <<"{">> \o FlattenSeq([n \in DOMAIN g |-> member(n)]) \o <<"}">>

Plain(g) == \A e \in ToSet(g) : DOMAIN Escape \cap ToSet(e.key \o e.value) = {}

(* README.md: the program builds a JSON request from the given arguments.  *)
RequestIsJson == done => text = Encode(group) \o <<"NUL">>

(* It does, as long as no key and no argument holds a quote, a backslash   *)
(* or a control character (a newline, a tab), which json.c copies as they  *)
(* are.                                                                    *)
PlainRequestIsJson == Plain(group) => RequestIsJson
=============================================================================
