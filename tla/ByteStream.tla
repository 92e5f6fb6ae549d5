----------------------------- MODULE ByteStream -----------------------------
(***************************************************************************)
(* What socket.h promises a reader: one stream, cut in pieces by what the  *)
(* caller asks for, every byte delivered once and in order, until a        *)
(* failure ends it.  An answer to read_text ends in its terminator; an     *)
(* answer to read_binary has at least the size asked for.                  *)
(***************************************************************************)
EXTENDS Integers, Sequences

CONSTANTS
  Streams,       \* the sequences a peer may send
  Ends, Sizes,   \* what may be asked for: terminators, and sizes above 0
  NoAsk

VARIABLES
  unread,  \* what has not been delivered
  ask,     \* [end |-> terminator] or [size |-> n] while a read is in progress
  last,    \* what the last read delivered
  failed   \* an error has ended the stream

streamVars == <<unread, ask, last, failed>>

StreamInit ==
  unread \in Streams /\ ask = NoAsk /\ last = <<>> /\ failed = FALSE

AskText ==
  /\ ask = NoAsk /\ ~failed /\ ask' \in [end : Ends]
  /\ last' = <<>> /\ UNCHANGED <<unread, failed>>

AskBinary ==   \* nothing at all is delivered at once
  /\ ask = NoAsk /\ ~failed
  /\ ask' \in {NoAsk} \cup [size : Sizes]
  /\ last' = <<>> /\ UNCHANGED <<unread, failed>>

EndsIn(s, t) ==
  Len(t) <= Len(s) /\ SubSeq(s, Len(s) - Len(t) + 1, Len(s)) = t

Deliver ==
  /\ ask # NoAsk
  /\ \E n \in 1 .. Len(unread) :
       /\ last' = SubSeq(unread, 1, n)
       /\ unread' = SubSeq(unread, n + 1, Len(unread))
       /\ "end" \in DOMAIN ask => EndsIn(last', ask.end)
       /\ "size" \in DOMAIN ask => n >= ask.size
  /\ ask' = NoAsk /\ UNCHANGED failed

Fail ==   \* what had been collected for the read in progress is lost
  /\ ~failed /\ failed' = TRUE /\ last' \in {last, <<>>} /\ ask' = NoAsk
  /\ \E n \in 0 .. Len(unread) : unread' = SubSeq(unread, n + 1, Len(unread))

StreamNext == AskText \/ AskBinary \/ Deliver \/ Fail
StreamSpec == StreamInit /\ [][StreamNext]_streamVars
=============================================================================
