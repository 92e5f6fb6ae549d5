----------------------------- MODULE SysSocket -----------------------------
(***************************************************************************)
(* sys_socket.c: the non-blocking TCP socket behind AbstractSocket.        *)
(*                                                                         *)
(* A caller starts one operation at a time (connect, write, read_text,     *)
(* read_binary, disconnect); an operation that loops makes one step per    *)
(* system call or per pass over the read buffer and returns by making call *)
(* "idle".  A NULL pointer is <<>>: no operation returns an empty string.  *)
(*                                                                         *)
(* The peer's half of the connection is the sequence stream, of which wire *)
(* is what recv() has not handed out yet; recv() may cut it anywhere.      *)
(* Once the environment has disrupted the connection (delay beyond the     *)
(* timeout, reset, signal, lack of a resource) any system call may fail;   *)
(* until then select() times out only when the peer has nothing to send.   *)
(***************************************************************************)
EXTENDS Integers, SequencesExt

CONSTANTS
  Byte,      \* the alphabet of both byte streams
  BufSize,   \* sizeof(SockReadBuffer.data): 2048
  SndBuf,    \* room in the kernel's send queue
  Replies,   \* the byte streams a peer may send
  Requests,  \* what a caller may write
  Terms,     \* the terminators a caller may wait for
  MaxWant,   \* bound: the largest size a caller asks read_binary for
  MaxSent    \* bound: no further write is started once this much was sent

ASSUME SocketAssumption ==
  /\ {BufSize, SndBuf} \subseteq Nat \ {0}
  /\ {MaxWant, MaxSent} \subseteq Nat
  /\ Replies \subseteq Seq(Byte)
  /\ Requests \subseteq Seq(Byte)
  /\ Terms \subseteq Seq(Byte) \ {<<>>}

VARIABLES
  fd,      \* sockfd: "none" (INVALID_SOCKET), "open", "closed", "reclosed"
  rb,      \* readBuffer.data[0 .. position-1]
  call,    \* the operation in progress
  arg,     \* bytes still to be sent, or the terminator waited for
  want,    \* expectedSize of read_binary
  data,    \* what the read in progress collected, then its result
  err,     \* *errp
  sent,    \* bytes the kernel accepted from us
  queued,  \* how many of them it still holds in its send queue
  stream,  \* everything the peer sends on this connection (rigid)
  wire,    \* the part of it recv() has not returned
  taken,   \* the part of it read operations returned to the caller (history)
  peer,    \* "down": refuses; "silent" or "fin": what follows its last byte
  fault    \* the environment has disrupted the connection

local == <<fd, rb, call, arg, want, data, err>>
remote == <<sent, queued, stream, wire, taken, peer, fault>>
sockVars == <<local, remote>>

Reading == {"read_text", "read_binary"}
Errors == {"EOF", "ETIMEDOUT", "ECONNREFUSED", "EAGAIN", "EIO", "ENOENT"}

First(s, n) == SubSeq(s, 1, n)
After(s, n) == SubSeq(s, n + 1, Len(s))
Smaller(m, n) == IF m <= n THEN m ELSE n

SockInit ==   \* sys_socket_init, and what the peer is going to do
  /\ fd = "none" /\ rb = <<>> /\ call = "idle" /\ arg = <<>> /\ want = 0
  /\ data = <<>> /\ err = "ok" /\ sent = <<>> /\ queued = 0 /\ taken = <<>>
  /\ stream \in Replies /\ wire = stream
  /\ peer \in {"down", "silent", "fin"} /\ fault = FALSE

-----------------------------------------------------------------------------
(* connect: every failure closes the descriptor and forgets it.            *)

ConnectFails(e) ==
  /\ err' = e /\ fd' = "none" /\ call' = "idle"
  /\ UNCHANGED <<rb, arg, want, data, remote>>

StartConnect ==
  /\ call = "idle"
  /\ \/ /\ err' = "ok" /\ fd' = "open"
        /\ \/ call' = "connect"                      \* EINPROGRESS
           \/ peer # "down" /\ call' = "idle"        \* connected at once
        /\ UNCHANGED <<rb, arg, want, data, remote>>
     \/ peer = "down" /\ ConnectFails("ECONNREFUSED")
     \/ fault /\ ConnectFails("EIO")                 \* socket(), fcntl(), connect()

ConnectSelect ==   \* select() for writing, then SO_ERROR
  /\ call = "connect"
  /\ \/ /\ peer # "down" /\ err' = "ok" /\ call' = "idle"
        /\ UNCHANGED <<fd, rb, arg, want, data, remote>>
     \/ peer = "down" /\ ConnectFails("ECONNREFUSED")
     \/ fault /\ \E e \in {"ETIMEDOUT", "EIO"} : ConnectFails(e)

-----------------------------------------------------------------------------
(* write: repeated send(), which never waits for room in the send queue.   *)

StartWrite(bytes) ==
  /\ call = "idle"
  /\ call' = IF bytes = <<>> THEN "idle" ELSE "write"
  /\ arg' = bytes /\ err' = "ok"
  /\ UNCHANGED <<fd, rb, want, data, remote>>

\* Mutant: what send() did not take is not offered again.
WriteSendOnce ==
  /\ call = "write"
  /\ \E n \in 1 .. Smaller(Len(arg), SndBuf - queued) :
       sent' = sent \o First(arg, n) /\ queued' = queued + n
  /\ arg' = <<>> /\ call' = "idle"
  /\ UNCHANGED <<fd, rb, want, data, err, stream, wire, taken, peer, fault>>

WriteSend ==
  /\ call = "write"
  /\ \E n \in 1 .. Smaller(Len(arg), SndBuf - queued) :
       /\ sent' = sent \o First(arg, n) /\ queued' = queued + n
       /\ arg' = After(arg, n)
       /\ call' = IF arg' = <<>> THEN "idle" ELSE "write"
  /\ UNCHANGED <<fd, rb, want, data, err, stream, wire, taken, peer, fault>>

WriteFails ==
  /\ call = "write"
  /\ \/ queued = SndBuf /\ err' = "EAGAIN"
     \/ fault /\ err' = "EIO"
  /\ call' = "idle" /\ arg' = <<>>
  /\ UNCHANGED <<fd, rb, want, data, remote>>

-----------------------------------------------------------------------------
(* Reading.  Receive is socket_read() into an empty buffer and its error   *)
(* path in both read operations: what was collected so far is freed.       *)

Receive(nbyte) ==
  /\ rb = <<>>
  /\ \E n \in 1 .. Smaller(nbyte, Len(wire)) :
       rb' = First(wire, n) /\ wire' = After(wire, n)
  /\ err' = "ok"
  /\ UNCHANGED <<fd, call, arg, want, data, sent, queued, stream, taken, peer, fault>>

\* Mutant: after a timeout it waits again.
ReceiveFailsRetries ==
  /\ call \in Reading /\ rb = <<>>
  /\ wire = <<>> \/ fault
  /\ err' = "ETIMEDOUT" /\ UNCHANGED <<fd, rb, call, arg, want, data, remote>>

ReceiveFails ==
  /\ call \in Reading /\ rb = <<>>
  /\ \/ wire = <<>> /\ peer = "fin" /\ err' = "EOF"
     \/ wire = <<>> /\ peer # "fin" /\ err' = "ETIMEDOUT"
     \/ fault /\ err' \in {"ETIMEDOUT", "EIO"}
  /\ data' = <<>> /\ call' = "idle" /\ arg' = <<>> /\ want' = 0
  /\ UNCHANGED <<fd, rb, remote>>

\* Mutant: what follows the terminator is forgotten.
CollectForgets(n, done) ==
  /\ data' = data \o First(rb, n) /\ rb' = <<>>
  /\ IF done
     THEN call' = "idle" /\ arg' = <<>> /\ want' = 0 /\ taken' = taken \o data'
     ELSE UNCHANGED <<call, arg, want, taken>>
  /\ UNCHANGED <<fd, err, sent, queued, stream, wire, peer, fault>>

\* The n bytes at the front of rb join data; the call returns data if done, or
\* frees it for an error: a stale one, if read_text had no need to receive.
Collect(n, done) ==
  /\ data' = IF done /\ err # "ok" THEN <<>> ELSE data \o First(rb, n)
  /\ rb' = After(rb, n)
  /\ IF done
     THEN call' = "idle" /\ arg' = <<>> /\ want' = 0 /\ taken' = taken \o data'
     ELSE UNCHANGED <<call, arg, want, taken>>
  /\ UNCHANGED <<fd, err, sent, queued, stream, wire, peer, fault>>

MatchEnds(buf, t) ==   \* where strstr() could end a match of t in buf
  {k \in Len(t) .. Len(buf) : SubSeq(buf, k - Len(t) + 1, k) = t}

StartReadText(t) ==   \* leaves *errp as it is
  /\ call = "idle"
  /\ call' = "read_text" /\ arg' = t /\ data' = <<>>
  /\ UNCHANGED <<fd, rb, want, err, remote>>

\* Mutant: no room is left for the closing NUL.
ReadTextReceiveFull == call = "read_text" /\ Receive(BufSize + 1)

ReadTextReceive == call = "read_text" /\ Receive(BufSize)

\* Mutants: the terminator stays in the buffer; whatever came is returned.
ReadTextScanLeaves ==
  /\ call = "read_text" /\ rb # <<>>
  /\ \/ \E n \in MatchEnds(rb, arg) :
          /\ \A m \in MatchEnds(rb, arg) : n <= m
          /\ Collect(n - Len(arg), TRUE)
     \/ MatchEnds(rb, arg) = {} /\ Collect(Len(rb), FALSE)
ReadTextScanAny == call = "read_text" /\ rb # <<>> /\ Collect(Len(rb), TRUE)

ReadTextScan ==   \* looks for the terminator in the buffer alone
  /\ call = "read_text" /\ rb # <<>>
  /\ \/ \E n \in MatchEnds(rb, arg) :
          /\ \A m \in MatchEnds(rb, arg) : n <= m
          /\ Collect(n, TRUE)
     \/ MatchEnds(rb, arg) = {} /\ Collect(Len(rb), FALSE)

StartReadBinary(size) ==
  /\ call = "idle"
  /\ call' = IF size = 0 THEN "idle" ELSE "read_binary"
  /\ want' = size /\ data' = <<>> /\ err' = "ok"
  /\ UNCHANGED <<fd, rb, arg, remote>>

\* Mutant: recv() is asked for a full buffer.
ReadBinaryReceiveFull == call = "read_binary" /\ Receive(BufSize)

ReadBinaryReceive ==
  call = "read_binary" /\ Receive(Smaller(BufSize, want - Len(data)))

ReadBinaryTake ==
  /\ call = "read_binary" /\ rb # <<>>
  /\ Collect(Len(rb), Len(data) + Len(rb) >= want)

-----------------------------------------------------------------------------
\* disconnect does not reset sockfd: a second one would close() it again.
Disconnect ==
  /\ call = "idle"
  /\ fd' = CASE fd = "none" -> "none" [] fd = "open" -> "closed"
             [] OTHER -> "reclosed"
  /\ UNCHANGED <<rb, call, arg, want, data, err, remote>>

\* The steps of the operation in progress, and those of the environment.
SockStep ==
  \/ ConnectSelect \/ WriteSend \/ WriteFails
  \/ ReceiveFails \/ ReadTextReceive \/ ReadTextScan
  \/ ReadBinaryReceive \/ ReadBinaryTake

Drain ==     \* the kernel transmits what it queued
  /\ queued > 0 /\ queued' \in 0 .. queued - 1
  /\ UNCHANGED <<local, sent, stream, wire, taken, peer, fault>>

Disrupt ==
  /\ ~fault /\ fault' = TRUE
  /\ UNCHANGED <<local, sent, queued, stream, wire, taken, peer>>

Reject ==   \* the caller can do nothing with what it read: an error of its own
  /\ call = "idle" /\ err' = "ENOENT" /\ data' = <<>>
  /\ UNCHANGED <<fd, rb, call, arg, want, remote>>

(***************************************************************************)
(* Any caller that keeps to the socket's protocol: it connects until a     *)
(* connect succeeds, goes on while there is no error, and disconnects at   *)
(* most once, after which the socket is not used again.                    *)
(***************************************************************************)
Caller ==
  \/ fd = "none" /\ StartConnect
  \/ /\ fd = "open" /\ err = "ok"
     /\ \/ Len(sent) < MaxSent /\ \E b \in Requests : StartWrite(b)
        \/ \E t \in Terms : StartReadText(t)
        \/ \E n \in 0 .. MaxWant : StartReadBinary(n)
        \/ Reject
  \/ fd = "open" /\ Disconnect

SockNext == Caller \/ SockStep \/ Drain \/ Disrupt
SockSpec == SockInit /\ [][SockNext]_sockVars

-----------------------------------------------------------------------------
(* Types, and the ranges the C code relies on: readBuffer.position never   *)
(* exceeds the array, so data[position] = '\0' hits at worst the filler.   *)
SockTypeOK ==
  /\ fd \in {"none", "open", "closed", "reclosed"}
  /\ rb \in Seq(Byte) /\ Len(rb) <= BufSize
  /\ call \in {"idle", "connect", "write"} \cup Reading
  /\ arg \in Seq(Byte) /\ want \in Nat /\ data \in Seq(Byte)
  /\ err \in Errors \cup {"ok"}
  /\ sent \in Seq(Byte) /\ queued \in 0 .. SndBuf
  /\ stream \in Seq(Byte) /\ wire \in Seq(Byte) /\ taken \in Seq(Byte)
  /\ peer \in {"down", "silent", "fin"} /\ fault \in BOOLEAN

Pending == IF call \in Reading THEN data ELSE <<>>

(* No read loses, repeats or reorders a byte, however recv() cuts the      *)
(* stream and however much of one read is left in the buffer for the next: *)
(* what was returned is a prefix of the stream and, unless an error ended  *)
(* the connection, what is being collected, buffered and not yet received  *)
(* is exactly the rest of it.                                              *)
StreamIntegrity ==
  /\ IsPrefix(taken, stream)
  /\ fd = "open" /\ err = "ok" => taken \o Pending \o rb \o wire = stream

(* read_binary asks recv() for no more than is missing: only bytes left    *)
(* behind by read_text can take it beyond expectedSize, and then at once.  *)
NoOverRead ==
  call = "read_binary" /\ data # <<>> =>
    Len(data) < want /\ Len(data) + Len(rb) <= want

(* The detailed socket implements the stream socket.h promises: what is    *)
(* collected, buffered or in the kernel is still unread, and only a        *)
(* completed read changes what was delivered last.                         *)
Promise == INSTANCE ByteStream WITH
  Streams <- Replies, Ends <- Terms, Sizes <- 1 .. MaxWant, NoAsk <- [none |-> 0],
  unread <- Pending \o rb \o wire,
  ask <- CASE call = "read_text" -> [end |-> arg]
           [] call = "read_binary" -> [size |-> want]
           [] OTHER -> [none |-> 0],
  last <- IF call \in Reading THEN <<>> ELSE data,
  failed <- fd # "none" /\ err # "ok"

ImplementsByteStream == Promise!StreamSpec
=============================================================================
