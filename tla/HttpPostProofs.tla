--------------------------- MODULE HttpPostProofs ---------------------------
(***************************************************************************)
(* What holds of sys_socket.c for every buffer size, every send queue,     *)
(* every reply and every disciplined caller, and of http.c, its client,    *)
(* for every request and every way a connection may fail.                  *)
(***************************************************************************)
EXTENDS HttpPost, SequenceTheorems, Induction, TLAPS

-----------------------------------------------------------------------------
(* Sequences cut in two, as recv(), send() and the buffer shift cut them.  *)

(* First and After split a sequence: nothing is lost and nothing added.    *)
LEMMA Cut ==
  ASSUME NEW S, NEW s \in Seq(S), NEW n \in 0 .. Len(s)
  PROVE  /\ First(s, n) \in Seq(S) /\ Len(First(s, n)) = n
         /\ After(s, n) \in Seq(S) /\ Len(After(s, n)) = Len(s) - n
         /\ First(s, n) \o After(s, n) = s
<1>1. Len(s) \in Nat /\ \A i \in 1 .. Len(s) : s[i] \in S
  BY LenProperties, ElementOfSeq
<1>2. First(s, n) \in Seq(S) /\ Len(First(s, n)) = n
  BY <1>1, SubSeqProperties DEF First
<1>3. After(s, n) \in Seq(S) /\ Len(After(s, n)) = Len(s) - n
  BY <1>1, SubSeqProperties DEF After
<1>4. First(s, n) \o After(s, n) = SubSeq(s, 1, Len(s))
  <2>1. 1 \in 1 .. Len(s) + 1 /\ n \in 1 - 1 .. Len(s) /\ Len(s) \in n .. Len(s)
    BY <1>1
  <2>2. SubSeq(s, 1, n) \o SubSeq(s, n + 1, Len(s)) = SubSeq(s, 1, Len(s))
    BY ONLY <2>1, s \in Seq(S), ConcatAdjacentSubSeq
  <2> QED BY <2>2 DEF First, After
<1> QED BY <1>2, <1>3, <1>4, SubSeqFull

(* Cut at its end, a sequence stays whole.                                 *)
LEMMA CutAll ==
  ASSUME NEW S, NEW s \in Seq(S)
  PROVE  First(s, Len(s)) = s /\ After(s, Len(s)) = <<>>
<1>1. First(s, Len(s)) = s
  BY SubSeqFull DEF First
<1>2. Len(s) \in Nat
  BY LenProperties
<1>3. SubSeq(s, Len(s) + 1, Len(s)) = <<>>
  BY <1>2, SubSeqEmpty
<1> QED BY <1>1, <1>3 DEF After

(* A sequence is a prefix of itself extended.                              *)
LEMMA PrefixOfConcat ==
  ASSUME NEW S, NEW s \in Seq(S), NEW t \in Seq(S)
  PROVE  IsPrefix(s, s \o t)
<1>1. Len(s) \in Nat /\ Len(t) \in Nat /\ Len(s \o t) = Len(s) + Len(t)
  BY LenProperties, ConcatProperties
<1>2. SubSeq(s \o t, 1, Len(s)) = SubSeq(s, 1, Len(s))
  <2>1. CASE Len(s) = 0
    BY <2>1, SubSeqEmpty
  <2>2. CASE Len(s) # 0
    BY <1>1, <2>2, SubSeqOfConcat1
  <2> QED BY <2>1, <2>2
<1> QED BY <1>1, <1>2 DEF IsPrefix

-----------------------------------------------------------------------------
(* Type correctness.                                                       *)

LEMMA InitType == SockInit => SockTypeOK
<1> SUFFICES ASSUME SockInit PROVE SockTypeOK
  OBVIOUS
<1>1. stream \in Seq(Byte) /\ 0 <= BufSize /\ 0 \in 0 .. SndBuf
  BY SocketAssumption DEF SockInit
<1>2. <<>> \in Seq(Byte) /\ Len(<<>>) = 0
  BY EmptySeq
<1> QED BY <1>1, <1>2 DEF SockInit, SockTypeOK, Reading, Errors

LEMMA ConnectType ==
  ASSUME SockTypeOK, StartConnect \/ ConnectSelect
  PROVE  SockTypeOK'
<1>1. CASE StartConnect
  BY <1>1 DEF SockTypeOK, StartConnect, ConnectFails, remote, Reading, Errors
<1>2. CASE ConnectSelect
  BY <1>2 DEF SockTypeOK, ConnectSelect, ConnectFails, remote, Reading, Errors
<1> QED BY <1>1, <1>2

LEMMA SendType ==
  ASSUME SockTypeOK, WriteSend
  PROVE  SockTypeOK'
<1> PICK n \in 1 .. Smaller(Len(arg), SndBuf - queued) :
      /\ sent' = sent \o First(arg, n) /\ queued' = queued + n
      /\ arg' = After(arg, n)
      /\ call' = IF arg' = <<>> THEN "idle" ELSE "write"
  BY DEF WriteSend
<1>1. Len(arg) \in Nat /\ SndBuf \in Nat /\ queued \in 0 .. SndBuf
  BY LenProperties, SocketAssumption DEF SockTypeOK
<1>2. n \in 0 .. Len(arg) /\ queued' \in 0 .. SndBuf
  BY <1>1 DEF Smaller
<1>3. First(arg, n) \in Seq(Byte) /\ arg' \in Seq(Byte)
  BY <1>2, Cut DEF SockTypeOK
<1>4. sent' \in Seq(Byte)
  BY <1>3, ConcatProperties DEF SockTypeOK
<1> QED BY <1>2, <1>3, <1>4 DEF SockTypeOK, WriteSend, Reading

LEMMA WriteType ==
  ASSUME SockTypeOK, (\E b \in Requests : StartWrite(b)) \/ WriteFails
  PROVE  SockTypeOK'
<1>1. ASSUME NEW b \in Requests, StartWrite(b) PROVE SockTypeOK'
  BY <1>1, SocketAssumption DEF SockTypeOK, StartWrite, remote, Reading
<1>2. CASE WriteFails
  BY <1>2, EmptySeq DEF SockTypeOK, WriteFails, remote, Reading, Errors
<1> QED BY <1>1, <1>2

(* A recv() into the empty buffer takes the front of wire, and no more     *)
(* than was asked for.                                                     *)
LEMMA Received ==
  ASSUME SockTypeOK, NEW nbyte \in Int, Receive(nbyte)
  PROVE  /\ rb' \in Seq(Byte) /\ wire' \in Seq(Byte)
         /\ rb' \o wire' = wire /\ rb' # <<>> /\ Len(rb') <= nbyte
<1> PICK n \in 1 .. Smaller(nbyte, Len(wire)) :
      rb' = First(wire, n) /\ wire' = After(wire, n)
  BY DEF Receive
<1>1. wire \in Seq(Byte) /\ Len(wire) \in Nat
  BY LenProperties DEF SockTypeOK
<1>2. n \in 0 .. Len(wire) /\ n <= nbyte /\ n # 0
  BY <1>1 DEF Smaller
<1>3. /\ rb' \in Seq(Byte) /\ Len(rb') = n
      /\ wire' \in Seq(Byte) /\ rb' \o wire' = wire
  BY <1>1, <1>2, Cut
<1> QED BY <1>2, <1>3, EmptySeq

LEMMA BinaryRequest ==
  ASSUME SockTypeOK
  PROVE  LET n == Smaller(BufSize, want - Len(data))
         IN  n \in Int /\ n <= BufSize /\ n <= want - Len(data)
<1>1. BufSize \in Nat /\ want \in Nat /\ Len(data) \in Nat
  BY SocketAssumption, LenProperties DEF SockTypeOK
<1> QED BY <1>1 DEF Smaller

LEMMA ReceiveType ==
  ASSUME SockTypeOK, ReadTextReceive \/ ReadBinaryReceive \/ ReceiveFails
  PROVE  SockTypeOK'
<1>1. ASSUME NEW nbyte \in Int, nbyte <= BufSize, Receive(nbyte)
      PROVE  SockTypeOK'
  <2>1. BufSize \in Nat /\ Len(rb') \in Nat
    BY <1>1, Received, LenProperties, SocketAssumption
  <2>2. Len(rb') <= BufSize
    BY <1>1, <2>1, Received
  <2> QED BY <1>1, <2>2, Received DEF SockTypeOK, Receive
<1>2. CASE ReadTextReceive
  BY <1>1, <1>2, SocketAssumption DEF ReadTextReceive
<1>3. CASE ReadBinaryReceive
  BY <1>1, <1>3, BinaryRequest DEF ReadBinaryReceive
<1>4. CASE ReceiveFails
  BY <1>4, EmptySeq DEF SockTypeOK, ReceiveFails, remote, Reading, Errors
<1> QED BY <1>2, <1>3, <1>4

(* Both read loops take a front part of the buffer: all of it, or up to    *)
(* the end of the first terminator in it.                                  *)
LEMMA Taking ==
  ASSUME SockTypeOK, ReadTextScan \/ ReadBinaryTake
  PROVE  /\ call \in Reading /\ rb # <<>>
         /\ \E n \in 0 .. Len(rb) : Collect(n, TRUE) \/ Collect(n, FALSE)
<1>1. rb # <<>> /\ call \in Reading
  BY DEF ReadTextScan, ReadBinaryTake, Reading
<1>0. Len(rb) \in 0 .. Len(rb)
  <2>1. Len(rb) \in Nat
    BY LenProperties DEF SockTypeOK
  <2> QED BY <2>1
<1>2. CASE ReadBinaryTake
  <2>1. Collect(Len(rb), TRUE) \/ Collect(Len(rb), FALSE)
    BY <1>2 DEF ReadBinaryTake, Collect
  <2> QED BY <1>0, <1>1, <2>1
<1>3. CASE ReadTextScan
  <2>1. CASE Collect(Len(rb), FALSE)
    BY <1>0, <1>1, <2>1
  <2>2. ASSUME NEW n \in MatchEnds(rb, arg)
        PROVE  n \in 0 .. Len(rb)
    BY LenProperties DEF MatchEnds, SockTypeOK
  <2> QED BY <1>1, <1>3, <2>1, <2>2 DEF ReadTextScan
<1> QED BY <1>2, <1>3

LEMMA CollectType ==
  ASSUME SockTypeOK, ReadTextScan \/ ReadBinaryTake
  PROVE  SockTypeOK'
<1> PICK n \in 0 .. Len(rb) : Collect(n, TRUE) \/ Collect(n, FALSE)
  BY Taking
<1>1. /\ First(rb, n) \in Seq(Byte) /\ After(rb, n) \in Seq(Byte)
      /\ Len(After(rb, n)) = Len(rb) - n /\ Len(rb) \in Nat
  BY Cut, LenProperties DEF SockTypeOK
<1>2. data' \in {<<>>, data \o First(rb, n)} /\ rb' = After(rb, n)
  BY DEF Collect
<1>3. data' \in Seq(Byte)
  <2>1. data \o First(rb, n) \in Seq(Byte)
    BY <1>1, ConcatProperties DEF SockTypeOK
  <2>2. <<>> \in Seq(Byte)
    BY EmptySeq
  <2> QED BY <1>2, <2>1, <2>2
<1>4. taken \o data' \in Seq(Byte)
  BY <1>3, ConcatProperties DEF SockTypeOK
<1>5. rb' \in Seq(Byte) /\ Len(rb') <= BufSize
  BY SMTT(30), <1>1, <1>2, SocketAssumption DEF SockTypeOK
<1>6. CASE Collect(n, TRUE)
  <2>1. taken' \in Seq(Byte)
    BY <1>4, <1>6 DEF Collect
  <2>2. call' = "idle" /\ arg' \in Seq(Byte) /\ want' \in Nat
    BY <1>6, EmptySeq DEF Collect
  <2>3. UNCHANGED <<fd, err, sent, queued, stream, wire, peer, fault>>
    BY DEF Collect
  <2> QED BY <1>3, <1>5, <2>1, <2>2, <2>3 DEF SockTypeOK
<1>7. CASE Collect(n, FALSE)
  BY <1>3, <1>5, <1>7 DEF SockTypeOK, Collect
<1> QED BY <1>6, <1>7

LEMMA OtherType ==
  ASSUME SockTypeOK,
         \/ \E t \in Terms : StartReadText(t)
         \/ \E n \in 0 .. MaxWant : StartReadBinary(n)
         \/ Reject \/ Disconnect \/ Drain \/ Disrupt \/ UNCHANGED sockVars
  PROVE  SockTypeOK'
<1>1. ASSUME NEW t \in Terms, StartReadText(t) PROVE SockTypeOK'
  BY <1>1, SocketAssumption, EmptySeq DEF SockTypeOK, StartReadText, remote, Reading
<1>2. ASSUME NEW n \in 0 .. MaxWant, StartReadBinary(n) PROVE SockTypeOK'
  BY <1>2, SocketAssumption, EmptySeq DEF SockTypeOK, StartReadBinary, remote, Reading
<1>3. CASE Reject
  BY <1>3, EmptySeq DEF SockTypeOK, Reject, remote, Errors
<1>4. CASE Disconnect
  BY <1>4 DEF SockTypeOK, Disconnect, remote
<1>5. CASE Drain
  BY <1>5, SocketAssumption DEF SockTypeOK, Drain, local
<1>6. CASE Disrupt
  BY <1>6 DEF SockTypeOK, Disrupt, local
<1>7. CASE UNCHANGED sockVars
  BY <1>7 DEF SockTypeOK, sockVars, local, remote
<1> QED BY <1>1, <1>2, <1>3, <1>4, <1>5, <1>6, <1>7

LEMMA TypeStep ==
  ASSUME SockTypeOK, [SockNext]_sockVars
  PROVE  SockTypeOK'
<1>1. CASE StartConnect \/ ConnectSelect
  BY <1>1, ConnectType
<1>2. CASE (\E b \in Requests : StartWrite(b)) \/ WriteFails
  BY <1>2, WriteType
<1>3. CASE WriteSend
  BY <1>3, SendType
<1>4. CASE ReadTextReceive \/ ReadBinaryReceive \/ ReceiveFails
  BY <1>4, ReceiveType
<1>5. CASE ReadTextScan \/ ReadBinaryTake
  BY <1>5, CollectType
<1> QED BY <1>1, <1>2, <1>3, <1>4, <1>5, OtherType DEF SockNext, Caller, SockStep

(* Every variable keeps its type; in particular readBuffer.position never  *)
(* exceeds sizeof(data), whatever sizes are asked for.                     *)
THEOREM SocketTypes == SockSpec => []SockTypeOK
<1>1. SockTypeOK /\ [SockNext]_sockVars => SockTypeOK'
  BY TypeStep
<1> QED BY InitType, <1>1, PTL DEF SockSpec

-----------------------------------------------------------------------------
(* Stream integrity.  Between reads nothing is pending, so integrity says  *)
(* nothing while there is no connection; that nothing has been received    *)
(* then, and that a read is only in progress on a healthy connection, is   *)
(* what makes it inductive.                                                *)

Connected == call # "idle" => fd = "open"
Healthy == call # "idle" => err = "ok"
Asked == call = "read_text" => arg # <<>>
Fresh ==
  fd = "none" \/ call = "connect" => taken = <<>> /\ rb = <<>> /\ wire = stream

SockInv ==
  /\ SockTypeOK /\ fd # "reclosed" /\ Connected /\ Healthy /\ Asked
  /\ Fresh /\ StreamIntegrity

LEMMA EmptyPieces ==
  ASSUME NEW S, NEW w \in Seq(S)
  PROVE  <<>> \o <<>> \o <<>> \o w = w /\ IsPrefix(<<>>, w)
<1>1. <<>> \in Seq(S)
  BY EmptySeq
<1>2. \A s \in Seq(S) : <<>> \o s = s
  BY ConcatEmptySeq
<1>3. IsPrefix(<<>>, <<>> \o w)
  BY <1>1, PrefixOfConcat
<1> QED BY <1>1, <1>2, <1>3

LEMMA FreshIntegrity ==
  ASSUME SockTypeOK, Fresh, fd = "none" \/ call = "connect"
  PROVE  taken \o <<>> \o rb \o wire = stream /\ IsPrefix(taken, stream)
BY EmptyPieces DEF Fresh, SockTypeOK

LEMMA InitInv == SockInit => SockInv
<1> SUFFICES ASSUME SockInit PROVE SockInv
  OBVIOUS
<1>1. SockTypeOK
  BY InitType
<1>2. Connected /\ Healthy /\ Asked /\ Fresh /\ fd = "none" /\ Pending = <<>>
  BY DEF SockInit, Connected, Healthy, Asked, Fresh, Pending, Reading
<1>3. StreamIntegrity
  BY <1>1, <1>2, FreshIntegrity DEF StreamIntegrity
<1> QED BY <1>1, <1>2, <1>3 DEF SockInv

LEMMA ConnectInv ==
  ASSUME SockInv, SockTypeOK', (fd = "none" /\ StartConnect) \/ ConnectSelect
  PROVE  SockInv'
<1>1. taken \o <<>> \o rb \o wire = stream /\ IsPrefix(taken, stream)
  BY FreshIntegrity DEF SockInv, StartConnect, ConnectSelect
<1>2. UNCHANGED <<rb, arg, want, data, remote>>
  BY DEF StartConnect, ConnectSelect, ConnectFails
<1>3. call' \in {"idle", "connect"} /\ fd' \in {"none", "open"}
      /\ (fd' = "none" => call' = "idle") /\ (call' = "connect" => err' = "ok")
  BY DEF StartConnect, ConnectSelect, ConnectFails, SockInv, Connected
<1>4. Pending' = <<>>
  BY <1>3 DEF Pending, Reading
<1>5. StreamIntegrity'
  BY <1>1, <1>2, <1>4 DEF StreamIntegrity, remote
<1>6. Connected' /\ Healthy' /\ Asked' /\ fd' # "reclosed"
  BY <1>3 DEF Connected, Healthy, Asked
<1>7. Fresh'
  BY <1>2 DEF Fresh, SockInv, StartConnect, ConnectSelect, remote
<1> QED BY <1>5, <1>6, <1>7 DEF SockInv

LEMMA ReceiveInv ==
  ASSUME SockInv, SockTypeOK', ReadTextReceive \/ ReadBinaryReceive
  PROVE  SockInv'
<1> PICK nbyte \in Int : Receive(nbyte) /\ call \in Reading
  BY BinaryRequest, SocketAssumption
     DEF ReadTextReceive, ReadBinaryReceive, Reading, SockInv
<1>1. /\ rb' \in Seq(Byte) /\ wire' \in Seq(Byte) /\ rb' \o wire' = wire
      /\ rb = <<>> /\ err' = "ok"
      /\ UNCHANGED <<fd, call, arg, data, stream, taken>>
  BY Received DEF SockInv, Receive
<1>2. err = "ok" /\ fd = "open" /\ call # "connect"
  BY DEF SockInv, Healthy, Connected, Reading
<1>3. taken \in Seq(Byte) /\ data \in Seq(Byte) /\ taken \o data \in Seq(Byte)
  BY ConcatProperties DEF SockInv, SockTypeOK
<1>4. ASSUME NEW p \in Seq(Byte), NEW q \in Seq(Byte), NEW r \in Seq(Byte)
      PROVE  (p \o q) \o r = p \o (q \o r)
  BY ONLY p \in Seq(Byte), q \in Seq(Byte), r \in Seq(Byte), ConcatAssociative
<1>5. (taken \o data) \o <<>> = taken \o data
  BY <1>3, ConcatEmptySeq
<1>6. taken \o data \o rb \o wire = stream /\ IsPrefix(taken, stream)
  BY <1>2 DEF SockInv, StreamIntegrity, Pending
<1>7. taken' \o Pending' \o rb' \o wire' = stream
  <2>1. ((taken \o data) \o rb') \o wire' = (taken \o data) \o (rb' \o wire')
    BY ZenonT(30), <1>1, <1>3, <1>4
  <2>2. ((taken \o data) \o rb') \o wire' = (taken \o data) \o wire
    BY ONLY <2>1, <1>1
  <2>3. (taken \o data) \o wire = stream
    BY ONLY <1>1, <1>5, <1>6
  <2>4. taken' = taken /\ Pending' = data
    BY <1>1 DEF Pending
  <2> QED BY ONLY <2>2, <2>3, <2>4
<1>8. StreamIntegrity'
  BY <1>1, <1>6, <1>7 DEF StreamIntegrity
<1> QED BY <1>1, <1>2, <1>8 DEF SockInv, Connected, Healthy, Asked, Fresh, Reading

LEMMA CollectInv ==
  ASSUME SockInv, SockTypeOK', ReadTextScan \/ ReadBinaryTake
  PROVE  SockInv'
<1>1. SockTypeOK /\ call \in Reading /\ rb # <<>>
  BY Taking DEF SockInv
<1> PICK n \in 0 .. Len(rb) : Collect(n, TRUE) \/ Collect(n, FALSE)
  BY Taking DEF SockInv
<1> DEFINE f == First(rb, n)
<1>2. /\ data' = data \o f /\ rb' = After(rb, n)
      /\ UNCHANGED <<fd, err, stream, wire>>
  BY <1>1 DEF Collect, SockInv, Healthy, Reading
<1>3. f \in Seq(Byte) /\ rb' \in Seq(Byte)
  BY <1>1, <1>2, Cut DEF SockTypeOK
<1>8. f \o rb' = rb
  BY <1>1, <1>2, Cut DEF SockTypeOK
<1> HIDE DEF f
<1>4. err = "ok" /\ fd = "open" /\ call # "connect"
  BY <1>1 DEF SockInv, Healthy, Connected, Reading
<1>5. taken \o data \o (f \o rb') \o wire = stream /\ IsPrefix(taken, stream)
  BY <1>1, <1>4, <1>8 DEF SockInv, StreamIntegrity, Pending
<1>6. taken \o data' \o rb' \o wire = stream
  <2>1. taken \in Seq(Byte) /\ data \in Seq(Byte)
    BY <1>1 DEF SockTypeOK
  <2>2. ASSUME NEW p \in Seq(Byte), NEW q \in Seq(Byte), NEW r \in Seq(Byte)
        PROVE  p \o (q \o r) = (p \o q) \o r /\ p \o q \in Seq(Byte)
    OBVIOUS
  <2>3. taken \o (data \o f) = (taken \o data) \o f /\ taken \o data \in Seq(Byte)
    BY ONLY SMTT(30), <1>3, <2>1, <2>2
  <2>4. (taken \o data) \o (f \o rb') = ((taken \o data) \o f) \o rb'
    BY ONLY <1>3, <2>2, <2>3
  <2> QED BY ONLY <1>2, <1>5, <2>3, <2>4
<1>7. StreamIntegrity' /\ call' # "connect"
  <2>1. CASE Collect(n, FALSE)
    <3>1. call' = call /\ taken' = taken
      BY <2>1 DEF Collect
    <3> QED BY <1>1, <1>2, <1>4, <1>5, <1>6, <3>1 DEF StreamIntegrity, Pending
  <2>2. CASE Collect(n, TRUE)
    <3>1. call' = "idle" /\ taken' = taken \o data'
      BY <2>2 DEF Collect
    <3>2. Pending' = <<>> /\ taken' \in Seq(Byte) /\ wire \in Seq(Byte)
      BY <1>1, <3>1 DEF Pending, Reading, SockTypeOK
    <3>3. taken' \o <<>> = taken'
      BY <3>2, ConcatEmptySeq
    <3>4. taken' \o Pending' \o rb' \o wire' = stream
      BY ONLY <1>2, <1>6, <3>1, <3>2, <3>3
    <3>5. IsPrefix(taken', stream)
      <4>1. ASSUME NEW p \in Seq(Byte), NEW q \in Seq(Byte), NEW r \in Seq(Byte)
            PROVE  IsPrefix(p, (p \o q) \o r)
        <5>1. (p \o q) \o r = p \o (q \o r) /\ q \o r \in Seq(Byte)
          BY SMTT(30), ConcatAssociative, ConcatProperties
        <5> QED BY <5>1, PrefixOfConcat
      <4>2. IsPrefix(taken', (taken' \o rb') \o wire)
        BY <1>3, <3>2, <4>1
      <4> QED BY ONLY <1>6, <3>1, <4>2
    <3> QED BY <1>2, <3>1, <3>4, <3>5 DEF StreamIntegrity
  <2> QED BY <1>1, <2>1, <2>2, <1>4
<1>9. Asked'
  BY <1>1 DEF Collect, SockInv, Asked
<1> QED BY <1>2, <1>4, <1>7, <1>9 DEF SockInv, Connected, Healthy, Fresh

(* A step that moves no byte from the peer to the caller, and starts or    *)
(* ends no connection, keeps integrity if nothing pending appears.         *)
LEMMA NothingMoved ==
  ASSUME SockInv, SockTypeOK', UNCHANGED <<fd, rb, stream, wire, taken>>,
         Connected', Healthy', Asked', call' # "connect",
         Pending' = Pending, err' = "ok" => err = "ok"
  PROVE  SockInv'
<1>1. StreamIntegrity'
  BY DEF SockInv, StreamIntegrity
<1>2. Fresh'
  BY DEF SockInv, Fresh
<1> QED BY <1>1, <1>2 DEF SockInv

LEMMA WriteInv ==
  ASSUME SockInv, SockTypeOK',
         \/ fd = "open" /\ err = "ok" /\ \E b \in Requests : StartWrite(b)
         \/ WriteSend \/ WriteFails
  PROVE  SockInv'
<1>1. /\ UNCHANGED <<fd, rb, stream, wire, taken>>
      /\ call \in {"idle", "write"} /\ call' \in {"idle", "write"}
      /\ fd = "open" /\ (err' = "ok" => err = "ok")
  BY DEF StartWrite, WriteSend, WriteFails, remote, SockInv, Connected
<1>2. Healthy'
  BY DEF StartWrite, WriteSend, WriteFails, SockInv, Healthy
<1>3. Pending' = Pending /\ Connected' /\ Asked'
  BY <1>1 DEF Pending, Connected, Asked, Reading
<1> QED BY <1>1, <1>2, <1>3, NothingMoved

LEMMA StartReadInv ==
  ASSUME SockInv, SockTypeOK', fd = "open" /\ err = "ok",
         \/ \E t \in Terms : StartReadText(t)
         \/ \E n \in 0 .. MaxWant : StartReadBinary(n)
  PROVE  SockInv'
<1>1. /\ UNCHANGED <<fd, rb, stream, wire, taken>> /\ err' = "ok"
      /\ call = "idle" /\ data' = <<>> /\ call' # "connect"
  BY DEF StartReadText, StartReadBinary, remote, Reading
<1>2. Pending = <<>> /\ Pending' = <<>> /\ Connected' /\ Healthy'
  BY <1>1 DEF Pending, Connected, Healthy, Reading
<1>3. Asked'
  BY SocketAssumption DEF StartReadText, StartReadBinary, Asked
<1> QED BY <1>1, <1>2, <1>3, NothingMoved

LEMMA FailInv ==
  ASSUME SockInv, SockTypeOK', ReceiveFails \/ (fd = "open" /\ err = "ok" /\ Reject)
  PROVE  SockInv'
<1>1. /\ UNCHANGED <<fd, rb, stream, wire, taken>> /\ err' # "ok"
      /\ call' = "idle" /\ fd = "open"
  BY DEF ReceiveFails, Reject, remote, SockInv, Connected, Reading
<1>2. Connected' /\ Healthy' /\ Asked' /\ Fresh'
  BY <1>1 DEF Connected, Healthy, Asked, Fresh
<1>3. StreamIntegrity'
  BY <1>1 DEF SockInv, StreamIntegrity
<1> QED BY <1>1, <1>2, <1>3 DEF SockInv

LEMMA IdleInv ==
  ASSUME SockInv, SockTypeOK',
         \/ fd = "open" /\ Disconnect
         \/ Drain \/ Disrupt \/ UNCHANGED sockVars
  PROVE  SockInv'
<1>1. CASE fd = "open" /\ Disconnect
  <2>1. /\ UNCHANGED <<rb, stream, wire, taken>> /\ fd' = "closed"
        /\ call' = "idle"
    BY <1>1 DEF Disconnect, remote
  <2>2. Connected' /\ Healthy' /\ Asked' /\ Fresh' /\ StreamIntegrity'
    BY <2>1 DEF SockInv, StreamIntegrity, Connected, Healthy, Asked, Fresh
  <2> QED BY <2>1, <2>2 DEF SockInv
<1>2. CASE Drain \/ Disrupt \/ UNCHANGED sockVars
  <2>1. UNCHANGED <<fd, rb, call, arg, data, err, stream, wire, taken>>
    BY <1>2 DEF Drain, Disrupt, sockVars, local, remote
  <2>2. Connected' /\ Healthy' /\ Asked' /\ Fresh' /\ StreamIntegrity'
    BY <2>1 DEF SockInv, StreamIntegrity, Pending, Connected, Healthy, Asked, Fresh
  <2> QED BY <2>1, <2>2 DEF SockInv
<1> QED BY <1>1, <1>2

LEMMA InvStep ==
  ASSUME SockInv, [SockNext]_sockVars
  PROVE  SockInv'
<1>1. SockTypeOK'
  BY TypeStep DEF SockInv
<1> QED BY <1>1, ConnectInv, ReceiveInv, CollectInv, WriteInv, StartReadInv,
           FailInv, IdleInv DEF SockNext, Caller, SockStep

LEMMA SocketInvariant == SockSpec => []SockInv
<1>1. SockInv /\ [SockNext]_sockVars => SockInv'
  BY InvStep
<1> QED BY InitInv, <1>1, PTL DEF SockSpec

(* However recv() cuts the stream, and whatever is left in the buffer      *)
(* between two reads, sys_socket.c loses, repeats and reorders no byte.    *)
THEOREM SocketIntegrity == SockSpec => []StreamIntegrity
<1>1. SockInv => StreamIntegrity
  BY DEF SockInv
<1> QED BY SocketInvariant, <1>1, PTL

(* read_binary never asks the network for more than is missing, so what it *)
(* returns exceeds expectedSize only by what read_text had left behind.    *)
THEOREM SocketNoOverRead == SockSpec => []NoOverRead
<1>1. SockInit => NoOverRead
  BY DEF SockInit, NoOverRead
<1>2. SockTypeOK /\ NoOverRead /\ [SockNext]_sockVars => NoOverRead'
  <2> SUFFICES ASSUME SockTypeOK, NoOverRead, [SockNext]_sockVars,
                      call' = "read_binary", data' # <<>>
               PROVE  Len(data') < want' /\ Len(data') + Len(rb') <= want'
    BY DEF NoOverRead
  <2>1. CASE ReadBinaryReceive
    <3> DEFINE nbyte == Smaller(BufSize, want - Len(data))
    <3>1. nbyte \in Int /\ nbyte <= want - Len(data) /\ Receive(nbyte)
      BY <2>1, BinaryRequest DEF ReadBinaryReceive
    <3> HIDE DEF nbyte
    <3>2. Len(rb') <= nbyte /\ rb' \in Seq(Byte)
      BY <3>1, Received
    <3>3. data' = data /\ want' = want /\ call = "read_binary"
      BY <2>1, <3>1 DEF Receive, ReadBinaryReceive
    <3>4. Len(data) \in Nat /\ Len(rb') \in Nat /\ want \in Nat /\ Len(data) < want
      BY <3>2, <3>3, LenProperties DEF SockTypeOK, NoOverRead
    <3> QED BY <3>1, <3>2, <3>3, <3>4
  <2>2. CASE ReadBinaryTake
    <3>1. Collect(Len(rb), FALSE) /\ ~(Len(data) + Len(rb) >= want)
      BY <2>2 DEF ReadBinaryTake, Collect
    <3>2. data \in Seq(Byte) /\ rb \in Seq(Byte) /\ want \in Nat
      BY DEF SockTypeOK
    <3>3. Len(data) \in Nat /\ Len(rb) \in Nat
      BY <3>2, LenProperties
    <3>4. data' = data \o rb /\ rb' = <<>> /\ want' = want
      BY <3>1, <3>2, CutAll DEF Collect
    <3>5. Len(data \o rb) = Len(data) + Len(rb) /\ Len(<<>>) = 0
      BY <3>2, ConcatProperties, EmptySeq
    <3> QED BY <3>1, <3>2, <3>3, <3>4, <3>5
  <2>3. CASE UNCHANGED <<rb, call, want, data>>
    BY <2>3 DEF NoOverRead
  <2>4. ASSUME ~ReadBinaryReceive, ~ReadBinaryTake
        PROVE  UNCHANGED <<rb, call, want, data>>
    <3>1. CASE UNCHANGED sockVars
      BY <3>1 DEF sockVars, local
    <3>2. CASE Caller
      BY <3>2 DEF Caller, StartConnect, ConnectFails, StartWrite, StartReadText,
           StartReadBinary, Reject, Disconnect, remote
    <3>3. CASE Drain \/ Disrupt
      BY <3>3 DEF Drain, Disrupt, local
    <3>4. CASE SockStep
      BY <2>4, <3>4 DEF SockStep, ConnectSelect, ConnectFails, WriteSend, WriteFails,
           ReceiveFails, ReadTextReceive, ReadTextScan, Receive, Collect
    <3> QED BY <3>1, <3>2, <3>3, <3>4 DEF SockNext
  <2> QED BY <2>1, <2>2, <2>3, <2>4
<1> QED BY SocketTypes, <1>1, <1>2, PTL DEF SockSpec

-----------------------------------------------------------------------------
(* The socket implements the byte stream that socket.h promises.          *)

Unread == Pending \o rb \o wire
Ask == CASE call = "read_text" -> [end |-> arg]
         [] call = "read_binary" -> [size |-> want]
         [] OTHER -> [none |-> 0]
Answer == IF call \in Reading THEN <<>> ELSE data
Failed == fd # "none" /\ err # "ok"

(* No request is mistaken for the absence of one.                          *)
LEMMA NotAsking ==
  /\ \A x : [end |-> x] # [none |-> 0] /\ "end" \in DOMAIN [end |-> x]
            /\ "size" \notin DOMAIN [end |-> x]
  /\ \A x : [size |-> x] # [none |-> 0] /\ "size" \in DOMAIN [size |-> x]
            /\ "end" \notin DOMAIN [size |-> x]
<1>1. \A x : DOMAIN [end |-> x] = {"end"} /\ DOMAIN [size |-> x] = {"size"}
  OBVIOUS
<1>2. DOMAIN [none |-> 0] = {"none"}
  OBVIOUS
<1> QED BY <1>1, <1>2

LEMMA InitRefines == SockInit => Promise!StreamInit
<1> SUFFICES ASSUME SockInit PROVE Promise!StreamInit
  OBVIOUS
<1>1. Unread = stream
  BY InitInv, FreshIntegrity, EmptyPieces, SocketAssumption
     DEF SockInit, Unread, Pending, Reading
<1> QED BY <1>1, SocketAssumption DEF SockInit, Promise!StreamInit, Unread, Reading

(* Steps that the caller of socket.h does not see.                         *)
LEMMA Unseen ==
  ASSUME SockInv, SockTypeOK',
         \/ fd = "none" /\ StartConnect
         \/ fd = "open" /\ err = "ok" /\ \E b \in Requests : StartWrite(b)
         \/ fd = "open" /\ Disconnect
         \/ ConnectSelect \/ WriteSend \/ Drain \/ Disrupt \/ UNCHANGED sockVars
  PROVE  UNCHANGED Promise!streamVars
<1>1. UNCHANGED <<rb, wire, data>>
  BY DEF StartConnect, ConnectFails, StartWrite, Disconnect, ConnectSelect,
     WriteSend, Drain, Disrupt, sockVars, local, remote
<1>2. \/ UNCHANGED <<call, arg, want>>
      \/ call \notin Reading /\ call' \notin Reading
  BY DEF StartConnect, ConnectFails, StartWrite, Disconnect, ConnectSelect,
     WriteSend, Drain, Disrupt, sockVars, local, remote, Reading
<1>3. Failed' = Failed
  BY DEF StartConnect, ConnectFails, StartWrite, Disconnect, ConnectSelect,
     WriteSend, Drain, Disrupt, sockVars, local, remote, Failed, SockInv,
     Healthy, Connected
<1>4. Unread' = Unread /\ Answer' = Answer
  BY <1>1, <1>2 DEF Unread, Answer, Pending
<1>5. Ask' = Ask
  BY <1>2 DEF Ask, Reading
<1> QED BY <1>3, <1>4, <1>5 DEF Promise!streamVars, Unread, Ask, Answer, Failed

LEMMA AskRefines ==
  ASSUME SockInv, SockTypeOK', fd = "open", err = "ok",
         \/ \E t \in Terms : StartReadText(t)
         \/ \E n \in 0 .. MaxWant : StartReadBinary(n)
  PROVE  Promise!AskText \/ Promise!AskBinary
<1>1. /\ call = "idle" /\ UNCHANGED <<fd, rb, wire>> /\ err' = "ok" /\ data' = <<>>
  BY DEF StartReadText, StartReadBinary, remote
<1>2. Unread' = Unread /\ Answer' = <<>> /\ ~Failed /\ ~Failed' /\ Ask = [none |-> 0]
  BY <1>1 DEF Unread, Pending, Answer, Failed, Ask, Reading
<1>3. ASSUME NEW t \in Terms, StartReadText(t)
      PROVE  Promise!AskText
  <2>1. Ask' \in [end : Terms]
    BY <1>3 DEF StartReadText, Ask
  <2> QED BY <1>2, <2>1 DEF Promise!AskText, Unread, Ask, Answer, Failed
<1>4. ASSUME NEW n \in 0 .. MaxWant, StartReadBinary(n)
      PROVE  Promise!AskBinary
  <2>1. Ask' \in {[none |-> 0]} \cup [size : 1 .. MaxWant]
    BY <1>4, SocketAssumption DEF StartReadBinary, Ask
  <2> QED BY <1>2, <2>1 DEF Promise!AskBinary, Unread, Ask, Answer, Failed
<1> QED BY <1>3, <1>4

(* What follows the first Len(p) bytes of p \o q is q.                     *)
LEMMA AfterPrefix ==
  ASSUME NEW S, NEW p \in Seq(S), NEW q \in Seq(S)
  PROVE  After(p \o q, Len(p)) = q
<1>1. /\ Len(p) \in Nat /\ Len(q) \in Nat /\ p \o q \in Seq(S)
      /\ Len(p \o q) = Len(p) + Len(q)
  BY LenProperties, ConcatProperties
<1>2. CASE Len(q) = 0
  <2>1. q = <<>>
    BY <1>2, EmptySeq
  <2>2. SubSeq(p \o q, Len(p) + 1, Len(p)) = <<>>
    BY <1>1, SubSeqEmpty
  <2> QED BY <1>1, <1>2, <2>1, <2>2 DEF After
<1>3. CASE Len(q) # 0
  <2>1. SubSeq(p \o q, Len(p) + 1, Len(p) + Len(q))
          = SubSeq(q, Len(p) + 1 - Len(p), Len(p) + Len(q) - Len(p))
    BY <1>1, <1>3, SubSeqOfConcat2
  <2>2. Len(p) + 1 - Len(p) = 1 /\ Len(p) + Len(q) - Len(p) = Len(q)
    BY <1>1
  <2> QED BY <1>1, <2>1, <2>2, SubSeqFull DEF After
<1> QED BY <1>1, <1>2, <1>3

(* And its first Len(p) bytes are p.                                       *)
LEMMA FirstPrefix ==
  ASSUME NEW S, NEW p \in Seq(S), NEW q \in Seq(S)
  PROVE  First(p \o q, Len(p)) = p
<1>1. Len(p) \in Nat
  BY LenProperties
<1>2. SubSeq(p \o q, 1, Len(p)) = SubSeq(p, 1, Len(p))
  <2>1. CASE Len(p) = 0
    BY <2>1, SubSeqEmpty
  <2>2. CASE Len(p) # 0
    BY <1>1, <2>2, SubSeqOfConcat1
  <2> QED BY <2>1, <2>2
<1> QED BY <1>2, SubSeqFull DEF First

LEMMA FailRefines ==
  ASSUME SockInv, SockTypeOK',
         \/ WriteFails \/ ReceiveFails
         \/ fd = "open" /\ err = "ok" /\ Reject
  PROVE  Promise!Fail
<1>1. /\ fd = "open" /\ fd' = "open" /\ err = "ok" /\ err' # "ok"
      /\ call' = "idle" /\ UNCHANGED <<rb, wire>>
  BY DEF WriteFails, ReceiveFails, Reject, remote, SockInv, Connected, Healthy, Reading
<1>2. ~Failed /\ Failed' /\ Ask' = [none |-> 0] /\ Answer' \in {Answer, <<>>}
  BY <1>1 DEF Failed, Ask, Answer, WriteFails, ReceiveFails, Reject, Reading
<1>3. /\ data \in Seq(Byte) /\ rb \in Seq(Byte) /\ wire \in Seq(Byte)
      /\ Pending \in Seq(Byte) /\ Unread \in Seq(Byte) /\ Unread' \in Seq(Byte)
  BY <1>1, EmptySeq, ConcatProperties DEF SockInv, SockTypeOK, Unread, Pending, Reading
<1>4. Unread' = rb \o wire
  BY <1>1, <1>3, ConcatEmptySeq DEF Unread, Pending, Reading
<1>5. Unread = Pending \o Unread'
  <2>1. ASSUME NEW p \in Seq(Byte), NEW q \in Seq(Byte), NEW r \in Seq(Byte)
        PROVE  (p \o q) \o r = p \o (q \o r)
    OBVIOUS
  <2>2. (Pending \o rb) \o wire = Pending \o (rb \o wire)
    BY ONLY SMTT(30), <1>3, <2>1
  <2>3. Unread = (Pending \o rb) \o wire
    BY DEF Unread
  <2> QED BY ONLY <1>4, <2>2, <2>3
<1>6. After(Unread, Len(Pending)) = Unread'
  BY <1>3, <1>5, AfterPrefix
<1>7. Len(Pending) \in 0 .. Len(Unread)
  BY <1>3, <1>5, LenProperties, ConcatProperties
<1>8. \E n \in 0 .. Len(Unread) : Unread' = SubSeq(Unread, n + 1, Len(Unread))
  BY <1>6, <1>7 DEF After
<1> QED BY <1>2, <1>8 DEF Promise!Fail, Unread, Ask, Answer, Failed

LEMMA ReceiveRefines ==
  ASSUME SockInv, SockTypeOK', ReadTextReceive \/ ReadBinaryReceive
  PROVE  UNCHANGED Promise!streamVars
<1> PICK nbyte \in Int : Receive(nbyte) /\ call \in Reading
  BY BinaryRequest, SocketAssumption
     DEF ReadTextReceive, ReadBinaryReceive, Reading, SockInv
<1>1. /\ rb' \in Seq(Byte) /\ wire' \in Seq(Byte) /\ data \in Seq(Byte)
      /\ rb = <<>> /\ err' = "ok" /\ err = "ok"
      /\ UNCHANGED <<fd, call, arg, want, data>>
  BY Received DEF SockInv, SockTypeOK, Receive, Healthy, Reading
<1>2. rb' \o wire' = wire
  BY Received DEF SockInv
<1>3. Unread' = Unread
  <2>1. ASSUME NEW p \in Seq(Byte), NEW q \in Seq(Byte), NEW r \in Seq(Byte)
        PROVE  (p \o q) \o r = p \o (q \o r) /\ p \o <<>> = p
    OBVIOUS
  <2>2. (data \o rb') \o wire' = data \o (rb' \o wire') /\ data \o <<>> = data
    BY ONLY <1>1, <2>1
  <2>3. Unread = (data \o <<>>) \o wire /\ Unread' = (data \o rb') \o wire'
    BY <1>1 DEF Unread, Pending
  <2> QED BY ONLY <1>2, <2>2, <2>3
<1> QED BY <1>1, <1>3 DEF Promise!streamVars, Unread, Failed, Reading

(* Taking the front of the buffer does not change what is unread, ...      *)
LEMMA TakenFront ==
  ASSUME SockInv, SockTypeOK', call \in Reading,
         NEW n \in 0 .. Len(rb), Collect(n, TRUE) \/ Collect(n, FALSE)
  PROVE  /\ data' \o (rb' \o wire') = Unread
         /\ data' \in Seq(Byte) /\ rb' \o wire' \in Seq(Byte)
         /\ data' = data \o First(rb, n) /\ UNCHANGED <<fd, err, wire>>
<1> DEFINE f == First(rb, n)
<1>1. data' = data \o f /\ rb' = After(rb, n) /\ UNCHANGED <<fd, err, wire>>
  BY DEF Collect, SockInv, Healthy, Reading
<1>2. /\ f \in Seq(Byte) /\ rb' \in Seq(Byte) /\ wire \in Seq(Byte)
      /\ data \in Seq(Byte) /\ data' \in Seq(Byte)
  BY <1>1, Cut DEF SockInv, SockTypeOK
<1>3. f \o rb' = rb
  BY <1>1, Cut DEF SockInv, SockTypeOK
<1> HIDE DEF f
<1>4. ASSUME NEW p \in Seq(Byte), NEW q \in Seq(Byte), NEW r \in Seq(Byte)
      PROVE  (p \o q) \o r = p \o (q \o r)
  OBVIOUS
<1>5. (f \o rb') \o wire = f \o (rb' \o wire)
  BY SMTT(30), <1>2, <1>4
<1>6. rb' \o wire \in Seq(Byte)
  BY <1>2, ConcatProperties
<1>7. (data \o f) \o (rb' \o wire) = data \o (f \o (rb' \o wire))
  BY ZenonT(30), <1>2, <1>4, <1>6
<1>8. rb \in Seq(Byte)
  BY DEF SockInv, SockTypeOK
<1>9. (data \o rb) \o wire = data \o (rb \o wire)
  BY SMTT(30), <1>2, <1>4, <1>8
<1>10. Unread = (data \o rb) \o wire
  BY DEF Unread, Pending
<1>11. data' \o (rb' \o wire') = Unread
  BY ONLY <1>1, <1>3, <1>5, <1>7, <1>9, <1>10
<1> QED BY <1>1, <1>2, <1>11, <1>6 DEF f

(* ... so a pass that goes on is not seen, ...                             *)
LEMMA GoesOn ==
  ASSUME SockInv, SockTypeOK', call \in Reading,
         NEW n \in 0 .. Len(rb), Collect(n, FALSE)
  PROVE  UNCHANGED Promise!streamVars
<1>1. /\ data' \o (rb' \o wire') = Unread /\ UNCHANGED <<fd, err>>
      /\ data' \in Seq(Byte) /\ rb' \in Seq(Byte) /\ wire' \in Seq(Byte)
  BY TakenFront DEF SockTypeOK
<1>2. UNCHANGED <<call, arg, want>>
  BY DEF Collect
<1>3. ASSUME NEW p \in Seq(Byte), NEW q \in Seq(Byte), NEW r \in Seq(Byte)
      PROVE  (p \o q) \o r = p \o (q \o r)
  OBVIOUS
<1>4. Unread' = Unread
  BY <1>1, <1>2, <1>3 DEF Unread, Pending
<1> QED BY <1>1, <1>2, <1>4 DEF Promise!streamVars, Unread, Failed

(* ... and a pass that returns delivers what was collected.                *)
LEMMA Returns ==
  ASSUME SockInv, SockTypeOK', call \in Reading, Len(data') \in Nat \ {0},
         NEW n \in 0 .. Len(rb), Collect(n, TRUE),
         call = "read_text" => Promise!EndsIn(data', arg),
         call = "read_binary" => Len(data') >= want
  PROVE  Promise!Deliver
<1>1. /\ data' \o (rb' \o wire') = Unread /\ UNCHANGED <<fd, err>>
      /\ data' \in Seq(Byte) /\ rb' \o wire' \in Seq(Byte)
  BY TakenFront
<1>2. call' = "idle" /\ Answer' = data' /\ Ask' = [none |-> 0] /\ Failed' = Failed
  BY <1>1 DEF Collect, Answer, Ask, Failed, Reading
<1>3. Answer' = First(Unread, Len(data')) /\ rb' \o wire' = After(Unread, Len(data'))
  BY <1>1, <1>2, FirstPrefix, AfterPrefix
<1>4. Unread' = rb' \o wire'
  BY <1>2, ConcatEmptySeq DEF Unread, Pending, Reading, SockTypeOK
<1>5. Len(data') \in 1 .. Len(Unread)
  BY <1>1, LenProperties, ConcatProperties
<1>6. /\ Ask # [none |-> 0]
      /\ "end" \in DOMAIN Ask => Ask = [end |-> arg] /\ call = "read_text"
      /\ "size" \in DOMAIN Ask => Ask = [size |-> want] /\ call = "read_binary"
  BY NotAsking DEF Ask, Reading
<1>7. /\ "end" \in DOMAIN Ask => Promise!EndsIn(Answer', Ask.end)
      /\ "size" \in DOMAIN Ask => Len(data') >= Ask.size
  BY <1>2, <1>6
<1> QED BY <1>2, <1>3, <1>4, <1>5, <1>6, <1>7
        DEF Promise!Deliver, First, After, Unread, Ask, Answer, Failed

(* What read_text returns ends in its terminator, also when the call began *)
(* with bytes of earlier buffers.                                          *)
LEMMA EndsInTerminator ==
  ASSUME NEW d \in Seq(Byte), NEW b \in Seq(Byte), NEW t \in Seq(Byte),
         t # <<>>, NEW n \in MatchEnds(b, t)
  PROVE  Promise!EndsIn(d \o First(b, n), t)
<1> DEFINE f == First(b, n)
           k == Len(d) + n
           i == k - Len(t) + 1
<1>1. Len(d) \in Nat /\ Len(b) \in Nat /\ Len(t) \in Nat \ {0}
  BY LenProperties, EmptySeq
<1>2. n \in Len(t) .. Len(b) /\ SubSeq(b, n - Len(t) + 1, n) = t
  BY DEF MatchEnds
<1>3. n \in 0 .. Len(b)
  BY <1>1, <1>2
<1>4. f \in Seq(Byte) /\ After(b, n) \in Seq(Byte) /\ Len(f) = n
  BY <1>3, Cut
<1>5. f \o After(b, n) = b
  BY <1>3, Cut
<1> HIDE DEF f
<1>6. n - Len(t) + 1 \in 1 .. Len(f) /\ n \in 1 .. Len(f)
  BY <1>1, <1>2, <1>4
<1>7. SubSeq(f \o After(b, n), n - Len(t) + 1, n) = SubSeq(f, n - Len(t) + 1, n)
  BY <1>4, <1>6, SubSeqOfConcat1
<1>8. Len(d \o f) = Len(d) + Len(f)
  BY <1>4, ConcatProperties
<1>9. Len(d \o f) = k /\ Len(t) <= k
  BY <1>1, <1>2, <1>4, <1>8
<1>10. /\ i \in Len(d) + 1 .. Len(d) + Len(f) /\ i - Len(d) = n - Len(t) + 1
       /\ k \in Len(d) + 1 .. Len(d) + Len(f) /\ k - Len(d) = n
  BY <1>1, <1>2, <1>4
<1> HIDE DEF i
<1>11. ASSUME NEW g \in Seq(Byte),
              NEW p \in Len(d) + 1 .. Len(d) + Len(g),
              NEW q \in Len(d) + 1 .. Len(d) + Len(g)
       PROVE  SubSeq(d \o g, p, q) = SubSeq(g, p - Len(d), q - Len(d))
  BY SubSeqOfConcat2
<1>12. SubSeq(d \o f, i, k) = SubSeq(f, n - Len(t) + 1, n)
  BY <1>4, <1>10, <1>11
<1> QED BY <1>2, <1>5, <1>7, <1>9, <1>12 DEF Promise!EndsIn, f, i

LEMMA CollectRefines ==
  ASSUME SockInv, SockTypeOK', ReadTextScan \/ ReadBinaryTake
  PROVE  Promise!Deliver \/ UNCHANGED Promise!streamVars
<1>1. /\ call \in Reading /\ rb \in Seq(Byte) /\ data \in Seq(Byte)
      /\ arg \in Seq(Byte) /\ rb # <<>>
  BY Taking DEF SockInv, SockTypeOK
<1>2. Len(rb) \in Nat \ {0} /\ Len(data) \in Nat /\ Len(arg) \in Nat /\ err = "ok"
  BY <1>1, EmptySeq, LenProperties DEF SockInv, Healthy, Reading
<1>3. ASSUME NEW n \in 1 .. Len(rb), Collect(n, TRUE) \/ Collect(n, FALSE)
      PROVE  Len(data') = Len(data) + n /\ Len(data') \in Nat \ {0}
  <2>1. n \in 0 .. Len(rb)
    BY <1>2
  <2>2. First(rb, n) \in Seq(Byte) /\ Len(First(rb, n)) = n
    BY <1>1, <2>1, Cut
  <2>3. Len(data \o First(rb, n)) = Len(data) + n
    BY <1>1, <2>2, ConcatProperties
  <2> QED BY <1>2, <1>3, <2>3 DEF Collect
<1>4. Len(rb) \in 1 .. Len(rb) /\ Len(rb) \in 0 .. Len(rb)
  BY <1>2
<1>5. CASE Collect(Len(rb), FALSE)
  BY <1>1, <1>4, <1>5, GoesOn
<1>6. CASE ReadTextScan
  <2>1. arg # <<>> /\ call = "read_text"
    BY <1>6 DEF ReadTextScan, SockInv, Asked
  <2>2. ASSUME NEW n \in MatchEnds(rb, arg), Collect(n, TRUE)
        PROVE  Promise!Deliver
    <3>1. n \in Len(arg) .. Len(rb) /\ Len(arg) # 0
      BY <1>1, <2>1, EmptySeq DEF MatchEnds
    <3>2. n \in 1 .. Len(rb) /\ n \in 0 .. Len(rb)
      BY <1>2, <3>1
    <3>3. Promise!EndsIn(data', arg)
      BY <1>1, <1>2, <2>1, <2>2, EndsInTerminator DEF Collect
    <3>4. Len(data') \in Nat \ {0}
      BY <1>3, <2>2, <3>2
    <3> QED BY <1>1, <2>1, <2>2, <3>2, <3>3, <3>4, Returns
  <2> QED BY <1>5, <1>6, <2>2 DEF ReadTextScan
<1>7. CASE ReadBinaryTake /\ Len(data) + Len(rb) >= want
  <2>1. Collect(Len(rb), TRUE) /\ call = "read_binary"
    BY <1>7 DEF ReadBinaryTake, Collect
  <2>2. Len(data') >= want /\ Len(data') \in Nat \ {0}
    BY <1>3, <1>4, <1>7, <2>1
  <2> QED BY <1>1, <1>4, <2>1, <2>2, Returns
<1>8. CASE ReadBinaryTake /\ ~(Len(data) + Len(rb) >= want)
  BY <1>5, <1>8 DEF ReadBinaryTake, Collect
<1> QED BY <1>6, <1>7, <1>8

(* The socket of sys_socket.c keeps the promise of socket.h towards every  *)
(* caller that keeps to the protocol: each of its steps is invisible, or   *)
(* asks, delivers or fails as ByteStream allows.                           *)
THEOREM SocketKeepsPromise == SockSpec => ImplementsByteStream
<1>1. SockInv /\ SockTypeOK' /\ [SockNext]_sockVars
        => [Promise!StreamNext]_(Promise!streamVars)
  BY Unseen, AskRefines, FailRefines, ReceiveRefines, CollectRefines
     DEF SockNext, Caller, SockStep, Promise!StreamNext
<1> QED BY InitRefines, SocketTypes, SocketInvariant, <1>1, PTL
        DEF SockSpec, ImplementsByteStream, Promise!StreamSpec

-----------------------------------------------------------------------------
(* Which socket call is made at which stage of http_post, and what the     *)
(* stage says about the descriptor.                                        *)

Calls == {<<"connect", "connect">>, <<"header", "write">>, <<"body", "write">>,
          <<"text", "read_text">>, <<"binary", "read_binary">>}
CallOfStage == pc \in Stages /\ (call # "idle" => <<pc, call>> \in Calls)

Descriptor ==
  /\ pc = "start" => fd = "none" /\ err = "ok"
  /\ pc = "connect" => fd = IF err = "ok" THEN "open" ELSE "none"
  /\ pc \in {"header", "body", "text", "binary", "cleanup"} => fd = "open"
  /\ pc = "cleanup" => err # "ok"
  /\ pc = "done" => fd \in {"none", "closed"}

(* What is still to be sent; as long as nothing has failed it is the rest  *)
(* of the request, exactly.                                                *)
Rest == CASE pc \in {"start", "connect"} -> Request
          [] pc = "header" -> arg \o ReqBody
          [] pc = "body" -> arg
          [] OTHER -> <<>>

Owed ==
  /\ err = "ok" \/ pc \in {"text", "binary"} => sent \o Rest = Request
  /\ IsPrefix(sent, Request) /\ queued <= Len(sent)
  /\ arg = <<>> <=> call \in {"idle", "connect", "read_binary"}

(* read_text has found the terminator, or it has failed.                   *)
HeaderOrError == pc = "text" /\ call = "idle" => (data # <<>> <=> err = "ok")

Control == SockInv /\ CallOfStage /\ Descriptor /\ Owed /\ HeaderOrError

LEMMA RequestTypes ==
  /\ ReqHeader \in Seq(Byte) \ {<<>>} /\ ReqBody \in Seq(Byte) \ {<<>>}
  /\ Request \in Seq(Byte) /\ Term \in Seq(Byte) \ {<<>>} /\ Term \in Terms
  /\ Len(Request) = Len(ReqHeader) + Len(ReqBody)
  /\ {Len(ReqHeader), Len(ReqBody), Len(Request), Len(Term)} \subseteq Nat \ {0}
<1>1. /\ ReqHeader \in Seq(Byte) \ {<<>>} /\ ReqBody \in Seq(Byte) \ {<<>>}
      /\ Term \in Seq(Byte) \ {<<>>} /\ Term \in Terms
  BY SocketAssumption, HttpAssumption
<1>2. Request \in Seq(Byte) /\ Len(Request) = Len(ReqHeader) + Len(ReqBody)
  BY <1>1, ConcatProperties DEF Request
<1>3. {Len(ReqHeader), Len(ReqBody), Len(Term)} \subseteq Nat \ {0}
  BY <1>1, LenProperties, EmptySeq
<1> QED BY <1>1, <1>2, <1>3

LEMMA HttpInitControl == HttpInit => Control
<1> SUFFICES ASSUME HttpInit PROVE Control
  OBVIOUS
<1>1. SockInv
  BY InitInv DEF HttpInit
<1>2. Owed
  <2>1. sent = <<>> /\ queued = 0 /\ arg = <<>> /\ call = "idle" /\ Rest = Request
    BY DEF HttpInit, SockInit, Rest
  <2>2. <<>> \o Request = Request /\ Len(<<>>) = 0
    BY RequestTypes, ConcatEmptySeq, EmptySeq
  <2>3. IsPrefix(<<>>, Request)
    BY RequestTypes, EmptyPieces
  <2> QED BY <2>1, <2>2, <2>3 DEF Owed
<1> QED BY <1>1, <1>2
        DEF HttpInit, SockInit, Control, CallOfStage, Stages, Descriptor, HeaderOrError

-----------------------------------------------------------------------------
(* http_post is a caller that keeps to the protocol of its socket: each of *)
(* its calls is made on an open descriptor and without a pending error.    *)

(* http_header_get_ulong returns a size that read_binary may be asked for. *)
LEMMA LengthIsASize ==
  ASSUME NEW header \in Seq(Byte), ContentLength(header) # ULONG_MAX
  PROVE  ContentLength(header) \in 0 .. MaxWant
<1> DEFINE fields == {i \in DOMAIN header : header[i] \in DOMAIN LengthField}
           first == CHOOSE i \in fields : \A j \in fields : i <= j
<1>1. fields # {} /\ ContentLength(header) = LengthField[header[first]]
  BY DEF ContentLength
<1>2. fields \subseteq Nat
  BY LenProperties
<1>3. \E i \in fields : \A j \in fields : i <= j
  BY ONLY <1>1, <1>2, LeastElement
<1>4. first \in fields
  BY ONLY <1>3
<1> QED BY <1>1, <1>4, HttpAssumption

LEMMA Disciplined ==
  ASSUME Control, [HttpNext]_httpVars
  PROVE  [SockNext]_sockVars
<1>1. CASE Connect
  BY <1>1 DEF Connect, Control, Descriptor, SockNext, Caller
<1>2. CASE SendHeader
  <2>1. fd = "open" /\ err = "ok" /\ sent \o Request = Request
    BY <1>2 DEF SendHeader, Ready, Control, Descriptor, Owed, Rest
  <2>2. sent \in Seq(Byte)
    BY DEF Control, SockInv, SockTypeOK
  <2>3. Len(sent) + Len(Request) = Len(Request) /\ Len(sent) \in Nat
    BY <2>1, <2>2, RequestTypes, ConcatProperties, LenProperties
  <2>4. Len(sent) < MaxSent
    BY <2>3, RequestTypes, HttpAssumption, SocketAssumption
  <2> QED BY <1>2, <2>1, <2>4, HttpAssumption DEF SendHeader, SockNext, Caller
<1>3. CASE SendBody
  <2>1. fd = "open" /\ err = "ok" /\ sent \o (<<>> \o ReqBody) = Request
    BY <1>3 DEF SendBody, Ready, Control, Descriptor, Owed, Rest
  <2>2. sent \in Seq(Byte) /\ <<>> \o ReqBody = ReqBody
    BY RequestTypes, ConcatEmptySeq DEF Control, SockInv, SockTypeOK
  <2>3. Len(sent) + Len(ReqBody) = Len(Request) /\ Len(sent) \in Nat
    BY ZenonT(30), <2>1, <2>2, RequestTypes, ConcatProperties, LenProperties
  <2>4. Len(sent) < MaxSent
    BY <2>3, RequestTypes, HttpAssumption, SocketAssumption
  <2> QED BY <1>3, <2>1, <2>4, HttpAssumption DEF SendBody, SockNext, Caller
<1>4. CASE AwaitHeader
  BY <1>4, HttpAssumption
     DEF AwaitHeader, Ready, Control, Descriptor, SockNext, Caller
<1>5. CASE AwaitBody
  <2>1. fd = "open" /\ err = "ok"
    BY <1>5 DEF AwaitBody, Ready, Control, Descriptor, HeaderOrError
  <2>2. ContentLength(data) \in 0 .. MaxWant
    BY <1>5, LengthIsASize DEF AwaitBody, Control, SockInv, SockTypeOK
  <2> QED BY <1>5, <2>1, <2>2 DEF AwaitBody, SockNext, Caller
<1>6. CASE NoLength
  BY <1>6 DEF NoLength, Ready, Control, Descriptor, HeaderOrError, SockNext, Caller
<1>7. CASE Finish
  BY <1>7 DEF Finish, Ready, Control, Descriptor, SockNext, Caller
<1>8. CASE InCall
  BY <1>8 DEF InCall, SockNext
<1>9. CASE ConnectFailed \/ UNCHANGED httpVars
  BY <1>9 DEF ConnectFailed, httpVars
<1>10. CASE Environment
  BY <1>10 DEF Environment, SockNext
<1> QED BY <1>1, <1>2, <1>3, <1>4, <1>5, <1>6, <1>7, <1>8, <1>9, <1>10
        DEF HttpNext, Client

-----------------------------------------------------------------------------
(* Every step of http_post and of its socket keeps Control.                *)

(* The steps that start a call, or return.                                 *)
LEMMA StageOfCall ==
  ASSUME Control, Client, ~InCall
  PROVE  CallOfStage' /\ Descriptor' /\ HeaderOrError'
<1> USE DEF CallOfStage, Descriptor, HeaderOrError, Control, Stages, Calls, Ready
<1>1. CASE Connect
  BY <1>1 DEF Connect, StartConnect, ConnectFails
<1>2. CASE ConnectFailed
  <2>1. UNCHANGED <<fd, call, err, data>> /\ pc' = "done"
    BY <1>2 DEF ConnectFailed, sockVars, local
  <2> QED BY <1>2, <2>1 DEF ConnectFailed
<1>3. CASE SendHeader \/ SendBody
  BY <1>3, RequestTypes DEF SendHeader, SendBody, StartWrite
<1>4. CASE AwaitHeader
  BY <1>4 DEF AwaitHeader, StartReadText
<1>5. CASE AwaitBody
  BY <1>5 DEF AwaitBody, StartReadBinary
<1>6. CASE NoLength
  BY <1>6 DEF NoLength, Reject
<1>7. CASE Finish
  BY <1>7 DEF Finish, Disconnect
<1> QED BY <1>1, <1>2, <1>3, <1>4, <1>5, <1>6, <1>7 DEF Client

(* The steps of the call in progress: it stays with its stage, and the     *)
(* descriptor with it unless connect fails.                                *)
LEMMA StageInCall ==
  ASSUME Control, SockStep, UNCHANGED pc
  PROVE  CallOfStage' /\ Descriptor' /\ HeaderOrError'
<1> USE DEF CallOfStage, Descriptor, HeaderOrError, Control, Stages, Calls
<1>1. CASE ConnectSelect
  BY <1>1 DEF ConnectSelect, ConnectFails, SockInv, Connected
<1>2. CASE WriteSend
  BY <1>2 DEF WriteSend
<1>3. CASE WriteFails
  BY <1>3 DEF WriteFails
<1>4. CASE ReceiveFails
  BY <1>4 DEF ReceiveFails, Reading
<1>5. CASE ReadTextReceive \/ ReadBinaryReceive
  BY <1>5 DEF ReadTextReceive, ReadBinaryReceive, Receive
<1>6. CASE ReadTextScan \/ ReadBinaryTake
  <2>1. /\ UNCHANGED <<fd, err>> /\ err = "ok" /\ fd = "open"
        /\ call' \in {call, "idle"} /\ call \in Reading
    BY <1>6, Taking DEF Collect, SockInv, Healthy, Connected, Reading
  <2>2. CASE ReadTextScan /\ call' = "idle"
    <3>1. PICK n \in MatchEnds(rb, arg) : data' = data \o First(rb, n)
      BY <2>1, <2>2 DEF ReadTextScan, Collect
    <3>2. /\ data \in Seq(Byte) /\ rb \in Seq(Byte) /\ arg \in Seq(Byte)
          /\ arg # <<>>
      BY <2>2 DEF ReadTextScan, SockInv, SockTypeOK, Asked
    <3>3. n \in 0 .. Len(rb) /\ n # 0
      BY <3>2, LenProperties, EmptySeq DEF MatchEnds
    <3>4. First(rb, n) \in Seq(Byte) /\ Len(First(rb, n)) = n
      BY <3>2, <3>3, Cut
    <3>5. Len(data') = Len(data) + n /\ Len(data) \in Nat
      BY ONLY <3>1, <3>2, <3>4, ConcatProperties, LenProperties
    <3>6. data' # <<>>
      BY <3>3, <3>5, EmptySeq
    <3> QED BY <2>1, <3>6 DEF Reading
  <2>3. CASE ~(ReadTextScan /\ call' = "idle")
    BY <1>6, <2>1, <2>3 DEF ReadBinaryTake, Reading
  <2> QED BY <2>2, <2>3
<1> QED BY <1>1, <1>2, <1>3, <1>4, <1>5, <1>6 DEF SockStep

LEMMA OwedAtCall ==
  ASSUME Control, Client, ~InCall
  PROVE  Owed'
<1>1. UNCHANGED <<sent, queued>>
  <2>1. CASE Connect
    BY <2>1 DEF Connect, StartConnect, ConnectFails, remote
  <2>2. CASE ConnectFailed
    BY <2>2 DEF ConnectFailed, sockVars, remote
  <2>3. CASE SendHeader \/ SendBody
    BY <2>3 DEF SendHeader, SendBody, StartWrite, remote
  <2>4. CASE AwaitHeader \/ AwaitBody
    BY <2>4 DEF AwaitHeader, AwaitBody, StartReadText, StartReadBinary, remote
  <2>5. CASE NoLength \/ Finish
    BY <2>5 DEF NoLength, Finish, Reject, Disconnect, remote
  <2> QED BY <2>1, <2>2, <2>3, <2>4, <2>5 DEF Client
<1>2. IsPrefix(sent', Request') /\ queued' <= Len(sent')
  BY <1>1 DEF Control, Owed, Request
<1>3. arg' = <<>> <=> call' \in {"idle", "connect", "read_binary"}
  <2> USE DEF Control, Owed, Ready
  <2>1. CASE Connect
    BY <2>1 DEF Connect, StartConnect, ConnectFails, CallOfStage, Calls
  <2>2. CASE ConnectFailed
    BY <2>2 DEF ConnectFailed, sockVars, local
  <2>3. CASE SendHeader \/ SendBody
    BY <2>3, RequestTypes DEF SendHeader, SendBody, StartWrite
  <2>4. CASE AwaitHeader \/ AwaitBody
    BY <2>4, RequestTypes DEF AwaitHeader, AwaitBody, StartReadText, StartReadBinary
  <2>5. CASE NoLength \/ Finish
    BY <2>5 DEF NoLength, Finish, Reject, Disconnect
  <2> QED BY <2>1, <2>2, <2>3, <2>4, <2>5 DEF Client
<1>4. err' = "ok" \/ pc' \in {"text", "binary"} => sent' \o Rest' = Request
  <2> USE DEF Control, Owed, Rest, Ready
  <2>1. CASE Connect
    BY <1>1, <2>1 DEF Connect, Descriptor, Request
  <2>2. CASE ConnectFailed
    BY <2>2 DEF ConnectFailed, sockVars, local
  <2>3. CASE SendHeader
    BY <1>1, <2>3 DEF SendHeader, StartWrite, Request
  <2>4. CASE SendBody
    <3>1. sent \o (<<>> \o ReqBody) = Request /\ Rest' = ReqBody
      BY <2>4 DEF SendBody, StartWrite
    <3>2. <<>> \o ReqBody = ReqBody
      BY RequestTypes, ConcatEmptySeq
    <3> QED BY ONLY <1>1, <3>1, <3>2
  <2>5. CASE AwaitHeader
    BY <1>1, <2>5 DEF AwaitHeader, StartReadText
  <2>6. CASE AwaitBody \/ NoLength
    BY <1>1, <2>6 DEF AwaitBody, NoLength
  <2>7. CASE Finish
    BY <1>1, <2>7 DEF Finish, Disconnect, Descriptor
  <2> QED BY <2>1, <2>2, <2>3, <2>4, <2>5, <2>6, <2>7 DEF Client
<1> QED BY <1>2, <1>3, <1>4 DEF Owed, Request

(* send() takes the front of what is still to be sent.                     *)
LEMMA OwedInSend ==
  ASSUME Control, WriteSend, UNCHANGED pc
  PROVE  /\ Owed'
         /\ Len(sent) < Len(sent') /\ Len(sent') <= Len(Request)
         /\ sent' = First(Request, Len(sent'))
<1> PICK n \in 1 .. Smaller(Len(arg), SndBuf - queued) :
      /\ sent' = sent \o First(arg, n) /\ queued' = queued + n
      /\ arg' = After(arg, n)
      /\ call' = IF arg' = <<>> THEN "idle" ELSE "write"
  BY DEF WriteSend
<1>1. /\ sent \in Seq(Byte) /\ arg \in Seq(Byte) /\ queued \in Nat /\ SndBuf \in Nat
      /\ call = "write" /\ err = "ok" /\ err' = "ok" /\ pc \in {"header", "body"}
  BY SocketAssumption DEF WriteSend, Control, SockInv, SockTypeOK, Healthy, CallOfStage, Calls
<1>2. Len(arg) \in Nat /\ Len(sent) \in Nat
  BY <1>1, LenProperties
<1>3. n \in 0 .. Len(arg) /\ n \in Nat \ {0}
  BY <1>1, <1>2 DEF Smaller
<1> DEFINE f == First(arg, n)
           more == IF pc = "header" THEN ReqBody ELSE <<>>
<1>4. f \in Seq(Byte) /\ Len(f) = n /\ arg' \in Seq(Byte)
  BY <1>1, <1>3, Cut
<1>16. sent' = sent \o f
  OBVIOUS
<1>5. f \o arg' = arg
  BY <1>1, <1>3, Cut
<1>6. sent \o (arg \o more) = Request /\ more \in Seq(Byte)
  <2>1. sent \o Rest = Request
    BY <1>1 DEF Control, Owed
  <2>2. Rest = arg \o more
    BY <1>1, ConcatEmptySeq DEF Rest
  <2> QED BY <2>1, <2>2, RequestTypes, EmptySeq
<1>7. Rest' = arg' \o more
  BY <1>1, <1>4, ConcatEmptySeq DEF Rest
<1> HIDE DEF f, more
<1>9. sent' \o (arg' \o more) = Request /\ sent' \in Seq(Byte) /\ arg' \o more \in Seq(Byte)
  <2>1. /\ (sent \o f) \o (arg' \o more) = sent \o ((f \o arg') \o more)
        /\ sent \o f \in Seq(Byte) /\ arg' \o more \in Seq(Byte)
    <3>1. sent \in Seq(Byte)
      BY <1>1
    <3>2. f \in Seq(Byte) /\ arg' \in Seq(Byte) /\ more \in Seq(Byte)
      BY <1>4, <1>6
    <3>3. sent \o f \in Seq(Byte) /\ arg' \o more \in Seq(Byte)
      BY ONLY <3>1, <3>2, ConcatProperties
    <3>4. (sent \o f) \o (arg' \o more) = sent \o ((f \o arg') \o more)
      BY ONLY SMTT(30), <3>1, <3>2
    <3> QED BY ONLY <3>3, <3>4
  <2> QED BY ONLY <1>5, <1>6, <1>16, <2>1
<1>10. Len(sent') = Len(sent) + n /\ Len(Request) = Len(sent') + Len(arg' \o more)
  BY <1>1, <1>4, <1>9, ConcatProperties DEF f
<1>11. sent' = First(Request, Len(sent')) /\ IsPrefix(sent', Request)
  BY <1>9, FirstPrefix, PrefixOfConcat
<1>12. Len(arg' \o more) \in Nat
  BY <1>9, LenProperties
<1>13. queued' <= Len(sent')
  BY <1>1, <1>2, <1>3, <1>10 DEF Control, Owed
<1>14. arg' = <<>> <=> call' \in {"idle", "connect", "read_binary"}
  OBVIOUS
<1>15. Owed'
  BY <1>7, <1>9, <1>11, <1>13, <1>14 DEF Owed, Request
<1> QED BY <1>2, <1>3, <1>10, <1>11, <1>12, <1>15

LEMMA OwedInCall ==
  ASSUME Control, SockStep, ~WriteSend, UNCHANGED pc
  PROVE  Owed' /\ UNCHANGED sent
<1>1. UNCHANGED <<sent, queued>>
  BY DEF SockStep, ConnectSelect, ConnectFails, WriteFails, ReceiveFails,
     ReadTextReceive, ReadBinaryReceive, Receive, ReadTextScan, ReadBinaryTake,
     Collect, remote
<1>2. IsPrefix(sent', Request') /\ queued' <= Len(sent')
  BY <1>1 DEF Control, Owed, Request
<1> USE DEF Control, Owed
<1>3. CASE ConnectSelect
  <2>1. pc = "connect" /\ err = "ok" /\ arg' = <<>> /\ call' \in {"idle", "connect"}
    BY <1>3 DEF ConnectSelect, ConnectFails, CallOfStage, Calls, SockInv, Healthy
  <2> QED BY <1>1, <1>2, <2>1 DEF Rest, Request
<1>4. CASE WriteFails
  BY <1>1, <1>2, <1>4 DEF WriteFails, CallOfStage, Calls, Request
<1>5. CASE ReadTextReceive \/ ReadBinaryReceive \/ ReceiveFails
           \/ ReadTextScan \/ ReadBinaryTake
  <2>1. pc \in {"text", "binary"} /\ call \in Reading
    BY <1>5, Taking DEF ReadTextReceive, ReadBinaryReceive, ReceiveFails, Reading,
       CallOfStage, Calls, SockInv
  <2>2. UNCHANGED <<call, arg>> \/ (call' = "idle" /\ arg' = <<>>)
    BY <1>5 DEF ReadTextReceive, ReadBinaryReceive, ReceiveFails, ReadTextScan,
       ReadBinaryTake, Receive, Collect
  <2>3. Rest = <<>> /\ Rest' = <<>>
    BY <2>1 DEF Rest
  <2> QED BY <1>1, <1>2, <2>1, <2>2, <2>3 DEF Request
<1> QED BY <1>1, <1>3, <1>4, <1>5 DEF SockStep

LEMMA ControlStep ==
  ASSUME Control, [HttpNext]_httpVars
  PROVE  Control'
<1>1. SockInv'
  BY Disciplined, InvStep DEF Control
<1>2. CASE Client /\ ~InCall
  BY <1>1, <1>2, StageOfCall, OwedAtCall DEF Control
<1>3. CASE InCall
  BY <1>1, <1>3, StageInCall, OwedInSend, OwedInCall DEF Control, InCall
<1>4. CASE Environment \/ UNCHANGED httpVars
  <2>1. /\ UNCHANGED <<fd, call, arg, data, err, sent, pc>>
        /\ queued' <= queued /\ queued' \in Int /\ queued \in Int /\ Len(sent) \in Int
    BY SMTT(30), <1>4, LenProperties, SocketAssumption
       DEF Environment, Drain, Disrupt, httpVars, sockVars, local, remote,
           Control, SockInv, SockTypeOK
  <2>2. CallOfStage' /\ Descriptor' /\ HeaderOrError'
    BY <2>1 DEF Control, CallOfStage, Descriptor, HeaderOrError
  <2>3. Rest' = Rest /\ Request' = Request
    BY <2>1 DEF Rest, Request
  <2>4. Owed'
    BY <2>1, <2>3 DEF Control, Owed
  <2> QED BY <1>1, <2>2, <2>4 DEF Control
<1> QED BY <1>2, <1>3, <1>4 DEF HttpNext

LEMMA HttpControl == HttpSpec => []Control
<1>1. Control /\ [HttpNext]_httpVars => Control'
  BY ControlStep
<1> QED BY HttpInitControl, <1>1, PTL DEF HttpSpec

-----------------------------------------------------------------------------
(* http_post uses its socket as the protocol asks: it connects once, goes  *)
(* on only while there is no error, disconnects once and never uses the    *)
(* socket again.  What is proved of the socket holds of it, therefore.     *)
THEOREM HttpKeepsProtocol == HttpSpec => KeepsProtocol
<1>1. HttpInit => SockInit
  BY DEF HttpInit
<1>2. Control /\ [HttpNext]_httpVars => [SockNext]_sockVars
  BY Disciplined
<1> QED BY HttpControl, <1>1, <1>2, PTL DEF HttpSpec, SockSpec, KeepsProtocol

(* On every path, of every failure, http_post leaves its socket closed,    *)
(* and closes it once.                                                     *)
THEOREM HttpReleasesDescriptor == HttpSpec => []DescriptorReleased
<1>1. Control => DescriptorReleased
  BY DEF Control, SockInv, Connected, Descriptor, DescriptorReleased
<1> QED BY HttpControl, <1>1, PTL

(* However send() splits the request and wherever it fails, the server has *)
(* got a prefix of it, and the whole of it before a reply is waited for.   *)
THEOREM HttpRequestIntact == HttpSpec => []RequestIntact
<1>1. Control => RequestIntact
  <2> SUFFICES ASSUME Control, pc \in {"text", "binary"} PROVE sent = Request
    BY DEF Control, Owed, RequestIntact
  <2>1. sent \o <<>> = Request
    BY DEF Control, Owed, Rest
  <2> QED BY <2>1, ConcatEmptySeq DEF Control, SockInv, SockTypeOK
<1> QED BY HttpControl, <1>1, PTL

-----------------------------------------------------------------------------
(* Where in the stream a recv() may end.                                   *)

(* What http_post cannot change, and what only grows.                      *)
LEMMA Rigid ==
  ASSUME [HttpNext]_httpVars
  PROVE  /\ UNCHANGED <<stream, peer>> /\ cuts \subseteq cuts' /\ (fault => fault')
         /\ BodyStart' = BodyStart /\ ReplyComplete' = ReplyComplete
         /\ SplitTerminator => SplitTerminator'
<1>1. /\ UNCHANGED <<stream, peer>> /\ (fault => fault')
      /\ (cuts' = cuts \/ InCall)
  <2>1. CASE Client /\ ~InCall
    BY <2>1 DEF Client, Connect, ConnectFailed, SendHeader, SendBody, AwaitHeader,
       AwaitBody, NoLength, Finish, StartConnect, ConnectFails, StartWrite,
       StartReadText, StartReadBinary, Reject, Disconnect, sockVars, remote
  <2>2. CASE InCall
    BY <2>2 DEF InCall, SockStep, ConnectSelect, ConnectFails, WriteSend, WriteFails,
       ReceiveFails, ReadTextReceive, ReadTextScan, ReadBinaryReceive,
       ReadBinaryTake, Receive, Collect, remote
  <2>3. CASE Environment \/ UNCHANGED httpVars
    BY <2>3 DEF Environment, Drain, Disrupt, httpVars, sockVars, remote
  <2> QED BY <2>1, <2>2, <2>3 DEF HttpNext
<1>2. cuts \subseteq cuts'
  BY <1>1 DEF InCall
<1> QED BY <1>1, <1>2 DEF BodyStart, ReplyComplete, Announced, SplitTerminator

LEMMA FourParts ==
  ASSUME NEW S, NEW p \in Seq(S), NEW q \in Seq(S), NEW r \in Seq(S), NEW w \in Seq(S)
  PROVE  /\ Len(p \o q \o r \o w) = Len(p) + Len(q) + Len(r) + Len(w)
         /\ {Len(p), Len(q), Len(r), Len(w)} \subseteq Nat
<1>1. p \o q \in Seq(S) /\ Len(p \o q) = Len(p) + Len(q)
  BY ConcatProperties
<1>2. (p \o q) \o r \in Seq(S) /\ Len((p \o q) \o r) = Len(p \o q) + Len(r)
  BY <1>1, ConcatProperties
<1>3. Len(((p \o q) \o r) \o w) = Len((p \o q) \o r) + Len(w)
  BY <1>2, ConcatProperties
<1> QED BY <1>1, <1>2, <1>3, LenProperties

(* A recv() ends right behind the bytes delivered, collected and buffered. *)
LEMMA CutsStep ==
  ASSUME Control, Control', InCall
  PROVE  IF ReadTextReceive \/ ReadBinaryReceive
         THEN /\ cuts' = cuts \cup {Len(taken) + Len(data) + Len(rb')}
              /\ Len(taken) + Len(data) + Len(rb') \in 0 .. Len(stream)
         ELSE cuts' = cuts
<1>1. CASE ReadTextReceive \/ ReadBinaryReceive
  <2>0. PICK nbyte \in Int : Receive(nbyte) /\ call \in Reading
    BY <1>1, BinaryRequest, SocketAssumption
       DEF ReadTextReceive, ReadBinaryReceive, Reading, Control, SockInv
  <2>1. UNCHANGED <<fd, call, data, taken, stream>> /\ err' = "ok"
    BY <2>0 DEF Receive
  <2>2. fd = "open" /\ Pending' = data
    BY <2>0, <2>1 DEF Control, SockInv, Connected, Pending, Reading
  <2>3. /\ taken' \in Seq(Byte) /\ data \in Seq(Byte) /\ rb' \in Seq(Byte)
        /\ wire' \in Seq(Byte) /\ taken' \o data \o rb' \o wire' = stream
    BY <2>1, <2>2 DEF Control, SockInv, SockTypeOK, StreamIntegrity
  <2>4. /\ Len(stream) = Len(taken) + Len(data) + Len(rb') + Len(wire')
        /\ {Len(taken), Len(data), Len(rb'), Len(wire')} \subseteq Nat
    BY <2>1, <2>3, FourParts
  <2>5. wire' # wire
    <3>1. rb' \o wire' = wire /\ rb' # <<>>
      BY <2>0, Received DEF Control, SockInv
    <3>2. Len(wire) = Len(rb') + Len(wire') /\ Len(rb') # 0
      BY <2>3, <3>1, ConcatProperties, EmptySeq
    <3> QED BY <2>4, <3>2
  <2>6. Len(stream) - Len(wire') = Len(taken) + Len(data) + Len(rb')
    BY <2>4
  <2>7. Len(taken) + Len(data) + Len(rb') \in 0 .. Len(stream)
    BY <2>4
  <2> QED BY <1>1, <2>5, <2>6, <2>7 DEF InCall
<1>2. CASE ~(ReadTextReceive \/ ReadBinaryReceive)
  <2>1. wire' = wire
    BY <1>2 DEF InCall, SockStep, ConnectSelect, ConnectFails, WriteSend, WriteFails,
       ReceiveFails, ReadTextScan, ReadBinaryTake, Collect, remote
  <2> QED BY <1>2, <2>1 DEF InCall
<1> QED BY <1>1, <1>2

CutsInRange == cuts \subseteq 0 .. Len(stream)

(* Types, and the offsets of the cuts.                                     *)
THEOREM HttpTypes == HttpSpec => []HttpTypeOK
<1>1. HttpInit => CutsInRange
  BY DEF HttpInit, CutsInRange
<1>2. Control /\ Control' /\ [HttpNext]_httpVars /\ CutsInRange => CutsInRange'
  <2> SUFFICES ASSUME Control, Control', [HttpNext]_httpVars, cuts \subseteq 0 .. Len(stream)
               PROVE  cuts' \subseteq 0 .. Len(stream')
    BY DEF CutsInRange
  <2>1. stream' = stream
    BY Rigid
  <2>2. CASE InCall
    BY <2>1, <2>2, CutsStep
  <2>3. CASE ~InCall
    <3>1. cuts' = cuts
      BY <2>3 DEF HttpNext, Client, Connect, ConnectFailed, SendHeader, SendBody,
         AwaitHeader, AwaitBody, NoLength, Finish, Environment, httpVars
    <3> QED BY <2>1, <3>1
  <2> QED BY <2>2, <2>3
<1>3. Control /\ CutsInRange => HttpTypeOK
  BY DEF CutsInRange, Control, SockInv, CallOfStage, HttpTypeOK
<1> QED BY HttpControl, <1>1, <1>2, <1>3, PTL DEF HttpSpec

-----------------------------------------------------------------------------
(* Terminators in a stream that is seen chunk by chunk.                    *)

(* HeaderEnd is the least of the places where a terminator ends.           *)
LEMMA FirstTerminator ==
  ASSUME NEW s \in Seq(Byte)
  PROVE  /\ MatchEnds(s, Term) \subseteq Len(Term) .. Len(s)
         /\ MatchEnds(s, Term) = {} => HeaderEnd(s) = 0
         /\ MatchEnds(s, Term) # {} =>
              /\ HeaderEnd(s) \in MatchEnds(s, Term)
              /\ \A m \in MatchEnds(s, Term) : HeaderEnd(s) <= m
<1> DEFINE ends == MatchEnds(s, Term)
<1>1. ends \subseteq Len(Term) .. Len(s)
  BY DEF MatchEnds
<1>2. ends = {} => HeaderEnd(s) = 0
  BY DEF HeaderEnd
<1>3. CASE ends # {}
  <2>1. Len(Term) .. Len(s) \subseteq Nat
    BY RequestTypes, LenProperties
  <2>2. \E n \in ends : \A m \in ends : n <= m
    <3> HIDE DEF ends
    <3> QED BY <1>1, <1>3, <2>1, LeastElement
  <2>3. HeaderEnd(s) = CHOOSE n \in ends : \A m \in ends : n <= m
    BY <1>3 DEF HeaderEnd
  <2> HIDE DEF ends
  <2>4. HeaderEnd(s) \in ends /\ \A m \in ends : HeaderEnd(s) <= m
    BY <2>2, <2>3
  <2> QED BY <1>1, <1>3, <2>4 DEF ends
<1> QED BY <1>1, <1>2, <1>3

(* A match in a chunk is a match in the stream, as far on as the chunk.    *)
LEMMA ChunkMatch ==
  ASSUME NEW d \in Seq(Byte), NEW b \in Seq(Byte), NEW w \in Seq(Byte),
         NEW k \in Len(Term) .. Len(b)
  PROVE  k \in MatchEnds(b, Term) <=> Len(d) + k \in MatchEnds(d \o b \o w, Term)
<1> DEFINE L == Len(Term)
           m == Len(d)
           upto == d \o b
           whole == upto \o w
           end == m + k
<1>1. L \in Nat \ {0} /\ m \in Nat /\ Len(b) \in Nat /\ Len(w) \in Nat
  BY RequestTypes, LenProperties
<1>2. upto \in Seq(Byte) /\ Len(upto) = m + Len(b)
  BY ConcatProperties
<1>3. ASSUME NEW p \in m + 1 .. m + Len(b), NEW q \in m + 1 .. m + Len(b)
      PROVE  SubSeq(upto, p, q) = SubSeq(b, p - m, q - m)
  BY SubSeqOfConcat2
<1> HIDE DEF L, m, upto
<1>4. Len(whole) = Len(upto) + Len(w)
  BY <1>2, ConcatProperties
<1>5. ASSUME NEW p \in 1 .. Len(upto), NEW q \in 1 .. Len(upto)
      PROVE  SubSeq(whole, p, q) = SubSeq(upto, p, q)
  BY <1>2, SubSeqOfConcat1
<1> HIDE DEF whole
<1>6. /\ end - L + 1 \in 1 .. Len(upto) /\ end \in 1 .. Len(upto)
      /\ end - L + 1 \in m + 1 .. m + Len(b) /\ end \in m + 1 .. m + Len(b)
      /\ (end - L + 1) - m = k - L + 1 /\ end - m = k
      /\ k \in L .. Len(b) /\ end \in L .. Len(whole)
  BY <1>1, <1>2, <1>4 DEF L
<1> HIDE DEF end
<1>7. SubSeq(whole, end - L + 1, end) = SubSeq(b, k - L + 1, k)
  BY <1>3, <1>5, <1>6
<1>8. ASSUME NEW x, NEW i \in L .. Len(x)
      PROVE  i \in MatchEnds(x, Term) <=> SubSeq(x, i - L + 1, i) = Term
  BY DEF MatchEnds, L
<1>9. k \in MatchEnds(b, Term) <=> end \in MatchEnds(whole, Term)
  BY <1>6, <1>7, <1>8
<1> QED BY <1>9 DEF end, whole, upto, m

-----------------------------------------------------------------------------
(* How far http_post is in the reply.  As long as no recv() ends inside    *)
(* the first terminator, what read_text has collected ends before it, so   *)
(* that the terminator is still to come in one piece; and a terminator     *)
(* that read_text finds is that one.                                       *)

NothingRead ==
  pc \in {"start", "connect", "header", "body"} => taken = <<>> /\ rb = <<>>

HeaderAwaited ==
  pc = "text" /\ call = "read_text" =>
    /\ taken = <<>> /\ arg = Term
    /\ Len(data) + Len(rb) \in cuts \cup {0}
    /\ SplitTerminator \/ BodyStart = 0 \/ Len(data) <= BodyStart - Len(Term)

\* The header that has been read ends at n.
HeaderIs(n) ==
  /\ n \in MatchEnds(stream, Term) /\ (SplitTerminator \/ n = BodyStart)

HeaderRead ==
  pc = "text" /\ call = "idle" /\ data # <<>> => taken = data /\ HeaderIs(Len(data))

BodyAwaited(n) ==
  LET header == First(stream, n)
  IN  /\ HeaderIs(n) /\ ContentLength(header) # ULONG_MAX
      /\ call = "read_binary" =>
            taken = header /\ want = ContentLength(header) /\ want > 0
      /\ call = "idle" /\ err = "ok" =>
            taken = header \o data /\ Len(data) >= ContentLength(header)

Progress ==
  /\ NothingRead /\ HeaderAwaited /\ HeaderRead
  /\ pc = "binary" \/ (pc = "done" /\ err = "ok") => \E n \in Nat : BodyAwaited(n)

LEMMA PrefixIsFront ==
  ASSUME NEW S, NEW p \in Seq(S), NEW s \in Seq(S), IsPrefix(p, s)
  PROVE  p = First(s, Len(p)) /\ Len(p) \in 0 .. Len(s)
<1>1. Len(p) \in Nat /\ Len(s) \in Nat /\ SubSeq(p, 1, Len(p)) = p
  BY LenProperties, SubSeqFull
<1> QED BY <1>1 DEF IsPrefix, First

LEMMA ProgressInit == HttpInit => Progress
BY DEF HttpInit, SockInit, Progress, NothingRead, HeaderAwaited, HeaderRead

LEMMA SameHeader ==
  ASSUME [HttpNext]_httpVars, NEW n, HeaderIs(n)
  PROVE  HeaderIs(n)'
<1>1. UNCHANGED stream /\ BodyStart' = BodyStart /\ (SplitTerminator => SplitTerminator')
  BY Rigid
<1> QED BY <1>1 DEF HeaderIs

(* The steps before the reply is waited for.                               *)
LEMMA ProgressSending ==
  ASSUME Control, Progress, Control', [HttpNext]_httpVars,
         pc \in {"start", "connect", "header", "body"}
  PROVE  Progress'
<1>1. taken = <<>> /\ rb = <<>>
  BY DEF Progress, NothingRead
<1>2. /\ call \in {"idle", "connect", "write"} /\ taken' = <<>> /\ rb' = <<>>
      /\ pc' \in {"connect", "header", "body", "text", "done", pc}
      /\ pc' = "text" => AwaitHeader
      /\ pc' = "done" => err' # "ok"
  <2>1. call \in {"idle", "connect", "write"}
    BY DEF Control, CallOfStage, Calls
  <2>2. CASE Client /\ ~InCall
    BY <1>1, <2>1, <2>2 DEF Client, Connect, ConnectFailed, SendHeader, SendBody,
       AwaitHeader, AwaitBody, NoLength, Finish, StartConnect, ConnectFails, StartWrite,
       StartReadText, Disconnect, sockVars, local, remote, Ready
  <2>3. CASE InCall
    BY <1>1, <2>1, <2>3 DEF InCall, SockStep, ConnectSelect, ConnectFails, WriteSend,
       WriteFails, ReceiveFails, ReadTextReceive, ReadTextScan, ReadBinaryReceive,
       ReadBinaryTake, remote, Reading
  <2>4. CASE Environment \/ UNCHANGED httpVars
    BY <1>1, <2>1, <2>4 DEF Environment, Drain, Disrupt, httpVars, sockVars, local, remote
  <2> QED BY <2>1, <2>2, <2>3, <2>4 DEF HttpNext
<1>3. CASE AwaitHeader
  <2>1. /\ pc' = "text" /\ call' = "read_text" /\ arg' = Term /\ data' = <<>>
    BY <1>3 DEF AwaitHeader, StartReadText
  <2>2. Len(data') + Len(rb') = 0
    BY <1>2, <2>1, EmptySeq
  <2>3. BodyStart' = 0 \/ Len(data') <= BodyStart' - Len(Term)
    <3>1. BodyStart' = BodyStart /\ stream \in Seq(Byte)
      BY Rigid DEF Control, SockInv, SockTypeOK
    <3>2. BodyStart = 0 \/ BodyStart \in Len(Term) .. Len(stream)
      BY <3>1, FirstTerminator DEF BodyStart
    <3> QED BY <2>1, <3>1, <3>2, EmptySeq, LenProperties, RequestTypes
  <2> QED BY <1>2, <2>1, <2>2, <2>3
          DEF Progress, NothingRead, HeaderAwaited, HeaderRead
<1>4. CASE ~AwaitHeader
  <2>1. pc' \in {"connect", "header", "body", "start"} \/ (pc' = "done" /\ err' # "ok")
    BY <1>2, <1>4
  <2> QED BY <1>2, <2>1 DEF Progress, NothingRead, HeaderAwaited, HeaderRead
<1> QED BY <1>3, <1>4

(* A recv() while the header is waited for.                                *)
LEMMA ProgressReceive ==
  ASSUME Control, Progress, Control', InCall, ReadTextReceive
  PROVE  Progress'
<1>1. /\ pc = "text" /\ pc' = "text" /\ call = "read_text" /\ rb = <<>>
      /\ UNCHANGED <<call, arg, data, taken>>
  BY DEF ReadTextReceive, Receive, InCall, Control, CallOfStage, Calls
<1>2. HeaderAwaited /\ data \in Seq(Byte) /\ rb' \in Seq(Byte)
  BY DEF Progress, Control, SockInv, SockTypeOK
<1>3. Len(data') + Len(rb') \in cuts'
  <2>1. cuts' = cuts \cup {Len(taken) + Len(data) + Len(rb')}
    BY CutsStep
  <2>2. Len(taken) = 0 /\ Len(data) \in Nat /\ Len(rb') \in Nat
    BY <1>1, <1>2, EmptySeq, LenProperties DEF HeaderAwaited
  <2> QED BY <1>1, <2>1, <2>2
<1>4. SplitTerminator' \/ BodyStart' = 0 \/ Len(data') <= BodyStart' - Len(Term)
  <2>1. BodyStart' = BodyStart /\ (SplitTerminator => SplitTerminator')
    BY Rigid DEF HttpNext, Client
  <2> QED BY <1>1, <1>2, <2>1 DEF HeaderAwaited
<1> QED BY <1>1, <1>2, <1>3, <1>4 DEF Progress, NothingRead, HeaderAwaited, HeaderRead

(* A pass over the buffer: it ends before the first terminator or has it.  *)
LEMMA ProgressScan ==
  ASSUME Control, Progress, Control', InCall, ReadTextScan
  PROVE  Progress'
<1>1. /\ pc = "text" /\ pc' = "text" /\ call = "read_text" /\ rb # <<>>
      /\ err = "ok" /\ fd = "open" /\ taken = <<>> /\ arg = Term
  BY DEF ReadTextScan, InCall, Control, CallOfStage, Calls, Progress, HeaderAwaited,
     SockInv, Healthy, Connected
<1>2. /\ data \in Seq(Byte) /\ rb \in Seq(Byte) /\ wire \in Seq(Byte)
      /\ stream \in Seq(Byte) /\ data' \in Seq(Byte)
  BY DEF Control, SockInv, SockTypeOK
<1>3. /\ Len(data) \in Nat /\ Len(rb) \in Nat /\ Len(Term) \in Nat \ {0}
      /\ Len(stream) \in Nat /\ Len(wire) \in Nat
  BY <1>2, LenProperties, RequestTypes
<1>4. stream = data \o rb \o wire
  <2>1. <<>> \o data = data
    BY <1>2, ConcatEmptySeq
  <2>2. taken \o data \o rb \o wire = stream
    BY <1>1 DEF Control, SockInv, StreamIntegrity, Pending, Reading
  <2> QED BY ONLY <1>1, <2>1, <2>2
<1>5. ASSUME NEW k \in Len(Term) .. Len(rb)
      PROVE  k \in MatchEnds(rb, Term) <=> Len(data) + k \in MatchEnds(stream, Term)
  BY <1>2, <1>4, ChunkMatch
<1>6. /\ MatchEnds(stream, Term) = {} => BodyStart = 0
      /\ MatchEnds(stream, Term) # {} =>
           /\ BodyStart \in MatchEnds(stream, Term)
           /\ \A m \in MatchEnds(stream, Term) : BodyStart <= m
      /\ MatchEnds(stream, Term) \subseteq Len(Term) .. Len(stream)
  BY <1>2, FirstTerminator DEF BodyStart
<1>7. UNCHANGED <<stream, cuts>> /\ BodyStart' = BodyStart /\ SplitTerminator' = SplitTerminator
  <2>1. UNCHANGED <<stream, wire>>
    BY DEF ReadTextScan, Collect
  <2> QED BY <2>1 DEF InCall, BodyStart, SplitTerminator
<1>8. /\ Len(data) + Len(rb) \in cuts \cup {0}
      /\ SplitTerminator \/ BodyStart = 0 \/ Len(data) <= BodyStart - Len(Term)
  BY <1>1 DEF Progress, HeaderAwaited
\* A first terminator within the buffer is a match there.
<1>9. ASSUME ~SplitTerminator, BodyStart # 0, BodyStart <= Len(data) + Len(rb)
      PROVE  BodyStart - Len(data) \in MatchEnds(rb, Term)
  <2>1. BodyStart \in MatchEnds(stream, Term) /\ BodyStart \in Nat
    BY <1>3, <1>6, <1>9
  <2>2. BodyStart - Len(data) \in Len(Term) .. Len(rb)
    BY <1>3, <1>8, <1>9, <2>1
  <2>3. Len(data) + (BodyStart - Len(data)) = BodyStart
    BY <1>3, <2>1
  <2> QED BY <1>5, <2>1, <2>2, <2>3
<1>10. CASE MatchEnds(rb, Term) = {} /\ Collect(Len(rb), FALSE)
  <2>1. /\ data' = data \o rb /\ rb' = <<>> /\ UNCHANGED <<call, arg, taken>>
    BY <1>2, <1>10, CutAll DEF Collect
  <2>2. Len(data') = Len(data) + Len(rb) /\ Len(rb') = 0
    BY <1>2, <2>1, ConcatProperties, EmptySeq
  <2>3. SplitTerminator \/ BodyStart = 0 \/ Len(data') <= BodyStart - Len(Term)
    <3> SUFFICES ASSUME ~SplitTerminator, BodyStart # 0
                 PROVE  Len(data) + Len(rb) <= BodyStart - Len(Term)
      BY <2>2
    <3>1. ~(BodyStart <= Len(data) + Len(rb))
      BY <1>9, <1>10
    <3>2. BodyStart \in Nat /\ BodyStart >= Len(Term)
      BY <1>3, <1>6
    <3>3. CASE Len(data) + Len(rb) \in cuts
      BY <1>3, <3>1, <3>2, <3>3 DEF SplitTerminator
    <3>4. CASE Len(data) + Len(rb) = 0
      BY <1>3, <3>2, <3>4
    <3> QED BY <1>8, <3>3, <3>4
  <2> QED BY <1>1, <1>3, <1>7, <1>8, <2>1, <2>2, <2>3
          DEF Progress, NothingRead, HeaderAwaited, HeaderRead
<1>11. ASSUME NEW n \in MatchEnds(rb, Term), \A m \in MatchEnds(rb, Term) : n <= m,
              Collect(n, TRUE)
       PROVE  Progress'
  <2>1. n \in Len(Term) .. Len(rb) /\ n \in 0 .. Len(rb)
    BY <1>3, <1>11 DEF MatchEnds
  <2>2. /\ data' = data \o First(rb, n) /\ call' = "idle" /\ taken' = taken \o data'
    BY <1>1, <1>11 DEF Collect
  <2>3. First(rb, n) \in Seq(Byte) /\ Len(First(rb, n)) = n
    BY <1>2, <2>1, Cut
  <2>4. Len(data') = Len(data) + n
    BY <1>2, <2>2, <2>3, ConcatProperties
  <2>5. taken' = data'
    <3>1. <<>> \o data' = data'
      BY <1>2, ConcatEmptySeq
    <3> QED BY ONLY <1>1, <2>2, <3>1
  <2>6. Len(data) + n \in MatchEnds(stream, Term)
    BY <1>5, <1>11, <2>1
  <2>7. SplitTerminator \/ Len(data) + n = BodyStart
    <3> SUFFICES ASSUME ~SplitTerminator PROVE Len(data) + n = BodyStart
      OBVIOUS
    <3>1. BodyStart <= Len(data) + n /\ BodyStart \in Nat /\ BodyStart # 0
      BY <1>3, <1>6, <2>6
    <3>2. BodyStart - Len(data) \in MatchEnds(rb, Term)
      BY <1>3, <1>9, <2>1, <3>1
    <3> QED BY <1>3, <1>11, <2>1, <3>1, <3>2
  <2>8. HeaderIs(Len(data))'
    BY <1>7, <2>4, <2>6, <2>7 DEF HeaderIs
  <2> QED BY <1>1, <2>2, <2>5, <2>8 DEF Progress, NothingRead, HeaderAwaited, HeaderRead
<1> QED BY <1>1, <1>10, <1>11 DEF ReadTextScan

(* The other steps while the header is waited for, or has been read.       *)
LEMMA ProgressText ==
  ASSUME Control, Progress, Control', [HttpNext]_httpVars, pc = "text",
         ~(InCall /\ (ReadTextReceive \/ ReadTextScan)), ~AwaitBody
  PROVE  Progress'
<1>1. CASE NoLength
  BY <1>1 DEF NoLength, Progress, NothingRead, HeaderAwaited, HeaderRead
<1>2. CASE Finish
  <2>1. pc' = "done" /\ err' # "ok"
    BY <1>2 DEF Finish, Ready, Disconnect, Control, HeaderOrError
  <2> QED BY <2>1 DEF Progress, NothingRead, HeaderAwaited, HeaderRead
<1>3. CASE InCall
  <2>1. ReceiveFails /\ pc' = "text"
    BY <1>3 DEF InCall, SockStep, ConnectSelect, WriteSend, WriteFails,
       ReadBinaryReceive, ReadBinaryTake, Control, CallOfStage, Calls
  <2> QED BY <2>1 DEF ReceiveFails, Progress, NothingRead, HeaderAwaited, HeaderRead
<1>4. CASE Environment \/ UNCHANGED httpVars
  <2>1. UNCHANGED <<rb, call, arg, data, taken, stream, pc, cuts>>
    BY <1>4 DEF Environment, Drain, Disrupt, httpVars, sockVars, local, remote
  <2>2. BodyStart' = BodyStart /\ SplitTerminator' = SplitTerminator
    BY <2>1 DEF BodyStart, SplitTerminator
  <2>3. HeaderIs(Len(data))' <=> HeaderIs(Len(data))
    BY <2>1, <2>2 DEF HeaderIs
  <2> QED BY <2>1, <2>2, <2>3 DEF Progress, NothingRead, HeaderAwaited, HeaderRead
<1>5. HttpNext \/ UNCHANGED httpVars
  OBVIOUS
<1> QED BY <1>1, <1>2, <1>3, <1>4, <1>5 DEF HttpNext, Client, Connect, ConnectFailed,
           SendHeader, SendBody, AwaitHeader, Ready

(* The header has been read: its end stays known from here on.             *)
LEMMA ProgressAwaitBody ==
  ASSUME Control, Progress, Control', AwaitBody
  PROVE  Progress'
<1>1. /\ pc = "text" /\ call = "idle" /\ data # <<>> /\ ContentLength(data) # ULONG_MAX
      /\ pc' = "binary" /\ UNCHANGED <<taken, stream, cuts>> /\ data' = <<>>
      /\ want' = ContentLength(data)
      /\ call' = IF ContentLength(data) = 0 THEN "idle" ELSE "read_binary"
  BY DEF AwaitBody, Ready, StartReadBinary, remote
<1>2. taken = data /\ HeaderIs(Len(data))
  BY <1>1 DEF Progress, HeaderRead
<1>3. data \in Seq(Byte) /\ stream \in Seq(Byte) /\ IsPrefix(data, stream)
  BY <1>2 DEF Control, SockInv, SockTypeOK, StreamIntegrity
<1>4. data = First(stream, Len(data)) /\ Len(data) \in Nat
  BY <1>3, PrefixIsFront
<1>5. ContentLength(data) \in 0 .. MaxWant
  BY <1>1, <1>3, LengthIsASize
<1>6. PICK n \in Nat : HeaderIs(n) /\ data = First(stream, n)
  BY <1>2, <1>4
<1>7. data \o <<>> = data /\ Len(<<>>) = 0
  BY <1>3, ConcatEmptySeq, EmptySeq
<1>8. HeaderIs(n)'
  BY <1>6, SameHeader DEF HttpNext, Client
<1>9. BodyAwaited(n)'
  BY <1>1, <1>2, <1>5, <1>6, <1>7, <1>8 DEF BodyAwaited
<1> QED BY <1>1, <1>6, <1>9 DEF Progress, NothingRead, HeaderAwaited, HeaderRead

LEMMA ProgressBody ==
  ASSUME Control, Progress, Control', [HttpNext]_httpVars,
         pc = "binary" \/ (pc = "done" /\ err = "ok")
  PROVE  Progress'
<1>1. PICK n \in Nat : BodyAwaited(n)
  BY DEF Progress
<1>2. HeaderIs(n)' /\ stream' = stream /\ ContentLength(First(stream, n)) # ULONG_MAX
  BY <1>1, SameHeader, Rigid DEF BodyAwaited
<1>3. pc' \in {"binary", "done"}
      /\ (Finish \/ InCall \/ Environment \/ UNCHANGED httpVars)
  BY DEF HttpNext, Client, Connect, ConnectFailed, SendHeader, SendBody, AwaitHeader,
     AwaitBody, NoLength, Finish, InCall, Environment, httpVars, Ready
<1>4. BodyAwaited(n)'
  <2>1. CASE UNCHANGED <<call, want, data, taken, err>>
    BY <1>1, <1>2, <2>1 DEF BodyAwaited
  <2>2. CASE Finish
    <3>1. UNCHANGED <<call, want, data, taken, err>>
      BY <2>2 DEF Finish, Disconnect, remote
    <3> QED BY <2>1, <3>1
  <2>3. CASE Environment \/ UNCHANGED httpVars
    <3>1. UNCHANGED <<call, want, data, taken, err>>
      BY <2>3 DEF Environment, Drain, Disrupt, httpVars, sockVars, local, remote
    <3> QED BY <2>1, <3>1
  <2>4. CASE InCall /\ ReceiveFails
    BY <1>1, <1>2, <2>4 DEF ReceiveFails, BodyAwaited
  <2>5. CASE InCall /\ ReadBinaryReceive
    <3>1. UNCHANGED <<call, want, data, taken>> /\ call = "read_binary"
      BY <2>5 DEF ReadBinaryReceive, Receive
    <3> QED BY <1>1, <1>2, <3>1 DEF BodyAwaited
  <2>6. CASE InCall /\ ReadBinaryTake
    <3>1. call = "read_binary" /\ data \in Seq(Byte) /\ rb \in Seq(Byte)
      BY <2>6 DEF ReadBinaryTake, Control, SockInv, SockTypeOK
    <3>2. taken = First(stream, n) /\ want = ContentLength(First(stream, n))
      BY <1>1, <3>1 DEF BodyAwaited
    <3>3. CASE Collect(Len(rb), FALSE)
      <4>1. UNCHANGED <<call, want, taken>>
        BY <3>3 DEF Collect
      <4> QED BY <1>1, <1>2, <3>1, <4>1 DEF BodyAwaited
    <3>4. CASE Collect(Len(rb), TRUE) /\ Len(data) + Len(rb) >= want
      <4>1. call' = "idle" /\ taken' = taken \o data' /\ data' = data \o rb
        <5>1. err = "ok"
          BY <3>1 DEF Control, SockInv, Healthy
        <5> QED BY <3>1, <3>4, <5>1, CutAll DEF Collect
      <4>2. Len(data') = Len(data) + Len(rb)
        BY <3>1, <4>1, ConcatProperties
      <4> QED BY <1>2, <3>2, <3>4, <4>1, <4>2 DEF BodyAwaited
    <3> QED BY <2>6, <3>3, <3>4 DEF ReadBinaryTake, Collect
  <2>7. InCall => ReceiveFails \/ ReadBinaryReceive \/ ReadBinaryTake
    BY DEF InCall, SockStep, ConnectSelect, WriteSend, WriteFails, ReadTextReceive,
       ReadTextScan, Control, CallOfStage, Calls
  <2> QED BY <1>3, <2>2, <2>3, <2>4, <2>5, <2>6, <2>7
<1> QED BY <1>3, <1>4 DEF Progress, NothingRead, HeaderAwaited, HeaderRead

(* A failure ends it all.                                                  *)
LEMMA ProgressFailed ==
  ASSUME Control, Progress, Control', [HttpNext]_httpVars,
         pc = "cleanup" \/ (pc = "done" /\ err # "ok")
  PROVE  Progress'
<1>1. err' # "ok" /\ pc' \in {"cleanup", "done"}
  <2>1. err # "ok" /\ call = "idle"
    BY DEF Control, Descriptor, CallOfStage, Calls
  <2>2. Finish \/ Environment \/ UNCHANGED httpVars
    BY <2>1 DEF HttpNext, Client, Connect, ConnectFailed, SendHeader, SendBody,
       AwaitHeader, AwaitBody, NoLength, InCall, SockStep, ConnectSelect, WriteSend,
       WriteFails, ReceiveFails, ReadTextReceive, ReadTextScan, ReadBinaryReceive,
       ReadBinaryTake, Reading, Ready
  <2> QED BY <2>1, <2>2 DEF Finish, Disconnect, Environment, Drain, Disrupt, httpVars,
          sockVars, local
<1> QED BY <1>1 DEF Progress, NothingRead, HeaderAwaited, HeaderRead

LEMMA HttpProgress == HttpSpec => []Progress
<1>1. Control /\ Progress /\ Control' /\ [HttpNext]_httpVars => Progress'
  <2> SUFFICES ASSUME Control, Progress, Control', [HttpNext]_httpVars PROVE Progress'
    OBVIOUS
  <2>1. pc \in Stages
    BY DEF Control, CallOfStage
  <2> QED BY <2>1, ProgressSending, ProgressReceive, ProgressScan, ProgressText,
          ProgressAwaitBody, ProgressBody, ProgressFailed DEF Stages
<1> QED BY HttpControl, ProgressInit, <1>1, PTL DEF HttpSpec

-----------------------------------------------------------------------------
(* A body that http_post returns without an error is the peer's: it starts *)
(* right behind the first terminator of the reply and is no shorter than   *)
(* announced, however recv() cuts the reply outside that terminator.       *)
THEOREM HttpResponseIsTheBody == HttpSpec => []ResponseIsTheBody
<1>1. Control /\ Progress => ResponseIsTheBody
  <2> SUFFICES ASSUME Control, Progress, pc = "done", err = "ok", ~SplitTerminator
               PROVE  /\ ReplyComplete
                      /\ IsPrefix(data, After(stream, BodyStart))
                      /\ Len(data) >= Announced
    BY DEF ResponseIsTheBody
  <2>1. PICK n \in Nat : BodyAwaited(n)
    BY DEF Progress
  <2> DEFINE header == First(stream, n)
  <2>2. call = "idle"
    BY DEF Control, CallOfStage, Calls
  <2>3. /\ n = BodyStart /\ n \in MatchEnds(stream, Term) /\ Announced # ULONG_MAX
        /\ taken = header \o data /\ Len(data) >= Announced
    BY <2>1, <2>2 DEF BodyAwaited, HeaderIs, Announced
  <2>4. stream \in Seq(Byte) /\ data \in Seq(Byte) /\ taken \in Seq(Byte)
        /\ IsPrefix(taken, stream)
    BY DEF Control, SockInv, SockTypeOK, StreamIntegrity
  <2>5. n \in 0 .. Len(stream) /\ n > 0
    BY <2>3, <2>4, FirstTerminator, RequestTypes, LenProperties
  <2>6. header \in Seq(Byte) /\ Len(header) = n
    BY <2>4, <2>5, Cut
  <2> HIDE DEF header
  <2>7. Len(taken) = n + Len(data) /\ Len(data) \in Nat
    BY <2>3, <2>4, <2>6, ConcatProperties, LenProperties
  <2>8. taken = First(stream, Len(taken)) /\ Len(taken) \in 0 .. Len(stream)
    BY <2>4, PrefixIsFront
  <2> DEFINE rest == After(stream, Len(taken))
  <2>9. rest \in Seq(Byte) /\ taken \o rest = stream
    BY <2>4, <2>8, Cut
  <2> HIDE DEF rest
  <2>10. After(stream, n) = data \o rest
    <3>1. (header \o data) \o rest = header \o (data \o rest)
      BY SMTT(30), <2>4, <2>6, <2>9
    <3>2. After(header \o (data \o rest), Len(header)) = data \o rest
      <4>1. data \o rest \in Seq(Byte)
        BY <2>4, <2>9, ConcatProperties
      <4> QED BY <2>6, <4>1, AfterPrefix
    <3> QED BY ONLY <2>3, <2>6, <2>9, <3>1, <3>2
  <2>11. IsPrefix(data, data \o rest)
    BY <2>4, <2>9, PrefixOfConcat
  <2>12. ReplyComplete
    <3>1. ContentLength(header) \in 0 .. MaxWant /\ Announced = ContentLength(header)
      BY <2>3, <2>6, LengthIsASize DEF Announced, header
    <3>2. Announced \in Nat
      BY <3>1, SocketAssumption
    <3> QED BY <2>3, <2>5, <2>7, <2>8, <3>2 DEF ReplyComplete
  <2> QED BY <2>3, <2>10, <2>11, <2>12
<1> QED BY HttpControl, HttpProgress, <1>1, PTL

-----------------------------------------------------------------------------
(* Every error has a cause outside http_post, from the step that raises it *)
(* until http_post returns.                                                *)

Excuse ==
  \/ fault \/ peer = "down" \/ ~ReplyComplete \/ SplitTerminator
  \/ err = "EAGAIN" /\ Len(Request) > SndBuf

Excused == err # "ok" => Excuse

(* A usable length is a number.                                            *)
LEMMA CompleteReply ==
  ASSUME stream \in Seq(Byte), ReplyComplete
  PROVE  /\ BodyStart \in Nat \ {0} /\ BodyStart \in 0 .. Len(stream) /\ Announced \in Nat
         /\ BodyStart + Announced <= Len(stream)
<1>1. BodyStart > 0 /\ Announced # ULONG_MAX /\ BodyStart + Announced <= Len(stream)
  BY DEF ReplyComplete
<1>2. BodyStart = 0 \/ BodyStart \in Len(Term) .. Len(stream)
  BY FirstTerminator DEF BodyStart
<1>3. BodyStart \in Nat \ {0} /\ BodyStart \in 0 .. Len(stream)
  BY <1>1, <1>2, RequestTypes, LenProperties
<1>4. First(stream, BodyStart) \in Seq(Byte)
  BY <1>3, Cut
<1>5. Announced \in 0 .. MaxWant
  BY <1>1, <1>4, LengthIsASize DEF Announced
<1> QED BY <1>1, <1>3, <1>5, SocketAssumption

(* The send queue can only be full of the request itself.                  *)
LEMMA QueueFull ==
  ASSUME Control, WriteFails
  PROVE  fault \/ (err' = "EAGAIN" /\ Len(Request) > SndBuf)
<1> SUFFICES ASSUME queued = SndBuf PROVE Len(Request) > SndBuf
  BY DEF WriteFails
<1> DEFINE rest == IF pc = "header" THEN arg \o ReqBody ELSE arg
<1>1. /\ call = "write" /\ err = "ok" /\ pc \in {"header", "body"} /\ arg # <<>>
      /\ sent \in Seq(Byte) /\ arg \in Seq(Byte)
      /\ sent \o rest = Request /\ SndBuf <= Len(sent)
  BY DEF WriteFails, Control, SockInv, SockTypeOK, Healthy, CallOfStage, Calls, Owed, Rest
<1>2. Len(arg) \in Nat \ {0} /\ Len(ReqBody) \in Nat
  BY <1>1, LenProperties, EmptySeq, RequestTypes
<1>3. rest \in Seq(Byte) /\ Len(rest) \in Nat \ {0}
  <2>1. arg \o ReqBody \in Seq(Byte) /\ Len(arg \o ReqBody) = Len(arg) + Len(ReqBody)
    BY <1>1, RequestTypes, ConcatProperties
  <2> QED BY <1>1, <1>2, <2>1
<1> HIDE DEF rest
<1>4. Len(Request) = Len(sent) + Len(rest) /\ Len(sent) \in Nat
  BY <1>1, <1>3, ConcatProperties, LenProperties
<1> QED BY <1>1, <1>3, <1>4, SocketAssumption

(* A read that finds nothing more to read: the reply was not complete.     *)
LEMMA ReplyEnded ==
  ASSUME Control, Progress, NoOverRead, ReceiveFails
  PROVE  fault \/ ~ReplyComplete \/ SplitTerminator
<1> SUFFICES ASSUME wire = <<>>, ReplyComplete, ~SplitTerminator PROVE FALSE
  BY DEF ReceiveFails
<1>1. /\ call \in Reading /\ rb = <<>> /\ fd = "open" /\ err = "ok" /\ Pending = data
      /\ stream \in Seq(Byte) /\ data \in Seq(Byte) /\ taken \in Seq(Byte)
      /\ rb \in Seq(Byte) /\ wire \in Seq(Byte)
  BY DEF ReceiveFails, Control, SockInv, SockTypeOK, Connected, Healthy, Pending, Reading
<1>2. Len(stream) = Len(taken) + Len(data) /\ {Len(taken), Len(data)} \subseteq Nat
  <2>1. taken \o data \o rb \o wire = stream
    BY <1>1 DEF Control, SockInv, StreamIntegrity
  <2>2. Len(stream) = Len(taken) + Len(data) + Len(rb) + Len(wire)
        /\ {Len(taken), Len(data)} \subseteq Nat
    BY <1>1, <2>1, FourParts
  <2> QED BY <1>1, <2>2, EmptySeq
<1>3. /\ BodyStart \in Nat \ {0} /\ BodyStart \in 0 .. Len(stream) /\ Announced \in Nat
      /\ BodyStart + Announced <= Len(stream)
  BY <1>1, CompleteReply
<1>4. CASE call = "read_text"
  <2>1. taken = <<>> /\ Len(data) <= BodyStart - Len(Term)
    BY <1>3, <1>4 DEF Control, CallOfStage, Calls, Progress, HeaderAwaited
  <2> QED BY <1>2, <1>3, <2>1, EmptySeq, RequestTypes
<1>5. CASE call = "read_binary"
  <2>1. PICK n \in Nat : BodyAwaited(n)
    BY <1>5 DEF Control, CallOfStage, Calls, Progress
  <2>2. n = BodyStart /\ taken = First(stream, BodyStart) /\ want = Announced /\ want > 0
    BY <1>5, <2>1 DEF BodyAwaited, HeaderIs, Announced
  <2>3. Len(taken) = BodyStart
    BY <1>1, <1>3, <2>2, Cut
  <2>4. Len(data) < want
    BY <1>5, <2>2, EmptySeq DEF NoOverRead
  <2> QED BY <1>2, <1>3, <2>2, <2>3, <2>4
<1> QED BY <1>1, <1>4, <1>5 DEF Reading

LEMMA ExcusedStep ==
  ASSUME Control, Progress, NoOverRead, Excused, [HttpNext]_httpVars
  PROVE  Excused'
<1>1. /\ UNCHANGED peer /\ (fault => fault') /\ ReplyComplete' = ReplyComplete
      /\ (SplitTerminator => SplitTerminator')
  BY Rigid
<1>2. CASE err' \in {"ok", err}
  BY <1>1, <1>2 DEF Excused, Excuse, Request
<1>3. CASE ConnectSelect \/ StartConnect
  BY <1>1, <1>3 DEF ConnectSelect, StartConnect, ConnectFails, Excused, Excuse
<1>4. CASE WriteFails
  BY <1>1, <1>4, QueueFull DEF Excused, Excuse, Request
<1>5. CASE ReceiveFails
  BY <1>1, <1>5, ReplyEnded DEF Excused, Excuse
<1>6. CASE NoLength
  <2>1. taken = data /\ HeaderIs(Len(data)) /\ ContentLength(data) = ULONG_MAX
    BY <1>6 DEF NoLength, Ready, Progress, HeaderRead
  <2>2. data \in Seq(Byte) /\ stream \in Seq(Byte) /\ IsPrefix(data, stream)
    BY <2>1 DEF Control, SockInv, SockTypeOK, StreamIntegrity
  <2>3. data = First(stream, Len(data))
    BY <2>2, PrefixIsFront
  <2>4. SplitTerminator \/ ~ReplyComplete
    BY <2>1, <2>3 DEF HeaderIs, ReplyComplete, Announced
  <2> QED BY <1>1, <2>4 DEF Excused, Excuse
<1>7. \/ err' \in {"ok", err} \/ ConnectSelect \/ StartConnect \/ WriteFails
      \/ ReceiveFails \/ NoLength
  <2>1. CASE Client /\ ~InCall
    BY <2>1 DEF Client, Connect, ConnectFailed, SendHeader, SendBody, AwaitHeader,
       AwaitBody, Finish, StartWrite, StartReadText, StartReadBinary,
       Disconnect, sockVars, local
  <2>2. CASE InCall
    BY <2>2 DEF InCall, SockStep, WriteSend, ReadTextReceive, ReadTextScan,
       ReadBinaryReceive, ReadBinaryTake, Receive, Collect
  <2>3. CASE Environment \/ UNCHANGED httpVars
    BY <2>3 DEF Environment, Drain, Disrupt, httpVars, sockVars, local
  <2> QED BY <2>1, <2>2, <2>3 DEF HttpNext
<1> QED BY <1>2, <1>3, <1>4, <1>5, <1>6, <1>7

(* http_post never fails of itself: a connection that is not disrupted, to *)
(* a server that answers completely and whose header terminator no recv()  *)
(* cuts, fails it only if the request does not fit in the send queue.      *)
THEOREM HttpFailureExplained == HttpSpec => []FailureExplained
<1>1. HttpInit => Excused
  BY DEF HttpInit, SockInit, Excused
<1>2. Control /\ Progress /\ NoOverRead /\ Excused /\ [HttpNext]_httpVars => Excused'
  BY ExcusedStep
<1>3. Excused => FailureExplained
  BY DEF Excused, Excuse, FailureExplained
<1>4. HttpSpec => []NoOverRead
  BY HttpKeepsProtocol, SocketNoOverRead, PTL DEF KeepsProtocol
<1> QED BY HttpControl, HttpProgress, <1>1, <1>2, <1>3, <1>4, PTL DEF HttpSpec

-----------------------------------------------------------------------------
(* http_post as one exchange.                                              *)

LEMMA ExchangeInitially == HttpInit => Abstract!ExchangeInit
BY DEF HttpInit, SockInit, Abstract!ExchangeInit, Abstract!Pending, Outcome

LEMMA NotYetDone ==
  ASSUME pc # "done"
  PROVE  Outcome = Abstract!Pending
BY DEF Outcome, Abstract!Pending

(* http_post returns the body it has read.                                 *)
LEMMA ReturnsBody ==
  ASSUME Control, Progress, pc = "binary", call = "idle", err = "ok",
         UNCHANGED <<data, err, sent, stream>>, pc' = "done"
  PROVE  Abstract!Answer \/ Abstract!Nothing
<1>1. PICK n \in Nat : BodyAwaited(n)
  BY DEF Progress
<1>2. n \in MatchEnds(stream, Term) /\ taken = First(stream, n) \o data
  BY <1>1 DEF BodyAwaited, HeaderIs
<1>3. /\ stream \in Seq(Byte) /\ data \in Seq(Byte) /\ taken \in Seq(Byte)
      /\ sent \in Seq(Byte) /\ IsPrefix(taken, stream)
  BY DEF Control, SockInv, SockTypeOK, StreamIntegrity
<1>4. sent = Request
  <2>1. sent \o <<>> = Request
    BY DEF Control, Owed, Rest
  <2> QED BY <1>3, <2>1, ConcatEmptySeq
<1>5. n + 1 \in BodyStarts(stream) /\ Outcome = Abstract!Pending
  BY <1>2, NotYetDone DEF BodyStarts
<1>6. CASE data = <<>>
  <2>1. Outcome' = [kind |-> "nothing", body |-> <<>>]
    BY <1>6 DEF Outcome
  <2> QED BY <1>4, <1>5, <2>1 DEF Abstract!Nothing
<1>7. CASE data # <<>>
  <2> DEFINE header == First(stream, n)
             end == n + Len(data)
  <2>1. n \in 0 .. Len(stream) /\ Len(stream) \in Nat
    BY <1>2, <1>3, FirstTerminator, RequestTypes, LenProperties
  <2>2. header \in Seq(Byte) /\ Len(header) = n
    BY <1>3, <2>1, Cut
  <2>3. taken = First(stream, Len(taken)) /\ Len(taken) \in 0 .. Len(stream)
    BY <1>3, PrefixIsFront
  <2>4. taken = header \o data
    BY <1>2
  <2> HIDE DEF header
  <2>5. Len(data) \in Nat \ {0} /\ Len(taken) = n + Len(data)
    BY <1>3, <1>7, <2>2, <2>4, ConcatProperties, LenProperties, EmptySeq
  <2>6. end \in 1 .. Len(stream) /\ n + 1 <= end /\ end = Len(taken)
    BY <2>1, <2>3, <2>5
  <2>7. After(taken, n) = data
    BY <1>3, <2>2, <2>4, AfterPrefix
  <2>8. SubSeq(stream, n + 1, end) = data
    <3>1. taken = SubSeq(stream, 1, Len(taken))
      BY <2>3 DEF First
    <3>2. ASSUME NEW m \in 1 .. Len(stream), NEW i \in 1 .. m
          PROVE  SubSeq(SubSeq(stream, 1, m), i, m) = SubSeq(stream, i, m)
      BY <1>3, SubSeqOfSubSeq
    <3>3. SubSeq(taken, n + 1, Len(taken)) = SubSeq(stream, n + 1, Len(taken))
      BY <2>1, <2>6, <3>1, <3>2
    <3> QED BY <2>6, <2>7, <3>3 DEF After
  <2>9. Outcome' = [kind |-> "body", body |-> data]
    BY <1>7 DEF Outcome
  <2> HIDE DEF end
  <2>10. \E start \in BodyStarts(stream), last \in 1 .. Len(stream) :
           /\ start <= last
           /\ Outcome' = [kind |-> "body", body |-> SubSeq(stream, start, last)]
    BY <1>5, <2>6, <2>8, <2>9
  <2> QED BY <1>4, <1>5, <2>10 DEF Abstract!Answer
<1> QED BY <1>6, <1>7

LEMMA ExchangeStep ==
  ASSUME Control, Progress, [HttpNext]_httpVars
  PROVE  [Abstract!ExchangeNext]_(Abstract!exchangeVars)
<1>1. UNCHANGED stream
  BY Rigid
<1>2. CASE InCall
  <2>1. pc # "done" /\ pc' = pc
    BY <1>2 DEF InCall, SockStep, ConnectSelect, WriteSend, WriteFails, ReceiveFails,
       ReadTextReceive, ReadTextScan, ReadBinaryReceive, ReadBinaryTake, Reading,
       Control, CallOfStage, Calls
  <2>2. Outcome = Abstract!Pending /\ Outcome' = Outcome
    BY <2>1 DEF Outcome, Abstract!Pending
  <2>3. CASE WriteSend
    <3>1. /\ Len(sent) < Len(sent') /\ Len(sent') <= Len(Request)
          /\ sent' = First(Request, Len(sent'))
      BY <1>2, <2>1, <2>3, OwedInSend
    <3>2. sent \in Seq(Byte) /\ sent' \in Seq(Byte)
      BY ControlStep DEF Control, SockInv, SockTypeOK
    <3>3. Len(sent') \in Len(sent) + 1 .. Len(Request)
      BY <3>1, <3>2, LenProperties, RequestTypes
    <3> QED BY <1>1, <2>2, <3>1, <3>3
            DEF Abstract!ExchangeNext, Abstract!Transmit, First
  <2>4. CASE ~WriteSend
    <3>1. UNCHANGED sent
      BY <1>2, <2>1, <2>4, OwedInCall DEF InCall
    <3> QED BY <1>1, <2>2, <3>1 DEF Abstract!exchangeVars
  <2> QED BY <2>3, <2>4
<1>3. CASE Client /\ ~InCall /\ ~Finish /\ ~ConnectFailed
  <2>1. pc # "done" /\ pc' # "done" /\ UNCHANGED sent
    BY <1>3 DEF Client, Connect, SendHeader, SendBody, AwaitHeader, AwaitBody, NoLength,
       StartConnect, ConnectFails, StartWrite, StartReadText, StartReadBinary, Reject,
       remote, Ready
  <2>2. Outcome' = Outcome
    BY <2>1 DEF Outcome
  <2> QED BY <1>1, <2>1, <2>2 DEF Abstract!exchangeVars
<1>4. CASE Finish \/ ConnectFailed
  <2>1. /\ call = "idle" /\ pc # "done" /\ pc' = "done" /\ UNCHANGED <<data, err, sent>>
    BY <1>4 DEF Finish, ConnectFailed, Ready, Disconnect, sockVars, local, remote
  <2>2. CASE err # "ok"
    <3>1. Outcome = Abstract!Pending /\ Outcome' = [kind |-> "error", body |-> <<>>]
      BY <2>1, <2>2 DEF Outcome, Abstract!Pending
    <3> QED BY <1>1, <2>1, <3>1 DEF Abstract!ExchangeNext, Abstract!Fail
  <2>3. CASE err = "ok"
    <3>1. pc = "binary"
      BY <1>4, <2>3 DEF Finish, ConnectFailed, Ready, Control, HeaderOrError, Descriptor
    <3> QED BY <1>1, <2>1, <2>3, <3>1, ReturnsBody DEF Abstract!ExchangeNext
  <2> QED BY <2>2, <2>3
<1>5. CASE Environment \/ UNCHANGED httpVars
  <2>1. UNCHANGED <<pc, data, err, sent>>
    BY <1>5 DEF Environment, Drain, Disrupt, httpVars, sockVars, local, remote
  <2>2. Outcome' = Outcome
    BY <2>1 DEF Outcome
  <2> QED BY <1>1, <2>1, <2>2 DEF Abstract!exchangeVars
<1> QED BY <1>2, <1>3, <1>4, <1>5 DEF HttpNext

(* http_post is one exchange with one final outcome: whatever it returns   *)
(* without an error is an answer to a request sent as a whole, and starts  *)
(* behind a header terminator of the reply, even where recv() has cut one. *)
THEOREM HttpImplementsExchange == HttpSpec => ImplementsExchange
<1>1. Control /\ Progress /\ [HttpNext]_httpVars
        => [Abstract!ExchangeNext]_(Abstract!exchangeVars)
  BY ExchangeStep
<1> QED BY HttpControl, HttpProgress, ExchangeInitially, <1>1, PTL
        DEF HttpSpec, ImplementsExchange, Abstract!ExchangeSpec
=============================================================================
