------------------------------ MODULE HttpPost ------------------------------
(***************************************************************************)
(* http.c: one POST over one connection, as a client of SysSocket.         *)
(*                                                                         *)
(* http_post runs through pc; each of its steps is a call into the socket, *)
(* made once the previous call has returned (call = "idle").  A header     *)
(* line is one symbol; the line end that closes it is a symbol of its own, *)
(* so that recv() may cut anywhere inside the terminator.                  *)
(***************************************************************************)
EXTENDS SysSocket

CONSTANTS
  Term,        \* the "\r\n\r\n" that ends the header
  ReqHeader, ReqBody,
  LengthField  \* header lines named Content-Length -> strtoul() of the value

ULONG_MAX == -1   \* what strtoul() returns for a number out of range

ASSUME HttpAssumption ==
  /\ Term \in Terms /\ {ReqHeader, ReqBody} \subseteq Requests \ {<<>>}
  /\ Len(ReqHeader) < MaxSent
  /\ DOMAIN LengthField \subseteq Byte
  /\ \A s \in DOMAIN LengthField : LengthField[s] \in {ULONG_MAX} \cup 0 .. MaxWant

VARIABLES
  pc,    \* how far http_post is
  cuts   \* the offsets in stream at which a recv() ended (history)

httpVars == <<sockVars, pc, cuts>>

Stages == {"start", "connect", "header", "body", "text", "binary", "cleanup", "done"}
Ready(stage) == pc = stage /\ call = "idle"

HttpInit == SockInit /\ pc = "start" /\ cuts = {}

\* Where the first header terminator of s ends; 0 if there is none.
HeaderEnd(s) ==
  LET ends == MatchEnds(s, Term) IN
  IF ends = {} THEN 0 ELSE CHOOSE n \in ends : \A m \in ends : n <= m

(* http_header_get_ulong: the first Content-Length line counts; without    *)
(* one, or with a number out of range, the result is ENOENT.               *)
ContentLength(header) ==
  LET fields == {i \in DOMAIN header : header[i] \in DOMAIN LengthField}
  IN  IF fields = {} THEN ULONG_MAX
      ELSE LengthField[header[CHOOSE i \in fields : \A j \in fields : i <= j]]

-----------------------------------------------------------------------------
Connect == pc = "start" /\ StartConnect /\ pc' = "connect" /\ UNCHANGED cuts

ConnectFailed ==   \* returns at once: the socket has cleaned up after itself
  /\ Ready("connect") /\ err # "ok"
  /\ pc' = "done" /\ UNCHANGED <<sockVars, cuts>>

SendHeader ==
  /\ Ready("connect") /\ err = "ok"
  /\ StartWrite(ReqHeader) /\ pc' = "header" /\ UNCHANGED cuts

SendBody ==
  /\ Ready("header") /\ err = "ok"
  /\ StartWrite(ReqBody) /\ pc' = "body" /\ UNCHANGED cuts

\* Mutant: the error of the second write is not looked at.
AwaitHeaderAnyway ==
  /\ Ready("body") /\ StartReadText(Term) /\ pc' = "text" /\ UNCHANGED cuts

AwaitHeader ==
  /\ Ready("body") /\ err = "ok"
  /\ StartReadText(Term) /\ pc' = "text" /\ UNCHANGED cuts

\* Mutants: ENOENT is not looked at; room for a NUL is asked for as well.
AwaitBodyUnchecked ==
  /\ Ready("text") /\ data # <<>>
  /\ StartReadBinary(ContentLength(data)) /\ pc' = "binary" /\ UNCHANGED cuts
AwaitBodyOneMore ==
  /\ Ready("text") /\ data # <<>> /\ ContentLength(data) # ULONG_MAX
  /\ StartReadBinary(ContentLength(data) + 1) /\ pc' = "binary" /\ UNCHANGED cuts

AwaitBody ==
  /\ Ready("text") /\ data # <<>> /\ ContentLength(data) # ULONG_MAX
  /\ StartReadBinary(ContentLength(data)) /\ pc' = "binary" /\ UNCHANGED cuts

\* Mutant: returns at once, as after a failed connect.
NoLengthReturns ==
  /\ Ready("text") /\ data # <<>> /\ ContentLength(data) = ULONG_MAX
  /\ Reject /\ pc' = "done" /\ UNCHANGED cuts

NoLength ==
  /\ Ready("text") /\ data # <<>> /\ ContentLength(data) = ULONG_MAX
  /\ Reject /\ pc' = "cleanup" /\ UNCHANGED cuts

Finish ==   \* after the body, or as soon as a step has failed
  /\ \/ Ready("header") /\ err # "ok"
     \/ Ready("body") /\ err # "ok"
     \/ Ready("text") /\ data = <<>>
     \/ Ready("binary")
     \/ Ready("cleanup")
  /\ Disconnect /\ pc' = "done" /\ UNCHANGED cuts

InCall ==   \* the socket works on the call; a recv() may have cut the stream
  /\ SockStep
  /\ cuts' = IF wire' = wire THEN cuts ELSE cuts \cup {Len(stream) - Len(wire')}
  /\ UNCHANGED pc

Environment == (Drain \/ Disrupt) /\ UNCHANGED <<pc, cuts>>

Client ==
  \/ Connect \/ ConnectFailed \/ SendHeader \/ SendBody \/ AwaitHeader
  \/ AwaitBody \/ NoLength \/ Finish \/ InCall

HttpNext == Client \/ Environment
HttpSpec == HttpInit /\ [][HttpNext]_httpVars

(* The program is sequential and every system call it can block in is      *)
(* select() with a timeout, so it always takes its next step.  Nothing is  *)
(* assumed of the network: it may never transmit, and may fail at any time.*)
HttpFairSpec == HttpSpec /\ WF_httpVars(Client)

-----------------------------------------------------------------------------
(* Types; the size asked of read_binary is a number, never ULONG_MAX.      *)
HttpTypeOK == SockTypeOK /\ pc \in Stages /\ cuts \subseteq 0 .. Len(stream)

Request == ReqHeader \o ReqBody
BodyStart == HeaderEnd(stream)
Announced == ContentLength(First(stream, BodyStart))

\* The reply has a header with a usable Content-Length and all of its body.
ReplyComplete ==
  BodyStart > 0 /\ Announced # ULONG_MAX /\ BodyStart + Announced <= Len(stream)

\* A recv() ended inside the terminator of the header.
SplitTerminator == \E c \in cuts : BodyStart - Len(Term) < c /\ c < BodyStart

(* What http_post returns without an error is the body that follows the    *)
(* header in the peer's reply: it starts right after the first terminator  *)
(* and has at least the announced length, as long as no recv() ended       *)
(* inside that terminator.                                                 *)
ResponseIsTheBody ==
  pc = "done" /\ err = "ok" /\ ~SplitTerminator =>
    /\ ReplyComplete
    /\ IsPrefix(data, After(stream, BodyStart))
    /\ Len(data) >= Announced

(* An error has a cause outside the program: a disrupted connection, no    *)
(* server, a malformed or truncated reply, a request larger than the send  *)
(* queue - or the terminator fell between two recv()s.                     *)
FailureExplained ==
  pc = "done" /\ err # "ok" =>
    \/ fault \/ peer = "down" \/ ~ReplyComplete \/ SplitTerminator
    \/ err = "EAGAIN" /\ Len(Request) > SndBuf

(* When http_post has returned its socket is closed, and was closed once,  *)
(* on every error path; while a call is in progress it is open.            *)
DescriptorReleased ==
  /\ fd # "reclosed"
  /\ pc = "done" => fd \in {"none", "closed"}
  /\ call # "idle" => fd = "open"

(* However send() splits the request, the server gets a prefix of it in    *)
(* order, and all of it before the client waits for the reply.             *)
RequestIntact ==
  IsPrefix(sent, Request) /\ (pc \in {"text", "binary"} => sent = Request)

(* http_post uses the socket as a disciplined caller does: it never goes   *)
(* on after an error and never touches a socket it has closed.             *)
KeepsProtocol == SockSpec

\* A body is looked for behind a terminator, the first or a later one.
BodyStarts(s) == {n + 1 : n \in MatchEnds(s, Term)}

Outcome ==
  IF pc # "done" THEN [kind |-> "pending", body |-> <<>>]
  ELSE [kind |-> CASE err # "ok" -> "error"
                   [] err = "ok" /\ data = <<>> -> "nothing"
                   [] OTHER -> "body",
        body |-> IF err = "ok" THEN data ELSE <<>>]

Abstract == INSTANCE Exchange WITH
  Bodies <- BodyStarts, reply <- stream, got <- sent, outcome <- Outcome

(* http_post is one exchange with one final outcome.  An answer is never   *)
(* made of a reply to a request that was not sent as a whole, nor of bytes *)
(* of a header, even where recv() cut the terminator.                      *)
ImplementsExchange == Abstract!ExchangeSpec

(* http_post returns, whatever the network does.                           *)
Terminates == <>(pc = "done")

(* README.md: the program displays the results returned by the back-end. A *)
(* complete reply over an undisturbed connection is therefore returned.    *)
CompleteReplyIsShown ==
  pc = "done" /\ ~fault /\ peer # "down" /\ ReplyComplete
    /\ Len(Request) <= SndBuf => err = "ok"

(* http_tests.cc: no error and a body go together; main() prints the body  *)
(* whenever there is no error.                                             *)
OkMeansBody == pc = "done" /\ err = "ok" => data # <<>>
=============================================================================
