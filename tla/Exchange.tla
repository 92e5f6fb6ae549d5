------------------------------ MODULE Exchange ------------------------------
(***************************************************************************)
(* What one POST is to the program that makes it: the request arrives in   *)
(* pieces, then there is one outcome, and it is final.                     *)
(*                                                                         *)
(* An answer, with or without a body, is seen only by a client all of      *)
(* whose request was sent.  An error says nothing about the request: it    *)
(* may come before, within or after it, so that a client which tries again *)
(* may have the same command carried out twice.                            *)
(***************************************************************************)
EXTENDS Integers, SequencesExt

CONSTANTS Request, Replies,
          Bodies(_)   \* where in a reply a body may start

VARIABLES
  reply,    \* what the server sends (rigid)
  got,      \* the part of the request that was sent
  outcome   \* the kind of result, and the body

exchangeVars == <<reply, got, outcome>>

Pending == [kind |-> "pending", body |-> <<>>]

ExchangeInit == reply \in Replies /\ got = <<>> /\ outcome = Pending

Transmit ==
  /\ outcome = Pending
  /\ \E n \in Len(got) + 1 .. Len(Request) : got' = SubSeq(Request, 1, n)
  /\ UNCHANGED <<reply, outcome>>

Answer ==
  /\ outcome = Pending /\ got = Request
  /\ \E start \in Bodies(reply), end \in 1 .. Len(reply) :
       /\ start <= end
       /\ outcome' = [kind |-> "body", body |-> SubSeq(reply, start, end)]
  /\ UNCHANGED <<reply, got>>

Nothing ==   \* no error, and a null pointer
  /\ outcome = Pending /\ got = Request /\ Bodies(reply) # {}
  /\ outcome' = [kind |-> "nothing", body |-> <<>>]
  /\ UNCHANGED <<reply, got>>

Fail ==
  /\ outcome = Pending /\ outcome' = [kind |-> "error", body |-> <<>>]
  /\ UNCHANGED <<reply, got>>

ExchangeNext == Transmit \/ Answer \/ Nothing \/ Fail
ExchangeSpec == ExchangeInit /\ [][ExchangeNext]_exchangeVars
=============================================================================
