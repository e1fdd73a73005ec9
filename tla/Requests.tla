------------------------------ MODULE Requests ------------------------------
(***************************************************************************)
(* A request for the temperature or the humidity, from its arrival to its  *)
(* answer: RecvPath brings it to tcp_handle_task, which posts it to        *)
(* dht11_task (Dht11Path).                                                 *)
(***************************************************************************)
EXTENDS RecvPath, Dht11Path

\* What is carried out is a row of requests.
ASSUME TextAssumption == \A row \in Text : row \in Seq([kind : Kind, id : STRING])

vars == <<recvPathVars, dht11Vars>>

Init == RecvPathInit /\ Dht11Init

\* tcp_handle_task goes through the text as one of the peer that the name names.
CarryOut ==
    IF auth_msg.part = "auth" /\ got.part = "msg"
      THEN Ask(auth_msg.from, got.from, got.says)
      ELSE UNCHANGED dht11Vars

\* dht11_task runs when the three tasks above it have nothing to do.
DhtRuns == Waits /\ \A p \in Peer : ~MidPair(p)

DhtTask ==
    \/ DhtPend \/ DhtTake \/ DhtTimeout \/ NotForMe \/ NoReading \/ DhtFree
    \/ \E accepted \in SUBSET {"tag", "answer"} : Answer(accepted)

RecvPathStep ==
    \/ \E p \in Peer : PostText(p) \/ \E text \in Text : Receive(p, text)
    \/ Pend \/ TakeAuth \/ Timeout

Next ==
    \/ RecvPathStep /\ UNCHANGED dht11Vars
    \/ TakeMsg /\ CarryOut
    \/ DhtRuns /\ DhtTask /\ UNCHANGED recvPathVars

Spec == Init /\ [][Next]_vars
FairSpec ==
    /\ Spec
    /\ \A p \in Peer : WF_vars(PostText(p) /\ UNCHANGED dht11Vars)
    /\ WF_vars((Pend \/ TakeAuth \/ Timeout) /\ UNCHANGED dht11Vars)
    /\ WF_vars(TakeMsg /\ CarryOut)
    /\ WF_vars(DhtRuns /\ DhtTask /\ UNCHANGED recvPathVars)

-----------------------------------------------------------------------------
(* Properties.                                                             *)

(* An answer is the answer to one request, its three parts of the same: it *)
(* goes to the peer that sent the message the request was in, no request   *)
(* is answered twice, and they are answered in the order they were asked.  *)
AnswersAsker ==
    \A i \in 1 .. Len(answers) :
        LET r == answers[i].of[1]
        IN /\ answers[i].of = <<r, r, r>>
           /\ answers[i].to = requests[r].sender
           /\ answers[i].kind = requests[r].kind
           /\ \A j \in 1 .. i - 1 : answers[j].of[1] < r

(* Every block taken for a request is in the queue or in a pointer of      *)
(* dht11_task, or is lost for one of two reasons: a queue had no room for  *)
(* it, or the sensor did not answer, which costs the four of the request.  *)
OnlyTheseLost ==
    dheld = Weight(dht11_event) + Weight(<<dgot, msg, msg1, msg2>>)
            + 4 * unread + refused

DhtQuiet == dht11_event = <<>> /\ dgot = NoPart /\ dpc = "msg"

(* When nothing comes any more both tasks get back to the beginning of a   *)
(* message and of a request, with nothing in their queues: the 1000 and    *)
(* the 500 ticks get them out of half a one, a silent sensor does not keep *)
(* dht11_task.                                                             *)
Realigns == <>[](Quiet /\ DhtQuiet)

=============================================================================
