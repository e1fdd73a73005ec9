------------------------------ MODULE OSQueue ------------------------------
(***************************************************************************)
(* A message queue of uC/OS-II (os_q.c) with the kernel functions it rests *)
(* on (os_core.c): the ring of pointers between OSQStart and OSQEnd, the   *)
(* list of waiting tasks in the event control block, and the fields of     *)
(* each task's control block that a post, a deletion, an abort and the     *)
(* clock tick write while the task is inside OSQPend.                      *)
(*                                                                         *)
(* Every action is a critical section.  OSQPend has two: between them the  *)
(* task waits, and, once it is ready, other tasks and the tick may still   *)
(* run before it does.                                                     *)
(*                                                                         *)
(* A call on a control block that is not a queue is refused.  The type is  *)
(* tested before the critical section begins; the module takes the two     *)
(* together, so it assumes that no task deletes a queue another task is    *)
(* just entering.  The control blocks free lists hold are left out.        *)
(***************************************************************************)
EXTENDS Integers, Sequences

CONSTANTS
    Task,      \* the tasks that receive, named by their priority
    Other,     \* the rest of the program: it posts but never pends
    Message,   \* the pointers posted, without the null pointer
    NULL,      \* the null pointer
    OSQSize,   \* entries of the queue
    MaxDly     \* bound: the longest timeout, in ticks

ASSUME TaskAssumption == Task \subseteq Nat /\ Other \notin Task
ASSUME MessageAssumption == NULL \notin Message
ASSUME SizeAssumption == OSQSize \in Nat \ {0} /\ MaxDly \in Nat

VARIABLES
    OSEventType,   \* the block is a queue ("q") or "unused"
    ring,          \* the entries, from OSQStart (0) to before OSQEnd
    OSQIn, OSQOut, \* next entry to fill and to take
    OSQEntries,    \* entries in use
    OSEventTbl,    \* tasks in the wait list; OSEventGrp # 0 when there are any
    OSRdyTbl,      \* tasks ready to run
    pending,       \* tasks inside OSQPend, past its first critical section
    tcb,           \* tcb[t]: the fields of the task's control block
    ret            \* what the call that returned last gave its caller

ringVars == <<ring, OSQIn, OSQOut, OSQEntries>>
taskVars == <<OSEventTbl, OSRdyTbl, tcb>>
vars == <<OSEventType, ringVars, taskVars, pending, ret>>

Caller == Task \union {Other}
Pointer == Message \union {NULL}
Error == {"none", "timeout", "pend_abort", "event_type", "q_empty", "q_full",
          "task_waiting"}
TCB == [OSTCBStat : {"rdy", "q"}, OSTCBStatPend : {"ok", "to", "abort"},
        OSTCBDly : 0 .. MaxDly, OSTCBMsg : Pointer]
Fields(stat, statPend, dly, msg) ==
    [OSTCBStat |-> stat, OSTCBStatPend |-> statPend, OSTCBDly |-> dly,
     OSTCBMsg |-> msg]

Init ==
    /\ OSEventType = "unused"
    /\ ring = [i \in 0 .. OSQSize - 1 |-> NULL]
    /\ OSQIn = 0 /\ OSQOut = 0 /\ OSQEntries = 0
    /\ OSEventTbl = {} /\ OSRdyTbl = Task /\ pending = {}
    /\ tcb = [t \in Task |-> Fields("rdy", "ok", 0, NULL)]
    /\ ret = [task |-> Other, msg |-> NULL, err |-> "none", n |-> 0]

-----------------------------------------------------------------------------
(* Helpers of the kernel.                                                  *)

\* A task that can make a call: ready, and not in the middle of OSQPend.
Runs(c) == c \in Task => c \in OSRdyTbl /\ c \notin pending

Returns(c, m, e, n) == ret' = [task |-> c, msg |-> m, err |-> e, n |-> n]

\* What a call on a block that is not a queue does.
WrongType(c) ==
    /\ Runs(c) /\ OSEventType # "q"
    /\ Returns(c, NULL, "event_type", 0)
    /\ UNCHANGED <<OSEventType, ringVars, taskVars, pending>>

OnQueue(c) == Runs(c) /\ OSEventType = "q"

\* The waiting task of the highest priority, found through OSUnMapTbl.
HPT == {t \in OSEventTbl : \A u \in OSEventTbl : t <= u}

\* Mutant: the task is not put in the ready list.
OS_EventTaskRdy_NoRdy(ws, m, stat) ==
    /\ tcb' = [t \in Task |->
                 IF t \in ws THEN Fields("rdy", stat, 0, m) ELSE tcb[t]]
    /\ OSEventTbl' = OSEventTbl \ ws
    /\ UNCHANGED OSRdyTbl

\* Ready the tasks of ws, one call of OS_EventTaskRdy each.
OS_EventTaskRdy(ws, m, stat) ==
    /\ tcb' = [t \in Task |->
                 IF t \in ws THEN Fields("rdy", stat, 0, m) ELSE tcb[t]]
    /\ OSEventTbl' = OSEventTbl \ ws
    /\ OSRdyTbl' = OSRdyTbl \union ws

\* Mutant: the index is compared before it is advanced.
Wrap_Late(i) == IF i > OSQSize THEN 0 ELSE i

\* An index that has reached OSQEnd goes back to OSQStart.
Wrap(i) == IF i = OSQSize THEN 0 ELSE i

TakeOldest(c) ==
    /\ OSQEntries > 0
    /\ Returns(c, ring[OSQOut], "none", 0)
    /\ OSQOut' = Wrap(OSQOut + 1)
    /\ OSQEntries' = OSQEntries - 1
    /\ UNCHANGED <<ring, OSQIn>>

InsertBack(m) ==
    /\ ring' = [ring EXCEPT ![OSQIn] = m]
    /\ OSQIn' = Wrap(OSQIn + 1)
    /\ OSQEntries' = OSQEntries + 1
    /\ UNCHANGED OSQOut

InsertFront(m) ==
    LET out == (IF OSQOut = 0 THEN OSQSize ELSE OSQOut) - 1
    IN  /\ ring' = [ring EXCEPT ![out] = m]
        /\ OSQOut' = out
        /\ OSQEntries' = OSQEntries + 1
        /\ UNCHANGED OSQIn

-----------------------------------------------------------------------------
(* The calls.                                                              *)

\* A free control block becomes an empty queue.
OSQCreate(c) ==
    /\ Runs(c) /\ OSEventType # "q"
    /\ OSEventType' = "q"
    /\ OSQIn' = 0 /\ OSQOut' = 0 /\ OSQEntries' = 0
    /\ OSEventTbl' = {}
    /\ Returns(c, NULL, "none", 0)
    /\ UNCHANGED <<ring, OSRdyTbl, tcb, pending>>

\* OS_DEL_ALWAYS (what sys_mbox_free asks for) wakes every waiting task with
\* the null pointer and no error; OS_DEL_NO_PEND refuses if there is one.
OSQDel(c, always) ==
    \/ WrongType(c)
    \/ /\ OnQueue(c) /\ ~always /\ OSEventTbl # {}
       /\ Returns(c, NULL, "task_waiting", 0)
       /\ UNCHANGED <<OSEventType, ringVars, taskVars, pending>>
    \/ /\ OnQueue(c) /\ (always \/ OSEventTbl = {})
       /\ OS_EventTaskRdy(OSEventTbl, NULL, "ok")
       /\ OSEventType' = "unused"
       /\ Returns(c, NULL, "none", 0)
       /\ UNCHANGED <<ringVars, pending>>

\* The type is not tested here: the caller has a queue.
OSQFlush(c) ==
    /\ OnQueue(c)
    /\ OSQIn' = 0 /\ OSQOut' = 0 /\ OSQEntries' = 0
    /\ Returns(c, NULL, "none", 0)
    /\ UNCHANGED <<OSEventType, ring, taskVars, pending>>

OSQAccept(c) ==
    \/ WrongType(c)
    \/ /\ OnQueue(c)
       /\ \/ TakeOldest(c)
          \/ OSQEntries = 0 /\ Returns(c, NULL, "q_empty", 0)
             /\ UNCHANGED ringVars
       /\ UNCHANGED <<OSEventType, taskVars, pending>>

OSQQuery(c) ==
    \/ WrongType(c)
    \/ /\ OnQueue(c)
       /\ Returns(c, IF OSQEntries > 0 THEN ring[OSQOut] ELSE NULL, "none",
                  OSQEntries)
       /\ UNCHANGED <<OSEventType, ringVars, taskVars, pending>>

\* To the first or to all waiting tasks, else into the ring, else refused.
PostAs(c, m, broadcast, front) ==
    \/ WrongType(c)
    \/ /\ OnQueue(c) /\ OSEventTbl # {}
       /\ OS_EventTaskRdy(IF broadcast THEN OSEventTbl ELSE HPT, m, "ok")
       /\ Returns(c, NULL, "none", 0)
       /\ UNCHANGED <<OSEventType, ringVars, pending>>
    \/ /\ OnQueue(c) /\ OSEventTbl = {} /\ OSQEntries >= OSQSize
       /\ Returns(c, NULL, "q_full", 0)
       /\ UNCHANGED <<OSEventType, ringVars, taskVars, pending>>
    \/ /\ OnQueue(c) /\ OSEventTbl = {} /\ OSQEntries < OSQSize
       /\ IF front THEN InsertFront(m) ELSE InsertBack(m)
       /\ Returns(c, NULL, "none", 0)
       /\ UNCHANGED <<OSEventType, taskVars, pending>>

OSQPost(c, m) == PostAs(c, m, FALSE, FALSE)
OSQPostFront(c, m) == PostAs(c, m, FALSE, TRUE)
OSQPostOpt(c, m) == \E broadcast, front \in BOOLEAN :
                        PostAs(c, m, broadcast, front)

OSQPendAbort(c, broadcast) ==
    \/ WrongType(c)
    \/ /\ OnQueue(c) /\ OSEventTbl # {}
       /\ OS_EventTaskRdy(IF broadcast THEN OSEventTbl ELSE HPT, NULL, "abort")
       /\ Returns(c, NULL, "pend_abort", 0)
       /\ UNCHANGED <<OSEventType, ringVars, pending>>
    \/ /\ OnQueue(c) /\ OSEventTbl = {}
       /\ Returns(c, NULL, "none", 0)
       /\ UNCHANGED <<OSEventType, ringVars, taskVars, pending>>

\* First half of OSQPend: take a message, or wait for one; 0 is for ever.
OSQPend(t, timeout) ==
    \/ WrongType(t)
    \/ OnQueue(t) /\ TakeOldest(t) /\ UNCHANGED <<OSEventType, taskVars, pending>>
    \/ /\ OnQueue(t) /\ OSQEntries = 0
       /\ tcb' = [tcb EXCEPT ![t] = Fields("q", "ok", timeout, @.OSTCBMsg)]
       /\ OSEventTbl' = OSEventTbl \union {t}
       /\ OSRdyTbl' = OSRdyTbl \ {t}
       /\ pending' = pending \union {t}
       /\ UNCHANGED <<OSEventType, ringVars, ret>>

\* Mutant: a task that gives up stays in the wait list.
LeaveList_Never(t) == UNCHANGED OSEventTbl

\* OS_EventTaskRemove, called after a timeout only.
LeaveList(t) ==
    OSEventTbl' = IF tcb[t].OSTCBStatPend = "to" THEN OSEventTbl \ {t}
                                                 ELSE OSEventTbl

\* Second half: the task is scheduled again and reads how its wait ended.
OSQPendEnd(t) ==
    /\ t \in pending /\ t \in OSRdyTbl
    /\ LET stat == tcb[t].OSTCBStatPend
       IN  Returns(t, IF stat = "ok" THEN tcb[t].OSTCBMsg ELSE NULL,
                   CASE stat = "ok" -> "none" [] stat = "abort" -> "pend_abort"
                     [] OTHER -> "timeout", 0)
    /\ LeaveList(t)
    /\ tcb' = [tcb EXCEPT ![t] = Fields("rdy", "ok", @.OSTCBDly, NULL)]
    /\ pending' = pending \ {t}
    /\ UNCHANGED <<OSEventType, ringVars, OSRdyTbl>>

\* Mutant: the last tick is lost.
Expires_Never(t) == FALSE

Expires(t) == tcb[t].OSTCBDly = 1

\* OSTimeTick: count down, and ready the tasks whose time is over.  They stay
\* in the wait list until they run.
OSTimeTick ==
    /\ \E t \in Task : tcb[t].OSTCBDly # 0
    /\ tcb' = [t \in Task |->
                 LET b == tcb[t]
                 IN  IF Expires(t) THEN Fields("rdy", "to", 0, b.OSTCBMsg)
                     ELSE IF b.OSTCBDly > 1
                       THEN Fields(b.OSTCBStat, b.OSTCBStatPend,
                                   b.OSTCBDly - 1, b.OSTCBMsg)
                     ELSE b]
    /\ OSRdyTbl' = OSRdyTbl \union {t \in Task : Expires(t)}
    /\ UNCHANGED <<OSEventType, ringVars, OSEventTbl, pending, ret>>

Call(c) ==
    \/ OSQCreate(c) \/ OSQFlush(c) \/ OSQAccept(c) \/ OSQQuery(c)
    \/ \E always \in BOOLEAN : OSQDel(c, always)
    \/ \E broadcast \in BOOLEAN : OSQPendAbort(c, broadcast)
    \/ \E m \in Pointer : OSQPost(c, m) \/ OSQPostFront(c, m) \/ OSQPostOpt(c, m)

Next ==
    \/ \E c \in Caller : Call(c)
    \/ \E t \in Task : OSQPendEnd(t) \/ \E n \in 0 .. MaxDly : OSQPend(t, n)
    \/ OSTimeTick

Spec == Init /\ [][Next]_vars

\* The clock ticks for ever.
FairSpec == Spec /\ WF_vars(OSTimeTick)

-----------------------------------------------------------------------------
(* Properties.                                                             *)

\* The fields hold what os_q.c and os_core.c put there; the indices never
\* leave the storage given to OSQCreate.
TypeOK ==
    /\ OSEventType \in {"q", "unused"}
    /\ ring \in [0 .. OSQSize - 1 -> Pointer]
    /\ OSQIn \in 0 .. OSQSize - 1 /\ OSQOut \in 0 .. OSQSize - 1
    /\ OSQEntries \in 0 .. OSQSize
    /\ OSEventTbl \subseteq Task /\ OSRdyTbl \subseteq Task
    /\ pending \subseteq Task
    /\ tcb \in [Task -> TCB]
    /\ ret \in [task : Caller, msg : Pointer, err : Error, n : 0 .. OSQSize]

\* No task is in the wait list while a message is in the queue: neither a
\* post, nor a timeout that meets one, leaves the two side by side.
NoMessageBesideWaiter == OSEventTbl # {} => OSQEntries = 0

\* A task that sleeps inside OSQPend can still be woken: it is in the wait
\* list of a queue that exists, and waits for ever only if it asked to.  A
\* task in the wait list is inside OSQPend, and one that runs again although
\* it is still listed got there by its timeout.
NobodyStranded ==
    /\ \A t \in pending \ OSRdyTbl :
          OSEventType = "q" /\ t \in OSEventTbl /\ tcb[t].OSTCBStat = "q"
    /\ \A t \in OSEventTbl :
          /\ t \in pending
          /\ t \in OSRdyTbl => tcb[t].OSTCBStatPend = "to"

\* How the wait of task t has ended, while it has not read it yet.
OutcomeOf(t) ==
    IF t \in pending /\ t \notin OSEventTbl
      THEN IF tcb[t].OSTCBStatPend = "ok"
             THEN [msg |-> tcb[t].OSTCBMsg, err |-> "none"]
             ELSE [msg |-> NULL, err |-> "pend_abort"]
      ELSE [msg |-> NULL, err |-> "idle"]

\* Where the k-th oldest message is.
Slot(k) == IF OSQOut + k - 1 < OSQSize THEN OSQOut + k - 1
                                       ELSE OSQOut + k - 1 - OSQSize

\* The messages in the queue, the oldest first.
Items == IF OSEventType = "q" THEN [k \in 1 .. OSQEntries |-> ring[Slot(k)]]
                              ELSE << >>

Outcomes == [t \in Task |-> OutcomeOf(t)]

MQ == INSTANCE MessageQueue WITH
    open <- OSEventType = "q", items <- Items,
    waiting <- OSEventTbl, outcome <- Outcomes

\* os_q.c is the bounded queue of module MessageQueue: whatever the tick, the
\* posts, aborts and deletions do between the two halves of OSQPend, no
\* message is lost, doubled or overtaken, a task the clock has already woken
\* still gets a message posted before it runs, and each call returns what the
\* abstract queue would.
Implements == MQ!Spec

\* A wait with a timeout ends: the task is ready again, by a message or by
\* the clock.
TimedWaitEnds == \A t \in Task : tcb[t].OSTCBDly > 0 ~> t \in OSRdyTbl

=============================================================================
