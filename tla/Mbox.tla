-------------------------------- MODULE Mbox --------------------------------
(***************************************************************************)
(* lwIP on uC/OS-II: the mailboxes of sys_arch.c, tcpip_thread with the    *)
(* timers it serves while it waits for a message, and the way of received  *)
(* data from the Ethernet interrupt through the thread's mailbox and the   *)
(* netconn's recvmbox to the task in netconn_recv.                         *)
(*                                                                         *)
(* tcpip_thread (priority 5) runs before the next tick and before any task *)
(* of the application; the interrupt comes when it likes.  TCP itself is   *)
(* not lwIP's code here: segments are numbered, the peer sends one again   *)
(* until it is acknowledged, and only the next in order is accepted.  The  *)
(* FIN comes in a segment of its own or with the last of the data.         *)
(***************************************************************************)
EXTENDS Integers, Sequences, FiniteSets, SequencesExt, FiniteSetsExt

CONSTANTS
    CLOCK,          \* 2^32, the range of OSTimeGet
    MsPerTick,      \* 1000 / OS_TICKS_PER_SEC
    Timer, Period,  \* the cyclic timers of timers.c and their intervals in ms
    MBOXSIZE,       \* MAX_QUEUE_ENTRIES
    POOL,           \* PBUF_POOL_SIZE
    INPKT,          \* MEMP_NUM_TCPIP_MSG_INPKT
    Segments,       \* bound: the segments with data that the peer sends
    FramesPerTick   \* what the wire can bring in a tick

ASSUME MboxAssumption ==
    /\ {CLOCK, MsPerTick, MBOXSIZE, POOL, INPKT, Segments, FramesPerTick} \subseteq Nat \ {0}
    /\ IsFiniteSet(Timer) /\ Timer # {} /\ Period \in [Timer -> Nat \ {0}]
    /\ \A t \in Timer : (CLOCK - 1) * MsPerTick >= Period[t]

\* There are no more pbufs than a mailbox has entries (both are 20).
ASSUME PoolAssumption == POOL <= MBOXSIZE

Data == 1 .. Segments
FIN == Segments + 1
RECVED == 0   \* the message of a task in netconn_recv

VARIABLES
    clock,          \* OSTimeGet()
    next_timeout,   \* the list of timers, each with its time after the one before
    tpc, t0, left,  \* tcpip_thread: before or in OSQPend; since when; ticks left
    mbox,           \* its mailbox: numbers of segments, and RECVED
    recvmbox,       \* the netconn's
    together,       \* does the last segment with data carry the FIN?
    rcv_nxt,        \* what TCP accepts next: a segment, or the FIN
    free,           \* pbufs in the pool
    frames,         \* frames since the last tick
    apc, buf,       \* the receiving task, and what netconn_recv has given it
    read,           \* history: what it has read
    age,            \* history: ticks since a timer was set
    slack, rushed   \* history: by how many ms reports and roundings may bring
                    \* it forward; a message was fetched in the tick of the call

timerVars == <<clock, next_timeout, tpc, t0, left, age, slack, rushed>>
dataVars == <<recvmbox, together, rcv_nxt, free, buf, read>>
vars == <<timerVars, mbox, frames, dataVars, apc>>

-----------------------------------------------------------------------------
(* sys_arch.c                                                              *)

\* sys_mbox_valid: what it calls valid is what has room.
Valid_OneLess(box) == Len(box) + 1 < MBOXSIZE   \* A slip: one entry less.
Valid(box) == Len(box) < MBOXSIZE

\* Ticks to wait for ms: rounded down, one at the least.
Ticks(ms) == IF ms < MsPerTick THEN 1 ELSE ms \div MsPerTick

\* What sys_arch_mbox_fetch says it waited: when no tick has passed since t0
\* the difference is taken for that of a clock that has gone round.  (In 32
\* bits the product of such a difference and 1000 wraps: 21 474 832 ms are
\* reported, which like the value here is longer than any timer's.)
Elapsed == IF clock > t0 THEN clock - t0 ELSE CLOCK - 1 - t0 + clock
Reported == Elapsed * MsPerTick + 1

-----------------------------------------------------------------------------
(* timers.c                                                                *)

\* The time of the k-th timer, those before it counted.
Due(list, k) ==
    LET due[n \in 0 .. Len(list)] == IF n = 0 THEN 0 ELSE due[n - 1] + list[n].time
    IN due[k]

\* sys_timeout: behind all that are due no later; the next counts from it.
Insert(list, t, ms) ==
    LET n == Max({k \in 0 .. Len(list) : Due(list, k) <= ms})
        time == ms - Due(list, n)
    IN [k \in 1 .. Len(list) + 1 |->
          IF k <= n THEN list[k]
          ELSE IF k = n + 1 THEN [timer |-> t, time |-> time]
          ELSE [list[k - 1] EXCEPT !.time = IF k = n + 2 THEN @ - time ELSE @]]

\* They are set one after the other.
Timers(order) ==
    LET list[n \in 0 .. Len(order)] ==
          IF n = 0 THEN <<>> ELSE Insert(list[n - 1], order[n], Period[order[n]])
    IN list[Len(order)]

Init ==
    /\ clock = 0 /\ tpc = "fetch" /\ t0 = 0 /\ left = 0
    /\ \E order \in SetToSeqs(Timer) : next_timeout = Timers(order)
    /\ mbox = <<>> /\ recvmbox = <<>> /\ rcv_nxt = 1 /\ free = POOL /\ frames = 0
    /\ together \in BOOLEAN
    /\ apc = "delay" /\ buf = 0 /\ read = <<>>
    /\ age = [t \in Timer |-> 0] /\ slack = [t \in Timer |-> 0]
    /\ rushed = [t \in Timer |-> FALSE]

First == next_timeout[1]

\* The histories count no further than a timer's whole time.
Upto(t, n) == Min({n, Period[t]})

\* The first timer is taken off the list; its handler sets it again.
Fire(short) ==
    /\ next_timeout' = Insert(Tail(next_timeout), First.timer, Period[First.timer])
    /\ age' = [age EXCEPT ![First.timer] = 0]
    /\ slack' = [t \in Timer |-> IF t = First.timer THEN 0 ELSE Upto(t, slack[t] + short)]
    /\ rushed' = [rushed EXCEPT ![First.timer] = FALSE]
    /\ tpc' = "fetch"
    /\ UNCHANGED <<clock, t0, left, mbox, frames, dataVars, apc>>

FireDue == tpc = "fetch" /\ First.time = 0 /\ Fire(0)

\* The wait has ended without a message, too soon by what was rounded off.
Short == Max({0, First.time - Ticks(First.time) * MsPerTick})
TimedOut == tpc = "wait" /\ left = 0 /\ Fire(Short)

Sleep ==
    /\ tpc = "fetch" /\ First.time > 0 /\ mbox = <<>>
    /\ tpc' = "wait" /\ t0' = clock /\ left' = Ticks(First.time)
    /\ UNCHANGED <<clock, next_timeout, age, slack, rushed, mbox, frames, dataVars, apc>>

\* A slip: it is taken from every timer, as if each had its own.
TakeTime_All(ms) ==
    next_timeout' = [k \in 1 .. Len(next_timeout) |->
                        [next_timeout[k] EXCEPT !.time = Max({0, @ - ms})]]
TakeTime(ms) ==
    next_timeout' = [next_timeout EXCEPT ![1].time = Max({0, @ - ms})]

-----------------------------------------------------------------------------
(* tcpip_thread handles a message.                                         *)

\* recv_tcp: into the recvmbox; a mailbox that is not valid counts as deleted.
RecvTcp(box, n) == IF Valid(box) THEN Append(box, n) ELSE box

\* The pbuf of data that recv_tcp does not keep is freed; a FIN has none.
Free(n) == IF n \in Data /\ Valid(recvmbox) THEN free ELSE free + 1

\* tcp_input calls recv_tcp for the data of a segment, and again if it has the FIN;
\* both are acknowledged, whatever becomes of them.
Input(n) ==
    LET both == together /\ n = Segments IN
    /\ rcv_nxt' = (IF both THEN FIN ELSE n) + 1
    /\ recvmbox' = IF both THEN RecvTcp(RecvTcp(recvmbox, n), FIN) ELSE RecvTcp(recvmbox, n)
    /\ free' = Free(n)
    /\ UNCHANGED together

Handle(m) ==
    \/ m = RECVED /\ apc = "do_recv" /\ apc' = "return"
       /\ UNCHANGED <<recvmbox, together, rcv_nxt, free>>
    \/ m = rcv_nxt /\ Input(m) /\ UNCHANGED apc
    \/ m \notin {RECVED, rcv_nxt} /\ free' = free + 1
       /\ UNCHANGED <<recvmbox, together, rcv_nxt, apc>>

\* The mailbox had a message when it was asked, or one comes during the wait.
Fetch ==
    /\ mbox # <<>>
    /\ \/ tpc = "fetch" /\ First.time > 0 /\ t0' = clock
          /\ TakeTime((CLOCK - 1) * MsPerTick + 1)
          /\ rushed' = [t \in Timer |-> TRUE] /\ UNCHANGED slack
       \/ tpc = "wait" /\ left > 0 /\ UNCHANGED t0
          /\ TakeTime(Reported)
          /\ IF clock = t0
               THEN rushed' = [t \in Timer |-> TRUE] /\ UNCHANGED slack
               ELSE slack' = [t \in Timer |-> Upto(t, slack[t] + 1)] /\ UNCHANGED rushed
    /\ mbox' = Tail(mbox) /\ Handle(Head(mbox))
    /\ tpc' = "fetch"
    /\ UNCHANGED <<clock, left, age, frames, buf, read>>

ThreadWaits == tpc = "wait" /\ left > 0 /\ mbox = <<>>

Tick ==
    /\ ThreadWaits
    /\ clock' = (clock + 1) % CLOCK /\ left' = left - 1
    /\ age' = [t \in Timer |-> Upto(t, age[t] + 1)] /\ frames' = 0
    /\ UNCHANGED <<next_timeout, tpc, t0, slack, rushed, mbox, dataVars, apc>>

-----------------------------------------------------------------------------
(* The Ethernet interrupt, and the receiving task.                         *)

Packets == Len(SelectSeq(mbox, LAMBDA m : m # RECVED))

\* The last segment: that with the last data, or the FIN alone.
LastSent == IF together THEN Segments ELSE FIN

(* A frame comes.  It is lost when the pool is empty, when there is no     *)
(* message for it or when the thread's mailbox is not valid: no step.  It  *)
(* is the next segment, one sent again, or one after a segment lost.       *)
Arrive(n) ==
    /\ n \in {Min({rcv_nxt - 1, LastSent}), rcv_nxt, rcv_nxt + 1} \intersect 1 .. LastSent
    /\ frames < FramesPerTick /\ frames' = frames + 1
    /\ free > 0 /\ Packets < INPKT /\ Valid(mbox)
    /\ free' = free - 1 /\ mbox' = Append(mbox, n)
    /\ UNCHANGED <<timerVars, recvmbox, together, rcv_nxt, buf, read, apc>>

\* The two seconds that pass until the task sees that there is a connection.
Delay ==
    /\ ThreadWaits /\ apc = "delay"
    /\ apc' = "call"
    /\ UNCHANGED <<timerVars, mbox, frames, dataVars>>

\* netconn_recv_data: only a valid mailbox is read, else the loop calls again.
Call ==
    /\ ThreadWaits /\ apc = "call" /\ Valid(recvmbox)
    /\ apc' = "fetch"
    /\ UNCHANGED <<timerVars, mbox, frames, dataVars>>

\* It takes what is there, or what the thread posts while it waits.
Recv ==
    /\ ThreadWaits /\ apc = "fetch" /\ recvmbox # <<>>
    /\ buf' = Head(recvmbox) /\ recvmbox' = Tail(recvmbox)
    /\ IF Valid(mbox)
         THEN apc' = "do_recv" /\ mbox' = Append(mbox, RECVED)
         ELSE apc' = "return" /\ UNCHANGED mbox
    /\ UNCHANGED <<timerVars, frames, together, rcv_nxt, free, read>>

\* A slip: the netbuf is not deleted.
Freed_Never(n) == 0
Freed(n) == IF n \in Data THEN 1 ELSE 0

\* netconn_recv returns: data is copied and freed, a FIN ends the loop.
Return ==
    /\ ThreadWaits /\ apc = "return"
    /\ read' = Append(read, buf) /\ buf' = 0
    /\ free' = free + Freed(buf)
    /\ apc' = IF buf = FIN THEN "closed" ELSE "call"
    /\ UNCHANGED <<timerVars, mbox, frames, recvmbox, together, rcv_nxt>>

Thread == FireDue \/ TimedOut \/ Sleep \/ Fetch
Task == Delay \/ Call \/ Recv \/ Return
Next == Thread \/ Tick \/ Task \/ \E n \in 1 .. FIN : Arrive(n)

Spec == Init /\ [][Next]_vars
FairSpec ==
    /\ Spec /\ WF_vars(Thread) /\ WF_vars(Tick) /\ SF_vars(Task)
    /\ SF_vars(Arrive(rcv_nxt))

-----------------------------------------------------------------------------
(* Properties.                                                             *)

\* What the task has read, what it is about to, and what is in the recvmbox.
Stream == read \o (IF buf = 0 THEN <<>> ELSE <<buf>>) \o recvmbox

\* The FIN has been acknowledged and thrown away.
FinLost == together /\ rcv_nxt = FIN + 1 /\ Stream = [n \in Data |-> n]

(* What TCP has acknowledged has been read, is about to be, or is in the   *)
(* recvmbox, in this order: recv_tcp never throws a segment away, because  *)
(* the mailbox cannot be full while there is a pbuf to receive another     *)
(* with.  One thing it may throw away, and only if there are as many pbufs *)
(* as entries: a FIN that came with the data which took the last entry.    *)
NothingLost ==
    \/ Stream = [n \in 1 .. rcv_nxt - 1 |-> n]
    \/ POOL = MBOXSIZE /\ FinLost

Deaf == apc = "call" /\ ~Valid(recvmbox)

(* The peer's FIN is reached, whatever was lost on the way and sent again, *)
(* unless it is the one that may be thrown away, or the recvmbox is full   *)
(* at a moment when the task asks for a message, its first or a later one: *)
(* then nothing is read any more.                                          *)
AllRead == <>(apc = "closed" \/ FinLost \/ []Deaf)

(* A timer fires before its time only by the ms that the reports of what   *)
(* was waited and the rounding to ticks add up to, or after a message was  *)
(* fetched in the tick in which it was asked for.                          *)
Fires(t) == (FireDue \/ TimedOut) /\ First.timer = t
InTime(t) ==
    age[t] * MsPerTick + slack[t] + (IF tpc = "wait" THEN Short ELSE 0) >= Period[t]
NeverEarly == \A t \in Timer : Fires(t) => rushed[t] \/ InTime(t)

(* So it is, and every timer goes on firing, however many messages come.   *)
OnTime ==
    /\ [][NeverEarly]_vars
    /\ \A t \in Timer : []<><<Fires(t)>>_vars

=============================================================================
