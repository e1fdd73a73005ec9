---------------------------- MODULE MessageQueue ----------------------------
(***************************************************************************)
(* What os_q.c promises its callers: a bounded queue of messages, first in *)
(* first out unless a caller asks for the front, with tasks that wait for  *)
(* a message, the most urgent first.  A message is in the queue, or on its *)
(* way to one task, or it is gone.                                         *)
(***************************************************************************)
EXTENDS Integers, Sequences

CONSTANTS
    Task,      \* tasks that receive, named by priority: the smallest first
    Other,     \* the rest of the program, which never waits for a message
    Message,   \* the messages, without the null pointer
    NULL,      \* the null pointer
    OSQSize    \* entries of the queue

VARIABLES
    open,      \* the queue exists
    items,     \* its messages, the oldest first
    waiting,   \* the tasks that wait
    outcome,   \* outcome[t]: what a task that need wait no longer is to get
    ret        \* what the call that returned last gave its caller

vars == <<open, items, waiting, outcome, ret>>

Caller == Task \union {Other}
Pointer == Message \union {NULL}
None == [msg |-> NULL, err |-> "idle"]   \* not about to get anything

\* A caller that is not inside a wait.
Free(c) == c \in Task => c \notin waiting /\ outcome[c] = None

Returns(c, m, e, n) == ret' = [task |-> c, msg |-> m, err |-> e, n |-> n]

MostUrgent == {t \in waiting : \A u \in waiting : t <= u}

\* The tasks of ws stop waiting and are to get message m with error e.
Release(ws, m, e) ==
    /\ waiting' = waiting \ ws
    /\ outcome' = [t \in Task |->
                     IF t \in ws THEN [msg |-> m, err |-> e] ELSE outcome[t]]

Init ==
    /\ open = FALSE /\ items = <<>>
    /\ waiting = {} /\ outcome = [t \in Task |-> None]
    /\ ret = [task |-> Other, msg |-> NULL, err |-> "none", n |-> 0]

Create(c) ==
    /\ ~open /\ Free(c)
    /\ open' = TRUE /\ items' = <<>>
    /\ Returns(c, NULL, "none", 0)
    /\ UNCHANGED <<waiting, outcome>>

\* Deletion looks to a waiting task like the null message.
Delete(c) ==
    /\ open /\ Free(c)
    /\ open' = FALSE /\ items' = <<>>
    /\ Release(waiting, NULL, "none")
    /\ Returns(c, NULL, "none", 0)

\* To one waiting task, to all of them, or into the queue.
Post(c, m) ==
    /\ open /\ Free(c)
    /\ \/ /\ waiting # {}
          /\ Release(MostUrgent, m, "none") \/ Release(waiting, m, "none")
          /\ UNCHANGED items
       \/ /\ waiting = {} /\ Len(items) < OSQSize
          /\ items' = Append(items, m) \/ items' = <<m>> \o items
          /\ UNCHANGED <<waiting, outcome>>
    /\ Returns(c, NULL, "none", 0)
    /\ UNCHANGED open

\* A call that changes nothing but answers: the queue is full or empty, has
\* waiting tasks, does not exist, or is asked what it holds.
Answer(c) ==
    /\ Free(c)
    /\ \/ ~open /\ Returns(c, NULL, "event_type", 0)
       \/ open /\ waiting = {} /\ Len(items) = OSQSize
          /\ Returns(c, NULL, "q_full", 0)
       \/ open /\ items = <<>> /\ Returns(c, NULL, "q_empty", 0)
       \/ open /\ waiting = {} /\ Returns(c, NULL, "none", 0)
       \/ open /\ waiting # {} /\ Returns(c, NULL, "task_waiting", 0)
       \/ open /\ Returns(c, IF items = <<>> THEN NULL ELSE Head(items),
                          "none", Len(items))
    /\ UNCHANGED <<open, items, waiting, outcome>>

Take(c) ==
    /\ open /\ Free(c) /\ items # <<>>
    /\ items' = Tail(items)
    /\ Returns(c, Head(items), "none", 0)
    /\ UNCHANGED <<open, waiting, outcome>>

Flush(c) ==
    /\ open /\ Free(c)
    /\ items' = <<>>
    /\ Returns(c, NULL, "none", 0)
    /\ UNCHANGED <<open, waiting, outcome>>

Wait(t) ==
    /\ open /\ Free(t) /\ items = <<>>
    /\ waiting' = waiting \union {t}
    /\ UNCHANGED <<open, items, outcome, ret>>

Abort(c) ==
    /\ open /\ Free(c) /\ waiting # {}
    /\ \/ Release(MostUrgent, NULL, "pend_abort")
       \/ Release(waiting, NULL, "pend_abort")
    /\ Returns(c, NULL, "pend_abort", 0)
    /\ UNCHANGED <<open, items>>

\* A wait ends with its outcome, or gives up without one.
Wake(t) ==
    \/ /\ outcome[t] # None
       /\ Returns(t, outcome[t].msg, outcome[t].err, 0)
       /\ outcome' = [outcome EXCEPT ![t] = None]
       /\ UNCHANGED <<open, items, waiting>>
    \/ /\ t \in waiting
       /\ waiting' = waiting \ {t}
       /\ Returns(t, NULL, "timeout", 0)
       /\ UNCHANGED <<open, items, outcome>>

Next ==
    \/ \E c \in Caller :
          \/ Create(c) \/ Delete(c) \/ Answer(c) \/ Take(c) \/ Flush(c)
          \/ Abort(c)
          \/ \E m \in Pointer : Post(c, m)
    \/ \E t \in Task : Wait(t) \/ Wake(t)

Spec == Init /\ [][Next]_vars

=============================================================================
