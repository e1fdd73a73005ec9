--------------------------- MODULE OSQueueProofs ---------------------------
(* Theorems about OSQueue: the ring and the wait list keep their shape     *)
(* whatever tasks, messages, timeouts and size of the queue, and os_q.c    *)
(* implements the bounded queue of MessageQueue.                           *)
EXTENDS OSQueue, SequenceTheorems, TLAPS

\* The third case of OSQPend.
Waits(t, n) ==
    /\ OSQEntries = 0
    /\ tcb' = [tcb EXCEPT ![t] = Fields("q", "ok", n, @.OSTCBMsg)]
    /\ OSEventTbl' = OSEventTbl \union {t}
    /\ OSRdyTbl' = OSRdyTbl \ {t}
    /\ pending' = pending \union {t}
    /\ UNCHANGED <<OSEventType, ringVars, ret>>

(***************************************************************************)
(* Types.                                                                  *)
(***************************************************************************)

LEMMA WrapType ==
    ASSUME NEW i \in 0 .. OSQSize - 1 PROVE Wrap(i + 1) \in 0 .. OSQSize - 1
BY SizeAssumption DEF Wrap

LEMMA ReturnsType ==
    ASSUME NEW c \in Caller, NEW m \in Pointer, NEW e \in Error,
           NEW n \in 0 .. OSQSize, Returns(c, m, e, n)
    PROVE  ret' \in [task : Caller, msg : Pointer, err : Error, n : 0 .. OSQSize]
BY DEF Returns

RingType ==
    /\ ring \in [0 .. OSQSize - 1 -> Pointer]
    /\ OSQIn \in 0 .. OSQSize - 1 /\ OSQOut \in 0 .. OSQSize - 1
    /\ OSQEntries \in 0 .. OSQSize
TaskType ==
    /\ OSEventTbl \subseteq Task /\ OSRdyTbl \subseteq Task
    /\ tcb \in [Task -> TCB]
RetType == ret \in [task : Caller, msg : Pointer, err : Error, n : 0 .. OSQSize]

LEMMA TakeType ==
    ASSUME RingType, NEW c \in Caller, TakeOldest(c)
    PROVE  RingType' /\ RetType'
<1>1. OSQOut' \in 0 .. OSQSize - 1
  BY WrapType DEF RingType, TakeOldest
<1>2. OSQEntries' \in 0 .. OSQSize
  BY SizeAssumption DEF RingType, TakeOldest
<1>3. ring[OSQOut] \in Pointer /\ 0 \in 0 .. OSQSize /\ "none" \in Error
  BY SizeAssumption DEF RingType, Error
<1>4. RetType'
  BY <1>3, ReturnsType DEF TakeOldest, RetType
<1> QED
  BY <1>1, <1>2, <1>4 DEF RingType, TakeOldest

LEMMA InsertType ==
    ASSUME RingType, NEW m \in Pointer, OSQEntries < OSQSize,
           InsertFront(m) \/ InsertBack(m)
    PROVE  RingType'
<1>1. CASE InsertBack(m)
  <2>1. OSQIn' \in 0 .. OSQSize - 1
    BY <1>1, WrapType DEF RingType, InsertBack
  <2>2. OSQEntries' \in 0 .. OSQSize
    BY <1>1, SizeAssumption DEF RingType, InsertBack
  <2> QED
    BY <1>1, <2>1, <2>2 DEF RingType, InsertBack
<1>2. CASE InsertFront(m)
  <2>1. OSQOut' \in 0 .. OSQSize - 1
    BY <1>2, SizeAssumption DEF RingType, InsertFront
  <2>2. OSQEntries' \in 0 .. OSQSize
    BY <1>2, SizeAssumption DEF RingType, InsertFront
  <2>3. ring' \in [0 .. OSQSize - 1 -> Pointer]
    BY <1>2 DEF RingType, InsertFront
  <2> QED
    BY <1>2, <2>1, <2>2, <2>3 DEF RingType, InsertFront
<1> QED
  BY <1>1, <1>2

LEMMA FieldsType ==
    ASSUME NEW stat \in {"rdy", "q"}, NEW statPend \in {"ok", "to", "abort"},
           NEW n \in 0 .. MaxDly, NEW m \in Pointer
    PROVE  Fields(stat, statPend, n, m) \in TCB
BY DEF Fields, TCB

LEMMA TcbFields ==
    ASSUME NEW r \in TCB
    PROVE  /\ r.OSTCBStat \in {"rdy", "q"}
           /\ r.OSTCBStatPend \in {"ok", "to", "abort"}
           /\ r.OSTCBDly \in 0 .. MaxDly /\ r.OSTCBMsg \in Pointer
BY DEF TCB

LEMMA RdyType ==
    ASSUME TaskType, NEW ws \in SUBSET Task, NEW m \in Pointer,
           NEW stat \in {"ok", "abort"}, OS_EventTaskRdy(ws, m, stat)
    PROVE  TaskType'
<1>1. Fields("rdy", stat, 0, m) \in TCB
  BY FieldsType, SizeAssumption
<1>2. tcb' \in [Task -> TCB]
  BY <1>1 DEF TaskType, OS_EventTaskRdy
<1> QED
  BY <1>2 DEF TaskType, OS_EventTaskRdy

LEMMA TypeOKParts ==
    TypeOK <=> /\ OSEventType \in {"q", "unused"} /\ pending \subseteq Task
               /\ RingType /\ TaskType /\ RetType
BY DEF TypeOK, RingType, TaskType, RetType

LEMMA WrongTypeType ==
    ASSUME TypeOK, NEW c \in Caller, WrongType(c) PROVE TypeOK'
<1>1. RetType'
  BY ReturnsType, SizeAssumption DEF WrongType, RetType, Error, Pointer
<1> QED
  BY <1>1 DEF TypeOK, RetType, WrongType, ringVars, taskVars

LEMMA PostType ==
    ASSUME TypeOK, NEW c \in Caller, NEW m \in Pointer,
           NEW b \in BOOLEAN, NEW f \in BOOLEAN, PostAs(c, m, b, f)
    PROVE  TypeOK'
<1> USE DEF Pointer, Error
<1>1. CASE WrongType(c)
  BY <1>1, WrongTypeType
<1>2. CASE /\ OS_EventTaskRdy(IF b THEN OSEventTbl ELSE HPT, m, "ok")
           /\ Returns(c, NULL, "none", 0)
           /\ UNCHANGED <<OSEventType, ringVars, pending>>
  <2>1. (IF b THEN OSEventTbl ELSE HPT) \in SUBSET Task
    BY DEF TypeOK, HPT
  <2>2. TaskType'
    BY <1>2, <2>1, RdyType, TypeOKParts
  <2>3. RetType'
    BY <1>2, ReturnsType, SizeAssumption DEF RetType
  <2> QED
    BY <1>2, <2>2, <2>3 DEF TypeOK, TaskType, RetType, ringVars
<1>3. CASE /\ Returns(c, NULL, "q_full", 0)
           /\ UNCHANGED <<OSEventType, ringVars, taskVars, pending>>
  <2>1. RetType'
    BY <1>3, ReturnsType, SizeAssumption DEF RetType
  <2> QED
    BY <1>3, <2>1 DEF TypeOK, RetType, ringVars, taskVars
<1>4. CASE /\ OSQEntries < OSQSize
           /\ IF f THEN InsertFront(m) ELSE InsertBack(m)
           /\ Returns(c, NULL, "none", 0)
           /\ UNCHANGED <<OSEventType, taskVars, pending>>
  <2>1. RingType'
    BY <1>4, InsertType, TypeOKParts
  <2>2. RetType'
    BY <1>4, ReturnsType, SizeAssumption DEF RetType
  <2> QED
    BY <1>4, <2>1, <2>2 DEF TypeOK, RingType, RetType, taskVars
<1> QED
  BY <1>1, <1>2, <1>3, <1>4 DEF PostAs

LEMMA InitType == Init => TypeOK
BY SizeAssumption, FieldsType DEF Init, TypeOK, Caller, Pointer, Error

LEMMA StepType == TypeOK /\ [Next]_vars => TypeOK'
<1> SUFFICES ASSUME TypeOK, [Next]_vars PROVE TypeOK'
  OBVIOUS
<1> USE DEF Pointer, Error
<1>0. 0 \in 0 .. OSQSize /\ OSQEntries \in 0 .. OSQSize /\ 0 \in 0 .. OSQSize - 1
  BY SizeAssumption DEF TypeOK
<1>1. ASSUME NEW c \in Caller, OSQCreate(c) PROVE TypeOK'
  BY <1>0, <1>1, ReturnsType DEF OSQCreate, TypeOK
<1>2. ASSUME NEW c \in Caller, NEW always \in BOOLEAN, OSQDel(c, always)
      PROVE  TypeOK'
  <2>1. CASE WrongType(c)
    BY <2>1, WrongTypeType
  <2>2. CASE /\ Returns(c, NULL, "task_waiting", 0)
             /\ UNCHANGED <<OSEventType, ringVars, taskVars, pending>>
    BY <1>0, <2>2, ReturnsType DEF TypeOK, ringVars, taskVars
  <2>3. CASE /\ OS_EventTaskRdy(OSEventTbl, NULL, "ok")
             /\ OSEventType' = "unused"
             /\ Returns(c, NULL, "none", 0)
             /\ UNCHANGED <<ringVars, pending>>
    <3>1. OSEventTbl \in SUBSET Task
      BY DEF TypeOK
    <3>2. TaskType'
      BY <2>3, <3>1, RdyType, TypeOKParts
    <3>3. RetType'
      BY <1>0, <2>3, ReturnsType DEF RetType
    <3> QED
      BY <2>3, <3>2, <3>3 DEF TypeOK, TaskType, RetType, ringVars
  <2> QED
    BY <1>2, <2>1, <2>2, <2>3 DEF OSQDel
<1>3. ASSUME NEW c \in Caller, OSQFlush(c) PROVE TypeOK'
  BY <1>0, <1>3, ReturnsType DEF OSQFlush, TypeOK, taskVars
<1>4. ASSUME NEW c \in Caller, OSQAccept(c) PROVE TypeOK'
  <2>1. CASE WrongType(c)
    BY <2>1, WrongTypeType
  <2>2. CASE TakeOldest(c) /\ UNCHANGED <<OSEventType, taskVars, pending>>
    <3>1. RingType' /\ RetType'
      BY <2>2, TakeType, TypeOKParts
    <3> QED
      BY <2>2, <3>1 DEF TypeOK, RingType, RetType, taskVars
  <2>3. CASE /\ Returns(c, NULL, "q_empty", 0)
             /\ UNCHANGED <<ringVars, OSEventType, taskVars, pending>>
    BY <1>0, <2>3, ReturnsType DEF TypeOK, ringVars, taskVars
  <2> QED
    BY <1>4, <2>1, <2>2, <2>3 DEF OSQAccept
<1>5. ASSUME NEW c \in Caller, OSQQuery(c) PROVE TypeOK'
  <2>1. CASE WrongType(c)
    BY <2>1, WrongTypeType
  <2>2. CASE ~WrongType(c)
    <3>1. (IF OSQEntries > 0 THEN ring[OSQOut] ELSE NULL) \in Pointer
      BY DEF TypeOK
    <3> QED
      BY <1>0, <1>5, <2>2, <3>1, ReturnsType
         DEF OSQQuery, TypeOK, ringVars, taskVars
  <2> QED
    BY <2>1, <2>2
<1>6. ASSUME NEW c \in Caller, NEW b \in BOOLEAN, OSQPendAbort(c, b)
      PROVE  TypeOK'
  <2>1. CASE WrongType(c)
    BY <2>1, WrongTypeType
  <2>2. CASE /\ OS_EventTaskRdy(IF b THEN OSEventTbl ELSE HPT, NULL, "abort")
             /\ Returns(c, NULL, "pend_abort", 0)
             /\ UNCHANGED <<OSEventType, ringVars, pending>>
    <3>1. (IF b THEN OSEventTbl ELSE HPT) \in SUBSET Task
      BY DEF TypeOK, HPT
    <3>2. TaskType'
      BY <2>2, <3>1, RdyType, TypeOKParts
    <3>3. RetType'
      BY <1>0, <2>2, ReturnsType DEF RetType
    <3> QED
      BY <2>2, <3>2, <3>3 DEF TypeOK, TaskType, RetType, ringVars
  <2>3. CASE /\ Returns(c, NULL, "none", 0)
             /\ UNCHANGED <<OSEventType, ringVars, taskVars, pending>>
    BY <1>0, <2>3, ReturnsType DEF TypeOK, ringVars, taskVars
  <2> QED
    BY <1>6, <2>1, <2>2, <2>3 DEF OSQPendAbort
<1>7. ASSUME NEW c \in Caller, NEW m \in Pointer, NEW b \in BOOLEAN,
             NEW f \in BOOLEAN, PostAs(c, m, b, f)
      PROVE  TypeOK'
  BY <1>7, PostType
<1>8. ASSUME NEW t \in Task, NEW n \in 0 .. MaxDly, OSQPend(t, n) PROVE TypeOK'
  <2>0. t \in Caller
    BY DEF Caller
  <2>1. CASE WrongType(t)
    BY <2>0, <2>1, WrongTypeType
  <2>2. CASE TakeOldest(t) /\ UNCHANGED <<OSEventType, taskVars, pending>>
    <3>1. RingType' /\ RetType'
      BY <2>0, <2>2, TakeType, TypeOKParts
    <3> QED
      BY <2>2, <3>1 DEF TypeOK, RingType, RetType, taskVars
  <2>3. CASE Waits(t, n)
    <3>1. tcb[t] \in TCB
      BY DEF TypeOK
    <3>2. Fields("q", "ok", n, tcb[t].OSTCBMsg) \in TCB
      BY <3>1, FieldsType, TcbFields
    <3>3. tcb' \in [Task -> TCB]
      BY <2>3, <3>2 DEF Waits, TypeOK
    <3> QED
      BY <2>3, <3>3 DEF Waits, TypeOK, ringVars
  <2> QED
    BY <1>8, <2>1, <2>2, <2>3 DEF OSQPend, Waits
<1>9. ASSUME NEW t \in Task, OSQPendEnd(t) PROVE TypeOK'
  <2>1. tcb[t] \in TCB /\ t \in Caller
    BY DEF TypeOK, Caller
  <2>2. tcb' \in [Task -> TCB]
    BY <1>9, <2>1, FieldsType, TcbFields DEF OSQPendEnd, TypeOK
  <2>3. PICK m \in Pointer, e \in Error : Returns(t, m, e, 0)
    BY <1>9, <2>1, TcbFields DEF OSQPendEnd
  <2>4. RetType'
    BY <1>0, <2>1, <2>3, ReturnsType DEF RetType
  <2>5. OSEventTbl' \subseteq Task
    BY <1>9 DEF OSQPendEnd, LeaveList, TypeOK
  <2>6. /\ pending' = pending \ {t}
        /\ UNCHANGED <<OSEventType, ringVars, OSRdyTbl>>
    BY <1>9 DEF OSQPendEnd
  <2> QED
    BY <2>2, <2>4, <2>5, <2>6 DEF TypeOK, RetType, ringVars
<1>10. CASE OSTimeTick
  <2>1. ASSUME NEW t \in Task PROVE tcb'[t] \in TCB
    <3>1. tcb[t] \in TCB
      BY DEF TypeOK
    <3>2. 0 \in 0 .. MaxDly
      BY SizeAssumption
    <3>3. CASE Expires(t)
      <4>1. tcb'[t] = Fields("rdy", "to", 0, tcb[t].OSTCBMsg)
        BY <1>10, <3>3 DEF OSTimeTick
      <4> QED
        BY <3>1, <3>2, <4>1, FieldsType, TcbFields
    <3>4. CASE ~Expires(t) /\ tcb[t].OSTCBDly > 1
      <4>1. tcb[t].OSTCBDly \in 0 .. MaxDly
        BY <3>1, TcbFields
      <4>2. tcb[t].OSTCBDly - 1 \in 0 .. MaxDly
        BY <3>4, <4>1, SizeAssumption
      <4>3. tcb'[t] = Fields(tcb[t].OSTCBStat, tcb[t].OSTCBStatPend,
                             tcb[t].OSTCBDly - 1, tcb[t].OSTCBMsg)
        BY <1>10, <3>4 DEF OSTimeTick
      <4> QED
        BY <3>1, <4>2, <4>3, FieldsType, TcbFields
    <3>5. CASE ~Expires(t) /\ ~(tcb[t].OSTCBDly > 1)
      BY <1>10, <3>1, <3>5 DEF OSTimeTick
    <3> QED
      BY <3>3, <3>4, <3>5
  <2>2. tcb' \in [Task -> TCB]
    BY <1>10, <2>1 DEF OSTimeTick
  <2> QED
    BY <1>10, <2>2 DEF OSTimeTick, TypeOK, ringVars
<1>11. CASE UNCHANGED vars
  BY <1>11 DEF vars, ringVars, taskVars, TypeOK
<1> QED
  BY <1>1, <1>2, <1>3, <1>4, <1>5, <1>6, <1>7, <1>8, <1>9, <1>10, <1>11
     DEF Next, Call, OSQPost, OSQPostFront, OSQPostOpt

\* The indices stay inside the storage given to OSQCreate, and every field
\* holds what its declaration says, for any size of the queue, tasks,
\* messages and timeouts (os_q.c, os_core.c).
THEOREM TypeCorrect == Spec => []TypeOK
BY InitType, StepType, PTL DEF Spec

(***************************************************************************)
(* Waiting tasks.                                                          *)
(***************************************************************************)

\* What is true of a task at every moment, inside OSQPend and outside.
Sound(t) ==
    /\ t \in OSEventTbl => t \in pending
    /\ t \in OSEventTbl /\ t \in OSRdyTbl => tcb[t].OSTCBStatPend = "to"
    /\ t \in OSEventTbl /\ t \notin OSRdyTbl => tcb[t].OSTCBStat = "q"
    /\ t \in pending /\ t \notin OSEventTbl =>
          t \in OSRdyTbl /\ tcb[t].OSTCBStatPend # "to"
    /\ t \notin pending => t \in OSRdyTbl
    /\ tcb[t].OSTCBDly # 0 => t \notin OSRdyTbl

Waiters ==
    /\ NoMessageBesideWaiter
    /\ OSEventTbl # {} => OSEventType = "q"
    /\ \A t \in Task : Sound(t)

LEMMA RdyWaiters ==
    ASSUME TypeOK, Waiters, NEW ws \in SUBSET OSEventTbl, NEW m \in Pointer,
           NEW stat \in {"ok", "abort"}, OS_EventTaskRdy(ws, m, stat),
           UNCHANGED pending
    PROVE  \A t \in Task : Sound(t)'
<1> TAKE t \in Task
<1>1. Sound(t)
  BY DEF Waiters
<1>2. CASE t \in ws
  <2>1. tcb'[t] = Fields("rdy", stat, 0, m)
    BY <1>2 DEF OS_EventTaskRdy
  <2>2. tcb'[t].OSTCBStatPend # "to" /\ tcb'[t].OSTCBDly = 0
    BY <2>1 DEF Fields
  <2> QED
    BY <1>1, <1>2, <2>2 DEF Sound, OS_EventTaskRdy
<1>3. CASE t \notin ws
  <2>1. tcb'[t] = tcb[t]
    BY <1>3 DEF OS_EventTaskRdy
  <2> QED
    BY <1>1, <1>3, <2>1 DEF Sound, OS_EventTaskRdy
<1> QED
  BY <1>2, <1>3

\* A step that leaves the tasks alone and fills no entry beside a waiter.
LEMMA QuietWaiters ==
    ASSUME Waiters, UNCHANGED <<taskVars, pending>>,
           OSEventTbl # {} => OSEventType' = "q" /\ OSQEntries' = 0
    PROVE  Waiters'
BY DEF Waiters, Sound, NoMessageBesideWaiter, taskVars

LEMMA PostWaiters ==
    ASSUME TypeOK, Waiters, NEW c \in Caller, NEW m \in Pointer,
           NEW b \in BOOLEAN, NEW f \in BOOLEAN, PostAs(c, m, b, f)
    PROVE  Waiters'
<1>1. CASE /\ OnQueue(c)
           /\ OS_EventTaskRdy(IF b THEN OSEventTbl ELSE HPT, m, "ok")
           /\ UNCHANGED <<OSEventType, ringVars, pending>>
  <2>1. (IF b THEN OSEventTbl ELSE HPT) \in SUBSET OSEventTbl
    BY DEF HPT
  <2>2. \A t \in Task : Sound(t)'
    BY <1>1, <2>1, RdyWaiters
  <2> QED
    BY <1>1, <2>1, <2>2
       DEF Waiters, NoMessageBesideWaiter, OS_EventTaskRdy, OnQueue, ringVars
<1>2. CASE UNCHANGED <<OSEventType, ringVars, taskVars, pending>>
  BY <1>2, QuietWaiters DEF Waiters, NoMessageBesideWaiter, ringVars
<1>3. CASE OSEventTbl = {} /\ UNCHANGED <<OSEventType, taskVars, pending>>
  BY <1>3, QuietWaiters
<1> QED
  BY <1>1, <1>2, <1>3 DEF PostAs, WrongType

LEMMA InitWaiters == Init => Waiters
BY DEF Init, Waiters, Sound, NoMessageBesideWaiter, Fields

LEMMA StepWaiters == TypeOK /\ Waiters /\ [Next]_vars => Waiters'
<1> SUFFICES ASSUME TypeOK, Waiters, [Next]_vars PROVE Waiters'
  OBVIOUS
<1>0. OSEventTbl # {} => OSEventType = "q" /\ OSQEntries = 0
  BY DEF Waiters, NoMessageBesideWaiter
<1>1. ASSUME NEW c \in Caller, OSQCreate(c) PROVE Waiters'
  <2>1. OSEventTbl = {} /\ UNCHANGED <<taskVars, pending>>
    BY <1>0, <1>1 DEF OSQCreate, taskVars
  <2> QED
    BY <2>1, QuietWaiters
<1>2. ASSUME NEW c \in Caller, NEW always \in BOOLEAN, OSQDel(c, always)
      PROVE  Waiters'
  <2>1. CASE UNCHANGED <<OSEventType, ringVars, taskVars, pending>>
    BY <1>0, <2>1, QuietWaiters DEF ringVars
  <2>2. CASE /\ OS_EventTaskRdy(OSEventTbl, NULL, "ok")
             /\ UNCHANGED <<ringVars, pending>>
    <3>1. \A t \in Task : Sound(t)'
      BY <2>2, RdyWaiters DEF Pointer
    <3>2. OSEventTbl' = {}
      BY <2>2 DEF OS_EventTaskRdy
    <3> QED
      BY <3>1, <3>2 DEF Waiters, NoMessageBesideWaiter
  <2> QED
    BY <1>2, <2>1, <2>2 DEF OSQDel, WrongType
<1>3. ASSUME NEW c \in Caller, OSQFlush(c) PROVE Waiters'
  BY <1>0, <1>3, QuietWaiters DEF OSQFlush
<1>4. ASSUME NEW c \in Caller, OSQAccept(c) PROVE Waiters'
  <2>1. CASE TakeOldest(c) /\ UNCHANGED <<OSEventType, taskVars, pending>>
    BY <1>0, <2>1, QuietWaiters DEF TakeOldest
  <2>2. CASE UNCHANGED <<OSEventType, ringVars, taskVars, pending>>
    BY <1>0, <2>2, QuietWaiters DEF ringVars
  <2> QED
    BY <1>4, <2>1, <2>2 DEF OSQAccept, WrongType
<1>5. ASSUME NEW c \in Caller, OSQQuery(c) PROVE Waiters'
  <2>1. UNCHANGED <<OSEventType, ringVars, taskVars, pending>>
    BY <1>5 DEF OSQQuery, WrongType
  <2> QED
    BY <1>0, <2>1, QuietWaiters DEF ringVars
<1>6. ASSUME NEW c \in Caller, NEW b \in BOOLEAN, OSQPendAbort(c, b)
      PROVE  Waiters'
  <2>1. CASE UNCHANGED <<OSEventType, ringVars, taskVars, pending>>
    BY <1>0, <2>1, QuietWaiters DEF ringVars
  <2>2. CASE /\ OnQueue(c)
             /\ OS_EventTaskRdy(IF b THEN OSEventTbl ELSE HPT, NULL, "abort")
             /\ UNCHANGED <<OSEventType, ringVars, pending>>
    <3>1. (IF b THEN OSEventTbl ELSE HPT) \in SUBSET OSEventTbl
      BY DEF HPT
    <3>2. \A t \in Task : Sound(t)'
      BY <2>2, <3>1, RdyWaiters DEF Pointer
    <3> QED
      BY <2>2, <3>1, <3>2
         DEF Waiters, NoMessageBesideWaiter, OS_EventTaskRdy, OnQueue, ringVars
  <2> QED
    BY <1>6, <2>1, <2>2 DEF OSQPendAbort, WrongType
<1>7. ASSUME NEW c \in Caller, NEW m \in Pointer, NEW b \in BOOLEAN,
             NEW f \in BOOLEAN, PostAs(c, m, b, f)
      PROVE  Waiters'
  BY <1>7, PostWaiters
<1>8. ASSUME NEW t \in Task, NEW n \in 0 .. MaxDly, OSQPend(t, n)
      PROVE  Waiters'
  <2>1. CASE TakeOldest(t) /\ UNCHANGED <<OSEventType, taskVars, pending>>
    BY <1>0, <2>1, QuietWaiters DEF TakeOldest
  <2>2. CASE UNCHANGED <<OSEventType, ringVars, taskVars, pending>>
    BY <1>0, <2>2, QuietWaiters DEF ringVars
  <2>3. CASE OnQueue(t) /\ Waits(t, n)
    <3>1. tcb'[t] = Fields("q", "ok", n, tcb[t].OSTCBMsg)
      BY <2>3 DEF Waits, TypeOK
    <3>2. tcb'[t].OSTCBStat = "q"
      BY <3>1 DEF Fields
    <3>3. Sound(t)'
      BY <2>3, <3>2 DEF Waits, Sound
    <3>4. ASSUME NEW u \in Task \ {t} PROVE Sound(u)'
      <4>1. tcb'[u] = tcb[u] /\ Sound(u)
        BY <2>3 DEF Waits, TypeOK, Waiters
      <4> QED
        BY <2>3, <4>1 DEF Waits, Sound
    <3> QED
      BY <2>3, <3>3, <3>4
         DEF Waits, OnQueue, Waiters, NoMessageBesideWaiter, ringVars
  <2> QED
    BY <1>8, <2>1, <2>2, <2>3 DEF OSQPend, Waits, WrongType
<1>9. ASSUME NEW t \in Task, OSQPendEnd(t) PROVE Waiters'
  <2>0. /\ t \in pending /\ t \in OSRdyTbl /\ LeaveList(t)
        /\ tcb' = [tcb EXCEPT ![t] = Fields("rdy", "ok", @.OSTCBDly, NULL)]
        /\ pending' = pending \ {t}
        /\ UNCHANGED <<OSEventType, ringVars, OSRdyTbl>>
    BY <1>9 DEF OSQPendEnd
  <2>1. Sound(t)
    BY DEF Waiters
  <2>2. tcb'[t] = Fields("rdy", "ok", tcb[t].OSTCBDly, NULL)
    BY <2>0 DEF TypeOK
  <2>3. tcb'[t].OSTCBDly = tcb[t].OSTCBDly
    BY <2>2 DEF Fields
  <2>4. OSEventTbl' = OSEventTbl \ {t}
    BY <2>0, <2>1 DEF LeaveList, Sound
  <2>5. Sound(t)'
    BY <2>0, <2>1, <2>3, <2>4 DEF Sound
  <2>6. ASSUME NEW u \in Task \ {t} PROVE Sound(u)'
    <3>1. tcb'[u] = tcb[u] /\ Sound(u)
      BY <2>0 DEF TypeOK, Waiters
    <3> QED
      BY <2>0, <2>4, <3>1 DEF Sound
  <2> QED
    BY <1>0, <2>0, <2>4, <2>5, <2>6 DEF Waiters, NoMessageBesideWaiter, ringVars
<1>10. CASE OSTimeTick
  <2>1. ASSUME NEW t \in Task PROVE Sound(t)'
    <3>0. /\ OSRdyTbl' = OSRdyTbl \union {u \in Task : Expires(u)}
          /\ UNCHANGED <<OSEventTbl, pending>>
      BY <1>10 DEF OSTimeTick
    <3>1. Sound(t) /\ tcb[t].OSTCBDly \in 0 .. MaxDly
      BY TcbFields DEF Waiters, TypeOK
    <3>2. CASE Expires(t)
      <4>1. tcb'[t] = Fields("rdy", "to", 0, tcb[t].OSTCBMsg)
        BY <1>10, <3>2 DEF OSTimeTick
      <4>2. tcb'[t].OSTCBStatPend = "to" /\ tcb'[t].OSTCBDly = 0
        BY <4>1 DEF Fields
      <4>3. t \in OSEventTbl /\ t \in pending
        BY <3>1, <3>2 DEF Sound, Expires
      <4> QED
        BY <3>0, <3>2, <4>2, <4>3 DEF Sound
    <3>3. CASE ~Expires(t) /\ tcb[t].OSTCBDly > 1
      <4>1. tcb'[t] = Fields(tcb[t].OSTCBStat, tcb[t].OSTCBStatPend,
                             tcb[t].OSTCBDly - 1, tcb[t].OSTCBMsg)
        BY <1>10, <3>3 DEF OSTimeTick
      <4>2. /\ tcb'[t].OSTCBStatPend = tcb[t].OSTCBStatPend
            /\ tcb'[t].OSTCBStat = tcb[t].OSTCBStat
        BY <4>1 DEF Fields
      <4>3. t \notin OSRdyTbl
        BY <3>1, <3>3 DEF Sound
      <4> QED
        BY <3>0, <3>1, <3>3, <4>2, <4>3 DEF Sound
    <3>4. CASE ~Expires(t) /\ ~(tcb[t].OSTCBDly > 1)
      <4>1. tcb'[t] = tcb[t]
        BY <1>10, <3>4 DEF OSTimeTick
      <4> QED
        BY <3>0, <3>1, <3>4, <4>1 DEF Sound
    <3> QED
      BY <3>2, <3>3, <3>4
  <2> QED
    BY <1>0, <1>10, <2>1 DEF OSTimeTick, Waiters, NoMessageBesideWaiter, ringVars
<1>11. CASE UNCHANGED vars
  BY <1>11 DEF vars, ringVars, taskVars, Waiters, Sound, NoMessageBesideWaiter
<1> QED
  BY <1>1, <1>2, <1>3, <1>4, <1>5, <1>6, <1>7, <1>8, <1>9, <1>10, <1>11
     DEF Next, Call, OSQPost, OSQPostFront, OSQPostOpt

LEMMA WaitersKept == Spec => [](TypeOK /\ Waiters)
BY InitType, StepType, InitWaiters, StepWaiters, PTL DEF Spec

\* No task waits while a message is in the queue, whatever the number of
\* tasks and entries (OSQPend, OSQPost, OSTimeTick).
THEOREM WaitersOnEmpty == Spec => []NoMessageBesideWaiter
<1>1. Waiters => NoMessageBesideWaiter
  BY DEF Waiters
<1> QED
  BY <1>1, WaitersKept, PTL

\* No task is left asleep with nothing to wake it: neither a timeout, nor an
\* abort, nor the deletion of the queue loses one (OS_EventTaskRdy,
\* OS_EventTaskRemove, OSTimeTick).
THEOREM Wakeable == Spec => []NobodyStranded
<1>1. TypeOK /\ Waiters => NobodyStranded
  <2> SUFFICES ASSUME TypeOK, Waiters PROVE NobodyStranded
    OBVIOUS
  <2>1. \A t \in Task : Sound(t)
    BY DEF Waiters
  <2>2. pending \subseteq Task /\ OSEventTbl \subseteq Task
    BY DEF TypeOK
  <2>3. OSEventTbl # {} => OSEventType = "q"
    BY DEF Waiters
  <2> QED
    BY <2>1, <2>2, <2>3 DEF Sound, NobodyStranded
<1> QED
  BY <1>1, WaitersKept, PTL

(***************************************************************************)
(* The ring holds a sequence.                                              *)
(***************************************************************************)

\* OSQIn is where the next message goes: behind the youngest.
RingRight == OSQIn = Slot(OSQEntries + 1)

Queue(n) == [k \in 1 .. n |-> ring[Slot(k)]]

LEMMA SlotType ==
    ASSUME RingType, NEW k \in 1 .. OSQSize PROVE Slot(k) \in 0 .. OSQSize - 1
BY SizeAssumption DEF RingType, Slot

LEMMA SlotInjective ==
    ASSUME RingType, NEW j \in 1 .. OSQSize, NEW k \in 1 .. OSQSize,
           Slot(j) = Slot(k)
    PROVE  j = k
BY SizeAssumption DEF RingType, Slot

LEMMA FunctionIsSeq ==
    ASSUME NEW S, NEW n \in Nat, NEW f \in [1 .. n -> S]
    PROVE  f \in Seq(S) /\ Len(f) = n
<1>1. f \in Seq(S)
  BY SeqDef
<1>2. 1 .. n = 1 .. Len(f) /\ Len(f) \in Nat
  BY <1>1, LenProperties
<1> QED
  BY <1>1, <1>2

LEMMA QueueIsSeq ==
    ASSUME RingType, NEW n \in 0 .. OSQSize
    PROVE  /\ Queue(n) \in Seq(Pointer) /\ Len(Queue(n)) = n
           /\ \A k \in 1 .. n : Queue(n)[k] = ring[Slot(k)]
<1>1. ASSUME NEW k \in 1 .. n PROVE ring[Slot(k)] \in Pointer
  <2>1. k \in 1 .. OSQSize
    BY SizeAssumption
  <2> QED
    BY <2>1, SlotType DEF RingType
<1>2. Queue(n) \in [1 .. n -> Pointer] /\ n \in Nat
  BY <1>1 DEF Queue
<1> QED
  BY <1>2, FunctionIsSeq DEF Queue

\* Taking at OSQOut removes the head.
LEMMA TakeIsTail ==
    ASSUME RingType, RingRight, NEW c \in Caller, TakeOldest(c)
    PROVE  /\ Queue(OSQEntries) # << >>
           /\ Head(Queue(OSQEntries)) = ring[OSQOut]
           /\ Queue(OSQEntries)' = Tail(Queue(OSQEntries))
           /\ RingRight'
<1>. DEFINE n == OSQEntries
            s == Queue(n)
            u == [k \in 1 .. n - 1 |-> ring[Slot(k + 1)]]
<1>0. n \in 1 .. OSQSize /\ n - 1 \in 0 .. OSQSize
  BY SizeAssumption DEF RingType, TakeOldest
<1>1. s \in Seq(Pointer) /\ Len(s) = n /\ \A k \in 1 .. n : s[k] = ring[Slot(k)]
  BY <1>0, QueueIsSeq
<1>2. s # << >>
  BY <1>0, <1>1, EmptySeq
<1>3. Slot(1) = OSQOut
  BY SizeAssumption DEF Slot, RingType
<1>4. Head(s) = ring[OSQOut]
  BY <1>0, <1>1, <1>3
<1>5. ASSUME NEW k \in 1 .. n - 1 PROVE Slot(k)' = Slot(k + 1)
  BY <1>0, SizeAssumption DEF Slot, RingType, TakeOldest, Wrap
<1>6. Queue(OSQEntries)' = u
  BY <1>5 DEF Queue, TakeOldest
<1>7. /\ Tail(s) \in Seq(Pointer) /\ Len(Tail(s)) = n - 1
      /\ \A k \in 1 .. n - 1 : Tail(s)[k] = s[k + 1]
  BY <1>1, <1>2, HeadTailProperties
<1>8. \A k \in 1 .. n - 1 : Tail(s)[k] = u[k]
  BY <1>0, <1>1, <1>7
<1>9. u = Tail(s)
  <2>1. ASSUME NEW k \in 1 .. n - 1 PROVE u[k] \in Pointer
    <3>1. k + 1 \in 1 .. OSQSize
      BY <1>0, SizeAssumption
    <3> QED
      BY <3>1, SlotType DEF RingType
  <2>2. u \in [1 .. n - 1 -> Pointer] /\ n - 1 \in Nat
    BY <1>0, <2>1
  <2>3. u \in Seq(Pointer) /\ Len(u) = n - 1
    BY <2>2, FunctionIsSeq
  <2> QED
    BY <1>7, <1>8, <2>3, SeqEqual
<1>10. RingRight'
  BY <1>0, SizeAssumption DEF RingRight, Slot, RingType, TakeOldest, Wrap
<1>. QED
  BY <1>2, <1>4, <1>6, <1>9, <1>10

\* Filling OSQIn appends.
LEMMA BackIsAppend ==
    ASSUME RingType, RingRight, NEW m \in Pointer, OSQEntries < OSQSize,
           InsertBack(m)
    PROVE  /\ Queue(OSQEntries)' = Append(Queue(OSQEntries), m)
           /\ RingRight'
<1>. DEFINE n == OSQEntries
            s == Queue(n)
            u == Queue(n)'
<1>0. n \in 0 .. OSQSize /\ n + 1 \in 1 .. OSQSize /\ n + 1 \in 0 .. OSQSize
  BY SizeAssumption DEF RingType
<1>1. s \in Seq(Pointer) /\ Len(s) = n /\ \A k \in 1 .. n : s[k] = ring[Slot(k)]
  BY <1>0, QueueIsSeq
<1>2. RingType' /\ OSQEntries' = n + 1 /\ OSQOut' = OSQOut
  BY InsertType DEF InsertBack
<1>3. /\ u \in Seq(Pointer) /\ Len(u) = n + 1
      /\ \A k \in 1 .. n + 1 : u[k] = ring'[Slot(k)]
  <2>1. \A k \in 1 .. n + 1 : Slot(k) \in 0 .. OSQSize - 1
    BY <1>0, SlotType, SizeAssumption
  <2>2. [k \in 1 .. n + 1 |-> ring'[Slot(k)]] \in [1 .. n + 1 -> Pointer]
    BY <1>2, <2>1 DEF RingType
  <2>3. u = [k \in 1 .. n + 1 |-> ring'[Slot(k)]]
    BY <1>2 DEF Queue, Slot
  <2> QED
    BY <1>0, <2>2, <2>3, FunctionIsSeq
<1>4. ring' = [ring EXCEPT ![Slot(n + 1)] = m]
  BY DEF InsertBack, RingRight
<1>5. \A k \in 1 .. n : Slot(k) # Slot(n + 1)
  <2> SUFFICES ASSUME NEW k \in 1 .. n PROVE Slot(k) # Slot(n + 1)
    OBVIOUS
  <2>1. k \in 1 .. OSQSize /\ k # n + 1
    BY <1>0, SizeAssumption
  <2> QED
    BY <1>0, <2>1, SlotInjective
<1>6. Slot(n + 1) \in 0 .. OSQSize - 1
  BY <1>0, SlotType
<1>7. u[n + 1] = m
  BY <1>0, <1>3, <1>4, <1>6 DEF RingType
<1>8. \A k \in 1 .. n : u[k] = s[k]
  BY <1>0, <1>1, <1>3, <1>4, <1>5 DEF RingType
<1>9. /\ Append(s, m) \in Seq(Pointer) /\ Len(Append(s, m)) = n + 1
      /\ \A k \in 1 .. n : Append(s, m)[k] = s[k]
      /\ Append(s, m)[n + 1] = m
  BY <1>1, AppendProperties
<1>10. \A k \in 1 .. n + 1 : u[k] = Append(s, m)[k]
  <2> SUFFICES ASSUME NEW k \in 1 .. n + 1 PROVE u[k] = Append(s, m)[k]
    OBVIOUS
  <2>1. k \in 1 .. n \/ k = n + 1
    BY <1>0
  <2> QED
    BY <1>7, <1>8, <1>9, <2>1
<1>11. u = Append(s, m)
  BY <1>3, <1>9, <1>10, SeqEqual
<1>12. RingRight'
  BY <1>0, SizeAssumption DEF RingRight, Slot, RingType, InsertBack, Wrap
<1>. QED
  BY <1>11, <1>12

\* Filling the entry before OSQOut prepends.
LEMMA FrontIsCons ==
    ASSUME RingType, RingRight, NEW m \in Pointer, OSQEntries < OSQSize,
           InsertFront(m)
    PROVE  /\ Queue(OSQEntries)' = <<m>> \o Queue(OSQEntries)
           /\ RingRight'
<1>. DEFINE n == OSQEntries
            s == Queue(n)
            u == Queue(n)'
            c == <<m>> \o s
<1>0. n \in 0 .. OSQSize /\ n + 1 \in 1 .. OSQSize
  BY SizeAssumption DEF RingType
<1>1. s \in Seq(Pointer) /\ Len(s) = n /\ \A k \in 1 .. n : s[k] = ring[Slot(k)]
  BY <1>0, QueueIsSeq
<1>2. /\ RingType' /\ OSQEntries' = n + 1 /\ OSQOut' \in 0 .. OSQSize - 1
      /\ OSQOut' = (IF OSQOut = 0 THEN OSQSize ELSE OSQOut) - 1
      /\ ring' = [ring EXCEPT ![OSQOut'] = m]
  BY InsertType DEF InsertFront, RingType
<1>3. Slot(1)' = OSQOut'
  BY <1>2, SizeAssumption DEF Slot
<1>4. ASSUME NEW k \in 1 .. n
      PROVE  /\ Slot(k + 1)' = Slot(k)
             /\ Slot(k) # OSQOut'
             /\ Slot(k) \in 0 .. OSQSize - 1
  BY <1>0, <1>2, SizeAssumption DEF Slot, RingType
<1>5. ASSUME NEW k \in 1 .. n + 1 PROVE Slot(k)' \in 0 .. OSQSize - 1
  BY <1>0, <1>2, SizeAssumption DEF Slot
<1>6. u = [k \in 1 .. n + 1 |-> ring'[Slot(k)']]
  BY <1>2 DEF Queue
<1>7. /\ u \in Seq(Pointer) /\ Len(u) = n + 1
      /\ \A k \in 1 .. n + 1 : u[k] = ring'[Slot(k)']
  <2>1. [k \in 1 .. n + 1 |-> ring'[Slot(k)']] \in [1 .. n + 1 -> Pointer]
    BY <1>2, <1>5 DEF RingType
  <2> QED
    BY <1>0, <1>6, <2>1, FunctionIsSeq
<1>8. u[1] = m
  BY <1>0, <1>2, <1>3, <1>7 DEF RingType
<1>9. ASSUME NEW k \in 1 .. n PROVE u[k + 1] = s[k]
  <2>1. k + 1 \in 1 .. n + 1
    BY <1>0
  <2>2. u[k + 1] = ring'[Slot(k)]
    BY <1>4, <1>7, <2>1
  <2>3. ring'[Slot(k)] = ring[Slot(k)]
    BY <1>2, <1>4 DEF RingType
  <2> QED
    BY <1>1, <2>2, <2>3
<1>10. <<m>> \in Seq(Pointer) /\ Len(<<m>>) = 1
  OBVIOUS
<1>11. /\ c \in Seq(Pointer) /\ Len(c) = n + 1
       /\ \A k \in 1 .. n + 1 : c[k] = IF k <= 1 THEN <<m>>[k] ELSE s[k - 1]
  <2>1. Len(<<m>>) + Len(s) = n + 1
    BY <1>0, <1>1, <1>10
  <2> QED
    BY <1>0, <1>1, <1>10, <2>1, ConcatProperties
<1>12. ASSUME NEW k \in 1 .. n + 1 PROVE u[k] = c[k]
  <2>1. CASE k = 1
    BY <1>8, <1>11, <2>1
  <2>2. CASE k # 1
    <3>1. k - 1 \in 1 .. n /\ k = (k - 1) + 1 /\ ~(k <= 1)
      BY <1>0, <2>2
    <3>2. u[(k - 1) + 1] = s[k - 1]
      BY <1>9, <3>1
    <3> QED
      BY <1>11, <3>1, <3>2
  <2> QED
    BY <2>1, <2>2
<1>13. u = c
  BY <1>7, <1>11, <1>12, SeqEqual
<1>14. RingRight'
  BY <1>0, <1>2, SizeAssumption DEF RingRight, Slot, RingType, InsertFront
<1>. QED
  BY <1>13, <1>14

(***************************************************************************)
(* Refinement.                                                             *)
(***************************************************************************)

QueueInv == TypeOK /\ Waiters /\ RingRight

LEMMA ItemsIsQueue ==
    /\ OSEventType = "q" => Items = Queue(OSQEntries)
    /\ OSEventType # "q" => Items = << >>
BY DEF Items, Queue

\* The messages, as far as calls look at them.
LEMMA ItemsFacts ==
    ASSUME QueueInv, OSEventType = "q"
    PROVE  /\ Items \in Seq(Pointer) /\ Len(Items) = OSQEntries
           /\ OSQEntries = 0 <=> Items = << >>
           /\ OSQEntries > 0 => Head(Items) = ring[OSQOut]
<1>1. RingType /\ OSQEntries \in 0 .. OSQSize
  BY TypeOKParts DEF QueueInv, RingType
<1>2. Items \in Seq(Pointer) /\ Len(Items) = OSQEntries
  BY <1>1, QueueIsSeq, ItemsIsQueue
<1>3. OSQEntries = 0 <=> Items = << >>
  BY <1>1, <1>2, EmptySeq
<1>4. ASSUME OSQEntries > 0 PROVE Head(Items) = ring[OSQOut]
  <2>1. Items[1] = ring[Slot(1)]
    BY <1>1, <1>4, QueueIsSeq, ItemsIsQueue, SizeAssumption
  <2>2. Slot(1) = OSQOut
    BY <1>1, SizeAssumption DEF Slot, RingType
  <2>3. Head(Items) = Items[1]
    BY <1>2, <1>3, <1>4
  <2> QED
    BY <2>1, <2>2, <2>3
<1> QED
  BY <1>2, <1>3, <1>4

\* A task that runs is free in the abstract queue.
LEMMA RunsIsFree ==
    ASSUME QueueInv, NEW c \in Caller, Runs(c) PROVE MQ!Free(c)
<1> SUFFICES ASSUME c \in Task PROVE c \notin OSEventTbl /\ Outcomes[c] = MQ!None
  BY DEF MQ!Free
<1>1. c \notin pending
  BY DEF Runs
<1>2. c \notin OSEventTbl
  BY <1>1 DEF QueueInv, Waiters, Sound
<1> QED
  BY <1>1, <1>2 DEF Outcomes, OutcomeOf, MQ!None

\* What a step that touches neither the ring nor the block leaves alone.
LEMMA SameItems ==
    ASSUME UNCHANGED <<OSEventType, ringVars>> PROVE Items' = Items
BY DEF Items, Slot, ringVars

LEMMA SameOutcomes ==
    ASSUME UNCHANGED <<taskVars, pending>> PROVE Outcomes' = Outcomes
BY DEF Outcomes, OutcomeOf, taskVars

LEMMA HPTIsMostUrgent == MQ!MostUrgent = HPT
BY DEF MQ!MostUrgent, HPT

\* OS_EventTaskRdy is Release.
LEMMA RdyIsRelease ==
    ASSUME QueueInv, NEW ws \in SUBSET OSEventTbl, NEW m \in Pointer,
           NEW stat \in {"ok", "abort"}, OS_EventTaskRdy(ws, m, stat),
           stat = "abort" => m = NULL, UNCHANGED pending
    PROVE  MQ!Release(ws, m, IF stat = "ok" THEN "none" ELSE "pend_abort")
<1>. DEFINE e == IF stat = "ok" THEN "none" ELSE "pend_abort"
<1>1. OSEventTbl' = OSEventTbl \ ws
  BY DEF OS_EventTaskRdy
<1>2. ASSUME NEW t \in ws, t \in Task PROVE OutcomeOf(t)' = [msg |-> m, err |-> e]
  <2>1. t \in pending' /\ t \notin OSEventTbl'
    BY <1>1, <1>2 DEF QueueInv, Waiters, Sound
  <2>2. tcb'[t] = Fields("rdy", stat, 0, m)
    BY <1>2 DEF OS_EventTaskRdy
  <2>3. tcb'[t].OSTCBStatPend = stat /\ tcb'[t].OSTCBMsg = m
    BY <2>2 DEF Fields
  <2> QED
    BY <2>1, <2>3 DEF OutcomeOf
<1>3. ASSUME NEW t \in Task, t \notin ws PROVE OutcomeOf(t)' = OutcomeOf(t)
  <2>1. tcb'[t] = tcb[t] /\ (t \in OSEventTbl' <=> t \in OSEventTbl)
    BY <1>1, <1>3 DEF OS_EventTaskRdy
  <2> QED
    BY <2>1 DEF OutcomeOf
<1>4. Outcomes' = [t \in Task |-> IF t \in ws THEN [msg |-> m, err |-> e]
                                             ELSE Outcomes[t]]
  BY <1>2, <1>3 DEF Outcomes
<1> QED
  BY <1>1, <1>4 DEF MQ!Release

LEMMA StepRing == QueueInv /\ [Next]_vars => RingRight'
<1> SUFFICES ASSUME QueueInv, [Next]_vars PROVE RingRight'
  OBVIOUS
<1>0. RingType /\ RingRight
  BY TypeOKParts DEF QueueInv
<1>1. CASE UNCHANGED ringVars
  BY <1>0, <1>1 DEF RingRight, Slot, ringVars
<1>2. CASE \E c \in Caller : TakeOldest(c)
  BY <1>0, <1>2, TakeIsTail
<1>3. CASE OSQIn' = 0 /\ OSQOut' = 0 /\ OSQEntries' = 0
  BY <1>3, SizeAssumption DEF RingRight, Slot
<1>4. CASE /\ OSQEntries < OSQSize
           /\ \E m \in Pointer : InsertFront(m) \/ InsertBack(m)
  BY <1>0, <1>4, BackIsAppend, FrontIsCons
<1> QED
  <2>1. ASSUME NEW c \in Caller, Call(c) PROVE RingRight'
    <3>1. CASE OSQCreate(c) \/ OSQFlush(c)
      BY <1>3, <3>1 DEF OSQCreate, OSQFlush
    <3>2. CASE OSQAccept(c)
      BY <1>1, <1>2, <3>2 DEF OSQAccept, WrongType
    <3>3. CASE OSQQuery(c)
      BY <1>1, <3>3 DEF OSQQuery, WrongType
    <3>4. CASE \E always \in BOOLEAN : OSQDel(c, always)
      BY <1>1, <3>4 DEF OSQDel, WrongType
    <3>5. CASE \E broadcast \in BOOLEAN : OSQPendAbort(c, broadcast)
      BY <1>1, <3>5 DEF OSQPendAbort, WrongType
    <3>6. CASE \E m \in Pointer, b, f \in BOOLEAN : PostAs(c, m, b, f)
      BY <1>1, <1>4, <3>6 DEF PostAs, WrongType
    <3> QED
      BY <2>1, <3>1, <3>2, <3>3, <3>4, <3>5, <3>6
         DEF Call, OSQPost, OSQPostFront, OSQPostOpt
  <2>2. ASSUME NEW t \in Task, NEW n \in 0 .. MaxDly, OSQPend(t, n)
        PROVE  RingRight'
    BY <1>1, <1>2, <2>2 DEF OSQPend, WrongType, Caller
  <2>3. ASSUME NEW t \in Task, OSQPendEnd(t) PROVE RingRight'
    BY <1>1, <2>3 DEF OSQPendEnd
  <2>4. CASE OSTimeTick \/ UNCHANGED vars
    BY <1>1, <2>4 DEF OSTimeTick, vars
  <2> QED
    BY <2>1, <2>2, <2>3, <2>4 DEF Next

LEMMA QueueInvKept == Spec => []QueueInv
<1>1. Init => RingRight
  BY SizeAssumption DEF Init, RingRight, Slot
<1>2. Init => QueueInv
  BY <1>1, InitType, InitWaiters DEF QueueInv
<1>3. QueueInv /\ [Next]_vars => QueueInv'
  BY StepType, StepWaiters, StepRing DEF QueueInv
<1> QED
  BY <1>2, <1>3, PTL DEF Spec

\* A call on a block that is not a queue, in the abstract queue.
LEMMA WrongTypeAnswers ==
    ASSUME QueueInv, NEW c \in Caller, WrongType(c) PROVE MQ!Answer(c)
<1>1. MQ!Free(c)
  BY RunsIsFree DEF WrongType
<1>2. UNCHANGED <<OSEventType, Items, OSEventTbl, Outcomes>>
  BY SameItems, SameOutcomes DEF WrongType, taskVars
<1> QED
  BY <1>1, <1>2 DEF WrongType, MQ!Answer, MQ!Returns, Returns

LEMMA TakeIsTake ==
    ASSUME QueueInv, NEW c \in Caller, OnQueue(c), TakeOldest(c),
           UNCHANGED <<OSEventType, taskVars, pending>>
    PROVE  MQ!Take(c)
<1>1. MQ!Free(c)
  BY RunsIsFree DEF OnQueue
<1>2. RingType /\ RingRight /\ OSEventType = "q" /\ OSEventType' = "q"
  BY TypeOKParts DEF QueueInv, OnQueue
<1>3. /\ Items # << >> /\ Head(Items) = ring[OSQOut]
      /\ Items' = Tail(Items)
  BY <1>2, TakeIsTail, ItemsIsQueue DEF Items, Queue
<1>4. UNCHANGED <<OSEventTbl, Outcomes>>
  BY SameOutcomes DEF taskVars
<1> QED
  BY <1>1, <1>2, <1>3, <1>4 DEF MQ!Take, TakeOldest, MQ!Returns, Returns

LEMMA PostIsPost ==
    ASSUME QueueInv, NEW c \in Caller, NEW m \in Pointer,
           NEW b \in BOOLEAN, NEW f \in BOOLEAN, PostAs(c, m, b, f)
    PROVE  MQ!Post(c, m) \/ MQ!Answer(c)
<1>1. CASE WrongType(c)
  BY <1>1, WrongTypeAnswers
<1>2. CASE /\ OnQueue(c) /\ OSEventTbl # {}
           /\ OS_EventTaskRdy(IF b THEN OSEventTbl ELSE HPT, m, "ok")
           /\ Returns(c, NULL, "none", 0)
           /\ UNCHANGED <<OSEventType, ringVars, pending>>
  <2>0. MQ!Free(c) /\ OSEventType = "q"
    BY <1>2, RunsIsFree DEF OnQueue
  <2>1. (IF b THEN OSEventTbl ELSE HPT) \in SUBSET OSEventTbl
    BY DEF HPT
  <2>2. MQ!Release(IF b THEN OSEventTbl ELSE HPT, m,
                   IF "ok" = "ok" THEN "none" ELSE "pend_abort")
    BY <1>2, <2>1, RdyIsRelease
  <2>3. MQ!Release(MQ!MostUrgent, m, "none") \/ MQ!Release(OSEventTbl, m, "none")
    BY <2>2, HPTIsMostUrgent
  <2>4. Items' = Items
    BY <1>2, SameItems
  <2> QED
    BY <1>2, <2>0, <2>3, <2>4 DEF MQ!Post, MQ!Returns, Returns
<1>3. CASE /\ OnQueue(c) /\ OSEventTbl = {} /\ OSQEntries >= OSQSize
           /\ Returns(c, NULL, "q_full", 0)
           /\ UNCHANGED <<OSEventType, ringVars, taskVars, pending>>
  <2>0. MQ!Free(c) /\ OSEventType = "q"
    BY <1>3, RunsIsFree DEF OnQueue
  <2>1. Len(Items) = OSQSize
    BY <1>3, <2>0, ItemsFacts, SizeAssumption DEF QueueInv, TypeOK
  <2>2. UNCHANGED <<OSEventType, Items, OSEventTbl, Outcomes>>
    BY <1>3, SameItems, SameOutcomes DEF taskVars
  <2> QED
    BY <1>3, <2>0, <2>1, <2>2 DEF MQ!Answer, MQ!Returns, Returns
<1>4. CASE /\ OnQueue(c) /\ OSEventTbl = {} /\ OSQEntries < OSQSize
           /\ IF f THEN InsertFront(m) ELSE InsertBack(m)
           /\ Returns(c, NULL, "none", 0)
           /\ UNCHANGED <<OSEventType, taskVars, pending>>
  <2>0. /\ MQ!Free(c) /\ OSEventType = "q" /\ OSEventType' = "q"
        /\ RingType /\ RingRight
    BY <1>4, RunsIsFree, TypeOKParts DEF OnQueue, QueueInv
  <2>1. Len(Items) < OSQSize
    BY <1>4, <2>0, ItemsFacts
  <2>2. \/ Queue(OSQEntries)' = Append(Queue(OSQEntries), m)
        \/ Queue(OSQEntries)' = <<m>> \o Queue(OSQEntries)
    BY <1>4, <2>0, BackIsAppend, FrontIsCons
  <2>3. Items' = Append(Items, m) \/ Items' = <<m>> \o Items
    BY <2>0, <2>2 DEF Items, Queue
  <2>4. UNCHANGED <<OSEventTbl, Outcomes>>
    BY <1>4, SameOutcomes DEF taskVars
  <2> QED
    BY <1>4, <2>0, <2>1, <2>3, <2>4 DEF MQ!Post, MQ!Returns, Returns
<1> QED
  BY <1>1, <1>2, <1>3, <1>4 DEF PostAs

\* The calls that are an action of their own in the abstract queue, or an answer.
LEMMA CallRefines ==
    ASSUME QueueInv, NEW c \in Caller, Call(c) PROVE MQ!Next
<1>0. ASSUME Runs(c) PROVE MQ!Free(c)
  BY <1>0, RunsIsFree
<1>1. ASSUME OSQCreate(c) PROVE MQ!Create(c)
  <2>1. OSEventTbl = {}
    BY <1>1 DEF OSQCreate, QueueInv, Waiters
  <2>2. UNCHANGED <<OSEventTbl, Outcomes>>
    BY <1>1, <2>1, SameOutcomes DEF OSQCreate, taskVars
  <2>3. OSQEntries' = 0 /\ OSEventType' = "q"
    BY <1>1 DEF OSQCreate
  <2>4. Items' = << >>
    BY <2>3 DEF Items
  <2> QED
    BY <1>0, <1>1, <2>2, <2>4 DEF OSQCreate, MQ!Create, MQ!Returns, Returns
<1>2. ASSUME OSQFlush(c) PROVE MQ!Flush(c)
  <2>1. OSQEntries' = 0 /\ OSEventType' = OSEventType /\ OSEventType = "q"
    BY <1>2 DEF OSQFlush, OnQueue
  <2>2. Items' = << >>
    BY <2>1 DEF Items
  <2>3. UNCHANGED <<OSEventTbl, Outcomes>>
    BY <1>2, SameOutcomes DEF OSQFlush, taskVars
  <2> QED
    BY <1>0, <1>2, <2>1, <2>2, <2>3
       DEF OSQFlush, OnQueue, MQ!Flush, MQ!Returns, Returns
<1>3. ASSUME OSQAccept(c) PROVE MQ!Take(c) \/ MQ!Answer(c)
  <2>1. CASE WrongType(c)
    BY <2>1, WrongTypeAnswers
  <2>2. CASE /\ OnQueue(c) /\ TakeOldest(c)
             /\ UNCHANGED <<OSEventType, taskVars, pending>>
    BY <2>2, TakeIsTake
  <2>3. CASE /\ OnQueue(c) /\ OSQEntries = 0
             /\ Returns(c, NULL, "q_empty", 0)
             /\ UNCHANGED <<ringVars, OSEventType, taskVars, pending>>
    <3>1. Items = << >>
      BY <2>3, ItemsFacts DEF OnQueue
    <3>2. UNCHANGED <<OSEventType, Items, OSEventTbl, Outcomes>>
      BY <2>3, SameItems, SameOutcomes DEF taskVars
    <3> QED
      BY <1>0, <2>3, <3>1, <3>2 DEF OnQueue, MQ!Answer, MQ!Returns, Returns
  <2> QED
    BY <1>3, <2>1, <2>2, <2>3 DEF OSQAccept
<1>4. ASSUME OSQQuery(c) PROVE MQ!Answer(c)
  <2>1. CASE WrongType(c)
    BY <2>1, WrongTypeAnswers
  <2>2. CASE /\ OnQueue(c)
             /\ Returns(c, IF OSQEntries > 0 THEN ring[OSQOut] ELSE NULL,
                        "none", OSQEntries)
             /\ UNCHANGED <<OSEventType, ringVars, taskVars, pending>>
    <3>1. UNCHANGED <<OSEventType, Items, OSEventTbl, Outcomes>>
      BY <2>2, SameItems, SameOutcomes DEF taskVars
    <3>2. OSQEntries = Len(Items) /\ OSQEntries \in 0 .. OSQSize
      BY <2>2, ItemsFacts DEF OnQueue, QueueInv, TypeOK
    <3>3. (IF OSQEntries > 0 THEN ring[OSQOut] ELSE NULL)
            = IF Items = << >> THEN NULL ELSE Head(Items)
      BY <2>2, <3>2, ItemsFacts, SizeAssumption DEF OnQueue
    <3> QED
      BY <1>0, <2>2, <3>1, <3>2, <3>3 DEF OnQueue, MQ!Answer, MQ!Returns, Returns
  <2> QED
    BY <1>4, <2>1, <2>2 DEF OSQQuery
<1>5. ASSUME NEW always \in BOOLEAN, OSQDel(c, always)
      PROVE  MQ!Delete(c) \/ MQ!Answer(c)
  <2>1. CASE WrongType(c)
    BY <2>1, WrongTypeAnswers
  <2>2. CASE /\ OnQueue(c) /\ OSEventTbl # {}
             /\ Returns(c, NULL, "task_waiting", 0)
             /\ UNCHANGED <<OSEventType, ringVars, taskVars, pending>>
    <3>1. UNCHANGED <<OSEventType, Items, OSEventTbl, Outcomes>>
      BY <2>2, SameItems, SameOutcomes DEF taskVars
    <3> QED
      BY <1>0, <2>2, <3>1 DEF OnQueue, MQ!Answer, MQ!Returns, Returns
  <2>3. CASE /\ OnQueue(c)
             /\ OS_EventTaskRdy(OSEventTbl, NULL, "ok")
             /\ OSEventType' = "unused"
             /\ Returns(c, NULL, "none", 0)
             /\ UNCHANGED <<ringVars, pending>>
    <3>1. MQ!Release(OSEventTbl, NULL,
                     IF "ok" = "ok" THEN "none" ELSE "pend_abort")
      BY <2>3, RdyIsRelease DEF Pointer
    <3>2. Items' = << >>
      BY <2>3 DEF Items
    <3> QED
      BY <1>0, <2>3, <3>1, <3>2 DEF OnQueue, MQ!Delete, MQ!Returns, Returns
  <2> QED
    BY <1>5, <2>1, <2>2, <2>3 DEF OSQDel
<1>6. ASSUME NEW b \in BOOLEAN, OSQPendAbort(c, b)
      PROVE  MQ!Abort(c) \/ MQ!Answer(c)
  <2>1. CASE WrongType(c)
    BY <2>1, WrongTypeAnswers
  <2>2. CASE /\ OnQueue(c) /\ OSEventTbl # {}
             /\ OS_EventTaskRdy(IF b THEN OSEventTbl ELSE HPT, NULL, "abort")
             /\ Returns(c, NULL, "pend_abort", 0)
             /\ UNCHANGED <<OSEventType, ringVars, pending>>
    <3>1. (IF b THEN OSEventTbl ELSE HPT) \in SUBSET OSEventTbl
      BY DEF HPT
    <3>2. MQ!Release(IF b THEN OSEventTbl ELSE HPT, NULL,
                     IF "abort" = "ok" THEN "none" ELSE "pend_abort")
      BY <2>2, <3>1, RdyIsRelease DEF Pointer
    <3>3. \/ MQ!Release(MQ!MostUrgent, NULL, "pend_abort")
          \/ MQ!Release(OSEventTbl, NULL, "pend_abort")
      BY <3>2, HPTIsMostUrgent
    <3>4. Items' = Items
      BY <2>2, SameItems
    <3> QED
      BY <1>0, <2>2, <3>3, <3>4 DEF OnQueue, MQ!Abort, MQ!Returns, Returns
  <2>3. CASE /\ OnQueue(c) /\ OSEventTbl = {}
             /\ Returns(c, NULL, "none", 0)
             /\ UNCHANGED <<OSEventType, ringVars, taskVars, pending>>
    <3>1. UNCHANGED <<OSEventType, Items, OSEventTbl, Outcomes>>
      BY <2>3, SameItems, SameOutcomes DEF taskVars
    <3> QED
      BY <1>0, <2>3, <3>1 DEF OnQueue, MQ!Answer, MQ!Returns, Returns
  <2> QED
    BY <1>6, <2>1, <2>2, <2>3 DEF OSQPendAbort
<1>7. ASSUME NEW m \in Pointer, NEW b \in BOOLEAN, NEW f \in BOOLEAN,
             PostAs(c, m, b, f)
      PROVE  m \in MQ!Pointer /\ (MQ!Post(c, m) \/ MQ!Answer(c))
  BY <1>7, PostIsPost DEF Pointer, MQ!Pointer
<1>8. c \in MQ!Caller
  BY DEF Caller, MQ!Caller
<1> QED
  BY <1>1, <1>2, <1>3, <1>4, <1>5, <1>6, <1>7, <1>8
     DEF Call, OSQPost, OSQPostFront, OSQPostOpt, MQ!Next

LEMMA PendRefines ==
    ASSUME QueueInv, NEW t \in Task, NEW n \in 0 .. MaxDly, OSQPend(t, n)
    PROVE  MQ!Take(t) \/ MQ!Answer(t) \/ MQ!Wait(t)
<1>0. t \in Caller
  BY DEF Caller
<1>1. CASE WrongType(t)
  BY <1>0, <1>1, WrongTypeAnswers
<1>2. CASE /\ OnQueue(t) /\ TakeOldest(t)
           /\ UNCHANGED <<OSEventType, taskVars, pending>>
  BY <1>0, <1>2, TakeIsTake
<1>3. CASE OnQueue(t) /\ Waits(t, n)
  <2>1. MQ!Free(t) /\ OSEventType = "q"
    BY <1>0, <1>3, RunsIsFree DEF OnQueue
  <2>2. Items = << >> /\ Items' = Items
    BY <1>3, <2>1, ItemsFacts, SameItems DEF Waits
  <2>3. ASSUME NEW u \in Task PROVE OutcomeOf(u)' = OutcomeOf(u)
    <3>1. CASE u = t
      <4>1. t \notin pending /\ t \in OSEventTbl'
        BY <1>3 DEF Waits, OnQueue, Runs
      <4> QED
        BY <3>1, <4>1 DEF OutcomeOf
    <3>2. CASE u # t
      <4>1. /\ tcb'[u] = tcb[u]
            /\ u \in pending' <=> u \in pending
            /\ u \in OSEventTbl' <=> u \in OSEventTbl
        BY <1>3, <3>2 DEF Waits, QueueInv, TypeOK
      <4> QED
        BY <4>1 DEF OutcomeOf
    <3> QED
      BY <3>1, <3>2
  <2>4. Outcomes' = Outcomes
    BY <2>3 DEF Outcomes
  <2> QED
    BY <1>3, <2>1, <2>2, <2>4 DEF Waits, MQ!Wait
<1> QED
  BY <1>1, <1>2, <1>3 DEF OSQPend, Waits

LEMMA PendEndRefines ==
    ASSUME QueueInv, NEW t \in Task, OSQPendEnd(t) PROVE MQ!Wake(t)
<1>. DEFINE stat == tcb[t].OSTCBStatPend
<1>0. /\ t \in pending /\ t \in OSRdyTbl /\ LeaveList(t)
      /\ Returns(t, IF stat = "ok" THEN tcb[t].OSTCBMsg ELSE NULL,
                 CASE stat = "ok" -> "none" [] stat = "abort" -> "pend_abort"
                   [] OTHER -> "timeout", 0)
      /\ tcb' = [tcb EXCEPT ![t] = Fields("rdy", "ok", @.OSTCBDly, NULL)]
      /\ pending' = pending \ {t}
      /\ UNCHANGED <<OSEventType, ringVars, OSRdyTbl>>
  BY DEF OSQPendEnd
<1>1. /\ t \in OSEventTbl => stat = "to"
      /\ t \notin OSEventTbl => stat # "to"
      /\ stat \in {"ok", "to", "abort"}
  BY <1>0, TcbFields DEF QueueInv, Waiters, Sound, TypeOK
<1>2. OSEventTbl' = OSEventTbl \ {t}
  BY <1>0, <1>1 DEF LeaveList
<1>3. Items' = Items
  BY <1>0, SameItems
<1>4. OutcomeOf(t)' = MQ!None
  BY <1>0 DEF OutcomeOf, MQ!None
<1>5. ASSUME NEW u \in Task, u # t PROVE OutcomeOf(u)' = OutcomeOf(u)
  <2>1. /\ tcb'[u] = tcb[u]
        /\ u \in pending' <=> u \in pending
        /\ u \in OSEventTbl' <=> u \in OSEventTbl
    BY <1>0, <1>2, <1>5 DEF QueueInv, TypeOK
  <2> QED
    BY <2>1 DEF OutcomeOf
<1>6. Outcomes' = [Outcomes EXCEPT ![t] = MQ!None]
  BY <1>4, <1>5 DEF Outcomes
<1>7. CASE t \in OSEventTbl
  <2>1. Outcomes[t] = MQ!None
    BY <1>7 DEF Outcomes, OutcomeOf, MQ!None
  <2>2. Outcomes' = Outcomes
    BY <1>6, <2>1 DEF Outcomes
  <2>3. Returns(t, NULL, "timeout", 0)
    BY <1>0, <1>1, <1>7
  <2> QED
    BY <1>0, <1>2, <1>3, <1>7, <2>2, <2>3 DEF MQ!Wake, MQ!Returns, Returns
<1>8. CASE t \notin OSEventTbl
  <2>1. Outcomes[t] = IF stat = "ok" THEN [msg |-> tcb[t].OSTCBMsg, err |-> "none"]
                                     ELSE [msg |-> NULL, err |-> "pend_abort"]
    BY <1>0, <1>8 DEF Outcomes, OutcomeOf
  <2>2. Outcomes[t] # MQ!None
    BY <2>1 DEF MQ!None
  <2>3. Returns(t, Outcomes[t].msg, Outcomes[t].err, 0)
    BY <1>0, <1>1, <1>8, <2>1
  <2>4. OSEventTbl' = OSEventTbl
    BY <1>2, <1>8
  <2> QED
    BY <1>0, <1>3, <1>6, <2>2, <2>3, <2>4 DEF MQ!Wake, MQ!Returns, Returns
<1> QED
  BY <1>7, <1>8

\* The clock is not seen by the callers: a task whose time is over is still a
\* waiting task, until it runs.
LEMMA TickStutters ==
    ASSUME QueueInv, OSTimeTick PROVE UNCHANGED MQ!vars
<1>1. Items' = Items
  BY SameItems DEF OSTimeTick
<1>2. ASSUME NEW t \in Task PROVE OutcomeOf(t)' = OutcomeOf(t)
  <2>1. UNCHANGED <<pending, OSEventTbl>>
    BY DEF OSTimeTick
  <2>2. CASE t \in pending /\ t \notin OSEventTbl
    <3>1. t \in OSRdyTbl /\ tcb[t].OSTCBDly = 0
      BY <2>2 DEF QueueInv, Waiters, Sound
    <3>2. tcb'[t] = tcb[t]
      BY <3>1 DEF OSTimeTick, Expires
    <3> QED
      BY <2>1, <3>2 DEF OutcomeOf
  <2>3. CASE ~(t \in pending /\ t \notin OSEventTbl)
    BY <2>1, <2>3 DEF OutcomeOf
  <2> QED
    BY <2>2, <2>3
<1>3. Outcomes' = Outcomes
  BY <1>2 DEF Outcomes
<1> QED
  BY <1>1, <1>3 DEF OSTimeTick, MQ!vars

\* os_q.c implements the bounded queue of MessageQueue, for every number of
\* tasks, messages and entries and every timeout: nothing posted is lost,
\* doubled or overtaken, and a message posted to a task whose time is over is
\* received by it, or waits for the next call (OSQPend, OSQPost, OSQDel, ...).
THEOREM QueueImplemented == Spec => Implements
<1>1. Init => MQ!Init
  <2> SUFFICES ASSUME Init PROVE MQ!Init
    OBVIOUS
  <2>1. Items = << >> /\ Outcomes = [t \in Task |-> MQ!None]
    BY DEF Init, Items, Outcomes, OutcomeOf, MQ!None
  <2> QED
    BY <2>1 DEF Init, MQ!Init
<1>2. QueueInv /\ [Next]_vars => [MQ!Next]_(MQ!vars)
  <2> SUFFICES ASSUME QueueInv, [Next]_vars PROVE MQ!Next \/ UNCHANGED MQ!vars
    OBVIOUS
  <2>1. ASSUME NEW c \in Caller, Call(c) PROVE MQ!Next
    BY <2>1, CallRefines
  <2>2. ASSUME NEW t \in Task, NEW n \in 0 .. MaxDly, OSQPend(t, n)
        PROVE  MQ!Next
    BY <2>2, PendRefines DEF MQ!Next, MQ!Caller
  <2>3. ASSUME NEW t \in Task, OSQPendEnd(t) PROVE MQ!Next
    BY <2>3, PendEndRefines DEF MQ!Next
  <2>4. CASE OSTimeTick
    BY <2>4, TickStutters
  <2>5. CASE UNCHANGED vars
    BY <2>5, SameItems, SameOutcomes DEF vars, taskVars, MQ!vars
  <2> QED
    BY <2>1, <2>2, <2>3, <2>4, <2>5 DEF Next
<1> QED
  BY <1>1, <1>2, QueueInvKept, PTL DEF Spec, Implements, MQ!Spec

=============================================================================
