---------------------------- MODULE MemoryProofs ----------------------------
(***************************************************************************)
(* Theorems about the memory of the program.                               *)
(*                                                                         *)
(* malloc.c, for every size of the table and every number of tasks and     *)
(* pointers: types, whatever interrupts whatever; and, when no call        *)
(* interrupts another, that the allocator implements Heap, that its table  *)
(* is right, and that it fails only when it must.                          *)
(*                                                                         *)
(* jpeg_data_buf, for buffers of the stream and frames of any length: the  *)
(* interrupts write inside it, and what is sent from it is of one frame.    *)
(***************************************************************************)
EXTENDS Malloc, Camera, TLAPS

-----------------------------------------------------------------------------
(* Type correctness needs the ranges of the loop counters.                 *)

Bounds(c) ==
    /\ c.op = "scan" => c.k < c.nmemb /\ c.k + c.offset <= N - 1
    /\ c.op = "mark" => c.k < c.nmemb /\ c.offset + c.nmemb <= N
    /\ c.op = "clear" => c.k < c.nmemb /\ c.nmemb <= N

TypeInv == TypeOK /\ \A t \in Task : Bounds(call[t])

(* A call that runs is a record with all its fields.                       *)
LEMMA RunningCall ==
    ASSUME TypeOK, NEW t \in Task, Running(t)
    PROVE  call[t] \in CallInProgress
<1>1. call[t] \in {NoCall} \cup CallInProgress
  BY DEF TypeOK
<1>2. call[t].op # "none"
  BY DEF Running, Busy
<1>. QED
  BY <1>1, <1>2 DEF NoCall

LEMMA CallFields ==
    ASSUME NEW c \in CallInProgress
    PROVE  /\ c.ptr \in Pointer
           /\ c.nmemb \in Nat \ {0}
           /\ c.offset \in Int /\ 0 <= c.offset /\ c.offset <= N - 1
           /\ c.k \in Int /\ 0 <= c.k /\ c.k <= N
<1>1. c.ptr \in Pointer /\ c.nmemb \in Sizes \cup (1 .. N)
      /\ c.offset \in Block /\ c.k \in 0 .. N
  BY DEF CallInProgress
<1>2. c.nmemb \in Nat \ {0}
  <2>1. c.nmemb \in Sizes => c.nmemb \in Nat \ {0}
    BY SizesAssumption
  <2>2. c.nmemb \in 1 .. N => c.nmemb \in Nat \ {0}
    BY SizeAssumption
  <2>. QED
    BY <1>1, <2>1, <2>2
<1>. QED
  BY <1>1, <1>2, SizeAssumption DEF Block

LEMMA InitTypeInv == Init => TypeInv
<1>. SUFFICES ASSUME Init PROVE TypeInv
  OBVIOUS
<1>1. TypeOK
  BY SizeAssumption DEF Init, TypeOK, Block
<1>2. \A t \in Task : Bounds(call[t])
  BY DEF Init, NoCall, Bounds
<1>. QED
  BY <1>1, <1>2 DEF TypeInv

(* One turn of a marking or clearing loop.                                 *)
StepTyped(t) ==
    /\ call' \in [Task -> {NoCall} \cup CallInProgress]
    /\ \A u \in Task : Bounds(call'[u])

LEMMA StepKeepsTypes ==
    ASSUME TypeInv, NEW t \in Task, call[t] \in CallInProgress,
           call[t].op \in {"mark", "clear"}, Step(t)
    PROVE  StepTyped(t)
<1>. DEFINE c == call[t]
            d == Call(c.op, c.ptr, c.nmemb, c.offset, c.k + 1)
<1>1. /\ c.nmemb \in Nat /\ c.offset \in Int /\ 0 <= c.offset
      /\ c.k \in Int /\ 0 <= c.k /\ c.k < c.nmemb /\ c.nmemb <= N
      /\ c.op = "mark" => c.offset + c.nmemb <= N
  BY CallFields, SizeAssumption DEF TypeInv, Bounds
<1>2. CASE c.k + 1 = c.nmemb
  <2>1. call' = [call EXCEPT ![t] = NoCall]
    BY <1>2 DEF Step
  <2>. QED
    BY <2>1 DEF StepTyped, TypeInv, TypeOK, Bounds, NoCall
<1>3. CASE c.k + 1 # c.nmemb
  <2>1. call' = [call EXCEPT ![t] = d]
    BY <1>3 DEF Step
  <2>2. c.k + 1 \in 0 .. N /\ c.k + 1 < c.nmemb
    BY <1>1, <1>3, SizeAssumption
  <2>3. d \in CallInProgress
    BY <2>2 DEF CallInProgress, Call
  <2>4. Bounds(d)
    BY <1>1, <2>2 DEF Bounds, Call
  <2>. HIDE DEF d
  <2>. QED
    BY <2>1, <2>3, <2>4 DEF StepTyped, TypeInv, TypeOK
<1>. QED
  BY <1>2, <1>3

LEMMA NextTypeInv == TypeInv /\ [Next]_vars => TypeInv'
<1>. SUFFICES ASSUME TypeInv, [Next]_vars PROVE TypeInv'
  OBVIOUS
<1>. USE SizeAssumption, SizesAssumption
<1>. TypeOK /\ \A t \in Task : Bounds(call[t])
  BY DEF TypeInv
<1>1. ASSUME NEW t \in Task, NEW p \in Pointer, NEW n \in Sizes,
             BeginMalloc(t, p, n)
      PROVE  TypeInv'
  BY <1>1 DEF BeginMalloc, TypeInv, TypeOK, Call, CallInProgress, Block, Bounds
<1>2. ASSUME NEW t \in Task, NEW p \in Pointer, BeginFree(t, p)
      PROVE  TypeInv'
  <2>. DEFINE n == memmap[held[p].at]
  <2>1. held[p] \in Run
    BY <1>2 DEF BeginFree, TypeOK
  <2>2. held[p].at \in Block /\ n \in 0 .. N
    BY <2>1 DEF Run, H!Run, Block, TypeOK
  <2>3. held' \in [Pointer -> Run \cup {NoRun}]
    BY <1>2 DEF BeginFree, TypeOK
  <2>4. CASE n = 0
    BY <1>2, <2>3, <2>4 DEF BeginFree, TypeInv, TypeOK, Bounds
  <2>5. CASE n # 0
    BY <1>2, <2>2, <2>3, <2>5
       DEF BeginFree, TypeInv, TypeOK, Call, CallInProgress, Bounds
  <2>. QED
    BY <2>4, <2>5
<1>3. ASSUME NEW t \in Task, ScanOn(t)
      PROVE  TypeInv'
  <2>1. call[t] \in CallInProgress
    BY <1>3, RunningCall DEF ScanOn
  <2>. QED
    BY <1>3, <2>1
       DEF ScanOn, TypeInv, TypeOK, Call, CallInProgress, Block, Bounds, Free
<1>4. ASSUME NEW t \in Task, ScanFound(t)
      PROVE  TypeInv'
  <2>1. call[t] \in CallInProgress
    BY <1>4, RunningCall DEF ScanFound
  <2>. QED
    BY <1>4, <2>1
       DEF ScanFound, TypeInv, TypeOK, Call, CallInProgress, Block, Bounds, Free
<1>5. ASSUME NEW t \in Task, ScanFailed(t)
      PROVE  TypeInv'
  BY <1>5 DEF ScanFailed, TypeInv, TypeOK, NoCall, Bounds
<1>6. ASSUME NEW t \in Task, Mark(t)
      PROVE  TypeInv'
  <2>. DEFINE c == call[t]
  <2>1. c \in CallInProgress /\ Bounds(c) /\ c.op = "mark"
    BY <1>6, RunningCall DEF Mark
  <2>2. /\ c.ptr \in Pointer /\ c.nmemb \in Nat \ {0}
        /\ c.offset \in Int /\ 0 <= c.offset /\ c.offset <= N - 1
        /\ c.k \in Int /\ 0 <= c.k /\ c.k < c.nmemb
        /\ c.offset + c.nmemb <= N
    BY <2>1, CallFields DEF Bounds
  <2>3. memmap' \in [Block -> 0 .. N]
    <3>1. c.nmemb \in 0 .. N
      BY <2>2
    <3>2. memmap' = [x \in Block |->
                        IF x = c.offset + c.k THEN c.nmemb ELSE memmap[x]]
      BY <1>6 DEF Mark, Store
    <3>. QED
      BY <3>1, <3>2 DEF TypeOK
  <2>4. held' \in [Pointer -> Run \cup {NoRun}]
    <3>1. [at |-> c.offset, len |-> c.nmemb] \in Run
      BY <2>2 DEF Run, H!Run
    <3>. QED
      BY <1>6, <2>2, <3>1 DEF Mark, TypeOK
  <2>5. StepTyped(t)
    BY <1>6, <2>1, StepKeepsTypes DEF Mark
  <2>. QED
    BY <2>3, <2>4, <2>5 DEF TypeInv, TypeOK, Bounds, StepTyped
<1>7. ASSUME NEW t \in Task, Clear(t)
      PROVE  TypeInv'
  <2>. DEFINE c == call[t]
  <2>1. c \in CallInProgress /\ Bounds(c) /\ c.op = "clear"
    BY <1>7, RunningCall DEF Clear
  <2>2. memmap' \in [Block -> 0 .. N]
    BY <1>7 DEF Clear, Store, TypeOK
  <2>3. StepTyped(t)
    BY <1>7, <2>1, StepKeepsTypes DEF Clear
  <2>. QED
    BY <1>7, <2>2, <2>3 DEF Clear, TypeInv, TypeOK, Bounds, StepTyped
<1>8. CASE UNCHANGED vars
  BY <1>8 DEF vars, TypeInv, TypeOK, Bounds
<1>. QED
  BY <1>1, <1>2, <1>3, <1>4, <1>5, <1>6, <1>7, <1>8 DEF Next

(* Every value is one the C variable can have, however calls interrupt     *)
(* each other (my_mem_malloc, my_mem_free).                                *)
THEOREM TypeCorrect == Spec => []TypeOK
<1>1. TypeInv => TypeOK
  BY DEF TypeInv
<1>. QED
  BY <1>1, InitTypeInv, NextTypeInv, PTL DEF Spec

-----------------------------------------------------------------------------
(* When no call interrupts another.  The books of the allocator: entries   *)
(* say the length of the run they belong to; a used entry belongs to a     *)
(* pointer or to the call in progress; and what that call has found out of *)
(* the table still holds.                                                  *)

OneCall == \A t, u \in Task : Busy(t) /\ Busy(u) => t = u

Lengths ==
    \A p \in Pointer : \A b \in BlocksOf(held[p]) : memmap[b] = held[p].len

\* Entry b is used on account of call c.
InCall(c, b) ==
    \/ c.op = "mark" /\ b \in c.offset .. c.offset + c.k - 1
    \/ c.op = "clear" /\ b \in c.offset + c.k .. c.offset + c.nmemb - 1

Used ==
    \A b \in Block : memmap[b] # 0 =>
        \/ \E p \in Pointer : b \in BlocksOf(held[p])
        \/ \E t \in Task : InCall(call[t], b)

\* The search: the k blocks above offset are free, the one above them is
\* not, and no free run of the length asked for starts above offset.
Search(c) ==
    /\ \A b \in c.offset + 1 .. c.offset + c.k : memmap[b] = 0
    /\ c.offset + c.k < N - 1 => memmap[c.offset + c.k + 1] # 0
    /\ \A s \in c.offset + 1 .. N - c.nmemb :
           \E b \in s .. s + c.nmemb - 1 : memmap[b] # 0

\* The run that is marked or cleared belongs to no pointer.
Apart(c) ==
    \A p \in Pointer : \A b \in BlocksOf(held[p]) :
        b \notin c.offset .. c.offset + c.nmemb - 1

Marked(c) == \A b \in c.offset .. c.offset + c.k - 1 : memmap[b] = c.nmemb

CallInv(c) ==
    /\ c.op = "scan" => held[c.ptr] = NoRun /\ Search(c)
    /\ c.op = "mark" => held[c.ptr] = NoRun /\ Apart(c) /\ Marked(c)
    /\ c.op = "clear" => Apart(c)

Books ==
    /\ OneCall /\ Lengths /\ Used /\ H!Disjoint
    /\ \A t \in Task : CallInv(call[t])

IInv == TypeInv /\ Books

LEMMA RunFacts ==
    ASSUME TypeOK, NEW p \in Pointer
    PROVE  /\ held[p].at \in Int /\ held[p].len \in Int
           /\ held[p] = NoRun => BlocksOf(held[p]) = {}
           /\ held[p] # NoRun => /\ held[p].at \in BlocksOf(held[p])
                                 /\ held[p].len \in 1 .. N
           /\ BlocksOf(held[p]) \subseteq Block
           /\ BlocksOf(held[p]) = held[p].at .. held[p].at + held[p].len - 1
           /\ BlocksOf(held[p]) # {} => held[p].len \in 1 .. N
<1>1. CASE held[p] = NoRun
  BY <1>1, SizeAssumption DEF NoRun, H!NoRun, BlocksOf, H!BlocksOf
<1>2. CASE held[p] \in Run
  BY <1>2, SizeAssumption
     DEF Run, H!Run, BlocksOf, H!BlocksOf, Block, NoRun, H!NoRun
<1>. QED
  BY <1>1, <1>2 DEF TypeOK

(* The call that runs is the only one.                                     *)
LEMMA OnlyCall ==
    ASSUME OneCall, NEW t \in Task, Running(t), NEW u \in Task, u # t
    PROVE  call[u].op = "none"
  BY DEF OneCall, Running, Busy

LEMMA NoOtherCall ==
    ASSUME ~Preemptive, NEW t \in Task, MayCall(t), NEW u \in Task
    PROVE  call[u].op = "none"
  BY DEF MayCall, Busy

LEMMA InitBooks == Init => Books
<1>. SUFFICES ASSUME Init PROVE Books
  OBVIOUS
<1>1. OneCall /\ \A t \in Task : CallInv(call[t])
  BY DEF Init, OneCall, Busy, NoCall, CallInv
<1>2. Lengths /\ H!Disjoint
  BY DEF Init, Lengths, BlocksOf, H!Disjoint, H!BlocksOf, NoRun, H!NoRun
<1>3. Used
  BY DEF Init, Used
<1>. QED
  BY <1>1, <1>2, <1>3 DEF Books

LEMMA BeginMallocBooks ==
    ASSUME IInv, ~Preemptive, NEW t \in Task, NEW p \in Pointer, NEW n \in Sizes,
           BeginMalloc(t, p, n)
    PROVE  Books'
<1>. DEFINE d == Call("scan", p, n, N - 1, 0)
<1>1. /\ call' = [call EXCEPT ![t] = d] /\ memmap' = memmap /\ held' = held
      /\ held[p] = NoRun /\ call \in [Task -> {NoCall} \cup CallInProgress]
  BY DEF BeginMalloc, IInv, TypeInv, TypeOK
<1>2. \A u \in Task : call[u].op = "none"
  BY NoOtherCall DEF BeginMalloc
<1>3. OneCall'
  BY <1>1, <1>2 DEF OneCall, Busy
<1>4. Lengths' /\ H!Disjoint'
  BY <1>1 DEF IInv, Books, Lengths, H!Disjoint
<1>5. Used'
  BY <1>1, <1>2 DEF IInv, Books, Used, InCall
<1>6. ASSUME NEW u \in Task PROVE CallInv(call[u])'
  <2>1. CASE u # t
    BY <1>1, <1>2, <2>1 DEF CallInv
  <2>2. CASE u = t
    <3>1. n \in Nat \ {0}
      BY SizesAssumption
    <3>. QED
      BY <1>1, <2>2, <3>1, SizeAssumption DEF CallInv, Search, Call
  <2>. QED
    BY <2>1, <2>2
<1>. QED
  BY <1>3, <1>4, <1>5, <1>6 DEF Books

LEMMA BeginFreeBooks ==
    ASSUME IInv, ~Preemptive, NEW t \in Task, NEW p \in Pointer, BeginFree(t, p)
    PROVE  Books'
<1>. DEFINE r == held[p]
            d == Call("clear", p, r.len, r.at, 0)
<1>0. TypeOK /\ Lengths /\ Used /\ H!Disjoint
  BY DEF IInv, TypeInv, Books
<1>1. /\ r.at \in BlocksOf(r) /\ r.len \in 1 .. N /\ r.at \in Int
      /\ BlocksOf(r) = r.at .. r.at + r.len - 1
  BY <1>0, RunFacts DEF BeginFree
<1>2. memmap[r.at] = r.len
  BY <1>0, <1>1 DEF Lengths
<1>3. /\ call' = [call EXCEPT ![t] = d] /\ memmap' = memmap
      /\ held' = [held EXCEPT ![p] = NoRun]
      /\ call \in [Task -> {NoCall} \cup CallInProgress]
      /\ held \in [Pointer -> Run \cup {NoRun}]
  BY <1>0, <1>1, <1>2 DEF BeginFree, TypeOK
<1>4. \A u \in Task : call[u].op = "none"
  BY NoOtherCall DEF BeginFree
<1>5. BlocksOf(NoRun) = {}
  BY DEF BlocksOf, H!BlocksOf, NoRun, H!NoRun
<1>6. \A q \in Pointer : held'[q] = IF q = p THEN NoRun ELSE held[q]
  BY <1>3
<1>7. OneCall'
  BY <1>3, <1>4 DEF OneCall, Busy
<1>8. Lengths'
  BY <1>0, <1>3, <1>5, <1>6 DEF Lengths
<1>9. H!Disjoint'
  <2>1. H!BlocksOf(NoRun) = {}
    BY <1>5 DEF BlocksOf
  <2>. QED
    BY <1>0, <1>6, <2>1 DEF H!Disjoint
<1>10. Used'
  <2>1. call'[t] = d
    BY <1>3
  <2>2. \A b \in BlocksOf(r) : InCall(d, b)
    BY <1>1 DEF InCall, Call
  <2>3. \A u \in Task, b \in Block : ~InCall(call[u], b)
    BY <1>4 DEF InCall
  <2>. QED
    BY <1>0, <1>3, <1>6, <2>1, <2>2, <2>3 DEF Used
<1>11. ASSUME NEW u \in Task PROVE CallInv(call[u])'
  <2>1. CASE u # t
    BY <1>3, <1>4, <2>1 DEF CallInv
  <2>2. CASE u = t
    <3>1. call'[u] = d /\ d.op = "clear" /\ d.offset = r.at /\ d.nmemb = r.len
      BY <1>3, <2>2 DEF Call
    <3>2. \A q \in Pointer : \A b \in BlocksOf(held'[q]) : b \notin BlocksOf(r)
      <4>1. \A q \in Pointer : q # p => BlocksOf(held[q]) \cap BlocksOf(r) = {}
        BY <1>0 DEF H!Disjoint, BlocksOf
      <4>. QED
        BY <1>5, <1>6, <4>1
    <3>3. Apart(call[u])'
      BY <1>1, <3>1, <3>2 DEF Apart
    <3>. QED
      BY <3>1, <3>3 DEF CallInv
  <2>. QED
    BY <2>1, <2>2
<1>. QED
  BY <1>7, <1>8, <1>9, <1>10, <1>11 DEF Books

LEMMA ScanOnBooks ==
    ASSUME IInv, NEW t \in Task, ScanOn(t)
    PROVE  Books'
<1>. DEFINE c == call[t]
            d == Call("scan", c.ptr, c.nmemb, c.offset - 1, Free(c))
<1>0. TypeOK /\ Books
  BY DEF IInv, TypeInv
<1>1. /\ call' = [call EXCEPT ![t] = d] /\ memmap' = memmap /\ held' = held
      /\ call \in [Task -> {NoCall} \cup CallInProgress]
      /\ c.op = "scan" /\ Free(c) # c.nmemb /\ c.offset > 0
  BY <1>0 DEF ScanOn, TypeOK
<1>2. \A u \in Task : u # t => call[u].op = "none"
  BY <1>0, OnlyCall DEF ScanOn, Books
<1>3. /\ c.nmemb \in Nat \ {0} /\ c.offset \in Int /\ c.offset <= N - 1
      /\ c.k \in Int /\ 0 <= c.k /\ c.k < c.nmemb /\ c.k + c.offset <= N - 1
  BY <1>0, <1>1, RunningCall, CallFields DEF ScanOn, IInv, TypeInv, Bounds
<1>4. OneCall'
  BY <1>1, <1>2 DEF OneCall, Busy
<1>5. Lengths' /\ H!Disjoint'
  BY <1>0, <1>1 DEF Books, Lengths, H!Disjoint
<1>6. Used'
  <2>1. \A u \in Task, b \in Block : ~InCall(call[u], b)
    BY <1>1, <1>2 DEF InCall
  <2>. QED
    BY <1>0, <1>1, <2>1 DEF Books, Used
<1>7. held[c.ptr] = NoRun /\ Search(c)
  BY <1>0, <1>1 DEF Books, CallInv
<1>8. Search(d)
  <2>1. d.offset = c.offset - 1 /\ d.k = Free(c) /\ d.nmemb = c.nmemb
    BY DEF Call
  <2>2. CASE memmap[c.offset] = 0
    <3>1. d.k = c.k + 1 /\ c.k + 1 < c.nmemb
      BY <1>1, <1>3, <2>1, <2>2 DEF Free
    <3>2. \A b \in c.offset .. c.offset + c.k : memmap[b] = 0
      BY <1>3, <1>7, <2>2 DEF Search
    <3>3. \A s \in c.offset .. N - c.nmemb :
              \E b \in s .. s + c.nmemb - 1 : memmap[b] # 0
      <4>. SUFFICES ASSUME NEW s \in c.offset .. N - c.nmemb
                    PROVE  \E b \in s .. s + c.nmemb - 1 : memmap[b] # 0
        OBVIOUS
      <4>1. CASE s = c.offset
        <5>1. /\ c.offset + c.k < N - 1
              /\ c.offset + c.k + 1 \in s .. s + c.nmemb - 1
          BY <1>3, <3>1, <4>1, SizeAssumption
        <5>. QED
          BY <1>7, <5>1 DEF Search
      <4>2. CASE s # c.offset
        BY <1>3, <1>7, <4>2, SizeAssumption DEF Search
      <4>. QED
        BY <4>1, <4>2
    <3>. QED
      BY <1>3, <1>7, <2>1, <3>1, <3>2, <3>3, SizeAssumption, SMTT(60) DEF Search
  <2>3. CASE memmap[c.offset] # 0
    <3>1. d.k = 0
      BY <2>1, <2>3 DEF Free
    <3>2. \A s \in c.offset .. N - c.nmemb :
              \E b \in s .. s + c.nmemb - 1 : memmap[b] # 0
      <4>. SUFFICES ASSUME NEW s \in c.offset .. N - c.nmemb
                    PROVE  \E b \in s .. s + c.nmemb - 1 : memmap[b] # 0
        OBVIOUS
      <4>1. CASE s = c.offset
        BY <1>3, <2>3, <4>1
      <4>2. CASE s # c.offset
        BY <1>3, <1>7, <4>2, SizeAssumption DEF Search
      <4>. QED
        BY <4>1, <4>2
    <3>. QED
      BY <1>3, <2>1, <2>3, <3>1, <3>2, SizeAssumption, SMTT(30) DEF Search
  <2>. QED
    BY <2>2, <2>3
<1>9. ASSUME NEW u \in Task PROVE CallInv(call[u])'
  <2>1. CASE u # t
    BY <1>1, <1>2, <2>1 DEF CallInv
  <2>2. CASE u = t
    <3>1. call'[u] = d /\ d.op = "scan" /\ d.ptr = c.ptr
      BY <1>1, <2>2 DEF Call
    <3>2. Search(call[u])'
      BY <1>1, <1>8, <3>1 DEF Search
    <3>. QED
      BY <1>1, <1>7, <3>1, <3>2 DEF CallInv
  <2>. QED
    BY <2>1, <2>2
<1>. QED
  BY <1>4, <1>5, <1>6, <1>9 DEF Books

LEMMA ScanFoundBooks ==
    ASSUME IInv, NEW t \in Task, ScanFound(t)
    PROVE  Books'
<1>. DEFINE c == call[t]
            d == Call("mark", c.ptr, c.nmemb, c.offset, 0)
<1>0. TypeOK /\ Books
  BY DEF IInv, TypeInv
<1>1. /\ call' = [call EXCEPT ![t] = d] /\ memmap' = memmap /\ held' = held
      /\ call \in [Task -> {NoCall} \cup CallInProgress]
      /\ c.op = "scan" /\ Free(c) = c.nmemb
  BY <1>0 DEF ScanFound, TypeOK
<1>2. \A u \in Task : u # t => call[u].op = "none"
  BY <1>0, OnlyCall DEF ScanFound, Books
<1>3. /\ c.nmemb \in Nat \ {0} /\ c.offset \in Int /\ c.offset <= N - 1
      /\ c.k \in Int /\ 0 <= c.k
  BY <1>0, <1>1, RunningCall, CallFields DEF ScanFound
<1>4. OneCall'
  BY <1>1, <1>2 DEF OneCall, Busy
<1>5. Lengths' /\ H!Disjoint'
  BY <1>0, <1>1 DEF Books, Lengths, H!Disjoint
<1>6. Used'
  <2>1. \A u \in Task, b \in Block : ~InCall(call[u], b)
    BY <1>1, <1>2 DEF InCall
  <2>. QED
    BY <1>0, <1>1, <2>1 DEF Books, Used
<1>7. held[c.ptr] = NoRun /\ Search(c)
  BY <1>0, <1>1 DEF Books, CallInv
<1>8. \A b \in c.offset .. c.offset + c.nmemb - 1 : memmap[b] = 0
  BY <1>1, <1>3, <1>7 DEF Free, Search
<1>9. \A p \in Pointer : \A b \in BlocksOf(held[p]) : memmap[b] # 0
  <2>. SUFFICES ASSUME NEW p \in Pointer, NEW b \in BlocksOf(held[p])
                PROVE  memmap[b] # 0
    OBVIOUS
  <2>1. held[p].len \in 1 .. N
    BY <1>0, RunFacts
  <2>2. memmap[b] = held[p].len
    BY <1>0 DEF Books, Lengths
  <2>. QED
    BY <2>1, <2>2
<1>10. ASSUME NEW u \in Task PROVE CallInv(call[u])'
  <2>1. CASE u # t
    BY <1>1, <1>2, <2>1 DEF CallInv
  <2>2. CASE u = t
    <3>1. /\ call'[u] = d /\ d.op = "mark" /\ d.ptr = c.ptr /\ d.k = 0
          /\ d.offset = c.offset /\ d.nmemb = c.nmemb
      BY <1>1, <2>2 DEF Call
    <3>2. Apart(call[u])'
      BY <1>1, <1>8, <1>9, <3>1 DEF Apart
    <3>3. Marked(call[u])'
      BY <1>3, <3>1 DEF Marked
    <3>. QED
      BY <1>1, <1>7, <3>1, <3>2, <3>3 DEF CallInv
  <2>. QED
    BY <2>1, <2>2
<1>. QED
  BY <1>4, <1>5, <1>6, <1>10 DEF Books

LEMMA ScanFailedBooks ==
    ASSUME IInv, NEW t \in Task, ScanFailed(t)
    PROVE  Books'
<1>0. TypeOK /\ Books
  BY DEF IInv, TypeInv
<1>1. /\ call' = [call EXCEPT ![t] = NoCall] /\ memmap' = memmap /\ held' = held
      /\ call \in [Task -> {NoCall} \cup CallInProgress]
      /\ call[t].op = "scan"
  BY <1>0 DEF ScanFailed, TypeOK
<1>2. \A u \in Task : u # t => call[u].op = "none"
  BY <1>0, OnlyCall DEF ScanFailed, Books
<1>3. \A u \in Task : call'[u].op = "none"
  BY <1>1, <1>2 DEF NoCall
<1>4. OneCall' /\ \A u \in Task : CallInv(call[u])'
  BY <1>3 DEF OneCall, Busy, CallInv
<1>5. Lengths' /\ H!Disjoint'
  BY <1>0, <1>1 DEF Books, Lengths, H!Disjoint
<1>6. Used'
  <2>1. \A u \in Task, b \in Block : ~InCall(call[u], b)
    BY <1>1, <1>2 DEF InCall
  <2>. QED
    BY <1>0, <1>1, <2>1 DEF Books, Used
<1>. QED
  BY <1>4, <1>5, <1>6 DEF Books

(* What a turn of a loop leaves of the call, and of the calls.             *)
LEMMA StepFacts ==
    ASSUME TypeInv, Books, NEW t \in Task, Running(t), Step(t),
           call[t].op \in {"mark", "clear"}
    PROVE  /\ \A u \in Task : u # t => call[u].op = "none" /\ call'[u] = call[u]
           /\ call[t].k + 1 = call[t].nmemb => call'[t] = NoCall
           /\ call[t].k + 1 # call[t].nmemb =>
                /\ call'[t].op = call[t].op /\ call'[t].ptr = call[t].ptr
                /\ call'[t].nmemb = call[t].nmemb
                /\ call'[t].offset = call[t].offset
                /\ call'[t].k = call[t].k + 1
           /\ OneCall'
<1>1. \A u \in Task : u # t => call[u].op = "none"
  BY OnlyCall DEF Books
<1>2. call \in [Task -> {NoCall} \cup CallInProgress]
  BY DEF TypeInv, TypeOK
<1>3. \A u \in Task : u # t => call'[u] = call[u]
  BY <1>2 DEF Step
<1>4. call'[t] = IF call[t].k + 1 = call[t].nmemb THEN NoCall
                 ELSE Call(call[t].op, call[t].ptr, call[t].nmemb,
                           call[t].offset, call[t].k + 1)
  BY <1>2 DEF Step
<1>5. OneCall'
  BY <1>1, <1>3 DEF OneCall, Busy
<1>. QED
  BY <1>1, <1>3, <1>4, <1>5 DEF Call

LEMMA MarkBooks ==
    ASSUME IInv, NEW t \in Task, Mark(t)
    PROVE  Books'
<1>. DEFINE c == call[t]
            r == [at |-> c.offset, len |-> c.nmemb]
<1>0. TypeOK /\ TypeInv /\ Books
  BY DEF IInv, TypeInv
<1>1. Running(t) /\ Step(t) /\ c.op = "mark"
  BY DEF Mark
<1>2. /\ c.nmemb \in Nat \ {0} /\ c.offset \in Int /\ 0 <= c.offset
      /\ c.k \in Int /\ 0 <= c.k /\ c.k < c.nmemb /\ c.offset + c.nmemb <= N
      /\ c.ptr \in Pointer
  BY <1>0, <1>1, RunningCall, CallFields DEF TypeInv, Bounds
<1>3. \A b \in Block : memmap'[b] = IF b = c.offset + c.k THEN c.nmemb ELSE memmap[b]
  BY DEF Mark, Store
<1>4. held[c.ptr] = NoRun /\ Apart(c) /\ Marked(c)
  BY <1>0, <1>1 DEF Books, CallInv
<1>5. \A p \in Pointer : BlocksOf(held[p]) \subseteq Block
  BY <1>0, RunFacts
<1>6. \A p \in Pointer : \A b \in BlocksOf(held[p]) : memmap'[b] = held[p].len
  <2>1. c.offset + c.k \in c.offset .. c.offset + c.nmemb - 1
    BY <1>2
  <2>. QED
    BY <1>0, <1>3, <1>4, <1>5, <2>1 DEF Apart, Books, Lengths
<1>7. \A b \in c.offset .. c.offset + c.k : memmap'[b] = c.nmemb
  <2>1. \A b \in c.offset .. c.offset + c.k : b \in Block
    BY <1>2, SizeAssumption DEF Block
  <2>2. \A b \in c.offset .. c.offset + c.k :
            b # c.offset + c.k => b \in c.offset .. c.offset + c.k - 1
    BY <1>2
  <2>. QED
    BY <1>3, <1>4, <2>1, <2>2 DEF Marked
<1>8. \A b \in Block : memmap'[b] # 0 =>
          \/ \E p \in Pointer : b \in BlocksOf(held[p])
          \/ b \in c.offset .. c.offset + c.k
  <2>1. \A u \in Task : \A b \in Block :
            InCall(call[u], b) => b \in c.offset .. c.offset + c.k - 1
    BY <1>0, <1>1, StepFacts DEF InCall
  <2>2. \A b \in Block : memmap[b] # 0 =>
          \/ \E p \in Pointer : b \in BlocksOf(held[p])
          \/ b \in c.offset .. c.offset + c.k - 1
    BY <1>0, <2>1 DEF Books, Used
  <2>3. c.offset + c.k \in c.offset .. c.offset + c.k
    BY <1>2
  <2>4. \A b \in c.offset .. c.offset + c.k - 1 : b \in c.offset .. c.offset + c.k
    BY <1>2
  <2>. QED
    BY <1>3, <2>2, <2>3, <2>4
<1>9. CASE c.k + 1 # c.nmemb
  <2>1. /\ held' = held /\ call'[t].op = "mark" /\ call'[t].ptr = c.ptr
        /\ call'[t].nmemb = c.nmemb /\ call'[t].offset = c.offset
        /\ call'[t].k = c.k + 1
        /\ \A u \in Task : u # t => call'[u].op = "none"
        /\ OneCall'
    BY <1>0, <1>1, <1>9, StepFacts DEF Mark
  <2>2. Lengths' /\ H!Disjoint'
    BY <1>0, <1>6, <2>1 DEF Books, Lengths, H!Disjoint
  <2>3. Used'
    <3>1. \A b \in c.offset .. c.offset + c.k : InCall(call[t], b)'
      BY <1>2, <2>1 DEF InCall
    <3>. QED
      BY <1>8, <2>1, <3>1 DEF Used
  <2>4. ASSUME NEW u \in Task PROVE CallInv(call[u])'
    <3>1. CASE u # t
      BY <2>1, <3>1 DEF CallInv
    <3>2. CASE u = t
      <4>1. Apart(call[u])'
        BY <1>4, <2>1, <3>2 DEF Apart
      <4>2. Marked(call[u])'
        BY <1>2, <1>7, <2>1, <3>2 DEF Marked
      <4>. QED
        BY <1>4, <2>1, <3>2, <4>1, <4>2 DEF CallInv
    <3>. QED
      BY <3>1, <3>2
  <2>. QED
    BY <2>1, <2>2, <2>3, <2>4 DEF Books
<1>10. CASE c.k + 1 = c.nmemb
  <2>1. /\ held' = [held EXCEPT ![c.ptr] = r]
        /\ \A u \in Task : call'[u].op = "none"
        /\ OneCall'
    BY <1>0, <1>1, <1>10, StepFacts DEF Mark, NoCall
  <2>2. \A p \in Pointer : held'[p] = IF p = c.ptr THEN r ELSE held[p]
    BY <1>0, <2>1 DEF TypeOK
  <2>3. /\ BlocksOf(r) = c.offset .. c.offset + c.k /\ r.len = c.nmemb
        /\ H!BlocksOf(r) = c.offset .. c.offset + c.nmemb - 1
    BY <1>2, <1>10 DEF BlocksOf, H!BlocksOf
  <2>4. Lengths'
    BY <1>6, <1>7, <2>2, <2>3 DEF Lengths
  <2>5. H!Disjoint'
    <3>1. \A p \in Pointer : H!BlocksOf(held[p]) \cap H!BlocksOf(r) = {}
      BY <1>4, <2>3 DEF Apart, BlocksOf
    <3>. QED
      BY <1>0, <2>2, <3>1 DEF Books, H!Disjoint
  <2>6. Used'
    <3>1. BlocksOf(held[c.ptr]) = {}
      BY <1>0, <1>2, <1>4, RunFacts
    <3>. QED
      BY <1>2, <1>8, <2>2, <2>3, <3>1 DEF Used
  <2>7. \A u \in Task : CallInv(call[u])'
    BY <2>1 DEF CallInv
  <2>. QED
    BY <2>1, <2>4, <2>5, <2>6, <2>7 DEF Books
<1>. QED
  BY <1>9, <1>10

LEMMA ClearBooks ==
    ASSUME IInv, NEW t \in Task, Clear(t)
    PROVE  Books'
<1>. DEFINE c == call[t]
<1>0. TypeOK /\ TypeInv /\ Books
  BY DEF IInv, TypeInv
<1>1. Running(t) /\ Step(t) /\ c.op = "clear" /\ held' = held
  BY DEF Clear
<1>2. /\ c.nmemb \in Nat \ {0} /\ c.offset \in Int
      /\ c.k \in Int /\ 0 <= c.k /\ c.k < c.nmemb
  BY <1>0, <1>1, RunningCall, CallFields DEF TypeInv, Bounds
<1>3. \A b \in Block : memmap'[b] = IF b = c.offset + c.k THEN 0 ELSE memmap[b]
  BY DEF Clear, Store
<1>4. Apart(c)
  BY <1>0, <1>1 DEF Books, CallInv
<1>5. Lengths' /\ H!Disjoint'
  <2>1. c.offset + c.k \in c.offset .. c.offset + c.nmemb - 1
    BY <1>2
  <2>2. \A p \in Pointer : BlocksOf(held[p]) \subseteq Block
    BY <1>0, RunFacts
  <2>. QED
    BY <1>0, <1>1, <1>3, <1>4, <2>1, <2>2
       DEF Apart, Books, Lengths, H!Disjoint
<1>6. /\ \A u \in Task : u # t => call[u].op = "none" /\ call'[u] = call[u]
      /\ OneCall'
  BY <1>0, <1>1, StepFacts
<1>7. \A b \in Block : memmap'[b] # 0 =>
          \/ \E p \in Pointer : b \in BlocksOf(held[p])
          \/ b \in c.offset + (c.k + 1) .. c.offset + c.nmemb - 1
  <2>1. \A u \in Task : \A b \in Block :
            InCall(call[u], b) => b \in c.offset + c.k .. c.offset + c.nmemb - 1
    BY <1>1, <1>6 DEF InCall
  <2>2. \A b \in Block : memmap[b] # 0 =>
          \/ \E p \in Pointer : b \in BlocksOf(held[p])
          \/ b \in c.offset + c.k .. c.offset + c.nmemb - 1
    BY <1>0, <2>1 DEF Books, Used
  <2>3. \A b \in c.offset + c.k .. c.offset + c.nmemb - 1 : b # c.offset + c.k =>
            b \in c.offset + (c.k + 1) .. c.offset + c.nmemb - 1
    BY <1>2
  <2>. QED
    BY <1>3, <2>2, <2>3
<1>8. CASE c.k + 1 # c.nmemb
  <2>1. /\ call'[t].op = "clear" /\ call'[t].nmemb = c.nmemb
        /\ call'[t].offset = c.offset /\ call'[t].k = c.k + 1
    BY <1>0, <1>1, <1>8, StepFacts
  <2>2. Used'
    BY <1>1, <1>7, <2>1 DEF Used, InCall
  <2>3. \A u \in Task : CallInv(call[u])'
    BY <1>1, <1>4, <1>6, <2>1 DEF CallInv, Apart
  <2>. QED
    BY <1>5, <1>6, <2>2, <2>3 DEF Books
<1>9. CASE c.k + 1 = c.nmemb
  <2>1. \A u \in Task : call'[u].op = "none"
    BY <1>0, <1>1, <1>6, <1>9, StepFacts DEF NoCall
  <2>2. Used'
    BY <1>1, <1>2, <1>7, <1>9 DEF Used
  <2>3. \A u \in Task : CallInv(call[u])'
    BY <2>1 DEF CallInv
  <2>. QED
    BY <1>5, <1>6, <2>2, <2>3 DEF Books
<1>. QED
  BY <1>8, <1>9

LEMMA NextBooks == ~Preemptive /\ IInv /\ [Next]_vars => Books'
<1>. SUFFICES ASSUME ~Preemptive, IInv, [Next]_vars PROVE Books'
  OBVIOUS
<1>1. CASE UNCHANGED vars
  BY <1>1 DEF IInv, Books, vars, OneCall, Busy, Lengths, Used, InCall,
              H!Disjoint, CallInv, Search, Apart, Marked
<1>2. CASE Next
  BY <1>2, BeginMallocBooks, BeginFreeBooks, ScanOnBooks, ScanFoundBooks,
     ScanFailedBooks, MarkBooks, ClearBooks DEF Next
<1>. QED
  BY <1>1, <1>2

(* The books are right at every access to the table.                      *)
THEOREM Inductive == ~Preemptive /\ Spec => []IInv
<1>. SUFFICES ASSUME ~Preemptive PROVE Spec => []IInv
  OBVIOUS
<1>1. Init => IInv
  BY InitTypeInv, InitBooks DEF IInv
<1>2. IInv /\ [Next]_vars => IInv'
  BY NextTypeInv, NextBooks DEF IInv
<1>. QED
  BY <1>1, <1>2, PTL DEF Spec

(* The table tells the truth about the pointers in use: my_mem_free finds  *)
(* the length of their run in it, my_mem_perused counts their blocks.      *)
THEOREM TableRight == ~Preemptive /\ Spec => []TableAgrees
<1>. SUFFICES ASSUME ~Preemptive PROVE Spec => []TableAgrees
  OBVIOUS
<1>1. IInv => TableAgrees
  <2>. SUFFICES ASSUME IInv PROVE TableAgrees
    OBVIOUS
  <2>1. ASSUME \A t \in Task : ~Busy(t)
        PROVE  \A t \in Task, b \in Block : ~InCall(call[t], b)
    BY <2>1 DEF Busy, InCall
  <2>. QED
    BY <2>1 DEF IInv, Books, Lengths, Used, TableAgrees
<1>. QED
  BY <1>1, Inductive, PTL

(* mymalloc fails only when no run of the length asked for is unused: the  *)
(* search that reaches the bottom of the table has passed over none.       *)
THEOREM FailureIsReal == ~Preemptive /\ Spec => FailsOnlyWhenFull
<1>. SUFFICES ASSUME ~Preemptive PROVE Spec => FailsOnlyWhenFull
  OBVIOUS
<1>1. IInv /\ [Next]_vars =>
        [\A t \in Task : ScanFailed(t) =>
           \A r \in Run : r.len = call[t].nmemb => ~H!Unused(r)]_vars
  <2>. SUFFICES ASSUME IInv, NEW t \in Task, ScanFailed(t), NEW r \in Run,
                       r.len = call[t].nmemb, H!Unused(r)
                PROVE  FALSE
    OBVIOUS
  <2>. DEFINE c == call[t]
  <2>0. TypeOK /\ Books
    BY DEF IInv, TypeInv
  <2>1. Running(t) /\ c.op = "scan" /\ Free(c) # c.nmemb /\ c.offset = 0
    BY DEF ScanFailed
  <2>2. /\ c.nmemb \in Nat \ {0} /\ c.k \in Int /\ 0 <= c.k
        /\ c.k < c.nmemb /\ c.k <= N - 1
    BY <2>0, <2>1, RunningCall, CallFields, SizeAssumption
       DEF IInv, TypeInv, Bounds
  <2>3. Search(c)
    BY <2>0, <2>1 DEF Books, CallInv
  <2>4. r.at \in 0 .. N - 1 /\ r.at + c.nmemb <= N
    BY DEF Run, H!Run
  <2>5. \E b \in r.at .. r.at + c.nmemb - 1 : memmap[b] # 0
    <3>1. CASE r.at # 0
      BY <2>1, <2>2, <2>3, <2>4, <3>1, SizeAssumption DEF Search
    <3>2. CASE r.at = 0 /\ memmap[0] # 0
      BY <2>2, <3>2
    <3>3. CASE r.at = 0 /\ memmap[0] = 0
      <4>1. c.k + 1 < c.nmemb
        BY <2>1, <2>2, <3>3 DEF Free
      <4>2. 0 + c.k < N - 1 /\ c.k + 1 \in 0 .. 0 + c.nmemb - 1
        BY <2>2, <2>4, <3>3, <4>1, SizeAssumption
      <4>. QED
        BY <2>1, <2>2, <2>3, <3>3, <4>2 DEF Search
    <3>. QED
      BY <3>1, <3>2, <3>3
  <2>6. PICK b \in r.at .. r.at + c.nmemb - 1 : memmap[b] # 0
    BY <2>5
  <2>7. b \in Block /\ b \in H!BlocksOf(r)
    BY <2>2, <2>4, <2>6, SizeAssumption DEF Block, H!BlocksOf
  <2>8. \A u \in Task : ~InCall(call[u], b)
    BY <2>0, <2>1, OnlyCall DEF Books, InCall
  <2>9. PICK p \in Pointer : b \in BlocksOf(held[p])
    BY <2>0, <2>6, <2>7, <2>8 DEF Books, Used
  <2>. QED
    BY <2>7, <2>9 DEF H!Unused, BlocksOf
<1>. QED
  BY <1>1, Inductive, PTL DEF Spec, FailsOnlyWhenFull

(* malloc.c implements Heap: a run it hands out meets no run in use, and   *)
(* only myfree takes a run back (mymalloc, myfree).                        *)
THEOREM Implements == ~Preemptive /\ Spec => HeapSpec
<1>. SUFFICES ASSUME ~Preemptive PROVE Spec => HeapSpec
  OBVIOUS
<1>1. Init => H!Init
  BY DEF Init, H!Init, NoRun
<1>2. IInv /\ [Next]_vars => [H!Next]_held
  <2>. SUFFICES ASSUME IInv, Next PROVE H!Next \/ held' = held
    BY DEF vars
  <2>0. TypeOK /\ TypeInv /\ Books
    BY DEF IInv, TypeInv
  <2>1. ASSUME NEW t \in Task, NEW p \in Pointer, BeginFree(t, p)
        PROVE  H!Next
    BY <2>1 DEF BeginFree, H!Next, H!Release, NoRun
  <2>2. ASSUME NEW t \in Task, Mark(t)
        PROVE  H!Next \/ held' = held
    <3>. DEFINE c == call[t]
                r == [at |-> c.offset, len |-> c.nmemb]
    <3>1. CASE c.k + 1 # c.nmemb
      BY <2>2, <3>1 DEF Mark
    <3>2. CASE c.k + 1 = c.nmemb
      <4>1. held' = [held EXCEPT ![c.ptr] = r] /\ c.op = "mark" /\ Running(t)
        BY <2>2, <3>2 DEF Mark
      <4>2. /\ c.nmemb \in Nat \ {0} /\ c.offset \in Int /\ 0 <= c.offset
            /\ c.offset + c.nmemb <= N /\ c.ptr \in Pointer
        BY <2>0, <4>1, RunningCall, CallFields DEF TypeInv, Bounds
      <4>3. r \in H!Run
        BY <4>2, SizeAssumption DEF H!Run
      <4>4. held[c.ptr] = NoRun /\ Apart(c)
        BY <2>0, <4>1 DEF Books, CallInv
      <4>5. H!Unused(r)
        BY <4>4 DEF Apart, H!Unused, BlocksOf, H!BlocksOf
      <4>. QED
        BY <4>1, <4>2, <4>3, <4>4, <4>5 DEF H!Next, H!Alloc, NoRun
    <3>. QED
      BY <3>1, <3>2
  <2>. QED
    BY <2>1, <2>2 DEF Next, BeginMalloc, ScanOn, ScanFound, ScanFailed, Clear
<1>. QED
  BY <1>1, <1>2, Inductive, PTL DEF Spec, HeapSpec, H!Spec

-----------------------------------------------------------------------------
(***************************************************************************)
(* Camera.                                                                 *)
(***************************************************************************)

WordType == [n : Nat, age : 0 .. 2]

Sending == {"send", "end", "broken"}

CameraType ==
    /\ pc \in {"idle", "auth", "camera", "video", "wait1", "wait2", "wait3", "stop"}
                 \cup Sending
    /\ jpeg_data_ok \in 0 .. 2
    /\ data \in Seq(WordType)
    /\ enabled \in BOOLEAN /\ target \in {0, 1} /\ count \in 1 .. DMASIZE
    /\ buffer \in [{0, 1} -> [1 .. DMASIZE -> WordType]]
    /\ capture \in {"off", "on", "stopping"} /\ w \in 0 .. MaxFrame
    /\ capture = "off" => w = 0

(* The words that are in jpeg_data_buf or will be when the buffer that is  *)
(* being filled is copied.                                                 *)
Coming == Len(data) + (DMASIZE - count)

(* What has come, by how far the task is with the frames it lets go by.    *)
(* The first is captured behind what may be left of a picture that was not *)
(* sent, and from the middle of a buffer; so is the second, but behind     *)
(* nothing; the third begins with its buffer.                              *)
NoFilm ==
    /\ pc \in {"idle", "auth", "camera", "video"} \cup Sending /\ capture = "off"
    /\ ~enabled
    /\ \/ jpeg_data_ok = 0 /\ Coming = 0
       \/ jpeg_data_ok = 1 /\ Len(data) <= MaxFrame
VeryFirst == pc = "wait1" /\ jpeg_data_ok = 0 /\ enabled /\ Coming <= w
Behind ==
    /\ \/ pc = "wait1" /\ jpeg_data_ok = 1
       \/ pc = "wait2" /\ jpeg_data_ok = 2
    /\ enabled => Coming <= MaxFrame + (DMASIZE - 1) + w
    /\ ~enabled => Len(data) <= MaxFrame
Second == pc = "wait2" /\ jpeg_data_ok = 0 /\ enabled /\ Coming <= w + (DMASIZE - 1)
SecondSeen ==
    /\ \/ pc = "wait2" /\ jpeg_data_ok = 1
       \/ pc = "wait3" /\ jpeg_data_ok = 2
    /\ ~enabled /\ Len(data) <= MaxFrame + (DMASIZE - 1)
Third == pc = "wait3" /\ jpeg_data_ok = 0 /\ enabled /\ Coming <= w
ThirdSeen ==
    pc \in {"wait3", "stop"} /\ jpeg_data_ok = 1 /\ ~enabled /\ Len(data) <= MaxFrame

Filled ==
    \/ NoFilm \/ VeryFirst \/ Behind \/ Second \/ SecondSeen \/ Third \/ ThirdSeen

CameraInv == CameraType /\ Filled

-----------------------------------------------------------------------------
(* The stream.                                                             *)

LEMMA SmallerOfTwo ==
  ASSUME NEW a \in Nat
  PROVE  Min({a, 2}) \in 0 .. 2
  <1>1. CASE a <= 2
    BY <1>1 DEF Min
  <1>2. CASE 2 < a
    BY <1>2 DEF Min
  <1>3. QED  BY <1>1, <1>2

LEMMA AgedSeq ==
  ASSUME NEW s \in Seq(WordType)
  PROVE  Aged(s) \in Seq(WordType) /\ Len(Aged(s)) = Len(s)
  <1>1. DOMAIN s = 1 .. Len(s) /\ Len(s) \in Nat
    OBVIOUS
  <1>2. ASSUME NEW i \in 1 .. Len(s)
        PROVE  [s[i] EXCEPT !.age = Min({@ + 1, 2})] \in WordType
    <2>1. s[i] \in WordType
      OBVIOUS
    <2>2. s[i].age + 1 \in Nat
      BY <2>1 DEF WordType
    <2>3. Min({s[i].age + 1, 2}) \in 0 .. 2
      BY <2>2, SmallerOfTwo
    <2>4. QED  BY <2>1, <2>3 DEF WordType
  <1>3. Aged(s) \in [1 .. Len(s) -> WordType]
    BY <1>1, <1>2 DEF Aged
  <1>4. QED  BY <1>1, <1>3

LEMMA AgedBuffer ==
  ASSUME NEW b \in [1 .. DMASIZE -> WordType]
  PROVE  Aged(b) \in [1 .. DMASIZE -> WordType]
  <1>1. DMASIZE \in Nat
    BY CameraAssumption
  <1>2. b \in Seq(WordType) /\ Len(b) = DMASIZE
    BY <1>1
  <1>3. Aged(b) \in Seq(WordType) /\ Len(Aged(b)) = DMASIZE
    BY <1>2, AgedSeq
  <1>4. QED  BY <1>3

(* A word moved is one more of those to come.                              *)
LEMMA MoveFills ==
  ASSUME CameraType, w < MaxFrame, Move
  PROVE  /\ data' \in Seq(WordType) /\ target' \in {0, 1} /\ count' \in 1 .. DMASIZE
         /\ buffer' \in [{0, 1} -> [1 .. DMASIZE -> WordType]]
         /\ Coming' = Coming + 1
         /\ UNCHANGED enabled
  <1> DEFINE last == IF w = 0 THEN [b \in {0, 1} |-> Aged(buffer[b])] ELSE buffer
             kept == IF w = 0 THEN Aged(data) ELSE data
             filled == [last EXCEPT ![target][pos] = Word(w + 1)]
  <1>1. /\ buffer' = filled /\ UNCHANGED enabled
        /\ \/ /\ count = 1 /\ target' = 1 - target /\ count' = DMASIZE
              /\ data' = kept \o filled[target]
           \/ count # 1 /\ count' = count - 1 /\ data' = kept /\ UNCHANGED target
    BY DEF Move
  <1>2. DMASIZE \in Nat \ {0} /\ Word(w + 1) \in WordType /\ target \in {0, 1}
        /\ count \in 1 .. DMASIZE
    BY CameraAssumption DEF CameraType, Word, WordType
  <1>3. kept \in Seq(WordType) /\ Len(kept) = Len(data) /\ Len(data) \in Nat
    BY AgedSeq DEF CameraType
  <1>4. last \in [{0, 1} -> [1 .. DMASIZE -> WordType]]
    BY AgedBuffer DEF CameraType
  <1> HIDE DEF kept, last
  <1>5. filled \in [{0, 1} -> [1 .. DMASIZE -> WordType]]
    BY <1>2, <1>4
  <1> HIDE DEF filled
  <1>6. filled[target] \in Seq(WordType) /\ Len(filled[target]) = DMASIZE
    <2>1. filled[target] \in [1 .. DMASIZE -> WordType]
      BY <1>2, <1>5
    <2>2. QED  BY <1>2, <2>1
  <1>7. CASE count = 1
    <2>1. data' \in Seq(WordType) /\ Len(data') = Len(data) + DMASIZE
      <3>1. /\ kept \o filled[target] \in Seq(WordType)
            /\ Len(kept \o filled[target]) = Len(kept) + Len(filled[target])
        BY <1>3, <1>6
      <3>2. QED  BY <1>1, <1>3, <1>6, <1>7, <3>1
    <2>2. QED  BY <1>1, <1>2, <1>3, <1>5, <1>7, <2>1 DEF Coming
  <1>8. CASE count # 1
    <2>1. count' = count - 1 /\ count - 1 \in 1 .. DMASIZE /\ data' = kept
          /\ Len(data') = Len(data) /\ target' = target
      BY <1>1, <1>2, <1>3, <1>8
    <2>2. Coming' = Coming + 1
      BY <1>2, <1>3, <2>1 DEF Coming
    <2>3. QED  BY <1>1, <1>2, <1>3, <1>5, <2>1, <2>2
  <1>9. QED  BY <1>7, <1>8

(* At the end of a frame the words of the buffer being filled are copied.  *)
LEMMA CollectCopies ==
  ASSUME CameraType, Collect
  PROVE  /\ data' \in Seq(WordType) /\ Len(data') = Coming
         /\ jpeg_data_ok = 0 /\ jpeg_data_ok' = 1 /\ ~enabled'
         /\ UNCHANGED <<target, count, buffer>>
  <1> DEFINE rest == SubSeq(buffer[target], 1, DMASIZE - count)
  <1>1. DMASIZE \in Nat \ {0} /\ count \in 1 .. DMASIZE /\ data \in Seq(WordType)
        /\ buffer[target] \in [1 .. DMASIZE -> WordType]
    BY CameraAssumption DEF CameraType
  <1>2. buffer[target] \in Seq(WordType) /\ Len(buffer[target]) = DMASIZE
    BY <1>1
  <1>3. rest \in Seq(WordType) /\ Len(rest) = DMASIZE - count
    <2>1. DMASIZE - count \in Nat /\ DMASIZE - count <= DMASIZE
      BY <1>1
    <2>2. QED  BY <1>2, <2>1
  <1> HIDE DEF rest
  <1>4. data \o rest \in Seq(WordType) /\ Len(data \o rest) = Len(data) + Len(rest)
    BY <1>1, <1>3
  <1>5. data' = data \o rest
    BY DEF Collect, rest
  <1>6. QED  BY <1>3, <1>4, <1>5 DEF Collect, Coming

LEMMA Counts ==
  CameraType => /\ Len(data) \in Nat /\ Coming \in Nat /\ Len(data) <= Coming
                /\ w \in Nat /\ MaxFrame \in Nat /\ DMASIZE \in Nat /\ DMASIZE >= 1
  BY CameraAssumption DEF CameraType, Coming

-----------------------------------------------------------------------------
(* Steps.                                                                  *)

LEMMA InitCamera == CameraInit => CameraInv
  <1> SUFFICES ASSUME CameraInit PROVE CameraInv
    OBVIOUS
  <1>1. DMASIZE \in Nat \ {0} /\ MaxFrame \in Nat
    BY CameraAssumption
  <1>2. /\ data = <<>> /\ Len(data) = 0 /\ data \in Seq(WordType)
        /\ count = DMASIZE /\ Old \in WordType
    BY DEF CameraInit, Old, WordType
  <1>3. CameraType
    BY <1>1, <1>2 DEF CameraInit, CameraType
  <1>4. NoFilm
    BY <1>1, <1>2 DEF CameraInit, NoFilm, Coming
  <1>5. QED  BY <1>3, <1>4 DEF CameraInv, Filled

LEMMA PortWordInv ==
  ASSUME CameraInv, PortWord
  PROVE  CameraInv'
  <1>1. /\ CameraType /\ w < MaxFrame /\ w' = w + 1
        /\ capture # "off" /\ UNCHANGED <<pc, jpeg_data_ok, capture>>
        /\ \/ enabled /\ Move
           \/ ~enabled /\ UNCHANGED <<streamVars, data>>
    BY DEF CameraInv, PortWord
  <1>2. /\ Len(data) \in Nat /\ Coming \in Nat /\ w \in Nat /\ w' \in 0 .. MaxFrame
        /\ MaxFrame \in Nat /\ DMASIZE \in Nat
    BY <1>1, Counts
  <1>3. ~NoFilm
    BY <1>1 DEF NoFilm
  <1>4. CASE enabled /\ Move
    <2>1. /\ data' \in Seq(WordType) /\ target' \in {0, 1} /\ count' \in 1 .. DMASIZE
          /\ buffer' \in [{0, 1} -> [1 .. DMASIZE -> WordType]]
          /\ Coming' = Coming + 1 /\ enabled' /\ enabled' = enabled
      BY <1>1, <1>4, MoveFills
    <2>2. CameraType'
      BY <1>1, <1>2, <2>1 DEF CameraType
    <2>3. VeryFirst \/ Behind \/ Second \/ Third
      BY <1>3, <1>4 DEF CameraInv, Filled, SecondSeen, ThirdSeen
    <2>4. VeryFirst' \/ Behind' \/ Second' \/ Third'
      BY <1>1, <1>2, <1>4, <2>1, <2>3 DEF VeryFirst, Behind, Second, Third
    <2>5. QED  BY <2>2, <2>4 DEF CameraInv, Filled
  <1>5. CASE ~enabled /\ UNCHANGED <<streamVars, data>>
    <2>1. UNCHANGED <<enabled, target, count, buffer, data>>
      BY <1>5 DEF streamVars
    <2>2. CameraType'
      BY <1>1, <1>2, <2>1 DEF CameraType
    <2>3. Behind \/ SecondSeen \/ ThirdSeen
      BY <1>3, <1>5 DEF CameraInv, Filled, VeryFirst, Second, Third
    <2>4. Behind' \/ SecondSeen' \/ ThirdSeen'
      BY <1>1, <1>5, <2>1, <2>3 DEF Behind, SecondSeen, ThirdSeen
    <2>5. QED  BY <2>2, <2>4 DEF CameraInv, Filled
  <1>6. QED  BY <1>1, <1>4, <1>5

LEMMA FrameEndInv ==
  ASSUME CameraInv, FrameEnd
  PROVE  CameraInv'
  <1>1. /\ CameraType /\ w > 0 /\ w' = 0 /\ UNCHANGED pc /\ Prompt
        /\ capture # "off" /\ capture' \in {"off", "on", "stopping"}
        /\ \/ Collect
           \/ Restart
           \/ jpeg_data_ok = 1 /\ UNCHANGED <<jpeg_data_ok, data, streamVars>>
    BY DEF CameraInv, FrameEnd, CameraType
  <1>2. /\ Len(data) \in Nat /\ Coming \in Nat /\ w \in 0 .. MaxFrame
        /\ MaxFrame \in Nat /\ DMASIZE \in Nat /\ DMASIZE >= 1
    BY <1>1, Counts DEF CameraType
  <1>3. ~NoFilm
    BY <1>1 DEF NoFilm
  <1>4. CASE Collect
    <2>1. /\ data' \in Seq(WordType) /\ Len(data') = Coming
          /\ jpeg_data_ok = 0 /\ jpeg_data_ok' = 1 /\ ~enabled' /\ enabled' = FALSE
          /\ UNCHANGED <<target, count, buffer>>
      BY <1>1, <1>4, CollectCopies DEF Collect
    <2>2. CameraType'
      <3>1. w' \in 0 .. MaxFrame /\ jpeg_data_ok' \in 0 .. 2
        BY <1>1, <1>2, <2>1
      <3>2. enabled' \in BOOLEAN
        BY <2>1
      <3>3. QED  BY <1>1, <2>1, <3>1, <3>2 DEF CameraType
    <2>3. VeryFirst \/ Second \/ Third
      BY <1>3, <2>1 DEF CameraInv, Filled, Behind, SecondSeen, ThirdSeen
    <2>4. CASE VeryFirst
      <3>1. Len(data') <= MaxFrame
        BY <1>2, <2>1, <2>4 DEF VeryFirst
      <3>2. Behind'
        BY <1>1, <2>1, <2>4, <3>1 DEF VeryFirst, Behind
      <3>3. QED  BY <2>2, <3>2 DEF CameraInv, Filled
    <2>5. CASE Second
      <3>1. Len(data') <= MaxFrame + (DMASIZE - 1)
        BY <1>2, <2>1, <2>5 DEF Second
      <3>2. SecondSeen'
        BY <1>1, <2>1, <2>5, <3>1 DEF Second, SecondSeen
      <3>3. QED  BY <2>2, <3>2 DEF CameraInv, Filled
    <2>6. CASE Third
      <3>1. Len(data') <= MaxFrame
        BY <1>2, <2>1, <2>6 DEF Third
      <3>2. ThirdSeen'
        BY <1>1, <2>1, <2>6, <3>1 DEF Third, ThirdSeen
      <3>3. QED  BY <2>2, <3>2 DEF CameraInv, Filled
    <2>7. QED  BY <2>3, <2>4, <2>5, <2>6
  <1>5. CASE Restart
    <2>1. /\ data' = <<>> /\ data' \in Seq(WordType) /\ Len(data') = 0
          /\ jpeg_data_ok = 2 /\ jpeg_data_ok' = 0 /\ enabled' = TRUE
          /\ UNCHANGED <<target, buffer>>
          /\ (enabled /\ count' = count) \/ (~enabled /\ count' = DMASIZE)
      BY <1>5 DEF Restart
    <2>2. CameraType'
      BY <1>1, <1>2, <2>1 DEF CameraType
    <2>3. pc = "wait2" \/ (pc = "wait3" /\ ~enabled)
      BY <1>3, <2>1
      DEF CameraInv, Filled, VeryFirst, Behind, Second, SecondSeen, Third, ThirdSeen
    <2>4. Coming' <= DMASIZE - 1 /\ (~enabled => Coming' = 0)
      BY <1>1, <1>2, <2>1 DEF Coming, CameraType
    <2>5. Second' \/ Third'
      BY <1>1, <1>2, <2>1, <2>3, <2>4 DEF Second, Third
    <2>6. QED  BY <2>2, <2>5 DEF CameraInv, Filled
  <1>6. CASE jpeg_data_ok = 1 /\ UNCHANGED <<jpeg_data_ok, data, streamVars>>
    <2>1. UNCHANGED <<jpeg_data_ok, enabled, target, count, buffer, data>>
      BY <1>6 DEF streamVars
    <2>2. CameraType'
      BY <1>1, <1>2, <2>1 DEF CameraType
    <2>3. SecondSeen \/ ThirdSeen
      BY <1>1, <1>3, <1>6
      DEF CameraInv, Filled, VeryFirst, Behind, Second, Third, Prompt
    <2>4. SecondSeen' \/ ThirdSeen'
      BY <1>1, <2>1, <2>3 DEF SecondSeen, ThirdSeen
    <2>5. QED  BY <2>2, <2>4 DEF CameraInv, Filled
  <1>7. QED  BY <1>1, <1>4, <1>5, <1>6

(* camera_task.                                                            *)
LEMMA TaskInv ==
  ASSUME CameraInv, CameraTask
  PROVE  CameraInv'
  <1>1. CameraType /\ Filled
    BY DEF CameraInv
  <1>2. /\ Len(data) \in Nat /\ Coming \in Nat /\ Len(data) <= Coming /\ w \in 0 .. MaxFrame
        /\ MaxFrame \in Nat /\ DMASIZE \in Nat /\ DMASIZE >= 1
    BY <1>1, Counts DEF CameraType
  <1>3. CASE \/ LookAtStart \/ TakeAuth \/ TakeCamera \/ VideoEnds \/ StartNotSent
             \/ PieceSent \/ PieceNotSent \/ PiecesSent \/ EndNotSent
    <2>1. /\ pc \in {"idle", "auth", "camera", "video"} \cup Sending
          /\ pc' \in {"idle", "auth", "camera", "video"} \cup Sending
          /\ UNCHANGED <<jpeg_data_ok, data, enabled, target, count, buffer, capture, w>>
      BY <1>3 DEF LookAtStart, TakeAuth, TakeCamera, VideoEnds, StartNotSent, PieceSent,
                  PieceNotSent, PiecesSent, EndNotSent, Sending, streamVars, portVars
    <2>2. NoFilm
      BY <1>1, <2>1
      DEF Filled, VeryFirst, Behind, Second, SecondSeen, Third, ThirdSeen, Sending
    <2>3. NoFilm' /\ CameraType'
      BY <1>1, <2>1, <2>2 DEF NoFilm, CameraType, Coming
    <2>4. QED  BY <2>3 DEF CameraInv, Filled
  <1>4. CASE EndSent
    <2>1. /\ pc \in Sending /\ pc' = "video"
          /\ data' = <<>> /\ data' \in Seq(WordType) /\ Len(data') = 0
          /\ UNCHANGED <<jpeg_data_ok, enabled, target, count, buffer, capture, w>>
      BY <1>4 DEF EndSent, Sending, streamVars, portVars
    <2>2. NoFilm
      BY <1>1, <2>1
      DEF Filled, VeryFirst, Behind, Second, SecondSeen, Third, ThirdSeen, Sending
    <2>3. jpeg_data_ok = 0 => Coming' = 0
      BY <1>1, <1>2, <2>1, <2>2 DEF NoFilm, Coming, CameraType
    <2>4. NoFilm' /\ CameraType'
      BY <1>1, <1>2, <2>1, <2>2, <2>3 DEF NoFilm, CameraType
    <2>5. QED  BY <2>4 DEF CameraInv, Filled
  <1>5. CASE StartSent
    <2>1. /\ pc = "video" /\ pc' = "wait1" /\ enabled' = TRUE /\ capture' = "on"
          /\ UNCHANGED <<jpeg_data_ok, data, target, count, buffer, w>>
      BY <1>5 DEF StartSent
    <2>2. NoFilm
      BY <1>1, <2>1 DEF Filled, VeryFirst, Behind, Second, SecondSeen, Third, ThirdSeen
    <2>3. CameraType' /\ Coming' = Coming /\ Coming <= Len(data) + (DMASIZE - 1)
      BY <1>1, <1>2, <2>1 DEF CameraType, Coming
    <2>4. VeryFirst' \/ Behind'
      <3>1. CASE jpeg_data_ok = 0 /\ Coming = 0
        BY <1>2, <2>1, <2>3, <3>1 DEF VeryFirst
      <3>2. CASE jpeg_data_ok = 1 /\ Len(data) <= MaxFrame
        <4>1. Coming' <= MaxFrame + (DMASIZE - 1) + w'
          BY <1>2, <2>1, <2>3, <3>2
        <4>2. enabled'
          BY <2>1
        <4>3. pc' = "wait1" /\ jpeg_data_ok' = 1
          BY <2>1, <3>2
        <4>4. QED  BY <4>1, <4>2, <4>3 DEF Behind
      <3>3. QED  BY <2>2, <3>1, <3>2 DEF NoFilm
    <2>5. QED  BY <2>3, <2>4 DEF CameraInv, Filled
  <1>6. CASE LetGo
    <2>1. /\ pc \in {"wait1", "wait2"} /\ jpeg_data_ok = 1 /\ jpeg_data_ok' = 2
          /\ pc' = IF pc = "wait1" THEN "wait2" ELSE "wait3"
          /\ UNCHANGED <<data, enabled, target, count, buffer, capture, w>>
      BY <1>6 DEF LetGo, NextWait, streamVars, portVars
    <2>2. Behind \/ SecondSeen
      BY <1>1, <2>1 DEF Filled, NoFilm, VeryFirst, Second, Third, ThirdSeen, Sending
    <2>3. (Behind' \/ SecondSeen') /\ CameraType'
      BY <1>1, <2>1, <2>2 DEF Behind, SecondSeen, CameraType, Coming
    <2>4. QED  BY <2>3 DEF CameraInv, Filled
  <1>7. CASE ThirdFrame
    <2>1. /\ pc = "wait3" /\ jpeg_data_ok = 1 /\ pc' = "stop" /\ capture' = "stopping"
          /\ UNCHANGED <<jpeg_data_ok, data, enabled, target, count, buffer, w>>
      BY <1>7 DEF ThirdFrame, streamVars
    <2>2. ThirdSeen
      BY <1>1, <2>1 DEF Filled, NoFilm, VeryFirst, Behind, Second, SecondSeen, Third, Sending
    <2>3. ThirdSeen' /\ CameraType'
      BY <1>1, <2>1, <2>2 DEF ThirdSeen, CameraType
    <2>4. QED  BY <2>3 DEF CameraInv, Filled
  <1>8. CASE Stopped
    <2>1. /\ pc = "stop" /\ capture = "off" /\ enabled' = FALSE /\ pc' = "send"
          /\ UNCHANGED <<jpeg_data_ok, data, target, count, buffer, capture, w>>
      BY <1>8 DEF Stopped, portVars
    <2>2. ThirdSeen
      BY <1>1, <2>1 DEF Filled, NoFilm, VeryFirst, Behind, Second, SecondSeen, Third, Sending
    <2>3. NoFilm' /\ CameraType'
      BY <1>1, <2>1, <2>2 DEF ThirdSeen, NoFilm, CameraType, Sending
    <2>4. QED  BY <2>3 DEF CameraInv, Filled
  <1>9. QED  BY <1>3, <1>4, <1>5, <1>6, <1>7, <1>8 DEF CameraTask

(* The port stops between two frames; the commands change neither the      *)
(* stream nor what has come.                                               *)
LEMMA OtherInv ==
  ASSUME CameraInv, UNCHANGED <<pc, jpeg_data_ok, data, enabled, target, count, buffer, w>>,
         capture' = capture \/ PortStops
  PROVE  CameraInv'
  <1>1. CameraType'
    BY DEF CameraInv, CameraType, PortStops
  <1>2. Filled'
    BY DEF CameraInv, Filled, NoFilm, VeryFirst, Behind, Second, SecondSeen, Third,
           ThirdSeen, Coming, PortStops
  <1>3. QED  BY <1>1, <1>2 DEF CameraInv

LEMMA StepCamera == CameraInv /\ [CameraNext]_cameraVars => CameraInv'
  <1> SUFFICES ASSUME CameraInv, [CameraNext]_cameraVars PROVE CameraInv'
    OBVIOUS
  <1>1. CASE CameraTask
    BY <1>1, TaskInv
  <1>2. CASE PortWord
    BY <1>2, PortWordInv
  <1>3. CASE FrameEnd
    BY <1>3, FrameEndInv
  <1>4. CASE PortStops
    BY <1>4, OtherInv DEF PortStops, streamVars
  <1>5. CASE ServerCommand
    BY <1>5, OtherInv DEF ServerCommand, streamVars, portVars
  <1>6. ASSUME NEW res \in {"START", "STOP"}, UserCommand(res)
        PROVE  CameraInv'
    BY <1>6, OtherInv DEF UserCommand, streamVars, portVars
  <1>7. CASE UNCHANGED cameraVars
    BY <1>7, OtherInv DEF cameraVars, streamVars, portVars
  <1>8. QED  BY <1>1, <1>2, <1>3, <1>4, <1>5, <1>6, <1>7 DEF CameraNext, Port

(* The interrupts write inside jpeg_data_buf as long as it has room for    *)
(* two of the longest frames and a buffer of the stream less one word.     *)
THEOREM InBufferHolds == CameraSpec => []InBuffer
  <1>1. CameraInv => InBuffer
    <2> SUFFICES ASSUME CameraInv PROVE Len(data) <= DATASIZE
      BY DEF InBuffer
    <2>1. /\ CameraType /\ Filled
          /\ Len(data) \in Nat /\ Coming \in Nat /\ Len(data) <= Coming
          /\ w \in 0 .. MaxFrame /\ MaxFrame \in Nat /\ DMASIZE \in Nat /\ DMASIZE >= 1
      BY Counts DEF CameraInv, CameraType
    <2>2. Len(data) <= 2 * MaxFrame + DMASIZE - 1
      BY <2>1
      DEF Filled, NoFilm, VeryFirst, Behind, Second, SecondSeen, Third, ThirdSeen
    <2>3. DATASIZE \in Nat
      BY CameraAssumption
    <2>4. QED  BY <2>1, <2>2, <2>3, DataSizeAssumption
  <1>2. QED  BY InitCamera, StepCamera, <1>1, PTL DEF CameraSpec

-----------------------------------------------------------------------------
(* The picture.                                                            *)

(* The words of the third frame so far: those in jpeg_data_buf and those   *)
(* in the buffer that is being filled.                                     *)
ThirdWords ==
    /\ pos \in 1 .. DMASIZE /\ count = DMASIZE - (pos - 1)
    /\ Len(data) + (pos - 1) = w
    /\ \A i \in 1 .. Len(data) : data[i] = Word(i)
    /\ \A i \in 1 .. pos - 1 : buffer[target][i] = Word(Len(data) + i)

WholeFrame ==
    size \in Nat \ {0} /\ Len(data) = size /\ \A i \in 1 .. size : data[i] = Word(i)

PictureInv ==
    /\ CameraInv
    /\ pc = "wait3" /\ jpeg_data_ok = 0 => ThirdWords
    /\ (pc = "wait3" /\ jpeg_data_ok = 1) \/ pc \in {"stop"} \cup Sending => WholeFrame

LEMMA Joined ==
  ASSUME NEW s \in Seq(WordType), NEW t \in Seq(WordType)
  PROVE  /\ s \o t \in Seq(WordType) /\ Len(s \o t) = Len(s) + Len(t)
         /\ Len(s) \in Nat /\ Len(t) \in Nat
         /\ \A i \in 1 .. Len(s) : (s \o t)[i] = s[i]
         /\ \A i \in 1 .. Len(t) : (s \o t)[Len(s) + i] = t[i]
  <1>1. s \o t \in Seq(WordType) /\ Len(s \o t) = Len(s) + Len(t)
        /\ Len(s) \in Nat /\ Len(t) \in Nat
    OBVIOUS
  <1>2. \A i \in 1 .. Len(s) : (s \o t)[i] = s[i]
    OBVIOUS
  <1>3. \A i \in 1 .. Len(t) : (s \o t)[Len(s) + i] = t[i]
    OBVIOUS
  <1>4. QED  BY <1>1, <1>2, <1>3

LEMMA Beginning ==
  ASSUME NEW s \in Seq(WordType), NEW k \in Nat, k <= Len(s)
  PROVE  /\ SubSeq(s, 1, k) \in Seq(WordType) /\ Len(SubSeq(s, 1, k)) = k
         /\ \A i \in 1 .. k : SubSeq(s, 1, k)[i] = s[i]
  OBVIOUS

LEMMA MoveKeepsWords ==
  ASSUME CameraType, ThirdWords, w < MaxFrame, w' = w + 1, Move
  PROVE  ThirdWords'
  <1> DEFINE last == IF w = 0 THEN [b \in {0, 1} |-> Aged(buffer[b])] ELSE buffer
             kept == IF w = 0 THEN Aged(data) ELSE data
             filled == [last EXCEPT ![target][pos] = Word(w + 1)]
  <1>1. /\ buffer' = filled
        /\ \/ /\ count = 1 /\ target' = 1 - target /\ count' = DMASIZE /\ pos' = 1
              /\ data' = kept \o filled[target]
           \/ /\ count # 1 /\ count' = count - 1 /\ pos' = pos + 1 /\ data' = kept
              /\ target' = target
    BY DEF Move
  <1>2. /\ DMASIZE \in Nat \ {0} /\ target \in {0, 1} /\ pos \in 1 .. DMASIZE
        /\ count = DMASIZE - (pos - 1) /\ Len(data) \in Nat /\ w \in Nat
        /\ Len(data) + (pos - 1) = w
    BY CameraAssumption DEF CameraType, ThirdWords
  <1>3. /\ kept \in Seq(WordType) /\ Len(kept) = Len(data)
        /\ \A i \in 1 .. Len(data) : kept[i] = Word(i)
    <2>1. kept \in Seq(WordType) /\ Len(kept) = Len(data)
      BY AgedSeq DEF CameraType
    <2>2. \A i \in 1 .. Len(data) : w # 0
      BY <1>2
    <2>3. QED  BY <2>1, <2>2 DEF ThirdWords
  <1>4. last \in [{0, 1} -> [1 .. DMASIZE -> WordType]]
    BY AgedBuffer DEF CameraType
  <1>5. \A i \in 1 .. pos - 1 : last[target][i] = Word(Len(data) + i)
    <2>1. \A i \in 1 .. pos - 1 : w # 0
      BY <1>2
    <2>2. QED  BY <2>1 DEF ThirdWords
  <1> HIDE DEF kept, last
  <1>6. /\ filled[target] \in [1 .. DMASIZE -> WordType]
        /\ filled[target][pos] = Word(w + 1)
        /\ \A i \in 1 .. DMASIZE : i # pos => filled[target][i] = last[target][i]
    <2>1. Word(w + 1) \in WordType
      BY <1>2 DEF Word, WordType
    <2>2. filled = [last EXCEPT ![target] = [last[target] EXCEPT ![pos] = Word(w + 1)]]
      OBVIOUS
    <2>3. last[target] \in [1 .. DMASIZE -> WordType] /\ target \in DOMAIN last
      BY <1>2, <1>4
    <2>4. filled[target] = [last[target] EXCEPT ![pos] = Word(w + 1)]
      BY <2>2, <2>3
    <2> HIDE DEF filled
    <2>5. QED  BY <1>2, <2>1, <2>3, <2>4
  <1> HIDE DEF filled
  <1>7. \A i \in 1 .. pos : filled[target][i] = Word(Len(data) + i)
    <2> SUFFICES ASSUME NEW i \in 1 .. pos
                 PROVE  filled[target][i] = Word(Len(data) + i)
      OBVIOUS
    <2>1. Len(data) + pos = w + 1 /\ i \in 1 .. DMASIZE
      BY <1>2
    <2>2. CASE i = pos
      BY <1>6, <2>1, <2>2
    <2>3. CASE i # pos
      <3>1. i \in 1 .. pos - 1
        BY <1>2, <2>3
      <3>2. QED  BY <1>5, <1>6, <2>1, <2>3, <3>1
    <2>4. QED  BY <2>2, <2>3
  <1>8. CASE count = 1
    <2>1. pos = DMASIZE
      BY <1>2, <1>8
    <2> DEFINE f == filled[target]
    <2>2. f \in Seq(WordType) /\ Len(f) = DMASIZE
      <3>1. f \in [1 .. DMASIZE -> WordType] /\ DMASIZE \in Nat
        BY <1>6, CameraAssumption
      <3> HIDE DEF f
      <3>2. QED  BY <3>1
    <2> HIDE DEF f
    <2>3. /\ Len(kept \o f) = Len(data) + DMASIZE
          /\ \A i \in 1 .. Len(data) : (kept \o f)[i] = kept[i]
          /\ \A i \in 1 .. DMASIZE : (kept \o f)[Len(data) + i] = f[i]
      <3>1. f \in Seq(WordType) /\ Len(f) = DMASIZE
        BY <2>2 DEF f
      <3>2. /\ Len(kept \o f) = Len(kept) + Len(f)
            /\ \A i \in 1 .. Len(kept) : (kept \o f)[i] = kept[i]
            /\ \A i \in 1 .. Len(f) : (kept \o f)[Len(kept) + i] = f[i]
        <4>1. kept \in Seq(WordType)
          BY <1>3
        <4>2. QED  BY <4>1, <3>1, Joined
      <3>3. Len(kept) = Len(data)
        BY <1>3
      <3>4. QED  BY <3>1, <3>2, <3>3
    <2>4. \A i \in 1 .. Len(data) + DMASIZE : (kept \o f)[i] = Word(i)
      <3> SUFFICES ASSUME NEW i \in 1 .. Len(data) + DMASIZE
                   PROVE  (kept \o f)[i] = Word(i)
        OBVIOUS
      <3>1. CASE i <= Len(data)
        BY <1>2, <1>3, <2>3, <3>1
      <3>2. CASE i > Len(data)
        <4>1. i - Len(data) \in 1 .. DMASIZE /\ Len(data) + (i - Len(data)) = i
          BY <1>2, <3>2
        <4>2. (kept \o f)[Len(data) + (i - Len(data))] = f[i - Len(data)]
          BY <2>3, <4>1
        <4>3. f[i - Len(data)] = Word(Len(data) + (i - Len(data)))
          BY <1>7, <2>1, <4>1 DEF f
        <4>4. QED  BY <4>1, <4>2, <4>3
      <3>3. i <= Len(data) \/ i > Len(data)
        <4>1. Len(data) \in Int /\ i \in Int
          BY <1>2
        <4>2. QED  BY <4>1
      <3>4. QED  BY <3>1, <3>2, <3>3
    <2>5. /\ data' = kept \o f /\ pos' = 1 /\ count' = DMASIZE
      BY <1>1, <1>8 DEF f
    <2>6. Len(data') = w + 1
      BY <1>2, <2>1, <2>3, <2>5
    <2>7. QED  BY <1>2, <2>3, <2>4, <2>5, <2>6 DEF ThirdWords
  <1>9. CASE count # 1
    <2>1. /\ pos' = pos + 1 /\ pos + 1 \in 1 .. DMASIZE /\ count' = DMASIZE - ((pos + 1) - 1)
          /\ (pos + 1) - 1 = pos /\ Len(data) + pos = w + 1
      BY <1>1, <1>2, <1>9
    <2>2. data' = kept /\ buffer' = filled /\ target' = target
      BY <1>1, <1>9
    <2>3. /\ \A i \in 1 .. Len(data') : data'[i] = Word(i)
          /\ \A i \in 1 .. pos' - 1 : buffer'[target'][i] = Word(Len(data') + i)
      BY <1>3, <1>7, <2>1, <2>2
    <2>4. QED  BY <1>3, <2>1, <2>2, <2>3 DEF ThirdWords
  <1>10. QED  BY <1>8, <1>9

LEMMA CollectsWhole ==
  ASSUME CameraType, ThirdWords, w > 0, size' = w, Collect
  PROVE  WholeFrame'
  <1> DEFINE rest == SubSeq(buffer[target], 1, DMASIZE - count)
  <1>1. /\ DMASIZE \in Nat \ {0} /\ data \in Seq(WordType) /\ Len(data) \in Nat
        /\ w \in Nat /\ pos \in 1 .. DMASIZE /\ DMASIZE - count = pos - 1
        /\ buffer[target] \in [1 .. DMASIZE -> WordType]
    BY CameraAssumption DEF CameraType, ThirdWords
  <1>2. buffer[target] \in Seq(WordType) /\ Len(buffer[target]) = DMASIZE
    BY <1>1
  <1>3. /\ rest \in Seq(WordType) /\ Len(rest) = pos - 1
        /\ \A i \in 1 .. pos - 1 : rest[i] = buffer[target][i]
    <2>1. pos - 1 \in Nat /\ pos - 1 <= DMASIZE
      BY <1>1
    <2>2. rest = SubSeq(buffer[target], 1, pos - 1)
      BY <1>1
    <2>3. pos - 1 <= Len(buffer[target])
      BY <1>2, <2>1
    <2> HIDE DEF rest
    <2>4. /\ SubSeq(buffer[target], 1, pos - 1) \in Seq(WordType)
          /\ Len(SubSeq(buffer[target], 1, pos - 1)) = pos - 1
          /\ \A i \in 1 .. pos - 1 : SubSeq(buffer[target], 1, pos - 1)[i] = buffer[target][i]
      BY <1>2, <2>1, <2>3, Beginning
    <2>5. QED  BY <2>2, <2>4
  <1> HIDE DEF rest
  <1>4. data' = data \o rest
    BY DEF Collect, rest
  <1>5. /\ Len(data \o rest) = w /\ Len(data) + (pos - 1) = w
        /\ \A i \in 1 .. Len(data) : (data \o rest)[i] = data[i]
        /\ \A i \in 1 .. pos - 1 : (data \o rest)[Len(data) + i] = rest[i]
    <2>1. Len(data) + (pos - 1) = w
      BY DEF ThirdWords
    <2>2. /\ Len(data \o rest) = Len(data) + Len(rest)
          /\ \A i \in 1 .. Len(data) : (data \o rest)[i] = data[i]
          /\ \A i \in 1 .. Len(rest) : (data \o rest)[Len(data) + i] = rest[i]
      <3>1. data \in Seq(WordType) /\ rest \in Seq(WordType)
        BY <1>1, <1>3
      <3>2. QED  BY <3>1, Joined
    <2>3. Len(rest) = pos - 1
      BY <1>3
    <2>4. QED  BY <2>1, <2>2, <2>3
  <1>6. \A i \in 1 .. w : (data \o rest)[i] = Word(i)
    <2> SUFFICES ASSUME NEW i \in 1 .. w
                 PROVE  (data \o rest)[i] = Word(i)
      OBVIOUS
    <2>1. CASE i <= Len(data)
      BY <1>1, <1>5, <2>1 DEF ThirdWords
    <2>2. CASE i > Len(data)
      <3>1. i - Len(data) \in 1 .. pos - 1 /\ Len(data) + (i - Len(data)) = i
        BY <1>1, <1>5, <2>2
      <3>2. (data \o rest)[Len(data) + (i - Len(data))] = rest[i - Len(data)]
        BY <1>5, <3>1
      <3>3. rest[i - Len(data)] = Word(Len(data) + (i - Len(data)))
        BY <1>3, <3>1 DEF ThirdWords
      <3>4. QED  BY <3>1, <3>2, <3>3
    <2>3. i <= Len(data) \/ i > Len(data)
      <3>1. Len(data) \in Int /\ i \in Int
        BY <1>1
      <3>2. QED  BY <3>1
    <2>4. QED  BY <2>1, <2>2, <2>3
  <1>7. QED  BY <1>1, <1>4, <1>5, <1>6 DEF WholeFrame

LEMMA StepPicture == PictureInv /\ [CameraNext]_cameraVars => PictureInv'
  <1> SUFFICES ASSUME PictureInv, [CameraNext]_cameraVars PROVE PictureInv'
    OBVIOUS
  <1>1. CameraInv /\ CameraInv' /\ CameraType /\ Filled
    BY StepCamera DEF PictureInv, CameraInv
  <1>2. CASE PortWord
    <2>1. /\ UNCHANGED <<pc, jpeg_data_ok, size>> /\ w < MaxFrame /\ w' = w + 1
          /\ capture # "off"
          /\ \/ enabled /\ Move
             \/ ~enabled /\ UNCHANGED <<streamVars, data>>
      BY <1>2 DEF PortWord
    <2>2. CASE pc = "wait3" /\ jpeg_data_ok = 0
      <3>1. enabled
        BY <1>1, <2>2
        DEF Filled, NoFilm, VeryFirst, Behind, Second, SecondSeen, Third, ThirdSeen,
            Sending
      <3>2. QED  BY <1>1, <2>1, <2>2, <3>1, MoveKeepsWords DEF PictureInv, Sending
    <2>3. CASE (pc = "wait3" /\ jpeg_data_ok = 1) \/ pc = "stop"
      <3>1. ~enabled
        BY <1>1, <2>3 DEF Filled, NoFilm, VeryFirst, Behind, Second, SecondSeen, Third, ThirdSeen
      <3>2. QED  BY <1>1, <2>1, <2>3, <3>1 DEF PictureInv, WholeFrame
    <2>4. pc \notin Sending
      BY <1>1, <2>1
      DEF Filled, NoFilm, VeryFirst, Behind, Second, SecondSeen, Third, ThirdSeen, Sending
    <2>5. QED  BY <1>1, <2>1, <2>2, <2>3, <2>4 DEF PictureInv
  <1>3. CASE FrameEnd
    <2>1. /\ UNCHANGED pc /\ w > 0 /\ w' = 0 /\ size' = IF enabled THEN w ELSE size
          /\ \/ Collect
             \/ Restart
             \/ jpeg_data_ok = 1 /\ UNCHANGED <<jpeg_data_ok, data, streamVars>>
          /\ capture # "off"
      BY <1>1, <1>3 DEF FrameEnd, CameraType
    <2>2. pc \notin Sending
      BY <1>1, <2>1
      DEF Filled, NoFilm, VeryFirst, Behind, Second, SecondSeen, Third, ThirdSeen, Sending
    <2>3. pc = "stop" => jpeg_data_ok = 1 /\ ~enabled
      BY <1>1
      DEF Filled, NoFilm, VeryFirst, Behind, Second, SecondSeen, Third, ThirdSeen,
          Sending
    <2>4. pc = "wait3" => (enabled <=> jpeg_data_ok = 0)
      BY <1>1
      DEF Filled, NoFilm, VeryFirst, Behind, Second, SecondSeen, Third, ThirdSeen,
          Sending
    <2>5. CASE Collect
      <3>1. jpeg_data_ok = 0 /\ jpeg_data_ok' = 1
        BY <2>5 DEF Collect
      <3>2. pc = "wait3" => WholeFrame'
        BY <1>1, <2>1, <2>4, <2>5, <3>1, CollectsWhole DEF PictureInv
      <3>3. QED  BY <1>1, <2>1, <2>2, <2>3, <3>1, <3>2 DEF PictureInv
    <2>6. CASE Restart
      <3>1. /\ jpeg_data_ok = 2 /\ jpeg_data_ok' = 0 /\ data' = <<>> /\ Len(data') = 0
            /\ ~enabled => count' = DMASIZE /\ pos' = 1
        BY <2>6 DEF Restart
      <3>2. DMASIZE \in Nat \ {0}
        BY CameraAssumption
      <3>3. pc = "wait3" => ThirdWords'
        BY <2>1, <2>4, <3>1, <3>2 DEF ThirdWords
      <3>4. QED  BY <1>1, <2>1, <2>2, <2>3, <3>1, <3>3 DEF PictureInv
    <2>7. CASE jpeg_data_ok = 1 /\ UNCHANGED <<jpeg_data_ok, data, streamVars>>
      BY <1>1, <2>1, <2>2, <2>3, <2>4, <2>7 DEF PictureInv, WholeFrame
    <2>8. QED  BY <2>1, <2>5, <2>6, <2>7
  <1>4. CASE CameraTask
    <2>1. CASE ThirdFrame \/ Stopped \/ PieceSent \/ PieceNotSent \/ PiecesSent
      <3>1. WholeFrame /\ UNCHANGED <<data, size>> /\ pc' \in {"stop"} \cup Sending
        BY <2>1 DEF ThirdFrame, Stopped, PieceSent, PieceNotSent, PiecesSent, PictureInv,
                    Sending, portVars
      <3>2. QED  BY <1>1, <3>1 DEF PictureInv, WholeFrame, Sending
    <2>2. CASE LetGo
      BY <1>1, <2>2 DEF LetGo, NextWait, PictureInv, Sending
    <2>3. CASE pc' \in {"idle", "auth", "camera", "video", "wait1"}
      BY <1>1, <2>3 DEF PictureInv, Sending
    <2>4. CASE LookAtStart \/ TakeAuth \/ TakeCamera \/ VideoEnds \/ StartNotSent
               \/ StartSent \/ EndNotSent \/ EndSent
      <3>1. pc' \in {"idle", "auth", "camera", "video", "wait1"}
        BY <2>4 DEF LookAtStart, TakeAuth, TakeCamera, VideoEnds, StartNotSent, StartSent,
                    EndNotSent, EndSent
      <3>2. QED  BY <2>3, <3>1
    <2>5. QED  BY <1>4, <2>1, <2>2, <2>4 DEF CameraTask
  <1>5. CASE UNCHANGED <<pc, jpeg_data_ok, data, streamVars, w, size>>
    <2>1. UNCHANGED <<pc, jpeg_data_ok, data, count, pos, target, buffer, w, size>>
      BY <1>5 DEF streamVars
    <2>2. QED  BY <1>1, <2>1 DEF PictureInv, ThirdWords, WholeFrame
  <1>6. CASE PortStops \/ ServerCommand \/ UNCHANGED cameraVars
    BY <1>5, <1>6 DEF PortStops, ServerCommand, cameraVars, portVars
  <1>7. ASSUME NEW res \in {"START", "STOP"}, UserCommand(res)
        PROVE  PictureInv'
    BY <1>5, <1>7 DEF UserCommand, portVars
  <1>8. QED  BY <1>2, <1>3, <1>4, <1>6, <1>7 DEF CameraNext, Port

-----------------------------------------------------------------------------
(* The pieces.                                                             *)

Long == size \div PIECE >= HELD

\* What has been sent of the picture, and how far the loop may go.
SendInv ==
    /\ piece \in Nat
    /\ pc \notin Sending => piece = 0 /\ out = <<>>
    /\ pc \in Sending =>
          /\ out \in Seq(WordType) /\ Len(out) = piece * PIECE
          /\ \A i \in 1 .. Len(out) : out[i] = At(i)
    /\ pc \in Sending /\ Long =>
          /\ piece + HELD <= size \div PIECE
          /\ pc = "end" => piece + HELD = size \div PIECE

(* A frame is short enough for the range of an unsigned int, so the number *)
(* of pieces of a picture that has HELD of them is what it should be.      *)
LEMMA PiecesOfLong ==
  ASSUME PictureInv, pc \in Sending, Long
  PROVE  Pieces = size \div PIECE - HELD /\ size \div PIECE \in Nat
  <1>1. /\ PIECE \in Nat \ {0} /\ HELD \in Nat \ {0} /\ RANGE \in Nat \ {0}
        /\ MaxFrame \in Nat /\ MaxFrame < RANGE /\ DMASIZE \in Nat
    BY CameraAssumption, RangeAssumption
  <1>2. WholeFrame /\ CameraType /\ Filled
    BY DEF PictureInv, CameraInv
  <1>3. NoFilm
    BY <1>2 DEF Filled, VeryFirst, Behind, Second, SecondSeen, Third, ThirdSeen, Sending
  <1>4. size \in Nat \ {0} /\ Len(data) = size
    BY <1>2 DEF WholeFrame
  <1>5. size <= MaxFrame
    BY <1>1, <1>2, <1>3, <1>4 DEF NoFilm, Coming, CameraType
  <1> DEFINE q == size \div PIECE
  <1>6. q \in Nat /\ q <= size
    BY <1>1, <1>4
  <1>7. q >= HELD
    BY DEF Long
  <1>8. Pieces = (q - HELD) % RANGE
    BY <1>4 DEF Pieces
  <1> HIDE DEF q
  <1>9. q - HELD \in Nat /\ q - HELD < RANGE
    BY <1>1, <1>4, <1>5, <1>6, <1>7
  <1>10. (q - HELD) % RANGE = q - HELD
    BY <1>1, <1>9
  <1>11. QED  BY <1>6, <1>8, <1>10 DEF q

LEMMA AtWord ==
  ASSUME CameraType, NEW k \in Nat \ {0}
  PROVE  At(k) \in WordType
  <1>1. data \in Seq(WordType) /\ Old \in WordType
    BY DEF CameraType, Old, WordType
  <1>2. CASE k <= Len(data)
    BY <1>1, <1>2 DEF At
  <1>3. CASE ~(k <= Len(data))
    BY <1>1, <1>3 DEF At
  <1>4. QED  BY <1>2, <1>3

(* A piece more has been sent.                                             *)
LEMMA PieceExtends ==
  ASSUME PictureInv, PictureInv', SendInv, PieceSent
  PROVE  SendInv'
  <1>1. /\ pc = "send" /\ pc' = "send" /\ piece < Pieces /\ piece' = piece + 1
        /\ UNCHANGED <<data, size>>
    BY DEF PieceSent, portVars
  <1>2. piece \in Nat /\ PIECE \in Nat \ {0} /\ HELD \in Nat \ {0} /\ CameraType
    BY CameraAssumption DEF SendInv, PictureInv, CameraInv
  <1> DEFINE sent == piece * PIECE
             part == [k \in 1 .. PIECE |-> At(sent + k)]
  <1>3. sent \in Nat /\ piece' * PIECE = sent + PIECE
    BY <1>1, <1>2
  <1>4. out' = out \o part
    BY DEF PieceSent
  <1>5. out \in Seq(WordType) /\ Len(out) = sent /\ \A i \in 1 .. sent : out[i] = At(i)
    BY <1>1 DEF SendInv, Sending
  <1> HIDE DEF sent
  <1>6. part \in Seq(WordType) /\ Len(part) = PIECE
        /\ \A k \in 1 .. PIECE : part[k] = At(sent + k)
    <2>1. \A k \in 1 .. PIECE : At(sent + k) \in WordType
      <3> SUFFICES ASSUME NEW k \in 1 .. PIECE PROVE At(sent + k) \in WordType
        OBVIOUS
      <3>1. sent + k \in Nat \ {0}
        BY <1>2, <1>3
      <3>2. QED  BY <1>2, <3>1, AtWord
    <2>2. part \in [1 .. PIECE -> WordType]
      BY <2>1
    <2>3. \A k \in 1 .. PIECE : part[k] = At(sent + k)
      OBVIOUS
    <2> HIDE DEF part
    <2>4. QED  BY <1>2, <2>2, <2>3
  <1> HIDE DEF part
  <1>7. /\ out \o part \in Seq(WordType) /\ Len(out \o part) = sent + PIECE
        /\ \A i \in 1 .. sent : (out \o part)[i] = out[i]
        /\ \A i \in 1 .. PIECE : (out \o part)[sent + i] = part[i]
    <2>1. /\ out \o part \in Seq(WordType) /\ Len(out \o part) = Len(out) + Len(part)
          /\ \A i \in 1 .. Len(out) : (out \o part)[i] = out[i]
          /\ \A i \in 1 .. Len(part) : (out \o part)[Len(out) + i] = part[i]
      BY <1>5, <1>6, Joined
    <2>2. QED  BY <1>5, <1>6, <2>1
  <1>8. \A i \in 1 .. sent + PIECE : (out \o part)[i] = At(i)
    <2> SUFFICES ASSUME NEW i \in 1 .. sent + PIECE
                 PROVE  (out \o part)[i] = At(i)
      OBVIOUS
    <2>1. CASE i <= sent
      <3>1. i \in 1 .. sent
        BY <1>3, <2>1
      <3>2. QED  BY <1>5, <1>7, <3>1
    <2>2. CASE i > sent
      <3>1. i - sent \in 1 .. PIECE /\ sent + (i - sent) = i
        BY <1>2, <1>3, <2>2
      <3>2. (out \o part)[sent + (i - sent)] = part[i - sent]
        BY <1>7, <3>1
      <3>3. part[i - sent] = At(sent + (i - sent))
        BY <1>6, <3>1
      <3>4. QED  BY <3>1, <3>2, <3>3
    <2>3. i <= sent \/ i > sent
      BY <1>2, <1>3
    <2>4. QED  BY <2>1, <2>2, <2>3
  <1>9. /\ out' \in Seq(WordType) /\ Len(out') = piece' * PIECE
        /\ \A i \in 1 .. Len(out') : out'[i] = At(i)'
    <2>1. \A i : At(i)' = At(i)
      BY <1>1 DEF At
    <2>2. Len(out') = sent + PIECE
      BY <1>4, <1>7
    <2>3. QED  BY <1>3, <1>4, <1>7, <1>8, <2>1, <2>2
  <1>10. Long' => piece' + HELD <= size' \div PIECE
    <2> SUFFICES ASSUME Long' PROVE piece' + HELD <= size' \div PIECE
      OBVIOUS
    <2>1. Long
      BY <1>1 DEF Long
    <2>2. Pieces = size \div PIECE - HELD /\ size \div PIECE \in Nat
      BY <1>1, <2>1, PiecesOfLong DEF Sending
    <2>3. QED  BY <1>1, <1>2, <2>2
  <1>11. piece' \in Nat
    BY <1>1, <1>2
  <1>12. QED  BY <1>1, <1>9, <1>10, <1>11 DEF SendInv, Sending

LEMMA StepSend ==
  PictureInv /\ SendInv /\ [CameraNext]_cameraVars => (PictureInv /\ SendInv)'
  <1> SUFFICES ASSUME PictureInv, SendInv, [CameraNext]_cameraVars
               PROVE  (PictureInv /\ SendInv)'
    OBVIOUS
  <1>1. PictureInv'
    BY StepPicture
  <1>2. CameraType /\ Filled /\ CameraType' /\ PIECE \in Nat \ {0} /\ HELD \in Nat \ {0}
    BY <1>1, CameraAssumption DEF PictureInv, CameraInv
  <1>3. pc \in Sending => capture = "off"
    BY <1>2 DEF Filled, NoFilm, VeryFirst, Behind, Second, SecondSeen, Third, ThirdSeen,
                Sending
  <1>4. CASE UNCHANGED <<piece, out, data, size>> /\ (pc' = pc \/ pc \notin Sending)
             /\ (pc' \in Sending => pc \in Sending)
    <2>1. Long' = Long /\ \A i : At(i)' = At(i)
      BY <1>4 DEF Long, At
    <2>2. QED  BY <1>1, <1>4, <2>1 DEF SendInv
  <1>5. CASE UNCHANGED <<piece, out>> /\ pc \notin Sending /\ pc' \notin Sending
    BY <1>1, <1>5 DEF SendInv
  <1>6. CASE pc' \notin Sending /\ piece' = 0 /\ out' = <<>>
    BY <1>1, <1>6 DEF SendInv
  <1>7. CASE PieceSent
    BY <1>1, <1>7, PieceExtends
  <1>8. CASE PieceNotSent \/ PiecesSent
    <2>1. /\ pc = "send" /\ UNCHANGED <<piece, out, data, size>> /\ pc' \in Sending
          /\ pc' = "end" => piece >= Pieces
      BY <1>8 DEF PieceNotSent, PiecesSent, Sending, portVars, sendVars
    <2>2. Long' = Long /\ \A i : At(i)' = At(i)
      BY <2>1 DEF Long, At
    <2>3. Long => piece + HELD <= size \div PIECE
      BY <2>1 DEF SendInv, Sending
    <2>4. Long /\ pc' = "end" => piece + HELD = size \div PIECE
      <3> SUFFICES ASSUME Long, pc' = "end" PROVE piece + HELD = size \div PIECE
        OBVIOUS
      <3>1. Pieces = size \div PIECE - HELD /\ size \div PIECE \in Nat
        BY <2>1, PiecesOfLong DEF Sending
      <3>2. piece \in Nat
        BY DEF SendInv
      <3>3. QED  BY <1>2, <2>1, <2>3, <3>1, <3>2
    <2>5. out \in Seq(WordType) /\ Len(out) = piece * PIECE
          /\ (\A i \in 1 .. Len(out) : out[i] = At(i)) /\ piece \in Nat
      BY <2>1 DEF SendInv, Sending
    <2>6. QED  BY <1>1, <2>1, <2>2, <2>3, <2>4, <2>5 DEF SendInv
  <1>9. CASE Stopped
    <2>1. /\ pc = "stop" /\ pc' = "send" /\ UNCHANGED <<piece, out, data, size>>
      BY <1>9 DEF Stopped, portVars, sendVars
    <2>2. piece = 0 /\ out = <<>>
      BY <2>1 DEF SendInv, Sending
    <2>3. out \in Seq(WordType) /\ Len(out) = 0 /\ piece * PIECE = 0
      BY <1>2, <2>2
    <2>4. WholeFrame'
      BY <1>1, <2>1 DEF PictureInv, Sending
    <2>5. Long' => piece' + HELD <= size' \div PIECE
      <3>1. size' \in Nat
        BY <2>4 DEF WholeFrame
      <3> DEFINE q == size' \div PIECE
      <3>2. q \in Int
        BY <1>2, <3>1
      <3>3. Long' => q >= HELD
        BY DEF Long
      <3> HIDE DEF q
      <3>4. Long' => 0 + HELD <= q
        BY <1>2, <3>2, <3>3
      <3>5. QED  BY <2>1, <2>2, <3>4 DEF q
    <2>6. QED  BY <1>1, <2>1, <2>2, <2>3, <2>5 DEF SendInv, Sending
  <1>10. CASE LookAtStart \/ TakeAuth \/ TakeCamera \/ VideoEnds \/ StartNotSent
              \/ StartSent \/ LetGo \/ ThirdFrame
    BY <1>5, <1>10 DEF LookAtStart, TakeAuth, TakeCamera, VideoEnds, StartNotSent, StartSent,
                       LetGo, NextWait, ThirdFrame, Sending, sendVars
  <1>11. CASE EndSent \/ EndNotSent
    BY <1>6, <1>11 DEF EndSent, EndNotSent, Sending
  <1>12. CASE PortWord \/ FrameEnd
    <2>1. UNCHANGED <<piece, out, pc>> /\ capture # "off"
      BY <1>2, <1>12 DEF PortWord, FrameEnd, CameraType, sendVars
    <2>2. QED  BY <1>3, <1>5, <2>1
  <1>13. CASE PortStops \/ ServerCommand \/ UNCHANGED cameraVars
    BY <1>4, <1>13 DEF PortStops, ServerCommand, cameraVars, portVars, sendVars
  <1>14. ASSUME NEW res \in {"START", "STOP"}, UserCommand(res)
         PROVE  (PictureInv /\ SendInv)'
    BY <1>4, <1>14 DEF UserCommand, portVars, sendVars
  <1>15. QED
    BY <1>7, <1>8, <1>9, <1>10, <1>11, <1>12, <1>13, <1>14
    DEF CameraNext, CameraTask, Port

(* Arithmetic: p pieces and more, of q whole ones.                         *)
LEMMA InPieces ==
  ASSUME NEW a \in Nat, NEW b \in Nat, NEW n \in Nat, NEW p \in Nat \ {0},
         a <= n \div p, b = n \div p
  PROVE  a * p <= n /\ n < (b + 1) * p
  <1> DEFINE q == n \div p
  <1>1. q \in Nat /\ n = p * q + (n % p) /\ n % p \in 0 .. p - 1
    OBVIOUS
  <1>2. b = q /\ a <= q
    OBVIOUS
  <1> HIDE DEF q
  <1>3. n < p * q + p /\ p * q <= n
    <2> DEFINE whole == p * q
               rest == n % p
    <2>1. whole \in Nat /\ rest \in 0 .. p - 1 /\ n = whole + rest
      BY <1>1
    <2> HIDE DEF whole, rest
    <2>2. n < whole + p /\ whole <= n
      BY <2>1
    <2>3. QED  BY <2>2 DEF whole
  <1>4. (b + 1) * p = p * q + p
    <2>1. (q + 1) * p = p * q + p
      BY <1>1
    <2>2. QED  BY <1>2, <2>1
  <1>5. a * p <= p * q
    <2>1. PICK d \in Nat : q = a + d
      <3>1. q - a \in Nat /\ q = a + (q - a)
        BY <1>1, <1>2
      <3>2. QED  BY <3>1
    <2>2. p * q = a * p + d * p /\ d * p \in Nat
      BY <2>1
    <2>3. a * p \in Nat
      OBVIOUS
    <2>4. QED  BY <2>2, <2>3
  <1>6. a * p \in Nat /\ p * q \in Nat
    BY <1>1
  <1>7. QED  BY <1>3, <1>4, <1>5, <1>6

(* What is sent of a picture is the beginning of one frame, each word of it*)
(* once and in its place, whatever was left in the buffers by the frames   *)
(* before; of a picture of HELD pieces or more nothing but the last HELD   *)
(* and less than a piece is missing when all writes have succeeded.        *)
THEOREM WholePictureHolds == CameraSpec => []WholePicture
  <1>1. CameraInit => PictureInv /\ SendInv
    BY InitCamera DEF CameraInit, PictureInv, SendInv, Sending
  <1>2. PictureInv /\ SendInv => WholePicture
    <2> SUFFICES ASSUME PictureInv, SendInv, pc \in Sending, Long
                 PROVE  /\ out = [n \in 1 .. Len(out) |-> Word(n)]
                        /\ Len(out) + HELD * PIECE <= size
                        /\ pc = "end" => size < Len(out) + (HELD + 1) * PIECE
      BY DEF WholePicture, Sending, Long
    <2>1. /\ piece \in Nat /\ PIECE \in Nat \ {0} /\ HELD \in Nat \ {0}
          /\ WholeFrame /\ size \in Nat
          /\ out \in Seq(WordType) /\ Len(out) = piece * PIECE
          /\ \A i \in 1 .. Len(out) : out[i] = At(i)
          /\ piece + HELD <= size \div PIECE
          /\ pc = "end" => piece + HELD = size \div PIECE
      BY CameraAssumption DEF SendInv, PictureInv, WholeFrame
    <2>2. (piece + HELD) * PIECE = Len(out) + HELD * PIECE
          /\ (piece + HELD + 1) * PIECE = Len(out) + (HELD + 1) * PIECE
      BY <2>1
    <2>3. piece + HELD \in Nat
      BY <2>1
    <2>4. Len(out) + HELD * PIECE <= size
      <3>1. size \div PIECE \in Nat
        BY <2>1
      <3>2. (piece + HELD) * PIECE <= size
        BY <2>1, <2>3, <3>1, InPieces
      <3>3. QED  BY <2>2, <3>2
    <2>5. pc = "end" => size < Len(out) + (HELD + 1) * PIECE
      <3> SUFFICES ASSUME pc = "end" PROVE size < Len(out) + (HELD + 1) * PIECE
        OBVIOUS
      <3>1. piece + HELD = size \div PIECE /\ piece + HELD <= size \div PIECE
        BY <2>1
      <3>2. size < (piece + HELD + 1) * PIECE
        BY <2>1, <2>3, <3>1, InPieces
      <3>3. QED  BY <2>2, <3>2
    <2>6. Len(out) \in Nat /\ HELD * PIECE \in Nat
      BY <2>1
    <2>7. \A i \in 1 .. Len(out) : out[i] = Word(i)
      <3> SUFFICES ASSUME NEW i \in 1 .. Len(out) PROVE out[i] = Word(i)
        OBVIOUS
      <3>1. i \in 1 .. size
        BY <2>1, <2>4, <2>6
      <3>2. i <= Len(data) /\ data[i] = Word(i)
        BY <2>1, <3>1 DEF WholeFrame
      <3>3. QED  BY <2>1, <3>2 DEF At
    <2>8. out = [n \in 1 .. Len(out) |-> out[n]]
      BY <2>1
    <2>9. out = [n \in 1 .. Len(out) |-> Word(n)]
      BY <2>7, <2>8
    <2>10. QED  BY <2>4, <2>5, <2>9
  <1>3. QED  BY <1>1, StepSend, <1>2, PTL DEF CameraSpec

=============================================================================
