------------------------------- MODULE Malloc -------------------------------
(***************************************************************************)
(* The allocator of malloc.c on one bank: a table of one u16 a block, zero *)
(* for a free block and the length of its run for the others.              *)
(*                                                                         *)
(* my_mem_malloc searches the table from its top and then marks what it    *)
(* found; my_mem_free reads the length at the pointer and clears as many   *)
(* entries.  Neither masks interrupts, so a task of higher priority can    *)
(* run whole calls of its own between two accesses of a call: a step here  *)
(* is one access to the table, with the local computation after it.  A     *)
(* call of a bank used by one task, or made with interrupts masked, is     *)
(* never interrupted: Preemptive = FALSE.                                  *)
(*                                                                         *)
(* Callers give myfree only pointers they hold, once; those that do not    *)
(* are the subject of LampPath.  A size of 0 returns at once and changes   *)
(* nothing; myrealloc has no caller.                                       *)
(***************************************************************************)
EXTENDS Integers

CONSTANTS
    N,          \* blocks of the bank, memtblsize[memx]
    Task,       \* priorities of the tasks that call: the smaller the higher
    Pointer,    \* the pointers they keep
    Sizes,      \* the sizes they ask for, in blocks
    Preemptive  \* can a call interrupt another?

ASSUME SizeAssumption == N \in Nat \ {0}
ASSUME TaskAssumption == Task \subseteq Int
ASSUME SizesAssumption == Sizes \subseteq Nat \ {0}
ASSUME PreemptiveAssumption == Preemptive \in BOOLEAN

VARIABLES
    memmap,  \* mallco_dev.memmap[memx]
    call,    \* call[t]: the call task t is in, with its locals
    held     \* held[p]: the run p points to

vars == <<memmap, call, held>>

H == INSTANCE Heap

Block == 0 .. N - 1
Run == H!Run
NoRun == H!NoRun
BlocksOf(r) == H!BlocksOf(r)

(* k is cmemb while a call scans, i while it marks or clears.              *)
Call(op, p, n, offset, k) ==
    [op |-> op, ptr |-> p, nmemb |-> n, offset |-> offset, k |-> k]
NoCall == [op |-> "none"]

Busy(t) == call[t].op # "none"

\* A task runs when no task above it is in a call.
Running(t) == Busy(t) /\ \A u \in Task : u < t => ~Busy(u)

\* It can begin one, and so interrupt those below it.
MayCall(t) == \A u \in Task : Busy(u) => Preemptive /\ t < u

\* No call in progress is about p.
Settled(p) == \A u \in Task : Busy(u) => call[u].ptr # p

Init ==
    /\ memmap = [b \in Block |-> 0]
    /\ call = [t \in Task |-> NoCall]
    /\ held = [p \in Pointer |-> NoRun]

\* A slip: the length of the table is taken for its last index.
BeginMalloc_Top(t, p, n) ==
    /\ MayCall(t) /\ Settled(p) /\ held[p] = NoRun
    /\ call' = [call EXCEPT ![t] = Call("scan", p, n, N, 0)]
    /\ UNCHANGED <<memmap, held>>

BeginMalloc(t, p, n) ==
    /\ MayCall(t) /\ Settled(p) /\ held[p] = NoRun
    /\ call' = [call EXCEPT ![t] = Call("scan", p, n, N - 1, 0)]
    /\ UNCHANGED <<memmap, held>>

\* A slip: a block in use does not reset the counter.
Free_NoReset(c) == IF memmap[c.offset] = 0 THEN c.k + 1 ELSE c.k

\* Free blocks in a row, once the one at offset is read (lines 102-103).
Free(c) == IF memmap[c.offset] = 0 THEN c.k + 1 ELSE 0

\* The search goes on one block lower.
ScanOn(t) == LET c == call[t] IN
    /\ Running(t) /\ c.op = "scan" /\ Free(c) # c.nmemb /\ c.offset > 0
    /\ call' = [call EXCEPT ![t] =
                    Call("scan", c.ptr, c.nmemb, c.offset - 1, Free(c))]
    /\ UNCHANGED <<memmap, held>>

\* It has found its run.
ScanFound(t) == LET c == call[t] IN
    /\ Running(t) /\ c.op = "scan" /\ Free(c) = c.nmemb
    /\ call' = [call EXCEPT ![t] = Call("mark", c.ptr, c.nmemb, c.offset, 0)]
    /\ UNCHANGED <<memmap, held>>

\* A slip: the search stops above block 0.
ScanFailed_Early(t) == LET c == call[t] IN
    /\ Running(t) /\ c.op = "scan" /\ Free(c) # c.nmemb /\ c.offset <= 1
    /\ call' = [call EXCEPT ![t] = NoCall]
    /\ UNCHANGED <<memmap, held>>

\* It has found none: mymalloc returns NULL.
ScanFailed(t) == LET c == call[t] IN
    /\ Running(t) /\ c.op = "scan" /\ Free(c) # c.nmemb /\ c.offset = 0
    /\ call' = [call EXCEPT ![t] = NoCall]
    /\ UNCHANGED <<memmap, held>>

\* One entry takes the value v.  An entry past the table is another object.
Store(b, v) == memmap' = [x \in Block |-> IF x = b THEN v ELSE memmap[x]]

\* The loop of lines 106-109 and of 131-134 goes on, or is done.
Step(t) == LET c == call[t] IN
    call' = [call EXCEPT ![t] =
                IF c.k + 1 = c.nmemb THEN NoCall
                ELSE Call(c.op, c.ptr, c.nmemb, c.offset, c.k + 1)]

Mark(t) == LET c == call[t] IN
    /\ Running(t) /\ c.op = "mark"
    /\ Store(c.offset + c.k, c.nmemb)
    /\ Step(t)
    /\ held' = IF c.k + 1 = c.nmemb
               THEN [held EXCEPT ![c.ptr] = [at |-> c.offset, len |-> c.nmemb]]
               ELSE held

\* What my_mem_free reads at the pointer is the length it clears.
BeginFree(t, p) == LET n == memmap[held[p].at] IN
    /\ MayCall(t) /\ Settled(p) /\ held[p] # NoRun
    /\ held' = [held EXCEPT ![p] = NoRun]
    /\ call' = IF n = 0 THEN call
               ELSE [call EXCEPT ![t] = Call("clear", p, n, held[p].at, 0)]
    /\ UNCHANGED memmap

\* A slip: the first entry of the run is not cleared.
Clear_NotFirst(t) == LET c == call[t] IN
    /\ Running(t) /\ c.op = "clear"
    /\ Store(c.offset + c.k, IF c.k = 0 THEN c.nmemb ELSE 0)
    /\ Step(t)
    /\ UNCHANGED held

Clear(t) == LET c == call[t] IN
    /\ Running(t) /\ c.op = "clear"
    /\ Store(c.offset + c.k, 0)
    /\ Step(t)
    /\ UNCHANGED held

Next == \E t \in Task :
    \/ \E p \in Pointer : \/ \E n \in Sizes : BeginMalloc(t, p, n)
                          \/ BeginFree(t, p)
    \/ ScanOn(t) \/ ScanFound(t) \/ ScanFailed(t) \/ Mark(t) \/ Clear(t)

Spec == Init /\ [][Next]_vars

-----------------------------------------------------------------------------
CallInProgress == [op : {"scan", "mark", "clear"}, ptr : Pointer,
                   nmemb : Sizes \cup (1 .. N), offset : Block, k : 0 .. N]

(* Every value is one the C variable can have.                             *)
TypeOK ==
    /\ memmap \in [Block -> 0 .. N]
    /\ held \in [Pointer -> Run \cup {NoRun}]
    /\ call \in [Task -> {NoCall} \cup CallInProgress]

(* malloc.c keeps the promise of Heap: a run handed out by mymalloc meets  *)
(* no other in use, and only myfree takes it back.                         *)
HeapSpec == H!Spec

(* The table tells the truth: the length of each run in use stands in all  *)
(* its entries, for my_mem_free to read, and when no call is in progress   *)
(* no other entry is used (what my_mem_perused counts).                    *)
TableAgrees ==
    /\ \A p \in Pointer : \A b \in BlocksOf(held[p]) : memmap[b] = held[p].len
    /\ (\A t \in Task : ~Busy(t)) =>
           \A b \in Block : memmap[b] # 0 => \E p \in Pointer : b \in BlocksOf(held[p])

(* mymalloc returns NULL only when every run of the length asked for meets *)
(* one in use: the search of lines 100-112 misses none, the last included. *)
FailsOnlyWhenFull ==
    [][\A t \in Task : ScanFailed(t) =>
          \A r \in Run : r.len = call[t].nmemb => ~H!Unused(r)]_vars

(* The blocks my_mem_malloc marks are the empty ones it found (the comment *)
(* of line 104: it has found nmemb contiguous empty blocks).               *)
MarksEmpty ==
    \A t \in Task : call[t].op = "mark" =>
        \A j \in call[t].k .. call[t].nmemb - 1 : memmap[call[t].offset + j] = 0

=============================================================================
