-------------------------------- MODULE Heap --------------------------------
(***************************************************************************)
(* What the callers of malloc.c rely on, whatever way it keeps its books:  *)
(* a pointer obtained from mymalloc owns a run of blocks no other pointer  *)
(* owns, until it is given to myfree.                                      *)
(***************************************************************************)
EXTENDS Integers

CONSTANTS
    N,        \* blocks of the bank, memtblsize[memx]
    Pointer   \* the pointers the program keeps

VARIABLE held   \* held[p]: the run of blocks p owns

Run == {r \in [at : 0 .. N - 1, len : 1 .. N] : r.at + r.len <= N}
NoRun == [at |-> 0, len |-> 0]

\* The blocks of a run.
BlocksOf(r) == r.at .. r.at + r.len - 1

\* A run that meets no run in use.
Unused(r) == \A p \in Pointer : BlocksOf(r) \cap BlocksOf(held[p]) = {}

Init == held = [p \in Pointer |-> NoRun]

Alloc(p) ==
    /\ held[p] = NoRun
    /\ \E r \in Run : Unused(r) /\ held' = [held EXCEPT ![p] = r]

Release(p) ==
    /\ held[p] # NoRun
    /\ held' = [held EXCEPT ![p] = NoRun]

Next == \E p \in Pointer : Alloc(p) \/ Release(p)

Spec == Init /\ [][Next]_held

\* No block belongs to two pointers.
Disjoint ==
    \A p, q \in Pointer : p # q => BlocksOf(held[p]) \cap BlocksOf(held[q]) = {}

=============================================================================
