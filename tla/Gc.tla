--------------------------------- MODULE Gc ---------------------------------
(***************************************************************************)
(* The mark and sweep collector of back/gc.c.  Free cells are chained      *)
(* through `next` from `free`; every allocated cell is in the white list,  *)
(* wb_list[w_index], and a sweep moves the survivors to the other list and *)
(* exchanges the two.  A collection runs to its end inside one instruction *)
(* of the machine (SLIDE or RET), so the program does not move while       *)
(* phase is "mark" or "sweep".                                             *)
(*                                                                         *)
(* One step marks one address (a call of gc_mark, gc_mark_vec or           *)
(* gc_mark_arr) or sweeps one entry of the white list.  The recursion of   *)
(* gc_mark is the sequence `todo` of the addresses whose call is still to  *)
(* come, first the one that comes first.                                   *)
(***************************************************************************)
EXTENDS Heap

CONSTANTS
  GcNum, GcDen   \* gc_run starts a collection at GcNum/GcDen of mem_size

ASSUME GcAssumption == GcNum \in Nat /\ GcDen \in Nat \ {0}

VARIABLES
  mark,    \* mem[a].mark
  next,    \* mem[a].next
  free,    \* head of the free list, 0 when it is empty
  wb,      \* wb_list[0 .. 1], each cut at its wb_top
  w,       \* w_index
  phase,   \* where the control is: "run", "mark", "sweep" or, after exit(1), "oom"
  scan,    \* the loop index i of gc_mark_access and gc_sweep_all, from 1
  todo     \* pending calls of gc_mark

gcVars == <<mark, next, free, wb, w, phase, scan, todo>>
vars   == <<heapVars, gcVars>>

White == wb[w]
Black == wb[1 - w]

-----------------------------------------------------------------------------
\* The chain gc_new builds: the last cell ends it.
NextRunsOff == [a \in Addr |-> a + 1]                \* mutant: no end of chain
InitialNext == [a \in Addr |-> IF a = MemSize - 1 THEN 0 ELSE a + 1]

\* gc_new.
Init ==
  /\ HeapInit
  /\ mark = [a \in Addr |-> 0]
  /\ next = InitialNext
  /\ free = 1
  /\ wb = [l \in 0 .. 1 |-> << >>]
  /\ w = 0
  /\ phase = "run"
  /\ scan = 1
  /\ todo = << >>

\* gc_alloc_any with a cell left.
Alloc(o) ==
  /\ phase = "run"
  /\ free # 0
  /\ Put(free, o)
  /\ free' = next[free]
  /\ wb' = [wb EXCEPT ![w] = Append(@, free)]
  /\ UNCHANGED <<mark, next, w, phase, scan, todo>>

\* gc_alloc_any with none: "out of memory" and exit(1).
AllocFails ==
  /\ phase = "run"
  /\ free = 0
  /\ Len(stack) < MaxStack
  /\ phase' = "oom"
  /\ UNCHANGED <<heapVars, mark, next, free, wb, w, scan, todo>>

MutatorStep ==
  /\ phase = "run"
  /\ Mutate
  /\ UNCHANGED gcVars

\* gc_run past its early return: the white list is as long as the threshold.
StartCollection ==
  /\ phase = "run"
  /\ Len(White) * GcDen >= MemSize * GcNum
  /\ phase' = "mark"
  /\ scan' = 1
  /\ todo' = << >>
  /\ UNCHANGED <<heapVars, mark, next, free, wb, w>>

\* The call of gc_mark that a stack entry causes, as a sequence of none or one.
RootCallAnyType(e) == IF e.val \in Addr /\ mark[e.val] = 0
                      THEN <<e.val>> ELSE << >>      \* mutant: no test of type
RootCall(e) == IF e.type = "ADDR" /\ e.val > 0 /\ mark[e.val] = 0
               THEN <<e.val>> ELSE << >>

GlobalVecSkipped == << >>                            \* mutant: gp is no root
GlobalVecCall    == IF gp > 0 THEN <<gp>> ELSE << >>

\* One turn of the loop of gc_mark_access.
ScanStack ==
  /\ phase = "mark" /\ todo = << >>
  /\ scan <= Len(stack)
  /\ todo' = RootCall(stack[scan])
  /\ scan' = scan + 1
  /\ UNCHANGED <<heapVars, mark, next, free, wb, w, phase>>

\* gc_mark(collector, global_vec), after the stack.
ScanGlobalVec ==
  /\ phase = "mark" /\ todo = << >>
  /\ scan = Len(stack) + 1
  /\ todo' = GlobalVecCall
  /\ scan' = scan + 1
  /\ UNCHANGED <<heapVars, mark, next, free, wb, w, phase>>

\* Whether a call of gc_mark on the cell a marks it: a box only once
\* (gc_mark_vec, gc_mark_arr), any other object again and again.
MarksAgain(a) == a # Nil /\ obj[a].kind # "null"       \* mutant: boxes too
Marks(a) == a # Nil /\ obj[a].kind # "null" /\ (obj[a].kind = "box" => mark[a] = 0)

\* The calls that marking the cell a makes, one for each pointer it holds.
CallsButLast(a) == SubSeq(obj[a].kids, 1, Len(obj[a].kids) - 1) \* mutant: i < size - 1
Calls(a) == obj[a].kids

\* One call of gc_mark, gc_mark_vec or gc_mark_arr: the calls it makes come
\* before those already pending.
MarkOne ==
  /\ phase = "mark" /\ todo # << >>
  /\ LET a == Head(todo) IN
     IF Marks(a)
     THEN /\ mark' = [mark EXCEPT ![a] = 1]
          /\ todo' = Calls(a) \o Tail(todo)
     ELSE /\ mark' = mark
          /\ todo' = Tail(todo)
  /\ UNCHANGED <<heapVars, next, free, wb, w, phase, scan>>

StartSweep ==
  /\ phase = "mark" /\ todo = << >>
  /\ scan = Len(stack) + 2
  /\ phase' = "sweep"
  /\ scan' = 1
  /\ UNCHANGED <<heapVars, mark, next, free, wb, w, todo>>

\* What the sweep leaves in `next` and `free` when it frees the cell a, and in
\* `mark` when it keeps it.
LinkLost(a) == [next EXCEPT ![a] = 0]                \* mutant: the chain is cut
Link(a)     == [next EXCEPT ![a] = free]
HeadKept(a) == free                                  \* mutant: the cell leaks
NewHead(a)  == a
MarkKept(a) == mark                                  \* mutant: mark not cleared
Unmark(a)   == [mark EXCEPT ![a] = 0]

\* gc_sweep_all, an unmarked object: the cell goes to the head of the free list.
SweepDead ==
  /\ phase = "sweep" /\ scan <= Len(White)
  /\ LET a == White[scan] IN
       /\ mark[a] = 0 /\ obj[a].kind # "null"
       /\ obj'  = [obj  EXCEPT ![a] = NoObj]
       /\ next' = Link(a)
       /\ free' = NewHead(a)
  /\ scan' = scan + 1
  /\ UNCHANGED <<stack, gp, mark, wb, w, phase, todo>>

\* gc_sweep_all, a marked object: it moves to the black list.
SweepLive ==
  /\ phase = "sweep" /\ scan <= Len(White)
  /\ LET a == White[scan] IN
       /\ mark[a] = 1
       /\ mark' = Unmark(a)
       /\ wb'   = [wb   EXCEPT ![1 - w] = Append(@, a)]
  /\ scan' = scan + 1
  /\ UNCHANGED <<heapVars, next, free, w, phase, todo>>

\* The lists after gc_sweep_all: wb_top of the swept one is reset.
WhiteKept    == wb                                   \* mutant: no reset
WhiteCleared == [wb EXCEPT ![w] = << >>]

\* The end of gc_sweep_all.
EndSweep ==
  /\ phase = "sweep" /\ scan > Len(White)
  /\ wb' = WhiteCleared
  /\ w' = 1 - w
  /\ phase' = "run"
  /\ scan' = 1
  /\ UNCHANGED <<heapVars, mark, next, free, todo>>

Collector ==
  \/ ScanStack \/ ScanGlobalVec \/ MarkOne \/ StartSweep
  \/ SweepDead \/ SweepLive \/ EndSweep

Next ==
  \/ \E o \in NewObjects : Alloc(o)
  \/ AllocFails
  \/ MutatorStep
  \/ StartCollection
  \/ Collector

Spec     == Init /\ [][Next]_vars
FairSpec == Spec /\ WF_vars(Collector)

-----------------------------------------------------------------------------
TypeOK ==
  /\ HeapTypeOK
  /\ mark \in [Addr -> 0 .. 1]
  /\ next \in [Addr -> Ptr]
  /\ free \in Ptr
  /\ wb \in [0 .. 1 -> Seq(Addr)]
  /\ w \in 0 .. 1
  /\ phase \in {"run", "mark", "sweep", "oom"}
  /\ scan \in Nat \ {0}
  /\ todo \in Seq(Ptr)

(***************************************************************************)
(* f lists the free cells in the order of the chain: no cell is lost, none *)
(* is in the chain twice and no allocated cell is in it, whatever          *)
(* allocations and sweeps have linked it.                                  *)
(***************************************************************************)
IsFreeList(f) ==
  /\ free = IF f = << >> THEN 0 ELSE f[1]
  /\ \A i \in DOMAIN f : next[f[i]] = IF i = Len(f) THEN 0 ELSE f[i + 1]
  /\ \A i, j \in DOMAIN f : f[i] = f[j] => i = j
  /\ {f[i] : i \in DOMAIN f} = Addr \ Allocated

FreeListOK == \E n \in 0 .. MemSize - 1 : \E f \in [1 .. n -> Addr] : IsFreeList(f)

(***************************************************************************)
(* The two lists hold every allocated cell once: a cell missing from both  *)
(* would never be swept, one in twice would be swept twice and linked      *)
(* twice into the free list.                                               *)
(***************************************************************************)
Unswept == IF phase = "sweep" THEN {i \in DOMAIN White : i >= scan} ELSE DOMAIN White

ListsOK ==
  /\ \A i, j \in DOMAIN White : White[i] = White[j] => i = j
  /\ \A i, j \in DOMAIN Black : Black[i] = Black[j] => i = j
  /\ \A i \in Unswept : \A j \in DOMAIN Black : White[i] # Black[j]
  /\ Allocated = {White[i] : i \in Unswept} \cup {Black[j] : j \in DOMAIN Black}

(***************************************************************************)
(* Between two collections no mark is left and the other list is empty:    *)
(* gc_mark_access skips an entry whose cell is marked, so a mark that      *)
(* outlived a sweep would hide everything behind it from the next one.     *)
(***************************************************************************)
CleanBetweenCollections ==
  phase \in {"run", "oom"} => (\A a \in Addr : mark[a] = 0) /\ Black = << >>

(***************************************************************************)
(* gc_mark_vec and gc_mark_arr read object_value of the cell they are      *)
(* given with no test: no call still to come is for a cell without object. *)
(***************************************************************************)
PendingLive ==
  phase = "mark" => \A i \in DOMAIN todo : todo[i] \in Allocated \cup {Nil}

(***************************************************************************)
(* The program dies with "out of memory" only when every cell holds an     *)
(* object (reachable or not: gc_alloc_any does not collect).               *)
(***************************************************************************)
OomOnlyWhenFull == phase = "oom" => Allocated = Addr

(***************************************************************************)
(* A collection that ends has freed everything the program cannot reach.   *)
(***************************************************************************)
CollectsAllGarbage ==
  [][phase = "sweep" /\ phase' = "run" => Allocated' = Reachable']_vars

(***************************************************************************)
(* Marking stops, whatever cycles the heap holds, and so does the sweep.   *)
(***************************************************************************)
CollectionEnds == phase \in {"mark", "sweep"} ~> phase = "run"

(***************************************************************************)
(* The collector is an implementation of the abstract heap.                *)
(***************************************************************************)
ImplementsHeap == HeapSpec

-----------------------------------------------------------------------------
(***************************************************************************)
(* Why it is: the invariant of a collection.  While it marks, whatever a   *)
(* marked cell or a root already read points to is marked or has a call    *)
(* pending, and nothing out of reach is either; while it sweeps, the cells *)
(* still marked and those already moved to the black list are exactly the  *)
(* reachable ones.                                                         *)
(***************************************************************************)
Marked  == {a \in Addr : mark[a] = 1}
Pending == {todo[i] : i \in DOMAIN todo}
Moved   == {Black[j] : j \in DOMAIN Black}
Scanned == {stack[i].val : i \in {j \in DOMAIN stack : j < scan /\ stack[j].type = "ADDR"}}

MarkInv ==
  phase = "mark" =>
    /\ Black = << >>
    /\ scan <= Len(stack) + 2
    /\ Marked \subseteq Reachable
    /\ Pending \subseteq Reachable \cup {Nil}
    /\ \A a \in Marked : PtrsOf(obj[a]) \subseteq Marked \cup Pending \cup {Nil}
    /\ Scanned \subseteq Marked \cup Pending \cup {Nil}
    /\ scan = Len(stack) + 2 => gp \in Marked \cup Pending \cup {Nil}

SweepInv ==
  phase = "sweep" =>
    /\ todo = << >>
    /\ Marked \cup Moved = Reachable
    /\ Marked \cap Moved = {}

GcInv ==
  /\ TypeOK
  /\ NoDangling
  /\ FreeListOK
  /\ ListsOK
  /\ CleanBetweenCollections
  /\ MarkInv
  /\ SweepInv
=============================================================================
