-------------------------------- MODULE Heap --------------------------------
(***************************************************************************)
(* What the virtual machine may rely on when it uses the collected memory  *)
(* of back/gc.c: an address it can reach never loses its object, a new     *)
(* object comes in a cell that held none, and the collector may take back  *)
(* any cell the program cannot reach, at any time, and nothing else.       *)
(*                                                                         *)
(* The object types of back/object.c are told apart only by the pointers   *)
(* they hold, which is all the collector looks at:                         *)
(*   "data"  INT, FLOAT, CHAR, STRING: no pointer;                         *)
(*   "ref"   STRING_REF, VEC_REF, ARRAY_REF, FUNC: one pointer;            *)
(*   "box"   VEC, ARRAY: any number of pointers;                           *)
(*   "null"  object_value == NULL: the cell holds no object.               *)
(***************************************************************************)
EXTENDS Naturals, Sequences

CONSTANTS
  MemSize,   \* number of gc_mem cells; cell 0 is nil and is never allocated
  MaxKids,   \* bound: pointers in one box
  MaxStack,  \* bound: entries on the machine's stack
  OtherVals  \* bound: the values of stack entries that are no pointers

ASSUME MemSizeAssumption == MemSize \in Nat /\ MemSize >= 2
ASSUME BoundsAssumption  == 
  MaxKids \in Nat /\ MaxStack \in Nat /\ OtherVals \subseteq Nat

VARIABLES
  obj,    \* mem[a].object_value
  stack,  \* machine->stack[0 .. sp]
  gp      \* machine->gp, the vector of the running function's free variables

heapVars == <<obj, stack, gp>>

-----------------------------------------------------------------------------
Nil   == 0
Addr  == 1 .. MemSize - 1
Ptr   == 0 .. MemSize - 1
NoObj == [kind |-> "null", kids |-> << >>]

Object == [kind : {"data", "ref", "box", "null"}, kids : Seq(Ptr)]
Entry  == [type : {"ADDR"}, val : Ptr] \cup [type : {"IP"}, val : Nat]

Data     == [kind |-> "data", kids |-> << >>]
RefTo(p) == [kind |-> "ref",  kids |-> <<p>>]
Box(s)   == [kind |-> "box",  kids |-> s]

Allocated == {a \in Addr : obj[a].kind # "null"}

AddrEntry(p) == [type |-> "ADDR", val |-> p]

\* The pointers of the stack: an instruction pointer or a stack index may
\* have the bits of an address and is no pointer.
StackPtrs == {stack[i].val : i \in {j \in DOMAIN stack : stack[j].type = "ADDR"}}
Roots     == StackPtrs \cup {gp}

PtrsOf(o)    == {o.kids[i] : i \in DOMAIN o.kids}
Closed(h, S) == \A a \in S : PtrsOf(h[a]) \subseteq S \cup {Nil}

\* The cells the pointers of R lead to in the heap h: the least closed set
\* that holds them.
Reach(h, R) ==
  {a \in Addr : \A S \in SUBSET Addr :
                   R \subseteq S \cup {Nil} /\ Closed(h, S) => a \in S}

Reachable == Reach(obj, Roots)

-----------------------------------------------------------------------------
HeapInit ==
  /\ obj = [a \in Addr |-> NoObj]
  /\ stack = << >>
  /\ gp = Nil

\* What one instruction of the machine leaves on the stack.
PushEntry(e) ==
  /\ Len(stack) < MaxStack
  /\ stack' = Append(stack, e)

\* The objects a program can build from the pointers it holds.  A reference
\* points to a box or to a string; a box holds references and data.
NewObjects ==
  LET Targets  == {p \in StackPtrs : p # Nil => obj[p].kind \in {"box", "data"}}
      Elements == {p \in StackPtrs : p # Nil /\ obj[p].kind \in {"ref", "data"}}
  IN  {Data} \cup {RefTo(p) : p \in Targets \cup {Nil}}
             \cup {Box(s) : s \in UNION {[1 .. n -> Elements] : n \in 0 .. MaxKids}}

\* gc_alloc_int ... gc_alloc_func, with the gc_set_vec / gc_set_arr_elem calls
\* the instruction makes on a new box before it ends.
Put(a, o) ==
  /\ o \in NewObjects
  /\ obj' = [obj EXCEPT ![a] = o]
  /\ PushEntry(AddrEntry(a))
  /\ UNCHANGED gp

\* What the program may expect of it: the cell held nothing.
Place(a, o) == obj[a].kind = "null" /\ Put(a, o)

\* gc_set_vec, gc_set_arr_elem, gc_set_vec_ref, gc_set_arr_ref,
\* gc_set_string_ref and gc_set_func_vec on an object the program holds.
SetKid(a, i, p) ==
  /\ a \in StackPtrs \cap Allocated
  /\ i \in DOMAIN obj[a].kids
  /\ p \in StackPtrs
  /\ \/ obj[a].kind = "ref" /\ (p # Nil => obj[p].kind \in {"box", "data"})
     \/ obj[a].kind = "box" /\ p # Nil /\ obj[p].kind \in {"ref", "data"}
  /\ obj' = [obj EXCEPT ![a].kids[i] = p]
  /\ UNCHANGED <<stack, gp>>

\* gc_append_arr_elem.
AppendKid(a, p) ==
  /\ a \in StackPtrs \cap Allocated
  /\ obj[a].kind = "box" /\ Len(obj[a].kids) < MaxKids
  /\ p \in StackPtrs \ {Nil}
  /\ obj[p].kind \in {"ref", "data"}
  /\ obj' = [obj EXCEPT ![a].kids = Append(@, p)]
  /\ UNCHANGED <<stack, gp>>

\* gc_get_vec, gc_get_arr_elem, gc_get_vec_ref, gc_get_arr_ref,
\* gc_get_string_ref and gc_get_func_vec, the result being pushed.
Load(a, i) ==
  /\ a \in (StackPtrs \cup {gp}) \cap Allocated
  /\ i \in DOMAIN obj[a].kids
  /\ PushEntry(AddrEntry(obj[a].kids[i]))
  /\ UNCHANGED <<obj, gp>>

\* Pushing what is no pointer (MARK saves ip, fp, pp and the line) and nil.
PushOther(n) ==
  /\ PushEntry([type |-> "IP", val |-> n])
  /\ UNCHANGED <<obj, gp>>

\* SLIDE, RET and the other instructions that drop operands; sp cannot pass -1.
Drop ==
  /\ stack # << >>
  /\ stack' = SubSeq(stack, 1, Len(stack) - 1)
  /\ UNCHANGED <<obj, gp>>

\* CALL takes gp from the called function, RET from the saved frame: both are
\* vectors the stack leads to, directly or through a function object.
SwitchGp(p) ==
  /\ p \in StackPtrs \cup UNION {PtrsOf(obj[a]) : a \in StackPtrs \cap Allocated}
  /\ p # Nil => obj[p].kind = "box"
  /\ gp' = p
  /\ UNCHANGED <<obj, stack>>

\* What a program does to the memory besides placing objects.
Mutate ==
  \/ \E a \in Addr, i \in 1 .. MaxKids, p \in Ptr : SetKid(a, i, p)
  \/ \E a \in Addr, p \in Ptr : AppendKid(a, p)
  \/ \E a \in Addr, i \in 1 .. MaxKids : Load(a, i)
  \/ \E n \in OtherVals : PushOther(n)
  \/ Drop
  \/ \E p \in Ptr : SwitchGp(p)

\* What the collector may do, at any time.
Reclaim(a) ==
  /\ a \in Allocated \ Reachable
  /\ obj' = [obj EXCEPT ![a] = NoObj]
  /\ UNCHANGED <<stack, gp>>

HeapNext ==
  \/ \E a \in Addr : \E o \in NewObjects : Place(a, o)
  \/ Mutate
  \/ \E a \in Addr : Reclaim(a)

HeapSpec == HeapInit /\ [][HeapNext]_heapVars

-----------------------------------------------------------------------------
HeapTypeOK ==
  /\ obj \in [Addr -> Object]
  /\ stack \in Seq(Entry)
  /\ gp \in Ptr

(***************************************************************************)
(* No pointer the program can reach leads to a cell without an object:     *)
(* gc_mark_vec, gc_mark_arr and every gc_get_* dereference object_value    *)
(* with no test.                                                           *)
(***************************************************************************)
NoDangling == Reachable \subseteq Allocated
=============================================================================
