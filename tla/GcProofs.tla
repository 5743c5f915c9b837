------------------------------ MODULE GcProofs ------------------------------
(***************************************************************************)
(* Theorems about the abstract heap and the collector.  Reachability is    *)
(* the least closed set above the roots, and no step of a program or of a  *)
(* collector leaves a reachable pointer without an object.  The collector  *)
(* of gc.c keeps its invariant GcInv, for every size of the memory, of the *)
(* stack and of the boxes and for every threshold, and therefore           *)
(* implements the abstract heap and frees all garbage.                     *)
(***************************************************************************)
EXTENDS Gc, TLAPS, FunctionTheorems, FiniteSetTheorems

-----------------------------------------------------------------------------
(***************************************************************************)
(* The abstract heap.                                                      *)
(***************************************************************************)
LEMMA ReachBounds ==
  ASSUME NEW h, NEW R
  PROVE  Reach(h, R) \subseteq Addr
BY DEF Reach

\* The roots are reachable.
LEMMA ReachRoots ==
  ASSUME NEW h, NEW R \in SUBSET Ptr
  PROVE  R \subseteq Reach(h, R) \cup {Nil}
BY DEF Reach, Ptr, Addr, Nil

\* What a reachable cell points to is reachable.
LEMMA ReachClosed ==
  ASSUME NEW h, NEW R \in SUBSET Ptr, \A a \in Addr : PtrsOf(h[a]) \subseteq Ptr
  PROVE  Closed(h, Reach(h, R))
<1> SUFFICES ASSUME NEW a \in Reach(h, R), NEW p \in PtrsOf(h[a]), p # Nil
             PROVE  p \in Reach(h, R)
  BY DEF Closed
<1>1. a \in Addr /\ p \in Addr
  BY ReachBounds DEF Ptr, Addr, Nil
<1>2. ASSUME NEW S \in SUBSET Addr, R \subseteq S \cup {Nil}, Closed(h, S)
      PROVE  p \in S
  <2>1. a \in S
    BY <1>2 DEF Reach
  <2>2. QED
    BY <2>1, <1>2 DEF Closed
<1>3. QED
  BY <1>1, <1>2 DEF Reach

\* Any closed set of cells above the roots holds the reachable cells.
LEMMA ReachLeast ==
  ASSUME NEW h, NEW R, NEW S \in SUBSET Addr,
         R \subseteq S \cup {Nil}, Closed(h, S)
  PROVE  Reach(h, R) \subseteq S
BY DEF Reach

LEMMA PtrsTyped ==
  ASSUME NEW o \in Object
  PROVE  PtrsOf(o) \subseteq Ptr
BY DEF Object, PtrsOf

\* The roots of a well typed heap are pointers.
LEMMA RootsTyped ==
  ASSUME HeapTypeOK
  PROVE  /\ Roots \in SUBSET Ptr
         /\ StackPtrs \in SUBSET Ptr
         /\ \A a \in Addr : PtrsOf(obj[a]) \subseteq Ptr
<1>1. \A i \in DOMAIN stack : stack[i].type = "ADDR" => stack[i].val \in Ptr
  BY DEF HeapTypeOK, Entry
<1>2. StackPtrs \subseteq Ptr
  BY <1>1 DEF StackPtrs
<1>3. \A a \in Addr : PtrsOf(obj[a]) \subseteq Ptr
  BY PtrsTyped DEF HeapTypeOK
<1>4. QED
  BY <1>2, <1>3 DEF Roots, HeapTypeOK

\* Reachability of the current state: above the roots, closed, within Addr.
LEMMA ReachableFacts ==
  ASSUME HeapTypeOK
  PROVE  /\ Reachable \in SUBSET Addr
         /\ Roots \subseteq Reachable \cup {Nil}
         /\ StackPtrs \subseteq Reachable \cup {Nil}
         /\ gp \in Reachable \cup {Nil}
         /\ \A a \in Reachable : PtrsOf(obj[a]) \subseteq Reachable \cup {Nil}
<1>1. Reachable \in SUBSET Addr
  BY ReachBounds DEF Reachable
<1>2. Roots \subseteq Reachable \cup {Nil}
  BY RootsTyped, ReachRoots DEF Reachable
<1>3. Closed(obj, Reachable)
  BY RootsTyped, ReachClosed DEF Reachable
<1>4. QED
  BY <1>1, <1>2, <1>3 DEF Roots, Closed

\* How a step can preserve NoDangling: some set of allocated cells is above
\* the new roots and closed in the new heap.
LEMMA NoDanglingFrom ==
  ASSUME NEW S \in SUBSET Addr,
         Roots' \subseteq S \cup {Nil},
         \A a \in S : PtrsOf(obj'[a]) \subseteq S \cup {Nil},
         S \subseteq Allocated'
  PROVE  NoDangling'
<1>1. Closed(obj', S)
  BY DEF Closed
<1>2. Reach(obj', Roots') \subseteq S
  BY <1>1, ReachLeast
<1>3. QED
  BY <1>2 DEF NoDangling, Reachable

\* Pushing an entry adds at most that entry to the stack's pointers.
LEMMA PushPtrs ==
  ASSUME HeapTypeOK, NEW e \in Entry, stack' = Append(stack, e)
  PROVE  /\ stack' \in Seq(Entry)
         /\ e.type = "ADDR" => StackPtrs' \subseteq StackPtrs \cup {e.val}
         /\ e.type # "ADDR" => StackPtrs' \subseteq StackPtrs
<1>1. stack \in Seq(Entry)
  BY DEF HeapTypeOK
<1>2. stack' \in Seq(Entry) /\ Len(stack') = Len(stack) + 1
  BY <1>1
<1>3. \A i \in DOMAIN stack' : IF i \in DOMAIN stack THEN stack'[i] = stack[i]
                                                     ELSE stack'[i] = e
  BY <1>1
<1>4. QED
  BY <1>2, <1>3 DEF StackPtrs

\* An address is a well typed stack entry.
LEMMA AddrEntryTyped ==
  ASSUME NEW p \in Ptr
  PROVE  AddrEntry(p) \in Entry /\ AddrEntry(p).type = "ADDR" /\ AddrEntry(p).val = p
BY DEF AddrEntry, Entry

\* A new object is well typed and points only to what the program holds.
LEMMA NewObjectsTyped ==
  ASSUME HeapTypeOK, NEW o \in NewObjects
  PROVE  /\ o \in Object
         /\ o.kind # "null"
         /\ PtrsOf(o) \subseteq StackPtrs \cup {Nil}
<1> DEFINE Targets  == {p \in StackPtrs : p # Nil => obj[p].kind \in {"box", "data"}}
           Elements == {p \in StackPtrs : p # Nil /\ obj[p].kind \in {"ref", "data"}}
<1>1. StackPtrs \subseteq Ptr /\ Nil \in Ptr
  BY RootsTyped, MemSizeAssumption DEF Ptr, Nil
<1>2. CASE o = Data
  BY <1>2 DEF Data, Object, PtrsOf
<1>3. CASE \E p \in Targets \cup {Nil} : o = RefTo(p)
  <2>1. PICK p \in StackPtrs \cup {Nil} : o = RefTo(p)
    BY <1>3
  <2>2. p \in Ptr /\ o.kids = <<p>> /\ o.kind = "ref"
    BY <2>1, <1>1 DEF RefTo
  <2>3. o \in Object
    BY <2>1, <2>2 DEF RefTo, Object
  <2>4. PtrsOf(o) = {p}
    BY <2>2 DEF PtrsOf
  <2>5. QED
    BY <2>1, <2>2, <2>3, <2>4
<1>4. CASE \E s \in UNION {[1 .. n -> Elements] : n \in 0 .. MaxKids} : o = Box(s)
  <2>0. PICK n \in 0 .. MaxKids : \E s \in [1 .. n -> Elements] : o = Box(s)
    BY <1>4
  <2>1. PICK s \in [1 .. n -> Elements] : o = Box(s)
    BY <2>0
  <2>2. s \in Seq(Ptr) /\ DOMAIN s = 1 .. n
    BY <1>1 DEF Elements
  <2>3. o \in Object /\ o.kind = "box" /\ o.kids = s
    BY <2>1, <2>2 DEF Box, Object
  <2>4. PtrsOf(o) \subseteq Elements
    BY <2>2, <2>3 DEF PtrsOf
  <2>5. QED
    BY <2>3, <2>4
<1>5. QED
  BY <1>2, <1>3, <1>4 DEF NewObjects
-----------------------------------------------------------------------------
\* Each operation keeps the heap well typed.
LEMMA PutTyped ==
  ASSUME HeapTypeOK, NEW a \in Addr, NEW o \in NewObjects, Put(a, o)
  PROVE  HeapTypeOK'
<1>1. o \in Object
  BY NewObjectsTyped
<1>2. AddrEntry(a) \in Entry
  BY AddrEntryTyped DEF Addr, Ptr
<1>3. QED
  BY <1>1, <1>2, PushPtrs DEF Put, PushEntry, HeapTypeOK

LEMMA MutateTyped ==
  ASSUME HeapTypeOK, Mutate
  PROVE  HeapTypeOK'
<1>1. ASSUME NEW a \in Addr, NEW i \in 1 .. MaxKids, NEW p \in Ptr, SetKid(a, i, p)
      PROVE  HeapTypeOK'
  <2>1. obj[a] \in Object
    BY DEF HeapTypeOK
  <2>2. [obj[a].kids EXCEPT ![i] = p] \in Seq(Ptr)
    BY <2>1, <1>1 DEF Object, SetKid
  <2>3. [obj[a] EXCEPT !.kids[i] = p] \in Object
    BY <2>1, <2>2 DEF Object
  <2>4. QED
    BY <2>3, <1>1 DEF SetKid, HeapTypeOK
<1>2. ASSUME NEW a \in Addr, NEW p \in Ptr, AppendKid(a, p)
      PROVE  HeapTypeOK'
  <2>1. obj[a] \in Object /\ Append(obj[a].kids, p) \in Seq(Ptr)
    BY DEF HeapTypeOK, Object
  <2>3. [obj[a] EXCEPT !.kids = Append(@, p)] \in Object
    BY <2>1 DEF Object
  <2>2. QED
    BY <2>3, <1>2 DEF AppendKid, HeapTypeOK
<1>3. ASSUME NEW a \in Addr, NEW i \in 1 .. MaxKids, Load(a, i)
      PROVE  HeapTypeOK'
  <2>1. obj[a].kids[i] \in Ptr
    BY <1>3 DEF Load, HeapTypeOK, Object
  <2>2. QED
    BY <2>1, <1>3, AddrEntryTyped, PushPtrs DEF Load, PushEntry, HeapTypeOK
<1>4. ASSUME NEW n \in OtherVals, PushOther(n)
      PROVE  HeapTypeOK'
  <2>1. [type |-> "IP", val |-> n] \in Entry
    BY BoundsAssumption DEF Entry
  <2>2. QED
    BY <2>1, <1>4, PushPtrs DEF PushOther, PushEntry, HeapTypeOK
<1>5. CASE Drop
  BY <1>5 DEF Drop, HeapTypeOK
<1>6. ASSUME NEW p \in Ptr, SwitchGp(p)
      PROVE  HeapTypeOK'
  BY <1>6 DEF SwitchGp, HeapTypeOK
<1>7. QED
  BY <1>1, <1>2, <1>3, <1>4, <1>5, <1>6 DEF Mutate

LEMMA ReclaimTyped ==
  ASSUME HeapTypeOK, NEW a \in Addr, Reclaim(a)
  PROVE  HeapTypeOK'
BY DEF Reclaim, HeapTypeOK, NoObj, Object

-----------------------------------------------------------------------------
\* Each operation keeps reachable pointers live.
LEMMA PlaceNoDangling ==
  ASSUME HeapTypeOK, NoDangling, NEW a \in Addr, NEW o \in NewObjects, Place(a, o)
  PROVE  NoDangling'
<1> DEFINE S == Reachable \cup {a}
<1>1. S \in SUBSET Addr /\ a \notin Reachable
  BY ReachableFacts DEF NoDangling, Allocated, Place, Put
<1>2. Roots' \subseteq S \cup {Nil}
  <2>1. StackPtrs' \subseteq StackPtrs \cup {a}
    BY PushPtrs, AddrEntryTyped DEF Place, Put, PushEntry, Addr, Ptr
  <2>2. QED
    BY <2>1, ReachableFacts DEF Place, Put, Roots
<1>3. ASSUME NEW b \in S PROVE PtrsOf(obj'[b]) \subseteq S \cup {Nil}
  <2>1. CASE b = a
    BY <2>1, NewObjectsTyped, ReachableFacts DEF Place, Put, HeapTypeOK
  <2>2. CASE b # a
    BY <2>2, <1>1, <1>3, ReachableFacts DEF Place, Put, HeapTypeOK
  <2>3. QED
    BY <2>1, <2>2
<1>4. S \subseteq Allocated'
  BY <1>1, NewObjectsTyped DEF NoDangling, Allocated, Place, Put, HeapTypeOK
<1>5. QED
  BY <1>1, <1>2, <1>3, <1>4, NoDanglingFrom

\* A step that only redirects what the program holds to what it can reach
\* reaches nothing new.
OnlyRedirects ==
  /\ Roots' \subseteq Reachable \cup {Nil}
  /\ \A b \in Addr : /\ obj'[b].kind = obj[b].kind
                    /\ PtrsOf(obj'[b]) \subseteq PtrsOf(obj[b]) \cup StackPtrs

LEMMA MutateShrinks ==
  ASSUME HeapTypeOK, NoDangling, Mutate
  PROVE  OnlyRedirects
<1> USE DEF OnlyRedirects
<1>1. ASSUME NEW a \in Addr, NEW i \in 1 .. MaxKids, NEW p \in Ptr, SetKid(a, i, p)
      PROVE  OnlyRedirects
  <2>1. ASSUME NEW b \in Addr
        PROVE  /\ obj'[b].kind = obj[b].kind
               /\ PtrsOf(obj'[b]) \subseteq PtrsOf(obj[b]) \cup StackPtrs
    <3>1. CASE b = a
      <4>1. obj'[a].kids = [obj[a].kids EXCEPT ![i] = p] /\ obj'[a].kind = obj[a].kind
        BY <1>1 DEF SetKid, HeapTypeOK, Object
      <4>2. PtrsOf(obj'[a]) \subseteq PtrsOf(obj[a]) \cup {p}
        BY <4>1 DEF PtrsOf
      <4>3. QED
        BY <4>1, <4>2, <3>1, <1>1 DEF SetKid
    <3>2. CASE b # a
      BY <3>2, <1>1 DEF SetKid, HeapTypeOK
    <3>3. QED
      BY <3>1, <3>2
  <2>2. Roots' = Roots
    BY <1>1 DEF SetKid, Roots, StackPtrs
  <2>3. QED
    BY <2>1, <2>2, ReachableFacts
<1>2. ASSUME NEW a \in Addr, NEW p \in Ptr, AppendKid(a, p)
      PROVE  OnlyRedirects
  <2>1. ASSUME NEW b \in Addr
        PROVE  /\ obj'[b].kind = obj[b].kind
               /\ PtrsOf(obj'[b]) \subseteq PtrsOf(obj[b]) \cup StackPtrs
    <3>1. CASE b = a
      <4>1. obj'[a].kids = Append(obj[a].kids, p) /\ obj'[a].kind = obj[a].kind
        BY <1>2 DEF AppendKid, HeapTypeOK, Object
      <4>2. obj[a].kids \in Seq(Ptr)
        BY DEF HeapTypeOK, Object
      <4>3. PtrsOf(obj'[a]) \subseteq PtrsOf(obj[a]) \cup {p}
        BY <4>1, <4>2 DEF PtrsOf
      <4>4. QED
        BY <4>1, <4>3, <3>1, <1>2 DEF AppendKid
    <3>2. CASE b # a
      BY <3>2, <1>2 DEF AppendKid, HeapTypeOK
    <3>3. QED
      BY <3>1, <3>2
  <2>2. Roots' = Roots
    BY <1>2 DEF AppendKid, Roots, StackPtrs
  <2>3. QED
    BY <2>1, <2>2, ReachableFacts
<1>3. ASSUME NEW a \in Addr, NEW i \in 1 .. MaxKids, Load(a, i)
      PROVE  OnlyRedirects
  <2>1. obj[a].kids[i] \in PtrsOf(obj[a]) /\ obj[a].kids[i] \in Ptr
    BY <1>3, RootsTyped DEF Load, PtrsOf
  <2>2. a \in Reachable
    BY <1>3, ReachableFacts DEF Load, Addr, Nil
  <2>3. StackPtrs' \subseteq StackPtrs \cup {obj[a].kids[i]}
    BY <1>3, <2>1, PushPtrs, AddrEntryTyped DEF Load, PushEntry
  <2>4. QED
    BY <1>3, <2>1, <2>2, <2>3, ReachableFacts DEF Load, Roots
<1>4. ASSUME NEW n \in OtherVals, PushOther(n)
      PROVE  OnlyRedirects
  <2>1. [type |-> "IP", val |-> n] \in Entry /\ [type |-> "IP", val |-> n].type # "ADDR"
    BY BoundsAssumption DEF Entry
  <2>2. StackPtrs' \subseteq StackPtrs
    BY <2>1, <1>4, PushPtrs DEF PushOther, PushEntry
  <2>3. QED
    BY <1>4, <2>2, ReachableFacts DEF PushOther, Roots
<1>5. CASE Drop
  <2>1. StackPtrs' \subseteq StackPtrs
    BY <1>5 DEF Drop, StackPtrs, HeapTypeOK
  <2>2. QED
    BY <1>5, <2>1, ReachableFacts DEF Drop, Roots
<1>6. ASSUME NEW p \in Ptr, SwitchGp(p)
      PROVE  OnlyRedirects
  <2>1. p \in Reachable \cup {Nil}
    BY <1>6, ReachableFacts DEF SwitchGp, Addr, Nil, Allocated
  <2>2. StackPtrs' = StackPtrs
    BY <1>6 DEF SwitchGp, StackPtrs
  <2>3. QED
    BY <1>6, <2>1, <2>2, ReachableFacts DEF SwitchGp, Roots
<1>7. QED
  BY <1>1, <1>2, <1>3, <1>4, <1>5, <1>6 DEF Mutate
LEMMA MutateNoDangling ==
  ASSUME HeapTypeOK, NoDangling, Mutate
  PROVE  NoDangling'
<1>1. Reachable \in SUBSET Addr /\ Roots' \subseteq Reachable \cup {Nil}
  BY ReachableFacts, MutateShrinks DEF OnlyRedirects
<1>2. \A b \in Reachable : PtrsOf(obj'[b]) \subseteq Reachable \cup {Nil}
  BY <1>1, ReachableFacts, MutateShrinks DEF OnlyRedirects
<1>3. Reachable \subseteq Allocated'
  BY <1>1, MutateShrinks DEF NoDangling, Allocated, OnlyRedirects
<1>4. QED
  BY <1>1, <1>2, <1>3, NoDanglingFrom

\* Taking back a cell that is not reachable changes no reachable object, so
\* what is reachable stays the same.
LEMMA ReclaimReach ==
  ASSUME HeapTypeOK, NEW a \in Addr \ Reachable,
         obj' = [obj EXCEPT ![a] = NoObj], UNCHANGED <<stack, gp>>
  PROVE  Reachable' = Reachable
<1>1. Roots' = Roots /\ HeapTypeOK'
  BY DEF Roots, StackPtrs, HeapTypeOK, NoObj, Object
<1>2. \A b \in Addr \ {a} : obj'[b] = obj[b]
  BY DEF HeapTypeOK
<1>3. PtrsOf(obj'[a]) = {}
  BY DEF HeapTypeOK, PtrsOf, NoObj
<1>4. Reachable' \subseteq Reachable
  <2>1. Closed(obj', Reachable)
    BY <1>2, ReachableFacts DEF Closed
  <2>2. QED
    BY <2>1, <1>1, ReachableFacts, ReachLeast DEF Reachable
<1>5. Reachable \subseteq Reachable'
  <2>1. Roots' \in SUBSET Ptr /\ \A b \in Addr : PtrsOf(obj'[b]) \subseteq Ptr
    BY <1>1, RootsTyped, PtrsTyped DEF HeapTypeOK
  <2>2. /\ Reachable' \in SUBSET Addr
        /\ Roots' \subseteq Reachable' \cup {Nil}
        /\ Closed(obj', Reachable')
    BY <2>1, ReachBounds, ReachRoots, ReachClosed DEF Reachable
  <2>3. a \notin Reachable'
    BY <1>4
  <2>4. Closed(obj, Reachable')
    BY <1>2, <2>2, <2>3 DEF Closed
  <2>5. QED
    BY <2>2, <2>4, <1>1, ReachLeast DEF Reachable
<1>6. QED
  BY <1>4, <1>5

LEMMA ReclaimNoDangling ==
  ASSUME HeapTypeOK, NoDangling, NEW a \in Addr, Reclaim(a)
  PROVE  NoDangling'
<1>1. Reachable' = Reachable
  BY ReclaimReach DEF Reclaim
<1>2. QED
  BY <1>1 DEF Reclaim, NoDangling, Allocated, HeapTypeOK, NoObj

-----------------------------------------------------------------------------
(***************************************************************************)
(* Whatever the program does and whenever the collector takes back cells   *)
(* that cannot be reached, the machine never follows a pointer to a cell   *)
(* without an object.                                                      *)
(***************************************************************************)
LEMMA HeapStep ==
  ASSUME HeapTypeOK, NoDangling, [HeapNext]_heapVars
  PROVE  HeapTypeOK' /\ NoDangling'
<1>1. CASE HeapNext
  BY <1>1, PutTyped, MutateTyped, ReclaimTyped,
     PlaceNoDangling, MutateNoDangling, ReclaimNoDangling DEF HeapNext, Place
<1>2. CASE UNCHANGED heapVars
  <2>1. obj' = obj /\ stack' = stack /\ gp' = gp
    BY <1>2 DEF heapVars
  <2>2. HeapTypeOK'
    BY <2>1 DEF HeapTypeOK
  <2>3. Reachable' = Reachable /\ Allocated' = Allocated
    BY <2>1 DEF Reachable, Reach, Closed, Roots, StackPtrs, Allocated
  <2>4. QED
    BY <2>2, <2>3 DEF NoDangling
<1>3. QED
  BY <1>1, <1>2

LEMMA HeapInitOK == HeapInit => HeapTypeOK /\ NoDangling
<1> SUFFICES ASSUME HeapInit PROVE HeapTypeOK /\ NoDangling
  OBVIOUS
<1>1. HeapTypeOK
  BY MemSizeAssumption DEF HeapInit, HeapTypeOK, Object, NoObj, Ptr, Nil
<1>2. Roots = {Nil}
  BY DEF HeapInit, Roots, StackPtrs
<1>3. Closed(obj, {})
  BY DEF Closed
<1>4. Reachable \subseteq {}
  BY <1>2, <1>3, ReachLeast DEF Reachable
<1>5. QED
  BY <1>1, <1>4 DEF NoDangling

THEOREM HeapSafe == HeapSpec => [](HeapTypeOK /\ NoDangling)
<1>1. HeapInit => HeapTypeOK /\ NoDangling
  BY HeapInitOK
<1>2. (HeapTypeOK /\ NoDangling) /\ [HeapNext]_heapVars => (HeapTypeOK /\ NoDangling)'
  BY HeapStep
<1>3. QED
  BY <1>1, <1>2, PTL DEF HeapSpec

-----------------------------------------------------------------------------
(***************************************************************************)
(* The collector.                                                          *)
(***************************************************************************)
\* Its type invariant.

LEMMA WIndex == ASSUME w \in 0 .. 1 PROVE 1 - w \in 0 .. 1 /\ 1 - w # w
OBVIOUS

\* The lists named by their colour are sequences of cells.
LEMMA ListsTyped ==
  ASSUME TypeOK
  PROVE  White \in Seq(Addr) /\ Black \in Seq(Addr)
BY WIndex DEF TypeOK, White, Black

LEMMA AllocTyped ==
  ASSUME TypeOK, NEW o \in NewObjects, Alloc(o)
  PROVE  TypeOK'
<1>1. free \in Addr
  BY DEF TypeOK, Alloc, Ptr, Addr
<1>2. HeapTypeOK'
  BY <1>1, PutTyped DEF TypeOK, Alloc
<1>3. Append(wb[w], free) \in Seq(Addr)
  BY <1>1 DEF TypeOK
<1>4. wb' \in [0 .. 1 -> Seq(Addr)]
  BY <1>3 DEF TypeOK, Alloc
<1>5. QED
  BY <1>1, <1>2, <1>4 DEF TypeOK, Alloc

\* A step that leaves the heap alone.
LEMMA HeapSame ==
  ASSUME HeapTypeOK, UNCHANGED heapVars
  PROVE  HeapTypeOK' /\ Reachable' = Reachable /\ Allocated' = Allocated
<1>1. obj' = obj /\ stack' = stack /\ gp' = gp
  BY DEF heapVars
<1>2. QED
  BY <1>1 DEF HeapTypeOK, Reachable, Reach, Closed, Roots, StackPtrs, Allocated

\* The length of the stack in the loop bounds is a natural number.
LEMMA StackLen ==
  ASSUME HeapTypeOK
  PROVE  /\ Len(stack) \in Nat
         /\ DOMAIN stack = 1 .. Len(stack)
         /\ \A i \in DOMAIN stack : stack[i] \in Entry
BY DEF HeapTypeOK

LEMMA ScanStackTyped ==
  ASSUME TypeOK, ScanStack
  PROVE  TypeOK'
<1>1. stack[scan] \in Entry
  BY StackLen DEF TypeOK, ScanStack
<1>2. RootCall(stack[scan]) \in Seq(Ptr)
  BY <1>1 DEF RootCall, Entry
<1>3. QED
  BY <1>2, HeapSame DEF TypeOK, ScanStack

\* What a concatenation and the tail of a sequence hold.
Elems(s) == {s[i] : i \in DOMAIN s}

LEMMA ConcatFacts ==
  ASSUME NEW S, NEW s \in Seq(S), NEW t \in Seq(S)
  PROVE  /\ s \o t \in Seq(S)
         /\ Elems(s \o t) = Elems(s) \cup Elems(t)
<1>1. s \o t \in Seq(S) /\ Len(s \o t) = Len(s) + Len(t)
  OBVIOUS
<1>2. \A i \in DOMAIN s : i \in DOMAIN (s \o t) /\ (s \o t)[i] = s[i]
  OBVIOUS
<1>3. \A i \in DOMAIN t : /\ i + Len(s) \in DOMAIN (s \o t)
                         /\ (s \o t)[i + Len(s)] = t[i]
  OBVIOUS
<1>4. \A i \in DOMAIN (s \o t) : IF i <= Len(s) THEN i \in DOMAIN s
                                             ELSE i - Len(s) \in DOMAIN t
  BY <1>1
<1>5. \A i \in DOMAIN (s \o t) : (s \o t)[i] \in Elems(s) \cup Elems(t)
  BY <1>1, <1>4 DEF Elems
<1>6. Elems(s \o t) \subseteq Elems(s) \cup Elems(t)
  BY <1>5 DEF Elems
<1>7. Elems(s) \subseteq Elems(s \o t)
  BY <1>2 DEF Elems
<1>8. Elems(t) \subseteq Elems(s \o t)
  BY <1>3 DEF Elems
<1>9. QED
  BY <1>1, <1>6, <1>7, <1>8

LEMMA TailFacts ==
  ASSUME NEW S, NEW s \in Seq(S), s # << >>
  PROVE  /\ Head(s) \in S /\ Tail(s) \in Seq(S)
         /\ {s[i] : i \in DOMAIN s} = {Head(s)} \cup {Tail(s)[i] : i \in DOMAIN Tail(s)}
<1>1. Head(s) = s[1] /\ 1 \in DOMAIN s /\ Head(s) \in S /\ Tail(s) \in Seq(S)
  OBVIOUS
<1>2. \A i \in DOMAIN Tail(s) : i + 1 \in DOMAIN s /\ Tail(s)[i] = s[i + 1]
  OBVIOUS
<1>3. \A i \in DOMAIN s : i = 1 \/ (i - 1 \in DOMAIN Tail(s) /\ s[i] = Tail(s)[i - 1])
  OBVIOUS
<1>4. {s[i] : i \in DOMAIN s} \subseteq
        {Head(s)} \cup {Tail(s)[i] : i \in DOMAIN Tail(s)}
  BY <1>1, <1>3
<1>5. {Head(s)} \cup {Tail(s)[i] : i \in DOMAIN Tail(s)} \subseteq {s[i] : i \in DOMAIN s}
  BY <1>1, <1>2
<1>6. QED
  BY <1>1, <1>4, <1>5

LEMMA MarkOneTyped ==
  ASSUME TypeOK, MarkOne
  PROVE  TypeOK'
<1>1. Head(todo) \in Ptr /\ Tail(todo) \in Seq(Ptr)
  BY DEF TypeOK, MarkOne
<1>2. CASE Marks(Head(todo))
  <2>1. Head(todo) \in Addr
    BY <1>1, <1>2 DEF Marks, Ptr, Addr, Nil
  <2>2. Calls(Head(todo)) \in Seq(Ptr)
    BY <2>1 DEF Calls, TypeOK, HeapTypeOK, Object
  <2>3. mark' \in [Addr -> 0 .. 1]
    BY <1>2 DEF MarkOne, TypeOK
  <2>4. todo' \in Seq(Ptr)
    <3>1. todo' = Calls(Head(todo)) \o Tail(todo)
      BY <1>2 DEF MarkOne
    <3>2. Calls(Head(todo)) \o Tail(todo) \in Seq(Ptr)
      BY <1>1, <2>2, ConcatFacts
    <3>3. QED
      BY <3>1, <3>2
  <2>5. QED
    BY <2>3, <2>4, HeapSame DEF TypeOK, MarkOne
<1>3. CASE ~ Marks(Head(todo))
  BY <1>1, <1>3, HeapSame DEF TypeOK, MarkOne
<1>4. QED
  BY <1>2, <1>3

LEMMA SweepDeadTyped ==
  ASSUME TypeOK, SweepDead
  PROVE  TypeOK' /\ White[scan] \in Addr
<1>1. White[scan] \in Addr
  BY ListsTyped DEF SweepDead, TypeOK
<1>2. HeapTypeOK'
  BY <1>1 DEF TypeOK, HeapTypeOK, SweepDead, NoObj, Object
<1>3. next' \in [Addr -> Ptr] /\ free' \in Ptr
  BY <1>1 DEF SweepDead, Link, NewHead, TypeOK, Addr, Ptr
<1>4. QED
  BY <1>1, <1>2, <1>3 DEF TypeOK, SweepDead

LEMMA SweepLiveTyped ==
  ASSUME TypeOK, SweepLive
  PROVE  TypeOK' /\ White[scan] \in Addr
<1>1. White[scan] \in Addr
  BY ListsTyped DEF SweepLive, TypeOK
<1>2. Append(wb[1 - w], White[scan]) \in Seq(Addr)
  BY <1>1, ListsTyped DEF Black
<1>3. wb' \in [0 .. 1 -> Seq(Addr)]
  BY <1>2 DEF TypeOK, SweepLive
<1>4. mark' \in [Addr -> 0 .. 1]
  BY <1>1 DEF TypeOK, SweepLive, Unmark
<1>5. QED
  BY <1>1, <1>3, <1>4, HeapSame DEF TypeOK, SweepLive

\* Every step keeps the collector's variables well typed.
LEMMA TypeStep ==
  ASSUME TypeOK, [Next]_vars
  PROVE  TypeOK'
<1>1. ASSUME NEW o \in NewObjects, Alloc(o) PROVE TypeOK'
  BY <1>1, AllocTyped
<1>2. CASE AllocFails
  BY <1>2, HeapSame DEF TypeOK, AllocFails
<1>3. CASE MutatorStep
  BY <1>3, MutateTyped DEF TypeOK, MutatorStep, gcVars
<1>4. CASE StartCollection
  BY <1>4, HeapSame DEF TypeOK, StartCollection
<1>5. CASE ScanStack
  BY <1>5, ScanStackTyped
<1>6. CASE ScanGlobalVec
  <2>1. GlobalVecCall \in Seq(Ptr)
    BY DEF GlobalVecCall, TypeOK, HeapTypeOK
  <2>2. QED
    BY <2>1, <1>6, HeapSame DEF TypeOK, ScanGlobalVec
<1>7. CASE MarkOne
  BY <1>7, MarkOneTyped
<1>8. CASE StartSweep
  BY <1>8, HeapSame DEF TypeOK, StartSweep
<1>9. CASE SweepDead
  BY <1>9, SweepDeadTyped
<1>10. CASE SweepLive
  BY <1>10, SweepLiveTyped
<1>11. CASE EndSweep
  BY <1>11, HeapSame, WIndex DEF TypeOK, EndSweep, WhiteCleared
<1>12. CASE UNCHANGED vars
  BY <1>12, HeapSame DEF TypeOK, vars, gcVars, heapVars
<1>13. QED
  BY <1>1, <1>2, <1>3, <1>4, <1>5, <1>6, <1>7, <1>8, <1>9, <1>10, <1>11, <1>12
     DEF Next, Collector

LEMMA TypeInit == Init => TypeOK
<1> SUFFICES ASSUME Init PROVE TypeOK
  OBVIOUS
<1>1. HeapTypeOK
  BY HeapInitOK DEF Init
<1>2. InitialNext \in [Addr -> Ptr]
  BY MemSizeAssumption DEF InitialNext, Addr, Ptr
<1>3. QED
  BY <1>1, <1>2, MemSizeAssumption DEF Init, TypeOK, Ptr

(***************************************************************************)
(* Every variable of the collector keeps its type, for every instance.     *)
(***************************************************************************)
THEOREM TypeCorrect == Spec => []TypeOK
<1>1. Init => TypeOK
  BY TypeInit
<1>2. TypeOK /\ [Next]_vars => TypeOK'
  BY TypeStep
<1>3. QED
  BY <1>1, <1>2, PTL DEF Spec
-----------------------------------------------------------------------------
(* The free list. *)

\* A list of different cells is shorter than the memory.
LEMMA CellListBound ==
  ASSUME NEW n \in Nat, NEW f \in [1 .. n -> Addr],
         \A i, j \in 1 .. n : f[i] = f[j] => i = j
  PROVE  n <= MemSize - 1
<1>1. f \in Injection(1 .. n, Addr)
  BY DEF Injection, IsInjective
<1>2. /\ IsFiniteSet(Addr) /\ Cardinality(Addr) = MemSize - 1
      /\ IsFiniteSet(1 .. n) /\ Cardinality(1 .. n) = n
  BY FS_Interval, MemSizeAssumption DEF Addr
<1>3. Cardinality(1 .. n) <= Cardinality(Addr)
  BY <1>1, <1>2, FS_Injection
<1>4. QED
  BY <1>2, <1>3

LEMMA CellListLen ==
  ASSUME NEW n \in Nat, NEW f \in [1 .. n -> Addr]
  PROVE  f \in Seq(Addr) /\ Len(f) = n /\ DOMAIN f = 1 .. n /\ (f = << >> <=> n = 0)
OBVIOUS

\* A list without its first element, and a list with one more in front.
LEMMA ListBehead ==
  ASSUME NEW n \in Nat \ {0}, NEW f \in [1 .. n -> Addr],
         \A i, j \in 1 .. n : f[i] = f[j] => i = j
  PROVE  \E g \in [1 .. n - 1 -> Addr] :
           /\ \A i \in 1 .. n - 1 : g[i] = f[i + 1]
           /\ {g[i] : i \in 1 .. n - 1} = {f[i] : i \in 1 .. n} \ {f[1]}
<1> DEFINE g == [i \in 1 .. n - 1 |-> f[i + 1]]
<1>1. g \in [1 .. n - 1 -> Addr] /\ \A i \in 1 .. n - 1 : g[i] = f[i + 1]
  OBVIOUS
<1> HIDE DEF g
<1>2. \A i \in 1 .. n - 1 : i + 1 \in 1 .. n /\ g[i] = f[i + 1] /\ f[i + 1] # f[1]
  BY <1>1
<1>3. \A i \in 1 .. n : i # 1 => i - 1 \in 1 .. n - 1 /\ g[i - 1] = f[i]
  BY <1>1
<1>4. {g[i] : i \in 1 .. n - 1} \subseteq {f[i] : i \in 1 .. n} \ {f[1]}
  BY <1>2
<1>5. {f[i] : i \in 1 .. n} \ {f[1]} \subseteq {g[i] : i \in 1 .. n - 1}
  BY <1>3
<1>6. {g[i] : i \in 1 .. n - 1} = {f[i] : i \in 1 .. n} \ {f[1]}
  BY <1>4, <1>5
<1>7. QED
  BY <1>1, <1>6

LEMMA ListCons ==
  ASSUME NEW n \in Nat, NEW f \in [1 .. n -> Addr], NEW a \in Addr
  PROVE  \E g \in [1 .. n + 1 -> Addr] :
           /\ g[1] = a
           /\ \A i \in 2 .. n + 1 : g[i] = f[i - 1]
           /\ {g[i] : i \in 1 .. n + 1} = {f[i] : i \in 1 .. n} \cup {a}
<1> DEFINE g == [i \in 1 .. n + 1 |-> IF i = 1 THEN a ELSE f[i - 1]]
<1>1. g \in [1 .. n + 1 -> Addr] /\ g[1] = a /\ \A i \in 2 .. n + 1 : g[i] = f[i - 1]
  OBVIOUS
<1> HIDE DEF g
<1>2. \A i \in 1 .. n : i + 1 \in 1 .. n + 1 /\ g[i + 1] = f[i]
  BY <1>1
<1>3. \A i \in 1 .. n + 1 : i # 1 => i - 1 \in 1 .. n /\ g[i] = f[i - 1]
  BY <1>1
<1>4. {g[i] : i \in 1 .. n + 1} \subseteq {f[i] : i \in 1 .. n} \cup {a}
  BY <1>1, <1>3
<1>5. {f[i] : i \in 1 .. n} \cup {a} \subseteq {g[i] : i \in 1 .. n + 1}
  <2>1. ASSUME NEW i \in 1 .. n PROVE f[i] \in {g[j] : j \in 1 .. n + 1}
    BY <1>2
  <2>2. a \in {g[j] : j \in 1 .. n + 1}
    BY <1>1
  <2>3. QED
    BY <2>1, <2>2
<1>6. {g[i] : i \in 1 .. n + 1} = {f[i] : i \in 1 .. n} \cup {a}
  BY <1>4, <1>5
<1>7. QED
  BY <1>1, <1>6

\* Taking the head cell: the cell was empty, and the rest is the new list.
LEMMA AllocFreeList ==
  ASSUME TypeOK, FreeListOK, NEW o \in NewObjects, Alloc(o)
  PROVE  FreeListOK' /\ free \in Addr /\ free \notin Allocated
<1>1. PICK n \in 0 .. MemSize - 1 : \E f \in [1 .. n -> Addr] : IsFreeList(f)
  BY DEF FreeListOK
<1>2. PICK f \in [1 .. n -> Addr] : IsFreeList(f)
  BY <1>1
<1>3. n \in Nat /\ DOMAIN f = 1 .. n /\ Len(f) = n /\ (f = << >> <=> n = 0)
  BY CellListLen, MemSizeAssumption
<1>4. n >= 1 /\ free = f[1] /\ free \in Addr /\ free \notin Allocated
  BY <1>2, <1>3 DEF IsFreeList, Alloc
<1>5. PICK g \in [1 .. n - 1 -> Addr] :
        /\ \A i \in 1 .. n - 1 : g[i] = f[i + 1]
        /\ {g[i] : i \in 1 .. n - 1} = {f[i] : i \in 1 .. n} \ {f[1]}
  <2>1. n \in Nat \ {0} /\ \A i, j \in 1 .. n : f[i] = f[j] => i = j
    BY <1>2, <1>3, <1>4 DEF IsFreeList
  <2>2. QED
    BY <2>1, ListBehead, Zenon
<1>6. n - 1 \in Nat /\ DOMAIN g = 1 .. n - 1 /\ Len(g) = n - 1 /\ (g = << >> <=> n = 1)
  BY <1>3, <1>4, <1>5, CellListLen
<1>7. Allocated' = Allocated \cup {free}
  BY <1>4, NewObjectsTyped DEF Alloc, Put, Allocated, TypeOK, HeapTypeOK
<1>8. free' = next[f[1]] /\ next' = next
  BY <1>4 DEF Alloc
<1>9. free' = IF g = << >> THEN 0 ELSE g[1]
  BY <1>2, <1>3, <1>4, <1>5, <1>6, <1>8 DEF IsFreeList
<1>10. \A i \in DOMAIN g : next'[g[i]] = IF i = Len(g) THEN 0 ELSE g[i + 1]
  BY <1>2, <1>3, <1>4, <1>5, <1>6, <1>8 DEF IsFreeList
<1>11. \A i, j \in DOMAIN g : g[i] = g[j] => i = j
  BY <1>2, <1>3, <1>5, <1>6 DEF IsFreeList
<1>12. {g[i] : i \in DOMAIN g} = Addr \ Allocated'
  <2>1. {g[i] : i \in DOMAIN g} = {f[i] : i \in DOMAIN f} \ {f[1]}
    BY <1>3, <1>5, <1>6
  <2>2. QED
    BY <1>2, <1>4, <1>7, <2>1 DEF IsFreeList
<1>13. IsFreeList(g)'
  BY <1>9, <1>10, <1>11, <1>12 DEF IsFreeList
<1>14. n - 1 \in 0 .. MemSize - 1
  BY <1>3, <1>4, MemSizeAssumption
<1>15. QED
  BY <1>4, <1>5, <1>13, <1>14 DEF FreeListOK

\* Freeing a cell puts it before the others.
LEMMA SweepDeadFreeList ==
  ASSUME TypeOK, FreeListOK, SweepDead
  PROVE  FreeListOK'
<1>0. PICK a \in Addr : a = White[scan]
  BY SweepDeadTyped
<1>1. a \in Allocated
  BY <1>0 DEF SweepDead, Allocated
<1>2. PICK n \in 0 .. MemSize - 1 : \E f \in [1 .. n -> Addr] : IsFreeList(f)
  BY DEF FreeListOK
<1>3. PICK f \in [1 .. n -> Addr] : IsFreeList(f)
  BY <1>2
<1>4. n \in Nat /\ DOMAIN f = 1 .. n /\ Len(f) = n /\ (f = << >> <=> n = 0)
  BY CellListLen, MemSizeAssumption
<1>5. PICK g \in [1 .. n + 1 -> Addr] :
        /\ g[1] = a
        /\ \A i \in 2 .. n + 1 : g[i] = f[i - 1]
        /\ {g[i] : i \in 1 .. n + 1} = {f[i] : i \in 1 .. n} \cup {a}
  <2>1. n \in Nat
    BY <1>4
  <2>2. f \in [1 .. n -> Addr]
    OBVIOUS
  <2>3. QED
    BY <2>1, <2>2, ListCons, ZenonT(30)
<1>6. n + 1 \in Nat /\ DOMAIN g = 1 .. n + 1 /\ Len(g) = n + 1 /\ g # << >> /\ g[1] = a
  BY <1>4, <1>5, CellListLen
<1>7. Allocated' = Allocated \ {a}
  BY <1>0 DEF SweepDead, Allocated, NoObj, TypeOK, HeapTypeOK
<1>8. free' = a /\ next' = [next EXCEPT ![a] = free]
  BY <1>0 DEF SweepDead, Link, NewHead
<1>9. \A i \in DOMAIN f : f[i] # a
  BY <1>1, <1>3 DEF IsFreeList
<1>10. \A i \in DOMAIN g : next'[g[i]] = IF i = Len(g) THEN 0 ELSE g[i + 1]
  <2>1. next'[a] = IF 1 = Len(g) THEN 0 ELSE g[2]
    <3>1. next'[a] = free
      BY <1>8 DEF TypeOK
    <3>2. n # 0 => g[2] = f[1]
      BY <1>4, <1>5
    <3>3. QED
      BY <3>1, <3>2, <1>3, <1>4, <1>6 DEF IsFreeList
  <2>2. ASSUME NEW i \in DOMAIN g, i # 1
        PROVE  next'[g[i]] = IF i = Len(g) THEN 0 ELSE g[i + 1]
    <3>1. i - 1 \in DOMAIN f /\ g[i] = f[i - 1]
      BY <1>4, <1>5, <1>6, <2>2
    <3>2. next'[g[i]] = next[f[i - 1]]
      BY <3>1, <1>1, <1>5, <1>6, <1>8, <1>9 DEF TypeOK
    <3>3. next[f[i - 1]] = IF i - 1 = Len(f) THEN 0 ELSE f[i]
      BY <3>1, <1>3, <1>4 DEF IsFreeList
    <3>4. i # Len(g) => g[i + 1] = f[i]
      BY <1>4, <1>5, <1>6, <2>2
    <3>5. QED
      BY <3>2, <3>3, <3>4, <1>4, <1>6
  <2>3. QED
    BY <2>1, <2>2, <1>6
<1>11. \A i, j \in DOMAIN g : g[i] = g[j] => i = j
  BY <1>3, <1>4, <1>5, <1>6, <1>9 DEF IsFreeList
<1>12. {g[i] : i \in DOMAIN g} = Addr \ Allocated'
  <2>1. {g[i] : i \in DOMAIN g} = {f[i] : i \in DOMAIN f} \cup {a}
    BY <1>4, <1>5, <1>6
  <2>2. QED
    BY <1>1, <1>3, <1>7, <2>1 DEF IsFreeList
<1>13. IsFreeList(g)'
  BY <1>6, <1>8, <1>10, <1>11, <1>12 DEF IsFreeList
<1>14. n + 1 \in 0 .. MemSize - 1
  BY <1>5, <1>6, <1>11, CellListBound, MemSizeAssumption
<1>15. QED
  BY <1>5, <1>13, <1>14 DEF FreeListOK

\* Nothing else touches the chain or the set of empty cells.
LEMMA FreeListFrame ==
  ASSUME FreeListOK, UNCHANGED <<next, free>>, Allocated' = Allocated
  PROVE  FreeListOK'
<1>1. PICK n \in 0 .. MemSize - 1 : \E f \in [1 .. n -> Addr] : IsFreeList(f)
  BY DEF FreeListOK
<1>2. PICK f \in [1 .. n -> Addr] : IsFreeList(f)
  BY <1>1
<1>3. IsFreeList(f)'
  BY <1>2 DEF IsFreeList
<1>4. QED
  BY <1>3 DEF FreeListOK

LEMMA MutateAllocated ==
  ASSUME HeapTypeOK, NoDangling, Mutate
  PROVE  Allocated' = Allocated
BY MutateShrinks DEF Allocated, OnlyRedirects

LEMMA FreeListStep ==
  ASSUME TypeOK, NoDangling, FreeListOK, [Next]_vars
  PROVE  FreeListOK'
<1>1. ASSUME NEW o \in NewObjects, Alloc(o) PROVE FreeListOK'
  BY <1>1, AllocFreeList
<1>2. CASE SweepDead
  BY <1>2, SweepDeadFreeList
<1>3. CASE MutatorStep
  BY <1>3, MutateAllocated, FreeListFrame DEF MutatorStep, gcVars, TypeOK
<1>4. CASE AllocFails \/ StartCollection \/ ScanStack \/ ScanGlobalVec \/ MarkOne
           \/ StartSweep \/ SweepLive \/ EndSweep \/ UNCHANGED vars
  <2>1. UNCHANGED heapVars /\ UNCHANGED <<next, free>>
    BY <1>4 DEF AllocFails, StartCollection, ScanStack, ScanGlobalVec, MarkOne,
                StartSweep, SweepLive, EndSweep, vars, gcVars
  <2>2. QED
    BY <2>1, HeapSame, FreeListFrame DEF TypeOK
<1>5. QED
  BY <1>1, <1>2, <1>3, <1>4 DEF Next, Collector

LEMMA FreeListInit == Init => FreeListOK
<1> SUFFICES ASSUME Init PROVE FreeListOK
  OBVIOUS
<1> DEFINE f == [i \in 1 .. MemSize - 1 |-> i]
<1>1. MemSize - 1 \in 0 .. MemSize - 1 /\ MemSize - 1 \in Nat /\ MemSize - 1 >= 1
  BY MemSizeAssumption
<1>2. f \in [1 .. MemSize - 1 -> Addr]
  BY DEF Addr
<1>3. DOMAIN f = 1 .. MemSize - 1 /\ Len(f) = MemSize - 1 /\ f # << >>
  BY <1>1, <1>2, CellListLen
<1>4. Allocated = {}
  BY DEF Init, HeapInit, Allocated, NoObj
<1>5. {f[i] : i \in DOMAIN f} = Addr
  BY <1>3 DEF Addr
<1>6. \A i \in DOMAIN f : next[f[i]] = IF i = Len(f) THEN 0 ELSE f[i + 1]
  BY <1>1, <1>3 DEF Init, InitialNext, Addr
<1>7. IsFreeList(f)
  <2>1. free = 1 /\ f[1] = 1
    BY <1>1 DEF Init
  <2>2. \A i, j \in DOMAIN f : f[i] = f[j] => i = j
    BY <1>3
  <2>3. QED
    BY <1>3, <1>4, <1>5, <1>6, <2>1, <2>2 DEF IsFreeList
<1>8. QED
  BY <1>1, <1>2, <1>7 DEF FreeListOK
-----------------------------------------------------------------------------
(* The two lists. *)

\* What an element added to a sequence does to it.
LEMMA AppendFacts ==
  ASSUME NEW s \in Seq(Addr), NEW a \in Addr
  PROVE  /\ DOMAIN Append(s, a) = DOMAIN s \cup {Len(s) + 1}
         /\ Len(s) + 1 \notin DOMAIN s
         /\ \A i \in DOMAIN s : Append(s, a)[i] = s[i]
         /\ Append(s, a)[Len(s) + 1] = a
OBVIOUS

LEMMA AllocLists ==
  ASSUME TypeOK, FreeListOK, ListsOK, CleanBetweenCollections,
         NEW o \in NewObjects, Alloc(o)
  PROVE  ListsOK' /\ CleanBetweenCollections'
<1>1. free \in Addr /\ free \notin Allocated
  BY AllocFreeList
<1>2. Allocated' = Allocated \cup {free}
  BY <1>1, NewObjectsTyped DEF Alloc, Put, Allocated, TypeOK, HeapTypeOK
<1>3. White \in Seq(Addr) /\ Black = << >> /\ phase = "run" /\ phase' = "run"
  BY ListsTyped DEF CleanBetweenCollections, Alloc
<1>4. White' = Append(White, free) /\ Black' = Black
  BY WIndex DEF TypeOK, Alloc, White, Black
<1>5. /\ \A i \in DOMAIN White : White[i] # free
      /\ Allocated = {White[i] : i \in DOMAIN White}
  BY <1>1, <1>3 DEF ListsOK, Unswept
<1>6. \A i, j \in DOMAIN White' : White'[i] = White'[j] => i = j
  BY <1>1, <1>3, <1>4, <1>5, AppendFacts DEF ListsOK
<1>7. Allocated' = {White'[i] : i \in DOMAIN White'}
  <2>1. \A i \in DOMAIN White' : White'[i] \in Allocated'
    BY <1>1, <1>2, <1>3, <1>4, <1>5, AppendFacts
  <2>2. \A a \in Allocated' : \E i \in DOMAIN White' : a = White'[i]
    BY <1>1, <1>2, <1>3, <1>4, <1>5, AppendFacts
  <2>3. QED
    BY <2>1, <2>2
<1>8. ListsOK'
  BY <1>3, <1>4, <1>6, <1>7 DEF ListsOK, Unswept
<1>9. CleanBetweenCollections'
  BY <1>3, <1>4 DEF CleanBetweenCollections, Alloc
<1>10. QED
  BY <1>8, <1>9

\* A step outside the sweep that touches neither list.
LEMMA ListsFrame ==
  ASSUME ListsOK, UNCHANGED <<wb, w>>, Allocated' = Allocated,
         phase # "sweep", phase' # "sweep" \/ (scan' = 1 /\ TypeOK)
  PROVE  ListsOK'
<1>1. White' = White /\ Black' = Black
  BY DEF White, Black
<1>2. Unswept' = Unswept
  <2>1. CASE phase' # "sweep"
    BY <2>1, <1>1 DEF Unswept
  <2>2. CASE phase' = "sweep"
    <3>1. White \in Seq(Addr) /\ scan' = 1
      BY <2>2, ListsTyped
    <3>2. QED
      BY <3>1, <2>2, <1>1 DEF Unswept
  <2>3. QED
    BY <2>1, <2>2
<1>3. QED
  BY <1>1, <1>2 DEF ListsOK

\* The entry being swept is an allocated cell that no other entry names.
LEMMA SweptEntry ==
  ASSUME TypeOK, ListsOK, phase = "sweep", scan <= Len(White)
  PROVE  /\ scan \in Unswept /\ scan \in DOMAIN White
         /\ White[scan] \in Addr /\ White[scan] \in Allocated
         /\ White[scan] \notin Moved
         /\ \A i \in Unswept \ {scan} : White[i] # White[scan]
         /\ {i \in DOMAIN White : i >= scan + 1} = Unswept \ {scan}
<1>1. White \in Seq(Addr) /\ scan \in Nat \ {0}
  BY ListsTyped DEF TypeOK
<1>2. scan \in DOMAIN White /\ scan \in Unswept /\ Unswept \subseteq DOMAIN White
  BY <1>1 DEF Unswept
<1>3. White[scan] \in Addr
  BY <1>1, <1>2
<1>4. {i \in DOMAIN White : i >= scan + 1} = Unswept \ {scan}
  BY <1>1 DEF Unswept
<1>5. QED
  BY <1>2, <1>3, <1>4 DEF ListsOK, Moved

LEMMA SweepDeadLists ==
  ASSUME TypeOK, ListsOK, SweepDead
  PROVE  ListsOK'
<1>1. phase = "sweep" /\ phase' = "sweep" /\ scan' = scan + 1 /\ scan <= Len(White)
  BY DEF SweepDead
<1>2. White' = White /\ Black' = Black
  BY DEF SweepDead, White, Black
<1>3. Unswept' = Unswept \ {scan}
  BY <1>1, <1>2, SweptEntry DEF Unswept
<1>4. Allocated' = Allocated \ {White[scan]}
  BY <1>1, SweptEntry DEF SweepDead, Allocated, NoObj, TypeOK, HeapTypeOK
<1>5. \A j \in DOMAIN Black : Black[j] # White[scan]
  BY <1>1, SweptEntry DEF Moved
<1>6. {White[i] : i \in Unswept \ {scan}} \cup {Black[j] : j \in DOMAIN Black}
        = Allocated \ {White[scan]}
  <2>1. Allocated = {White[i] : i \in Unswept} \cup {Black[j] : j \in DOMAIN Black}
    BY DEF ListsOK
  <2>2. \A i \in Unswept \ {scan} : White[i] # White[scan]
    BY <1>1, SweptEntry
  <2>3. QED
    BY <2>1, <2>2, <1>5
<1>7. QED
  BY <1>2, <1>3, <1>4, <1>6 DEF ListsOK

LEMMA SweepLiveLists ==
  ASSUME TypeOK, ListsOK, SweepLive
  PROVE  /\ ListsOK'
         /\ Moved' = Moved \cup {White[scan]}
<1>1. phase = "sweep" /\ phase' = "sweep" /\ scan' = scan + 1 /\ scan <= Len(White)
  BY DEF SweepLive
<1>2. Black \in Seq(Addr) /\ White[scan] \in Addr
  BY <1>1, ListsTyped, SweptEntry
<1>3. White' = White /\ Black' = Append(Black, White[scan])
  BY WIndex DEF SweepLive, White, Black, TypeOK
<1>4. Unswept' = Unswept \ {scan}
  BY <1>1, <1>3, SweptEntry DEF Unswept
<1>5. Allocated' = Allocated
  BY HeapSame DEF SweepLive, TypeOK
<1>6. Moved' = Moved \cup {White[scan]}
  <2>1. \A j \in DOMAIN Black' : Black'[j] \in Moved \cup {White[scan]}
    BY <1>2, <1>3, AppendFacts DEF Moved
  <2>2. \A a \in Moved \cup {White[scan]} : \E j \in DOMAIN Black' : a = Black'[j]
    BY <1>2, <1>3, AppendFacts DEF Moved
  <2>3. QED
    BY <2>1, <2>2 DEF Moved
<1>7. \A i, j \in DOMAIN Black' : Black'[i] = Black'[j] => i = j
  BY <1>1, <1>2, <1>3, AppendFacts, SweptEntry DEF ListsOK, Moved
<1>8. \A i \in Unswept \ {scan} : White[i] \notin Moved \cup {White[scan]}
  BY <1>1, SweptEntry DEF ListsOK, Moved
<1>9. Allocated = {White[i] : i \in Unswept \ {scan}} \cup (Moved \cup {White[scan]})
  BY <1>1, SweptEntry DEF ListsOK, Moved
<1>10. ListsOK'
  <2>1. \A i \in Unswept' : \A j \in DOMAIN Black' : White'[i] # Black'[j]
    BY <1>3, <1>4, <1>6, <1>8 DEF Moved
  <2>2. Allocated' = {White'[i] : i \in Unswept'} \cup {Black'[j] : j \in DOMAIN Black'}
    BY <1>3, <1>4, <1>5, <1>6, <1>9 DEF Moved
  <2>3. QED
    BY <2>1, <2>2, <1>3, <1>7 DEF ListsOK
<1>11. QED
  BY <1>6, <1>10

\* At the end of the sweep nothing is marked and the lists are exchanged.
LEMMA EndSweepLists ==
  ASSUME TypeOK, NoDangling, ListsOK, SweepInv, EndSweep
  PROVE  /\ ListsOK' /\ CleanBetweenCollections'
         /\ Allocated' = Reachable'
<1>1. phase = "sweep" /\ phase' = "run" /\ scan > Len(White)
  BY DEF EndSweep
<1>2. White' = Black /\ Black' = << >>
  BY WIndex DEF TypeOK, EndSweep, WhiteCleared, White, Black
<1>3. Unswept = {}
  BY <1>1, ListsTyped DEF Unswept, TypeOK
<1>4. Allocated = Moved /\ Allocated' = Allocated /\ Reachable' = Reachable
  BY <1>3, HeapSame DEF ListsOK, Moved, EndSweep, TypeOK
<1>5. Marked = {} /\ Reachable = Moved
  BY <1>1, <1>4 DEF SweepInv, NoDangling
<1>6. Unswept' = DOMAIN Black
  BY <1>1, <1>2 DEF Unswept
<1>7. ListsOK'
  BY <1>2, <1>4, <1>6 DEF ListsOK, Moved
<1>8. \A a \in Addr : mark'[a] = 0
  BY <1>5 DEF Marked, EndSweep, TypeOK
<1>9. QED
  BY <1>1, <1>2, <1>4, <1>5, <1>7, <1>8 DEF CleanBetweenCollections
-----------------------------------------------------------------------------
(* Marking. *)

LEMMA StartCollectionMarks ==
  ASSUME TypeOK, CleanBetweenCollections, StartCollection
  PROVE  MarkInv'
<1>1. Black' = << >> /\ stack' = stack /\ phase' = "mark" /\ scan' = 1 /\ todo' = << >>
  BY DEF StartCollection, CleanBetweenCollections, Black, heapVars
<1>2. Marked' = {}
  BY DEF StartCollection, CleanBetweenCollections, Marked
<1>3. Pending' = {}
  BY <1>1 DEF Pending
<1>4. \A j \in DOMAIN stack' : ~ (j < scan')
  BY <1>1, StackLen DEF TypeOK
<1>5. Scanned' = {}
  BY <1>4 DEF Scanned
<1>6. QED
  BY <1>1, <1>2, <1>3, <1>5, StackLen DEF MarkInv, TypeOK

\* The root the loop reads is marked already, nil, no pointer, or now pending.
LEMMA ScanStackMarks ==
  ASSUME TypeOK, MarkInv, ScanStack
  PROVE  MarkInv'
<1> DEFINE e == stack[scan]
<1>1. /\ phase = "mark" /\ phase' = "mark" /\ scan' = scan + 1 /\ scan \in DOMAIN stack
      /\ Pending = {} /\ stack' = stack /\ obj' = obj /\ gp' = gp
      /\ e \in Entry /\ todo' = RootCall(e)
  BY StackLen DEF ScanStack, heapVars, Pending, TypeOK
<1>2. Marked' = Marked /\ Black' = Black /\ Reachable' = Reachable
  BY HeapSame DEF ScanStack, Marked, Black, TypeOK
<1>3. e.type = "ADDR" => e.val \in StackPtrs /\ e.val \in Ptr
  BY <1>1 DEF StackPtrs, Entry
<1>4. Pending' \subseteq {e.val} /\ (Pending' # {} => e.type = "ADDR")
  BY <1>1 DEF Pending, RootCall
<1>5. Pending' \subseteq Reachable \cup {Nil}
  BY <1>3, <1>4, ReachableFacts DEF TypeOK
<1>6. e.type = "ADDR" => e.val \in Marked \cup Pending' \cup {Nil}
  <2>1. CASE e.type = "ADDR" /\ e.val > 0 /\ mark[e.val] = 0
    BY <2>1, <1>1 DEF RootCall, Pending
  <2>2. CASE e.type = "ADDR" /\ e.val > 0 /\ mark[e.val] # 0
    BY <2>2, <1>3 DEF Marked, TypeOK, Ptr, Addr
  <2>3. CASE e.type = "ADDR" /\ ~ (e.val > 0)
    BY <2>3, <1>3 DEF Ptr, Nil
  <2>4. QED
    BY <2>1, <2>2, <2>3
<1>7. Scanned' \subseteq Marked \cup Pending' \cup {Nil}
  <2>1. ASSUME NEW i \in DOMAIN stack, i < scan + 1, stack[i].type = "ADDR"
        PROVE  stack[i].val \in Marked \cup Pending' \cup {Nil}
    <3>1. CASE i = scan
      BY <3>1, <2>1, <1>6
    <3>2. CASE i # scan
      <4>1. i < scan
        BY <3>2, <2>1, StackLen DEF TypeOK
      <4>2. stack[i].val \in Scanned
        BY <4>1, <2>1 DEF Scanned
      <4>3. QED
        BY <4>2, <1>1 DEF MarkInv
    <3>3. QED
      BY <3>1, <3>2
  <2>2. QED
    BY <2>1, <1>1 DEF Scanned
<1>8. scan' <= Len(stack') + 1
  BY <1>1, StackLen DEF TypeOK
<1>9. \A a \in Marked : PtrsOf(obj[a]) \subseteq Marked \cup {Nil}
  BY <1>1 DEF MarkInv
<1>10. scan' # Len(stack') + 2 /\ scan' <= Len(stack') + 2
  BY <1>1, <1>8, StackLen DEF TypeOK
<1>11. QED
  BY <1>1, <1>2, <1>5, <1>7, <1>9, <1>10 DEF MarkInv

LEMMA ScanGlobalVecMarks ==
  ASSUME TypeOK, MarkInv, ScanGlobalVec
  PROVE  MarkInv'
<1>1. /\ phase = "mark" /\ phase' = "mark" /\ scan = Len(stack) + 1 /\ scan' = scan + 1
      /\ Pending = {} /\ stack' = stack /\ obj' = obj /\ gp' = gp
      /\ todo' = GlobalVecCall
  BY DEF ScanGlobalVec, heapVars, Pending
<1>2. Marked' = Marked /\ Black' = Black /\ Reachable' = Reachable
  BY HeapSame DEF ScanGlobalVec, Marked, Black, TypeOK
<1>3. gp \in Ptr /\ Pending' \subseteq {gp} /\ (gp # Nil => gp \in Pending')
  BY <1>1 DEF GlobalVecCall, Pending, TypeOK, HeapTypeOK, Ptr, Nil
<1>4. Pending' \subseteq Reachable \cup {Nil}
  BY <1>3, ReachableFacts DEF TypeOK
<1>5. Scanned' = Scanned
  BY <1>1, StackLen DEF Scanned, TypeOK
<1>6. QED
  BY <1>1, <1>2, <1>3, <1>4, <1>5, StackLen DEF MarkInv, TypeOK

\* A cell taken from the pending calls is marked, or was, or is nil; what it
\* points to joins them.
LEMMA MarkOneMarks ==
  ASSUME TypeOK, NoDangling, MarkInv, MarkOne
  PROVE  MarkInv'
<1> DEFINE a == Head(todo)
           Rest == {Tail(todo)[i] : i \in DOMAIN Tail(todo)}
<1>1. /\ phase = "mark" /\ phase' = "mark" /\ scan' = scan
      /\ stack' = stack /\ obj' = obj /\ gp' = gp
  BY DEF MarkOne, heapVars
<1>2. Black' = Black /\ Reachable' = Reachable /\ Scanned' = Scanned
  BY <1>1, HeapSame DEF MarkOne, Black, TypeOK, Scanned
<1>3. a \in Ptr /\ Tail(todo) \in Seq(Ptr) /\ Pending = {a} \cup Rest
  <2>1. todo \in Seq(Ptr)
    BY DEF TypeOK
  <2>2. todo # << >>
    BY DEF MarkOne
  <2>3. Pending = {todo[i] : i \in DOMAIN todo}
    BY DEF Pending
  <2>4. QED
    BY <2>1, <2>2, <2>3, TailFacts, Zenon
<1>4. a \in Reachable \cup {Nil} /\ Rest \subseteq Reachable \cup {Nil}
  BY <1>1, <1>3 DEF MarkInv
<1>5. CASE Marks(a)
  <2>1. a \in Addr /\ a \in Reachable
    BY <1>3, <1>4, <1>5 DEF Marks, Ptr, Addr, Nil
  <2>2. Marked' = Marked \cup {a}
    BY <2>1, <1>5 DEF MarkOne, Marked, TypeOK
  <2>3. Calls(a) \in Seq(Ptr) /\ {Calls(a)[i] : i \in DOMAIN Calls(a)} = PtrsOf(obj[a])
    BY <2>1 DEF Calls, PtrsOf, TypeOK, HeapTypeOK, Object
  <2>4. todo' = Calls(a) \o Tail(todo)
    BY <1>5 DEF MarkOne
  <2>5. Pending' = PtrsOf(obj[a]) \cup Rest
    <3>1. Calls(a) \in Seq(Ptr)
      BY <2>3
    <3>2. Tail(todo) \in Seq(Ptr)
      BY <1>3
    <3>3. {(Calls(a) \o Tail(todo))[i] : i \in DOMAIN (Calls(a) \o Tail(todo))} =
            {Calls(a)[i] : i \in DOMAIN Calls(a)} \cup Rest
      <4>1. Elems(Calls(a) \o Tail(todo)) = Elems(Calls(a)) \cup Elems(Tail(todo))
        BY <3>1, <3>2, ConcatFacts
      <4>2. QED
        BY <4>1 DEF Elems
    <3>4. Pending' = {todo'[i] : i \in DOMAIN todo'}
      BY DEF Pending
    <3>5. QED
      BY <2>3, <2>4, <3>3, <3>4, Zenon
  <2>6. PtrsOf(obj[a]) \subseteq Reachable \cup {Nil}
    BY <2>1, ReachableFacts DEF TypeOK
  <2>7. QED
    BY <2>1, <2>2, <2>5, <2>6, <1>1, <1>2, <1>3, <1>4 DEF MarkInv
<1>6. CASE ~ Marks(a)
  <2>1. a \in Marked \cup {Nil}
    BY <1>3, <1>4, <1>6 DEF Marks, NoDangling, Allocated, Marked, TypeOK, Ptr, Addr, Nil
  <2>2. Marked' = Marked /\ Pending' = Rest
    BY <1>6 DEF MarkOne, Marked, Pending
  <2>3. QED
    BY <2>1, <2>2, <1>1, <1>2, <1>3, <1>4 DEF MarkInv
<1>7. QED
  BY <1>5, <1>6

\* When no call is pending and every root has been read, what is marked is
\* what is reachable.
LEMMA StartSweepMarks ==
  ASSUME TypeOK, MarkInv, StartSweep
  PROVE  SweepInv'
<1>1. /\ phase = "mark" /\ phase' = "sweep" /\ todo = << >> /\ todo' = << >>
      /\ scan = Len(stack) + 2
  BY DEF StartSweep
<1>2. Marked' = Marked /\ Black' = Black /\ Reachable' = Reachable
  BY HeapSame DEF StartSweep, Marked, Black, TypeOK
<1>3. Black = << >> /\ Moved' = {} /\ Pending = {}
  BY <1>1, <1>2 DEF MarkInv, Moved, Pending
<1>4. StackPtrs \subseteq Scanned
  BY <1>1, StackLen DEF StackPtrs, Scanned, TypeOK
<1>5. Roots \subseteq Marked \cup {Nil}
  BY <1>1, <1>3, <1>4 DEF MarkInv, Roots
<1>6. Closed(obj, Marked) /\ Marked \in SUBSET Addr
  BY <1>1, <1>3 DEF MarkInv, Closed, Marked
<1>7. Reachable \subseteq Marked
  BY <1>5, <1>6, ReachLeast DEF Reachable
<1>8. Marked = Reachable
  BY <1>1, <1>7 DEF MarkInv
<1>9. QED
  BY <1>1, <1>2, <1>3, <1>8 DEF SweepInv

-----------------------------------------------------------------------------
(* Sweeping. *)

\* The sweep frees only what is out of reach.
LEMMA SweepDeadReclaims ==
  ASSUME TypeOK, ListsOK, SweepInv, SweepDead
  PROVE  /\ \E a \in Addr : Reclaim(a)
         /\ SweepInv'
<1>1. phase = "sweep" /\ phase' = "sweep" /\ scan <= Len(White)
  BY DEF SweepDead
<1>2. PICK a \in Addr : a = White[scan]
  BY <1>1, SweptEntry
<1>3. a \in Allocated /\ a \notin Moved /\ mark[a] = 0
  BY <1>1, <1>2, SweptEntry DEF SweepDead
<1>4. a \notin Reachable
  BY <1>1, <1>3 DEF SweepInv, Marked
<1>5. obj' = [obj EXCEPT ![a] = NoObj] /\ UNCHANGED <<stack, gp>>
  BY <1>2 DEF SweepDead
<1>6. Reachable' = Reachable
  BY <1>4, <1>5, ReclaimReach DEF TypeOK
<1>7. Marked' = Marked /\ Moved' = Moved
  BY DEF SweepDead, Marked, Moved, Black
<1>8. SweepInv'
  BY <1>1, <1>6, <1>7 DEF SweepInv, SweepDead
<1>9. QED
  BY <1>3, <1>4, <1>5, <1>8 DEF Reclaim

LEMMA SweepLiveSurvivors ==
  ASSUME TypeOK, ListsOK, SweepInv, SweepLive
  PROVE  SweepInv'
<1>1. phase = "sweep" /\ phase' = "sweep" /\ scan <= Len(White) /\ todo' = todo
  BY DEF SweepLive
<1>2. PICK a \in Addr : a = White[scan]
  BY <1>1, SweptEntry
<1>3. a \notin Moved /\ mark[a] = 1
  BY <1>1, <1>2, SweptEntry DEF SweepLive
<1>4. Marked' = Marked \ {a} /\ a \in Marked
  BY <1>2, <1>3 DEF SweepLive, Unmark, Marked, TypeOK
<1>5. Moved' = Moved \cup {a}
  BY <1>2, SweepLiveLists
<1>6. Reachable' = Reachable
  BY HeapSame DEF SweepLive, TypeOK
<1>7. QED
  BY <1>1, <1>3, <1>4, <1>5, <1>6 DEF SweepInv

-----------------------------------------------------------------------------
(* Every step is a step of the abstract heap, or leaves it alone. *)

LEMMA StepImplements ==
  ASSUME GcInv, [Next]_vars
  PROVE  [HeapNext]_heapVars
<1> USE DEF GcInv
<1>1. ASSUME NEW o \in NewObjects, Alloc(o) PROVE HeapNext
  <2>1. free \in Addr /\ obj[free].kind = "null"
    BY <1>1, AllocFreeList DEF Allocated
  <2>2. QED
    BY <1>1, <2>1 DEF Alloc, Place, HeapNext
<1>2. CASE MutatorStep
  BY <1>2 DEF MutatorStep, HeapNext
<1>3. CASE SweepDead
  BY <1>3, SweepDeadReclaims DEF HeapNext
<1>4. CASE AllocFails \/ StartCollection \/ ScanStack \/ ScanGlobalVec \/ MarkOne
           \/ StartSweep \/ SweepLive \/ EndSweep \/ UNCHANGED vars
  BY <1>4 DEF AllocFails, StartCollection, ScanStack, ScanGlobalVec, MarkOne,
              StartSweep, SweepLive, EndSweep, vars
<1>5. QED
  BY <1>1, <1>2, <1>3, <1>4 DEF Next, Collector

\* The parts of the invariant that hold because of the phase the step ends in.
LEMMA PhaseFrame ==
  /\ phase' # "mark"  => MarkInv'
  /\ phase' # "sweep" => SweepInv'
  /\ phase' \notin {"run", "oom"} => CleanBetweenCollections'
BY DEF MarkInv, SweepInv, CleanBetweenCollections

LEMMA InvStep ==
  ASSUME GcInv, [Next]_vars
  PROVE  GcInv'
<1> USE DEF GcInv
<1>1. TypeOK'
  BY TypeStep
<1>2. NoDangling'
  BY StepImplements, HeapStep DEF TypeOK
<1>3. FreeListOK'
  BY FreeListStep
<1>4. ListsOK' /\ CleanBetweenCollections' /\ MarkInv' /\ SweepInv'
  <2>1. ASSUME NEW o \in NewObjects, Alloc(o) PROVE <1>4!:
    BY <2>1, AllocLists, PhaseFrame DEF Alloc
  <2>2. CASE AllocFails
    <3>1. Allocated' = Allocated /\ mark' = mark /\ Black' = Black
      BY <2>2, HeapSame DEF AllocFails, TypeOK, Black
    <3>2. QED
      BY <3>1, <2>2, ListsFrame, PhaseFrame DEF AllocFails, CleanBetweenCollections
  <2>3. CASE MutatorStep
    <3>1. Allocated' = Allocated /\ mark' = mark /\ Black' = Black
      BY <2>3, MutateAllocated DEF MutatorStep, gcVars, TypeOK, Black
    <3>2. QED
      BY <3>1, <2>3, ListsFrame, PhaseFrame DEF MutatorStep, gcVars, CleanBetweenCollections
  <2>4. CASE StartCollection
    <3>1. Allocated' = Allocated
      BY <2>4, HeapSame DEF StartCollection, TypeOK
    <3>2. QED
      BY <3>1, <2>4, ListsFrame, PhaseFrame, StartCollectionMarks DEF StartCollection
  <2>5. CASE ScanStack
    <3>1. Allocated' = Allocated
      BY <2>5, HeapSame DEF ScanStack, TypeOK
    <3>2. QED
      BY <3>1, <2>5, ListsFrame, PhaseFrame, ScanStackMarks DEF ScanStack
  <2>6. CASE ScanGlobalVec
    <3>1. Allocated' = Allocated
      BY <2>6, HeapSame DEF ScanGlobalVec, TypeOK
    <3>2. QED
      BY <3>1, <2>6, ListsFrame, PhaseFrame, ScanGlobalVecMarks DEF ScanGlobalVec
  <2>7. CASE MarkOne
    <3>1. Allocated' = Allocated
      BY <2>7, HeapSame DEF MarkOne, TypeOK
    <3>2. QED
      BY <3>1, <2>7, ListsFrame, PhaseFrame, MarkOneMarks DEF MarkOne
  <2>8. CASE StartSweep
    <3>1. Allocated' = Allocated
      BY <2>8, HeapSame DEF StartSweep, TypeOK
    <3>2. QED
      BY <3>1, <2>8, ListsFrame, PhaseFrame, StartSweepMarks DEF StartSweep
  <2>9. CASE SweepDead
    BY <2>9, SweepDeadLists, SweepDeadReclaims, PhaseFrame DEF SweepDead
  <2>10. CASE SweepLive
    BY <2>10, SweepLiveLists, SweepLiveSurvivors, PhaseFrame DEF SweepLive
  <2>11. CASE EndSweep
    BY <2>11, EndSweepLists, PhaseFrame DEF EndSweep
  <2>12. CASE UNCHANGED vars
    <3>1. /\ Allocated' = Allocated /\ Reachable' = Reachable
          /\ mark' = mark /\ wb' = wb /\ w' = w /\ phase' = phase /\ scan' = scan
          /\ todo' = todo /\ stack' = stack /\ gp' = gp /\ obj' = obj
      BY <2>12, HeapSame DEF vars, gcVars, heapVars, TypeOK
    <3>2. White' = White /\ Black' = Black /\ Unswept' = Unswept
      BY <3>1 DEF White, Black, Unswept
    <3>3. /\ Marked' = Marked /\ Pending' = Pending /\ Moved' = Moved
          /\ Scanned' = Scanned
      BY <3>1, <3>2 DEF Marked, Pending, Moved, Scanned
    <3>4. ListsOK' /\ CleanBetweenCollections'
      BY <3>1, <3>2 DEF ListsOK, CleanBetweenCollections
    <3>5. MarkInv' /\ SweepInv'
      BY <3>1, <3>2, <3>3 DEF MarkInv, SweepInv
    <3>6. QED
      BY <3>4, <3>5
  <2>13. QED
    BY <2>1, <2>2, <2>3, <2>4, <2>5, <2>6, <2>7, <2>8, <2>9, <2>10, <2>11, <2>12
       DEF Next, Collector
<1>5. QED
  BY <1>1, <1>2, <1>3, <1>4

LEMMA InvInit == Init => GcInv
<1> SUFFICES ASSUME Init PROVE GcInv
  OBVIOUS
<1>1. White = << >> /\ Black = << >> /\ Allocated = {} /\ Unswept = {}
  BY DEF Init, White, Black, Unswept, HeapInit, Allocated, NoObj
<1>2. ListsOK
  BY <1>1 DEF ListsOK
<1>3. CleanBetweenCollections /\ MarkInv /\ SweepInv
  BY <1>1 DEF Init, CleanBetweenCollections, MarkInv, SweepInv
<1>4. TypeOK /\ NoDangling /\ FreeListOK
  BY TypeInit, HeapInitOK, FreeListInit DEF Init
<1>5. QED
  BY <1>2, <1>3, <1>4 DEF GcInv

(***************************************************************************)
(* The inductive invariant of the collector.                               *)
(***************************************************************************)
THEOREM GcCorrect == Spec => []GcInv
<1>1. GcInv /\ [Next]_vars => GcInv'
  BY InvStep
<1>2. QED
  BY InvInit, <1>1, PTL DEF Spec

(***************************************************************************)
(* The collector is an implementation of the abstract heap: it takes back  *)
(* only cells that cannot be reached, and new objects come in empty cells. *)
(***************************************************************************)
THEOREM GcImplementsHeap == Spec => ImplementsHeap
<1>1. Init => HeapInit
  BY DEF Init
<1>2. GcInv /\ [Next]_vars => [HeapNext]_heapVars
  BY StepImplements
<1>3. QED
  BY <1>1, <1>2, GcCorrect, PTL DEF Spec, HeapSpec, ImplementsHeap

(***************************************************************************)
(* The machine never follows a pointer to a cell the collector freed.      *)
(***************************************************************************)
THEOREM GcNoDangling == Spec => []NoDangling
<1>1. GcInv => NoDangling
  BY DEF GcInv
<1>2. QED
  BY <1>1, GcCorrect, PTL

(***************************************************************************)
(* The two lists hold every allocated cell once.                           *)
(***************************************************************************)
THEOREM GcLists == Spec => []ListsOK
<1>1. GcInv => ListsOK
  BY DEF GcInv
<1>2. QED
  BY <1>1, GcCorrect, PTL

(***************************************************************************)
(* The free list holds every other cell once.                              *)
(***************************************************************************)
THEOREM GcFreeList == Spec => []FreeListOK
<1>1. GcInv => FreeListOK
  BY DEF GcInv
<1>2. QED
  BY <1>1, GcCorrect, PTL

(***************************************************************************)
(* No mark outlives a collection, and nothing stays on the other list.     *)
(***************************************************************************)
THEOREM GcClean == Spec => []CleanBetweenCollections
<1>1. GcInv => CleanBetweenCollections
  BY DEF GcInv
<1>2. QED
  BY <1>1, GcCorrect, PTL

(***************************************************************************)
(* gc_alloc_any gives up only when every cell holds an object: a chain     *)
(* that is empty is the list of no cell.                                   *)
(***************************************************************************)
THEOREM GcOomOnlyWhenFull == Spec => []OomOnlyWhenFull
<1>1. Init => OomOnlyWhenFull
  BY DEF Init, OomOnlyWhenFull
<1>2. GcInv /\ OomOnlyWhenFull /\ [Next]_vars => OomOnlyWhenFull'
  <2> SUFFICES ASSUME GcInv, OomOnlyWhenFull, [Next]_vars, phase' = "oom" PROVE Allocated' = Addr
    BY DEF OomOnlyWhenFull
  <2>1. CASE AllocFails
    <3>1. PICK n \in 0 .. MemSize - 1 : \E f \in [1 .. n -> Addr] : IsFreeList(f)
      BY DEF GcInv, FreeListOK
    <3>2. PICK f \in [1 .. n -> Addr] : IsFreeList(f)
      BY <3>1
    <3>3. n = 0
      <4>1. SUFFICES ASSUME n # 0 PROVE FALSE
        OBVIOUS
      <4>2. 1 \in 1 .. n /\ f # << >>
        BY <4>1
      <4>3. f[1] \in Addr /\ free = f[1]
        BY <3>2, <4>2 DEF IsFreeList
      <4>4. QED
        BY <2>1, <4>3 DEF AllocFails, Addr
    <3>4. Addr \ Allocated = {}
      BY <3>2, <3>3 DEF IsFreeList
    <3>5. Allocated = Addr
      BY <3>4 DEF Allocated
    <3>6. QED
      BY <2>1, <3>5 DEF AllocFails, heapVars, Allocated
  <2>2. CASE UNCHANGED vars
    BY <2>2 DEF vars, heapVars, gcVars, Allocated, OomOnlyWhenFull
  <2>3. CASE Next /\ ~AllocFails
    BY <2>3 DEF Next, Collector, Alloc, MutatorStep, StartCollection, ScanStack, ScanGlobalVec,
                MarkOne, StartSweep, SweepDead, SweepLive, EndSweep, gcVars
  <2>4. QED
    BY <2>1, <2>2, <2>3
<1>3. QED
  BY <1>1, <1>2, GcCorrect, PTL DEF Spec

(***************************************************************************)
(* gc_mark_vec and gc_mark_arr are never called for an empty cell.         *)
(***************************************************************************)
THEOREM GcPendingLive == Spec => []PendingLive
<1>1. GcInv => PendingLive
  <2> SUFFICES ASSUME GcInv, phase = "mark", NEW i \in DOMAIN todo
               PROVE  todo[i] \in Allocated \cup {Nil}
    BY DEF PendingLive
  <2>1. todo[i] \in Pending
    BY DEF Pending
  <2>2. QED
    BY <2>1 DEF GcInv, MarkInv, NoDangling
<1>2. QED
  BY <1>1, GcCorrect, PTL

(***************************************************************************)
(* A collection leaves no garbage behind.                                  *)
(***************************************************************************)
THEOREM GcCollectsAllGarbage == Spec => CollectsAllGarbage
<1>1. GcInv /\ [Next]_vars => [phase = "sweep" /\ phase' = "run" => Allocated' = Reachable']_vars
  <2> SUFFICES ASSUME GcInv, Next, phase = "sweep", phase' = "run"
               PROVE  Allocated' = Reachable'
    OBVIOUS
  <2>1. EndSweep
    BY DEF Next, Collector, Alloc, AllocFails, MutatorStep, StartCollection, ScanStack,
           ScanGlobalVec, MarkOne, StartSweep, SweepDead, SweepLive
  <2>2. QED
    BY <2>1, EndSweepLists DEF GcInv
<1>2. QED
  BY <1>1, GcCorrect, PTL DEF Spec, CollectsAllGarbage
=============================================================================
