------------------------------- MODULE ExcTab -------------------------------
(***************************************************************************)
(* The exception table of back/exctab.c.  The emitter appends one entry    *)
(* per block of code, the address where the block starts and the address   *)
(* of its handler, as it lays the blocks out; the machine looks up the     *)
(* address of a failing instruction by binary search.  A block ends where  *)
(* the next one starts, and the entry after the last is a sentinel.        *)
(*                                                                         *)
(* Memory fresh from malloc or realloc holds Garbage.  One step is an      *)
(* insertion, the start of a search or one turn of its loop.               *)
(***************************************************************************)
EXTENDS Integers

CONSTANTS
  InitSize,  \* exception_tab_new's argument: 32 in module_new, 2 in its test
  UintMax,   \* UINT_MAX; addresses of code are below it
  Garbage,   \* an entry no one has written
  MaxBlocks  \* bound: entries inserted

Uint  == 0 .. UintMax
Ip    == 0 .. UintMax - 1
TabEntry == [block : Uint, handler : Uint]
Sentinel == [block |-> UintMax, handler |-> UintMax]

ASSUME ExcTabAssumption ==
  /\ InitSize \in Nat /\ InitSize >= 2
  /\ UintMax \in Nat \ {0}
  /\ Garbage \in TabEntry
  /\ MaxBlocks \in Nat

VARIABLES
  size,   \* tab's capacity
  count,  \* entries in use, the sentinel excluded
  tab,    \* the entries
  ip,     \* the address looked up
  from, to, found,  \* the search's local variables; found is -1 for NULL
  pc      \* "idle", or "search" inside the loop, or "done"

tabVars    == <<size, count, tab>>
searchVars == <<ip, from, to, found, pc>>
vars       == <<tabVars, searchVars>>

-----------------------------------------------------------------------------
\* exception_tab_new.
Init ==
  /\ size = InitSize
  /\ count = 0
  /\ tab = [i \in 0 .. InitSize - 1 |-> IF i = 0 THEN Sentinel ELSE Garbage]
  /\ ip = 0
  /\ from = 0 /\ to = 0 /\ found = -1
  /\ pc = "idle"

\* The two writes of exception_tab_insert: the entry, and the sentinel after it.
SentinelLost(b, h) ==                                 \* mutant: no sentinel
  [tab EXCEPT ![count] = [block |-> b, handler |-> h]]
WriteEntry(b, h) ==
  [tab EXCEPT ![count] = [block |-> b, handler |-> h], ![count + 1] = Sentinel]

\* The capacity after an insertion that leaves n entries.
GrowLate(n) == IF n >= size THEN 2 * size ELSE size     \* mutant: - 1 forgotten
NewSize(n)  == IF n >= size - 1 THEN 2 * size ELSE size

\* The memory after realloc: what was written, and fresh cells behind it.
NotGrown(written, n) == written                        \* mutant: no realloc
Grown(written, n) == [i \in 0 .. n - 1 |-> IF i < size THEN written[i] ELSE Garbage]

\* exception_tab_insert, called at the end of a block: the emitter has passed
\* the block's first instruction and its handler's.
Insert(b, h) ==
  /\ pc = "idle" /\ count < MaxBlocks
  /\ b < h /\ \A i \in 0 .. count - 1 : tab[i].handler < b
  /\ count' = count + 1
  /\ size' = NewSize(count + 1)
  /\ tab' = Grown(WriteEntry(b, h), size')
  /\ UNCHANGED searchVars

\* exception_tab_search up to the loop; the table is not empty, and the machine
\* looks up no address before its first block.
StartSearch(x) ==
  /\ pc = "idle" /\ count > 0
  /\ x >= tab[0].block
  /\ ip' = x
  /\ from' = 0 /\ to' = count - 1 /\ found' = -1
  /\ pc' = "search"
  /\ UNCHANGED tabVars

\* exctab_between.
BetweenOrEnd(first, second) ==                          \* mutant: > for >=
  IF ip < first.block THEN -1 ELSE IF ip > second.block THEN 1 ELSE 0
Between(first, second) ==
  IF ip < first.block THEN -1 ELSE IF ip >= second.block THEN 1 ELSE 0

\* The bounds for the next turn, when the middle entry does not match.
StuckLow(middle)  == middle                             \* mutant: no progress
NextFrom(middle)  == middle + 1
NextTo(middle)    == middle - 1

\* One turn of the loop of exctab_search.
SearchTurn ==
  /\ pc = "search" /\ from <= to /\ found = -1
  /\ LET middle == from + (to - from) \div 2
         cmp    == Between(tab[middle], tab[middle + 1])
     IN  /\ from'  = IF cmp > 0 THEN NextFrom(middle) ELSE from
         /\ to'    = IF cmp < 0 THEN NextTo(middle) ELSE to
         /\ found' = IF cmp = 0 THEN middle ELSE found
  /\ UNCHANGED <<tabVars, ip, pc>>

\* Out of the loop; exception_tab_search asserts that something was found.
EndSearch ==
  /\ pc = "search" /\ (from > to \/ found # -1)
  /\ pc' = "done"
  /\ UNCHANGED <<tabVars, ip, from, to, found>>

\* The machine goes on at the handler.
Return ==
  /\ pc = "done"
  /\ pc' = "idle"
  /\ ip' = 0 /\ from' = 0 /\ to' = 0 /\ found' = -1
  /\ UNCHANGED tabVars

Next ==
  \/ \E b, h \in Ip : Insert(b, h)
  \/ \E x \in Ip : StartSearch(x)
  \/ SearchTurn
  \/ EndSearch
  \/ Return

Spec     == Init /\ [][Next]_vars
FairSpec == Spec /\ WF_vars(SearchTurn) /\ WF_vars(EndSearch)

-----------------------------------------------------------------------------
TypeOK ==
  /\ size \in Nat /\ count \in 0 .. MaxBlocks
  /\ tab \in [0 .. size - 1 -> TabEntry]
  /\ ip \in Ip
  /\ from \in Nat /\ to \in -1 .. MaxBlocks /\ found \in -1 .. MaxBlocks
  /\ pc \in {"idle", "search", "done"}

(***************************************************************************)
(* There is always room for the next entry and the sentinel after it: the  *)
(* growth test comes after the writes and has to look one entry ahead.     *)
(***************************************************************************)
RoomForNext == count + 1 < size

(***************************************************************************)
(* The blocks are in the order of their addresses, each with its handler   *)
(* inside it, and the sentinel follows the last: what the search relies on.*)
(***************************************************************************)
Sorted ==
  /\ \A i, j \in 0 .. count : i < j => tab[i].block < tab[j].block
  /\ \A i \in 0 .. count - 1 : tab[i].block < tab[i].handler /\ tab[i].handler < tab[i + 1].block
  /\ tab[count] = Sentinel

(***************************************************************************)
(* A search gives the last block that starts at or before the address; it  *)
(* never comes back with none, which exception_tab_search asserts.         *)
(***************************************************************************)
IsLastBefore(i, x) ==
  /\ i \in 0 .. count - 1
  /\ tab[i].block <= x
  /\ \A j \in 0 .. count - 1 : tab[j].block <= x => j <= i

SearchCorrect == pc = "done" => IsLastBefore(found, ip)

(***************************************************************************)
(* A search ends.                                                          *)
(***************************************************************************)
SearchEnds == pc = "search" ~> pc = "done"

-----------------------------------------------------------------------------
(***************************************************************************)
(* The invariant of the loop: the block looked for is between from and to. *)
(***************************************************************************)
SearchInv ==
  pc # "idle" =>
    /\ count > 0 /\ tab[0].block <= ip
    /\ found = -1 => /\ pc = "search"
                     /\ 0 <= from /\ from <= to /\ to < count
                     /\ tab[from].block <= ip
                     /\ ip < tab[to + 1].block
    /\ found # -1 => IsLastBefore(found, ip)

ExcTabInv == TypeOK /\ RoomForNext /\ Sorted /\ SearchInv
=============================================================================
