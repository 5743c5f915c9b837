------------------------------- MODULE StrTab -------------------------------
(***************************************************************************)
(* The string table of back/strtab.c, which numbers the string constants   *)
(* of a program: open addressing with linear probing over hash_string of   *)
(* front/hash.c, twice as large as soon as more than three quarters are    *)
(* taken.  The tables of symtab.c, dltab.c and dlcache.c probe and grow    *)
(* the same way, but add without looking for what is added.                *)
(*                                                                         *)
(* A step is one turn of the loop of a call: one cell looked at, or one    *)
(* entry moved to the larger table.  The hash of a string is any number.   *)
(***************************************************************************)
EXTENDS Integers

CONSTANTS
  Strings,
  Null,          \* the string of an empty entry
  HashValues,    \* what hash_string may give
  InitSize       \* what strtab_new is given

ASSUME StrTabAssumption ==
  /\ Null \notin Strings
  /\ HashValues \subseteq Nat
  /\ InitSize \in Nat \ {0}

VARIABLES
  hash,          \* hash_string
  entries, size, count,
  doing,         \* the call under way: "add", "lookup", in a resize "scan" and
                 \* "move"; or "idle", "closed", "aborted"
  arg, index, times,   \* the string it is for, the cell looked at, the turns
  grown, i,      \* the larger table, and the entry of the old one it is at
  answer,        \* the string of the last call that returned, and its order
  strings        \* the array of strtab_to_array

table == <<entries, size, count>>
probe == <<arg, index, times>>
vars  == <<hash, table, doing, probe, grown, i, answer, strings>>

-----------------------------------------------------------------------------
Entry(s, o)  == [string |-> s, order |-> o]
NoEntry      == Entry(Null, 0)
NoEntries(n) == [c \in 0 .. n - 1 |-> NoEntry]
Home(s, n)   == hash[s] % n

Init ==
  /\ hash \in [Strings -> HashValues]
  /\ entries = NoEntries(InitSize) /\ size = InitSize /\ count = 1
  /\ doing = "idle"
  /\ arg = Null /\ index = 0 /\ times = 0
  /\ grown = << >> /\ i = 0
  /\ answer = Entry(Null, 0)
  /\ strings = << >>

\* A call or a move looks for s in a table of n entries.
Start(what, s, n) ==
  /\ doing' = what
  /\ arg' = s /\ index' = Home(s, n) /\ times' = 0

\* The call is over.
Idle ==
  /\ doing' = "idle"
  /\ arg' = Null /\ index' = 0 /\ times' = 0

\* Another string is in the cell: on to the next.
NoWrap(n) == index' = index + 1 /\ times' = times + 1 /\ UNCHANGED arg   \* mutant
Probe(n) == index' = (index + 1) % n /\ times' = times + 1 /\ UNCHANGED arg

\* strtab_add_string and strtab_lookup_string.
AddString(s) ==
  /\ doing = "idle"
  /\ Start("add", s, size)
  /\ UNCHANGED <<hash, table, grown, i, answer, strings>>

LookupString(s) ==
  /\ doing = "idle"
  /\ Start("lookup", s, size)
  /\ UNCHANGED <<hash, table, grown, i, answer, strings>>

-----------------------------------------------------------------------------
\* strtab_entry_add_string, in either table: times++ > size is assert(0).
AddProbe ==
  /\ doing = "add"
  /\ entries[index].string \notin {Null, arg}
  /\ Probe(size)
  /\ doing' = IF times > size THEN "aborted" ELSE doing
  /\ UNCHANGED <<hash, table, grown, i, answer, strings>>

\* strtab_add_string after it: a new order is counted, and strtab_resize makes
\* room; it is under way then as "scan".
Full(n, sz) == n > 2 * sz                              \* mutant: too late
Crowded(n, sz) == n > (sz * 3) \div 4
CountsKnown(order) ==                                  \* mutant: counts every call
  /\ answer' = Entry(arg, order)
  /\ count' = count + 1
  /\ IF Crowded(count', size)
     THEN /\ doing' = "scan"
          /\ grown' = NoEntries(2 * size)
          /\ arg' = Null /\ index' = 0 /\ times' = 0
     ELSE Idle /\ UNCHANGED grown
  /\ UNCHANGED <<hash, size, i, strings>>
Added(order) ==
  /\ answer' = Entry(arg, order)
  /\ count' = IF order = count THEN count + 1 ELSE count
  /\ IF order = count /\ Crowded(count', size)
     THEN /\ doing' = "scan"
          /\ grown' = NoEntries(2 * size)
          /\ arg' = Null /\ index' = 0 /\ times' = 0
     ELSE Idle /\ UNCHANGED grown
  /\ UNCHANGED <<hash, size, i, strings>>

AddNew ==
  /\ doing = "add"
  /\ entries[index].string = Null
  /\ entries' = [entries EXCEPT ![index] = Entry(arg, count)]
  /\ Added(count)

AddKnown ==
  /\ doing = "add"
  /\ entries[index].string = arg
  /\ Added(entries[index].order)
  /\ UNCHANGED entries

\* strtab_entry_lookup_string: 0 when there is no such string, or times++ > size.
LookupProbe ==
  /\ doing = "lookup"
  /\ entries[index].string \notin {Null, arg}
  /\ IF times > size
     THEN Idle /\ answer' = Entry(arg, 0)
     ELSE Probe(size) /\ UNCHANGED <<doing, answer>>
  /\ UNCHANGED <<hash, table, grown, i, strings>>

LookupEnds ==
  /\ doing = "lookup"
  /\ entries[index].string \in {Null, arg}
  /\ answer' = Entry(arg, IF entries[index].string = arg THEN entries[index].order ELSE 0)
  /\ Idle
  /\ UNCHANGED <<hash, table, grown, i, strings>>

-----------------------------------------------------------------------------
\* strtab_entry_resize, entry by entry.
ScanEmpty ==
  /\ doing = "scan" /\ i < size
  /\ entries[i].string = Null
  /\ i' = i + 1
  /\ UNCHANGED <<hash, table, doing, probe, grown, answer, strings>>

ScanMove ==
  /\ doing = "scan" /\ i < size
  /\ entries[i].string # Null
  /\ Start("move", entries[i].string, 2 * size)
  /\ UNCHANGED <<hash, table, grown, i, answer, strings>>

MoveProbe ==
  /\ doing = "move"
  /\ grown[index].string \notin {Null, arg}
  /\ Probe(2 * size)
  /\ doing' = IF times > 2 * size THEN "aborted" ELSE doing
  /\ UNCHANGED <<hash, table, grown, i, answer, strings>>

SameEntry ==                                           \* mutant: i is not advanced
  /\ doing = "move"
  /\ grown[index].string \in {Null, arg}
  /\ grown' = IF grown[index].string = Null
              THEN [grown EXCEPT ![index] = Entry(arg, entries[i].order)] ELSE grown
  /\ doing' = "scan"
  /\ arg' = Null /\ index' = 0 /\ times' = 0
  /\ UNCHANGED <<hash, table, i, answer, strings>>
MoveEnds ==
  /\ doing = "move"
  /\ grown[index].string \in {Null, arg}
  /\ grown' = IF grown[index].string = Null
              THEN [grown EXCEPT ![index] = Entry(arg, entries[i].order)] ELSE grown
  /\ i' = i + 1
  /\ doing' = "scan"
  /\ arg' = Null /\ index' = 0 /\ times' = 0
  /\ UNCHANGED <<hash, table, answer, strings>>

Realloc ==                                             \* mutant: the entries stay where they were
  /\ doing = "scan" /\ i = size
  /\ entries' = [c \in 0 .. 2 * size - 1 |-> IF c < size THEN entries[c] ELSE NoEntry]
  /\ size' = 2 * size
  /\ grown' = << >> /\ i' = 0
  /\ doing' = "idle"
  /\ UNCHANGED <<hash, count, probe, answer, strings>>
ScanEnds ==
  /\ doing = "scan" /\ i = size
  /\ entries' = grown /\ size' = 2 * size
  /\ grown' = << >> /\ i' = 0
  /\ doing' = "idle"
  /\ UNCHANGED <<hash, count, probe, answer, strings>>

-----------------------------------------------------------------------------
\* strtab_to_array, which module_close calls once: an order that no entry has
\* stays what malloc gave, here Garbage.
Garbage == [uninitialised |-> TRUE]
ToArray ==
  /\ doing = "idle"
  /\ strings' = [o \in 0 .. count - 1 |->
                   IF o = 0 THEN Null
                   ELSE IF \E c \in 0 .. size - 1 : entries[c].string # Null /\ entries[c].order = o
                   THEN entries[CHOOSE c \in 0 .. size - 1 :
                                  entries[c].string # Null /\ entries[c].order = o].string
                   ELSE Garbage]
  /\ entries' = [c \in 0 .. size - 1 |-> [entries[c] EXCEPT !.string = Null]]
  /\ doing' = "closed"
  /\ UNCHANGED <<hash, size, count, probe, grown, i, answer>>

Step == AddProbe \/ AddNew \/ AddKnown \/ LookupProbe \/ LookupEnds
          \/ ScanEmpty \/ ScanMove \/ MoveProbe \/ MoveEnds \/ ScanEnds
Next == Step \/ ToArray \/ \E s \in Strings : AddString(s) \/ LookupString(s)

Spec     == Init /\ [][Next]_vars
FairSpec == Spec /\ WF_vars(Step)
-----------------------------------------------------------------------------
(***************************************************************************)
(* Properties.                                                             *)
(***************************************************************************)
Tables(n) == [0 .. n - 1 -> [string : Strings \cup {Null}, order : Nat]]

\* Types: a cell looked at is a cell of the table looked in.
TypeOK ==
  /\ hash \in [Strings -> HashValues]
  /\ size \in Nat \ {0} /\ count \in Nat \ {0} /\ times \in Nat
  /\ entries \in Tables(size)
  /\ doing \in {"idle", "add", "lookup", "scan", "move", "closed", "aborted"}
  /\ arg \in IF doing \in {"add", "lookup", "move"} THEN Strings ELSE {Null} \cup Strings
  /\ index \in 0 .. (IF doing = "move" THEN 2 * size ELSE size) - 1
  /\ doing \in {"scan", "move"} => grown \in Tables(2 * size)
  /\ i \in 0 .. (IF doing = "move" THEN size - 1 ELSE size)

\* The turns of a search in a table that is full enough to have no empty cell
\* end in assert(0): the table is made larger before it is, and the larger one
\* never fills up while the entries are moved.
NeverAborts == doing # "aborted"

\* The cells passed on the way from the one a string belongs in to cell c.
Path(h, c, n) == IF h <= c THEN h .. c - 1 ELSE (h .. n - 1) \cup (0 .. c - 1)

\* A search finds what is in a table t of n entries: no empty cell lies between
\* where a string belongs and where it is, ...
Chained(t, n) ==
  \A c \in 0 .. n - 1 : t[c].string # Null =>
    \A p \in Path(Home(t[c].string, n), c, n) : t[p].string # Null

\* ... and it is there once, with an order of its own that is below m.
Distinct(t, n, m) ==
  \A c \in 0 .. n - 1 : t[c].string # Null =>
    /\ t[c].order \in 1 .. m - 1
    /\ \A d \in (0 .. n - 1) \ {c} :
         t[d].string # Null => t[d].string # t[c].string /\ t[d].order # t[c].order

\* Through insertions, collisions that wrap around the end, and every step of a
\* move to a larger table, both tables stay such that the searches find what
\* was added.
TableOK ==
  /\ doing # "closed" => Chained(entries, size) /\ Distinct(entries, size, count)
  /\ doing \in {"scan", "move"} => Chained(grown, 2 * size) /\ Distinct(grown, 2 * size, count)

\* Numbers as the emitter and the machine expect them: a string keeps its
\* number when the table grows, is found as long as the table is open, and is
\* at that number in the array of the program.
OrderIn(t, n, s) ==
  IF \E c \in 0 .. n - 1 : t[c].string = s
  THEN t[CHOOSE c \in 0 .. n - 1 : t[c].string = s].order ELSE 0
Orders(t, n) == [s \in Strings |-> OrderIn(t, n, s)]
Numbers == INSTANCE Interning WITH order <- Orders(entries, size), next <- count
ImplementsInterning == Numbers!Spec

\* A call returns: no search goes round for ever, and no move.
CallsEnd == doing \in {"add", "lookup", "scan", "move"} ~> doing = "idle"
=============================================================================
