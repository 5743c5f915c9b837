---------------------------- MODULE ProbedTable -----------------------------
(***************************************************************************)
(* The table that front/symtab.c, back/dlcache.c and back/dltab.c each     *)
(* have their own copy of: open addressing with linear probing, filled     *)
(* without a search for what is put in, moved to one twice as large as     *)
(* soon as more than three quarters of it are counted.  An empty entry     *)
(* has no name.  h gives the hash of a name.                               *)
(***************************************************************************)
EXTENDS Integers, FiniteSets

CONSTANT NoName

Entry(x, v)  == [name |-> x, value |-> v]
NoEntry      == Entry(NoName, NoName)
NoEntries(n) == [c \in 0 .. n - 1 |-> NoEntry]

\* The cell looked at after d turns of the search for x in a table of n cells.
Cell(h, n, x, d) == (h[x] + d) % n

\* The turn at which the adders' loop ends: the first that meets an empty cell.
\* times++ > size lets it go once around, so it ends at none (assert(0)) only
\* when there is none.
FreeAt(t, n, h, x, d) ==
  /\ t[Cell(h, n, x, d)].name = NoName
  /\ \A e \in 0 .. d - 1 : t[Cell(h, n, x, e)].name # NoName
Full(t, n) == \A c \in 0 .. n - 1 : t[c].name # NoName

\* The turn at which the lookup's loop ends; after once around it gives up.
EntryAt(t, n, h, x, d) == t[Cell(h, n, x, d)]
StopsAt(t, n, h, x, d) ==
  /\ EntryAt(t, n, h, x, d).name \in {NoName, x}
  /\ \A e \in 0 .. d - 1 : EntryAt(t, n, h, x, e).name \notin {NoName, x}
NotFound(t, n, h, x) ==
  ~ \E d \in 0 .. n - 1 : StopsAt(t, n, h, x, d) /\ EntryAt(t, n, h, x, d).name = x

Put(t, n, h, x, d, v) == [t EXCEPT ![Cell(h, n, x, d)] = Entry(x, v)]

\* The test of the resize functions.
CrowdedLate(count, n) == count > 2 * n                 \* mutant: too late
Crowded(count, n) == count > (n * 3) \div 4

-----------------------------------------------------------------------------
NamesIn(t, n) == {t[c].name : c \in 0 .. n - 1} \ {NoName}
ValueOf(t, n, x) == t[CHOOSE c \in 0 .. n - 1 : t[c].name = x].value
MapOf(t, n) == [x \in NamesIn(t, n) |-> ValueOf(t, n, x)]

\* A search finds what is in a table: no empty cell comes before a name's own.
Chained(t, n, h) ==
  \A c \in 0 .. n - 1 : t[c].name # NoName =>
    \E d \in 0 .. n - 1 :
      /\ Cell(h, n, t[c].name, d) = c
      /\ \A e \in 0 .. d - 1 : t[Cell(h, n, t[c].name, e)].name # NoName

\* A name is there once.
Distinct(t, n) ==
  \A c, d \in 0 .. n - 1 : t[c].name # NoName /\ t[c].name = t[d].name => c = d

TableOK(t, n, h) == Chained(t, n, h) /\ Distinct(t, n)

Tables(n, Names, Values) == [0 .. n - 1 -> [name : Names \cup {NoName}, value : Values \cup {NoName}]]
=============================================================================
