---------------------------- MODULE StrTabProofs ----------------------------
(***************************************************************************)
(* That the string table of back/strtab.c never fills up, whatever the     *)
(* hash function, the initial size and the strings, and numbers them as    *)
(* Interning says.                                                         *)
(***************************************************************************)
EXTENDS StrTab, FiniteSetTheorems, TLAPS

Cells(n) == 0 .. n - 1

\* The way from home h to cell c, and what a search has found out on it.
Turns(h, c, n) == IF h <= c THEN c - h ELSE n - h + c
Passed(t, n, s, c, k) ==
  /\ \A p \in Path(Home(s, n), c, n) : t[p].string \notin {Null, s}
  /\ k = Turns(Home(s, n), c, n)

LEMMA NextCell ==
  ASSUME NEW n \in Nat \ {0}, NEW c \in Cells(n)
  PROVE  (c + 1) % n = IF c + 1 = n THEN 0 ELSE c + 1
<1>1. CASE c + 1 = n
  BY <1>1 DEF Cells
<1>2. CASE c + 1 # n
  BY <1>2 DEF Cells
<1>3. QED
  BY <1>1, <1>2

LEMMA HomeCell ==
  ASSUME NEW n \in Nat \ {0}, hash \in [Strings -> HashValues], NEW s \in Strings
  PROVE  Home(s, n) \in Cells(n)
<1>1. hash[s] \in Nat
  BY StrTabAssumption
<1>2. ASSUME NEW a \in Nat
      PROVE  a % n \in Cells(n)
  BY DEF Cells
<1>3. QED
  BY <1>1, <1>2 DEF Home

\* Numbers below m, no two the same, are fewer than m.
LEMMA EmptyCell ==
  ASSUME NEW n \in Nat \ {0}, NEW t \in Tables(n), NEW m \in Nat \ {0}, m <= n,
         Distinct(t, n, m)
  PROVE  \E c \in Cells(n) : t[c].string = Null
<1>1. SUFFICES ASSUME \A c \in Cells(n) : t[c].string # Null
               PROVE  FALSE
  OBVIOUS
<1> DEFINE f == [c \in Cells(n) |-> t[c].order]
<1>2. f \in [Cells(n) -> 1 .. m - 1]
  BY <1>1 DEF Cells, Distinct
<1>3. IsFiniteSet(Cells(n)) /\ Cardinality(Cells(n)) = n
  BY FS_Interval DEF Cells
<1>4. IsFiniteSet(1 .. m - 1) /\ Cardinality(1 .. m - 1) = m - 1
  BY FS_Interval
<1>5. Cardinality(1 .. m - 1) < Cardinality(Cells(n))
  BY <1>3, <1>4
<1>6. \E c, d \in Cells(n) : c # d /\ f[c] = f[d]
  <2> DEFINE S == Cells(n)
             T == 1 .. m - 1
  <2>1. IsFiniteSet(S)
    BY <1>3
  <2>2. IsFiniteSet(T)
    BY <1>4
  <2>3. Cardinality(T) < Cardinality(S)
    BY <1>5
  <2>4. f \in [S -> T]
    BY <1>2
  <2> HIDE DEF f, S, T
  <2>5. \E c, d \in S : c # d /\ f[c] = f[d]
    BY <2>1, <2>2, <2>3, <2>4, FS_PigeonHole
  <2>6. QED
    BY <2>5 DEF S
<1>7. QED
  BY <1>1, <1>6 DEF Cells, Distinct

LEMMA Ways ==
  ASSUME NEW n \in Nat \ {0}, NEW h \in Cells(n), NEW c \in Cells(n)
  PROVE  /\ Path(h, c, n) \subseteq Cells(n)
         /\ Turns(h, c, n) \in Cells(n)
         /\ Path(h, h, n) = {}
         /\ Turns(h, h, n) = 0
         /\ \A d \in Cells(n) : d # c /\ d \notin Path(h, c, n) => c \in Path(h, d, n)
BY DEF Cells, Path, Turns

LEMMA OneFurther ==
  ASSUME NEW n \in Nat \ {0}, NEW h \in Cells(n), NEW c \in Cells(n)
  PROVE  /\ (c + 1) % n \in Cells(n)
         /\ (c + 1) % n # h => /\ Path(h, (c + 1) % n, n) = Path(h, c, n) \cup {c}
                              /\ Turns(h, (c + 1) % n, n) = Turns(h, c, n) + 1
         /\ (c + 1) % n = h => Path(h, c, n) \cup {c} = Cells(n)
<1>1. PICK d \in Cells(n) : d = (c + 1) % n /\ d = IF c + 1 = n THEN 0 ELSE c + 1
  BY NextCell DEF Cells
<1>2. d # h => /\ Path(h, d, n) = Path(h, c, n) \cup {c}
               /\ Turns(h, d, n) = Turns(h, c, n) + 1
  BY <1>1 DEF Cells, Path, Turns
<1>3. d = h => Path(h, c, n) \cup {c} = Cells(n)
  BY <1>1 DEF Cells, Path
<1>4. QED
  BY <1>1, <1>2, <1>3
-----------------------------------------------------------------------------
\* One table t of n entries, and a search for s in it.
LEMMA NotThere ==
  ASSUME NEW n \in Nat \ {0}, hash \in [Strings -> HashValues], NEW t \in Tables(n),
         NEW s \in Strings, NEW c \in Cells(n), NEW k,
         Chained(t, n), Passed(t, n, s, c, k), t[c].string = Null
  PROVE  \A d \in Cells(n) : t[d].string # s
<1>1. SUFFICES ASSUME NEW d \in Cells(n), t[d].string = s
               PROVE  FALSE
  OBVIOUS
<1>2. Null \notin Strings
  BY StrTabAssumption
<1>3. d # c /\ d \notin Path(Home(s, n), c, n)
  BY <1>1, <1>2 DEF Passed
<1>4. c \in Path(Home(s, n), d, n)
  BY <1>3, HomeCell, Ways
<1>5. \A p \in Path(Home(s, n), d, n) : t[p].string # Null
  BY <1>1, <1>2 DEF Chained, Cells
<1>6. QED
  BY <1>4, <1>5

LEMMA GoOn ==
  ASSUME NEW n \in Nat \ {0}, hash \in [Strings -> HashValues], NEW t \in Tables(n),
         NEW m \in Nat \ {0}, m <= n, Distinct(t, n, m),
         NEW s \in Strings, NEW c \in Cells(n), NEW k,
         Passed(t, n, s, c, k), t[c].string \notin {Null, s}
  PROVE  /\ k \in Cells(n)
         /\ (c + 1) % n \in Cells(n)
         /\ Passed(t, n, s, (c + 1) % n, k + 1)
<1> DEFINE h == Home(s, n)
           d == (c + 1) % n
<1>1. h \in Cells(n)
  BY HomeCell
<1> HIDE DEF h, d
<1>2. \A p \in Path(h, c, n) \cup {c} : t[p].string \notin {Null, s}
  BY DEF Passed, h
<1>3. Path(h, c, n) \cup {c} # Cells(n)
  BY <1>2, EmptyCell
<1>4. d \in Cells(n) /\ Path(h, d, n) = Path(h, c, n) \cup {c} /\ Turns(h, d, n) = Turns(h, c, n) + 1
  BY <1>1, <1>3, OneFurther DEF d
<1>5. k \in Cells(n) /\ k = Turns(h, c, n)
  BY <1>1, Ways DEF Passed, h
<1>6. Passed(t, n, s, d, k + 1)
  BY <1>2, <1>4, <1>5 DEF Passed, h
<1>7. QED
  BY <1>4, <1>5, <1>6 DEF d

LEMMA Begin ==
  ASSUME NEW n \in Nat \ {0}, hash \in [Strings -> HashValues], NEW t, NEW s \in Strings
  PROVE  Passed(t, n, s, Home(s, n), 0)
BY HomeCell, Ways DEF Passed

\* The entry of s with order o is put in the empty cell the search came to.
LEMMA Put ==
  ASSUME NEW n \in Nat \ {0}, hash \in [Strings -> HashValues], NEW t \in Tables(n),
         NEW m \in Nat, NEW m2 \in Nat, m <= m2, Distinct(t, n, m), Chained(t, n),
         NEW s \in Strings, NEW c \in Cells(n), NEW k,
         Passed(t, n, s, c, k), t[c].string = Null,
         NEW o \in 1 .. m2 - 1,
         \A d \in Cells(n) : t[d].string # Null => t[d].string # s /\ t[d].order # o
  PROVE  LET u == [t EXCEPT ![c] = Entry(s, o)]
         IN  u \in Tables(n) /\ Chained(u, n) /\ Distinct(u, n, m2)
<1> DEFINE u == [t EXCEPT ![c] = Entry(s, o)]
<1>1. u \in Tables(n) /\ u[c] = Entry(s, o) /\ \A d \in Cells(n) \ {c} : u[d] = t[d]
  BY DEF Tables, Entry, Cells
<1>2. Null \notin Strings
  BY StrTabAssumption
<1>3. u[c].string = s /\ u[c].order = o
  BY <1>1 DEF Entry
<1> HIDE DEF u
<1>4. \A d \in Cells(n) : t[d].string # Null => u[d].string # Null
  BY <1>1
<1>5. ASSUME NEW d \in Cells(n), u[d].string # Null, NEW p \in Path(Home(u[d].string, n), d, n)
      PROVE  u[p].string # Null
  <2>1. u[d].string \in Strings
    BY <1>1, <1>5 DEF Tables, Cells
  <2>2. p \in Cells(n)
    BY <1>5, <2>1, HomeCell, Ways
  <2>3. CASE d = c
    BY <1>3, <1>4, <2>2, <2>3, <1>5 DEF Passed
  <2>4. CASE d # c
    BY <1>1, <1>4, <1>5, <2>2, <2>4 DEF Chained, Cells
  <2>5. QED
    BY <2>3, <2>4
<1>6. Chained(u, n)
  BY <1>5 DEF Chained, Cells
<1>7. ASSUME NEW d \in Cells(n), u[d].string # Null
      PROVE  /\ u[d].order \in 1 .. m2 - 1
             /\ \A e \in Cells(n) \ {d} :
                  u[e].string # Null => u[e].string # u[d].string /\ u[e].order # u[d].order
  <2>1. CASE d = c
    BY <1>1, <1>3, <2>1
  <2>2. CASE d # c
    <3>1. u[d] = t[d] /\ t[d].order \in 1 .. m - 1 /\ t[d].string # s /\ t[d].order # o
      BY <1>1, <1>7, <2>2 DEF Distinct, Cells
    <3>2. t[d].order \in 1 .. m2 - 1
      BY <3>1
    <3>3. \A e \in Cells(n) \ {d, c} :
            u[e].string # Null => u[e].string # u[d].string /\ u[e].order # u[d].order
      BY <1>1, <1>7, <3>1 DEF Distinct, Cells
    <3>4. QED
      BY <1>3, <3>1, <3>2, <3>3
  <2>3. QED
    BY <2>1, <2>2
<1>8. Distinct(u, n, m2)
  BY <1>7 DEF Distinct, Cells
<1>9. QED
  BY <1>1, <1>6, <1>8 DEF u
-----------------------------------------------------------------------------
(***************************************************************************)
(* The inductive invariant.  What the properties leave out: the count fits *)
(* the table searched, so that it has an empty cell; how far the search    *)
(* came; what the larger table holds during a move; that no order is       *)
(* missing.                                                                *)
(***************************************************************************)
Resizing == doing \in {"scan", "move"}
Room == count <= IF Resizing THEN 2 * size ELSE size
Searching ==
  /\ doing \in {"add", "lookup"} => Passed(entries, size, arg, index, times)
  /\ doing = "move" => /\ Passed(grown, 2 * size, arg, index, times)
                       /\ entries[i].string = arg
Copied(t, n, u, j) ==
  /\ \A c \in Cells(j) : t[c].string # Null => \E d \in Cells(2 * n) : u[d] = t[c]
  /\ \A d \in Cells(2 * n) : u[d].string # Null => \E c \in Cells(j) : t[c] = u[d]
Complete(t, n, m) == \A o \in 1 .. m - 1 : \E c \in Cells(n) : t[c].string # Null /\ t[c].order = o

StrTabInv ==
  /\ TypeOK
  /\ NeverAborts
  /\ TableOK
  /\ Room
  /\ Searching
  /\ Resizing => Copied(entries, size, grown, i)
  /\ ~Resizing => i = 0
  /\ doing # "closed" => Complete(entries, size, count) /\ strings = << >>

LEMMA InitInv == Init => StrTabInv
<1> SUFFICES ASSUME Init PROVE StrTabInv
  OBVIOUS
<1> USE StrTabAssumption DEF Init
<1>1. /\ entries = [c \in 0 .. size - 1 |-> [string |-> Null, order |-> 0]]
      /\ \A c \in Cells(size) : entries[c] = [string |-> Null, order |-> 0]
      /\ size \in Nat \ {0} /\ count = 1 /\ doing = "idle" /\ i = 0 /\ index = 0 /\ times = 0
  BY DEF NoEntries, NoEntry, Entry, Cells
<1>2. entries \in Tables(size)
  BY <1>1 DEF Tables
<1>3. TypeOK
  BY <1>1, <1>2 DEF TypeOK
<1>4. Chained(entries, size) /\ Distinct(entries, size, count) /\ Complete(entries, size, count)
  BY <1>1 DEF Chained, Distinct, Complete, Cells
<1>5. QED
  BY <1>1, <1>3, <1>4 DEF StrTabInv, NeverAborts, TableOK, Room, Resizing, Searching

\* What the invariant comes to when no move is under way, and when one is.
Rest ==
  /\ doing \in {"idle", "add", "lookup"}
  /\ hash \in [Strings -> HashValues]
  /\ size \in Nat \ {0} /\ count \in Nat \ {0} /\ count <= size /\ times \in Nat
  /\ entries \in Tables(size) /\ index \in Cells(size) /\ i = 0
  /\ Chained(entries, size) /\ Distinct(entries, size, count)
  /\ Complete(entries, size, count) /\ strings = << >>
  /\ arg \in Strings \cup {Null}
  /\ doing # "idle" => arg \in Strings /\ Passed(entries, size, arg, index, times)

Moving ==
  /\ Resizing
  /\ hash \in [Strings -> HashValues]
  /\ size \in Nat \ {0} /\ count \in Nat \ {0} /\ count <= 2 * size /\ times \in Nat
  /\ entries \in Tables(size) /\ grown \in Tables(2 * size) /\ i \in 0 .. size
  /\ Chained(entries, size) /\ Distinct(entries, size, count)
  /\ Chained(grown, 2 * size) /\ Distinct(grown, 2 * size, count)
  /\ Complete(entries, size, count) /\ strings = << >>
  /\ Copied(entries, size, grown, i)
  /\ IF doing = "scan" THEN arg \in Strings \cup {Null} /\ index \in Cells(size)
     ELSE /\ arg \in Strings /\ index \in Cells(2 * size) /\ i \in Cells(size)
          /\ Passed(grown, 2 * size, arg, index, times)
          /\ entries[i].string = arg

LEMMA AtRest ==
  ASSUME StrTabInv, doing \in {"idle", "add", "lookup"}
  PROVE  Rest
BY DEF StrTabInv, TypeOK, TableOK, Room, Resizing, Searching, Cells, Rest

LEMMA AtMove ==
  ASSUME StrTabInv, Resizing
  PROVE  Moving
BY DEF StrTabInv, TypeOK, TableOK, Room, Resizing, Searching, Cells, Moving

LEMMA RestNext ==
  ASSUME Rest'
  PROVE  StrTabInv'
BY DEF StrTabInv, TypeOK, NeverAborts, TableOK, Room, Resizing, Searching, Cells, Rest

LEMMA MovingNext ==
  ASSUME Moving'
  PROVE  StrTabInv'
<1>1. TypeOK'
  BY DEF TypeOK, Moving, Resizing, Cells
<1>2. QED
  BY <1>1 DEF StrTabInv, NeverAborts, TableOK, Room, Resizing, Searching, Moving
-----------------------------------------------------------------------------
\* The tables, the count and the hash of a state are those of the next.
Kept == UNCHANGED <<hash, entries, size, count>>

LEMMA SameTable ==
  ASSUME Kept
  PROVE  /\ Chained(entries, size)' = Chained(entries, size)
         /\ Distinct(entries, size, count)' = Distinct(entries, size, count)
         /\ Complete(entries, size, count)' = Complete(entries, size, count)
BY DEF Kept, Chained, Distinct, Complete, Cells, Path, Home

LEMMA CallStep ==
  ASSUME StrTabInv, NEW s \in Strings, AddString(s) \/ LookupString(s)
  PROVE  StrTabInv'
<1>1. Rest /\ Kept /\ UNCHANGED <<i, strings>>
  BY AtRest DEF AddString, LookupString, table, Kept
<1>2. doing' \in {"add", "lookup"} /\ arg' = s /\ index' = Home(s, size) /\ times' = 0
  BY DEF AddString, LookupString, Start
<1>3. Passed(entries, size, s, Home(s, size), 0) /\ Home(s, size) \in Cells(size)
  BY <1>1, Begin, HomeCell DEF Rest
<1>4. Passed(entries, size, arg, index, times)' /\ index' \in Cells(size)
  BY <1>1, <1>2, <1>3 DEF Passed, Home, Kept
<1>5. Rest'
  BY <1>1, <1>2, <1>4, SameTable DEF Rest, Kept, Cells
<1>6. QED
  BY <1>5, RestNext

LEMMA IdleAgain ==
  ASSUME Rest, Kept, UNCHANGED <<i, strings>>, Idle
  PROVE  StrTabInv'
<1>1. Rest'
  BY SameTable DEF Rest, Kept, Cells, Idle
<1>2. QED
  BY <1>1, RestNext

LEMMA ProbeStep ==
  ASSUME StrTabInv, AddProbe \/ LookupProbe
  PROVE  StrTabInv' /\ doing' = doing /\ UNCHANGED <<hash, table, grown, i, answer, strings>>
<1>1. Rest /\ doing \in {"add", "lookup"} /\ entries[index].string \notin {Null, arg}
  BY AtRest DEF AddProbe, LookupProbe
<1>2. /\ times \in Cells(size)
      /\ (index + 1) % size \in Cells(size)
      /\ Passed(entries, size, arg, (index + 1) % size, times + 1)
  BY <1>1, GoOn DEF Rest
<1>3. ~ (times > size)
  BY <1>1, <1>2 DEF Cells, Rest
<1>4. /\ doing' = doing /\ UNCHANGED <<hash, table, grown, i, answer, strings>>
      /\ arg' = arg /\ index' = (index + 1) % size /\ times' = times + 1
  BY <1>3 DEF AddProbe, LookupProbe, Probe, Idle
<1>5. Kept
  BY <1>4 DEF table, Kept
<1>6. Passed(entries, size, arg, index, times)' /\ index' \in Cells(size) /\ times' \in Nat
  BY <1>1, <1>2, <1>4, <1>5 DEF Passed, Home, Kept, Rest
<1>7. Rest'
  BY <1>1, <1>4, <1>5, <1>6, SameTable DEF Rest, Kept, Cells
<1>8. QED
  BY <1>4, <1>7, RestNext

LEMMA LookupEndsStep ==
  ASSUME StrTabInv, LookupEnds
  PROVE  StrTabInv'
BY AtRest, IdleAgain DEF LookupEnds, Kept, table

\* A string that is there has an order below the count.
LEMMA AddKnownStep ==
  ASSUME StrTabInv, AddKnown
  PROVE  StrTabInv' /\ Kept /\ UNCHANGED strings /\ answer' = Entry(arg, entries[index].order)
<1>1. Rest /\ arg \in Strings /\ entries[index].string = arg
  BY AtRest DEF AddKnown, Rest
<1>2. entries[index].order \in 1 .. count - 1
  BY <1>1, StrTabAssumption DEF Rest, Distinct, Cells
<1>3. entries[index].order # count
  BY <1>1, <1>2 DEF Rest
<1>4. Kept /\ UNCHANGED <<i, strings>> /\ Idle /\ answer' = Entry(arg, entries[index].order)
  BY <1>3 DEF AddKnown, Added, Kept
<1>5. QED
  BY <1>1, <1>4, IdleAgain
-----------------------------------------------------------------------------
LEMMA ThreeQuarters ==
  ASSUME NEW m \in Nat, NEW n \in Nat \ {0}
  PROVE  /\ ~Crowded(m, n) => m <= n
         /\ 2 * n \in Nat \ {0}
         /\ m <= n => m + 1 <= 2 * n
BY DEF Crowded

LEMMA Emptied ==
  ASSUME NEW n \in Nat \ {0}, NEW t, NEW m \in Nat
  PROVE  LET u == NoEntries(2 * n)
         IN  /\ u \in Tables(2 * n) /\ Chained(u, 2 * n) /\ Distinct(u, 2 * n, m)
             /\ Copied(t, n, u, 0)
<1> DEFINE u == NoEntries(2 * n)
<1>1. u \in Tables(2 * n) /\ \A c \in Cells(2 * n) : u[c].string = Null
  BY DEF NoEntries, NoEntry, Entry, Tables, Cells
<1> HIDE DEF u
<1>2. Chained(u, 2 * n) /\ Distinct(u, 2 * n, m) /\ Copied(t, n, u, 0)
  BY <1>1 DEF Chained, Distinct, Copied, Cells
<1>3. QED
  BY <1>1, <1>2 DEF u

\* What AddNew does to the table, and how the call ends.
LEMMA AddNewTable ==
  ASSUME StrTabInv, AddNew
  PROVE  /\ Rest /\ doing = "add"
         /\ \A d \in Cells(size) : entries[d].string # arg
         /\ entries' = [entries EXCEPT ![index] = Entry(arg, count)]
         /\ count' = count + 1
         /\ answer' = Entry(arg, count)
         /\ UNCHANGED <<hash, size, i, strings>>
         /\ entries' \in Tables(size)
         /\ Chained(entries, size)' /\ Distinct(entries, size, count)' /\ Complete(entries, size, count)'
<1>1. Rest /\ arg \in Strings /\ entries[index].string = Null /\ doing = "add"
      /\ index \in Cells(size)
  BY AtRest DEF AddNew, Rest
<1>2. \A d \in Cells(size) : entries[d].string # arg
  BY <1>1, NotThere DEF Rest
<1>3. /\ entries' = [entries EXCEPT ![index] = Entry(arg, count)] /\ count' = count + 1
      /\ answer' = Entry(arg, count) /\ UNCHANGED <<hash, size, i, strings>>
  BY DEF AddNew, Added
<1>4. \A d \in Cells(size) : entries[d].string # Null => entries[d].order # count
  BY <1>1 DEF Rest, Distinct, Cells
<1>5. count \in Nat \ {0} /\ count + 1 \in Nat /\ count <= count + 1 /\ count \in 1 .. (count + 1) - 1
  BY <1>1 DEF Rest
<1> DEFINE u == [entries EXCEPT ![index] = Entry(arg, count)]
<1>6. u \in Tables(size) /\ Chained(u, size) /\ Distinct(u, size, count + 1)
  BY <1>1, <1>2, <1>4, <1>5, Put DEF Rest
<1>7. Complete(u, size, count + 1)
  <2>1. SUFFICES ASSUME NEW o \in 1 .. (count + 1) - 1
                 PROVE  \E c \in Cells(size) : u[c].string # Null /\ u[c].order = o
    BY DEF Complete
  <2>2. CASE o = count
    BY <1>1, <2>2, StrTabAssumption DEF Rest, Tables, Entry, Cells
  <2>3. CASE o # count
    <3>1. o \in 1 .. count - 1
      BY <1>5, <2>3
    <3>2. PICK c \in Cells(size) : entries[c].string # Null /\ entries[c].order = o
      BY <1>1, <3>1 DEF Rest, Complete
    <3>3. c # index
      BY <1>1, <3>2
    <3>4. u[c] = entries[c]
      BY <1>1, <3>3 DEF Rest, Tables, Cells
    <3>5. QED
      BY <3>2, <3>4
  <2>4. QED
    BY <2>2, <2>3
<1>8. entries' = u
  BY <1>3
<1> HIDE DEF u
<1>9. Chained(entries, size)' /\ Distinct(entries, size, count)' /\ Complete(entries, size, count)'
  <2>1. size' = size /\ count' = count + 1 /\ hash' = hash /\ entries' = u
    BY <1>3, <1>8
  <2>2. Chained(entries, size)'
    BY <2>1, <1>6 DEF Chained, Home
  <2>3. Distinct(entries, size, count)'
    BY <2>1, <1>6 DEF Distinct
  <2>4. Complete(entries, size, count)'
    BY <2>1, <1>7 DEF Complete
  <2>5. QED
    BY <2>2, <2>3, <2>4
<1>10. QED
  BY <1>1, <1>2, <1>3, <1>6, <1>8, <1>9 DEF u

LEMMA AddNewStep ==
  ASSUME StrTabInv, AddNew
  PROVE  StrTabInv'
<1>1. PICK m \in Nat \ {0} : m = count + 1 /\ m <= 2 * size /\ (~Crowded(m, size) => m <= size)
  BY AddNewTable, ThreeQuarters DEF Rest
<1>2. /\ count' = m /\ size' = size /\ i' = 0 /\ i = 0 /\ strings' = << >> /\ size \in Nat \ {0}
      /\ hash' \in [Strings -> HashValues] /\ entries' \in Tables(size')
      /\ 2 * size \in Nat \ {0}
  BY <1>1, AddNewTable, ThreeQuarters DEF Rest
<1>3. CASE Crowded(m, size)
  <2>1. doing' = "scan" /\ grown' = NoEntries(2 * size) /\ arg' = Null /\ index' = 0 /\ times' = 0
    BY <1>1, <1>2, <1>3 DEF AddNew, Added
  <2>2. /\ grown' \in Tables(2 * size) /\ Copied(entries', size, grown', 0)
        /\ Chained(grown', 2 * size) /\ Distinct(grown', 2 * size, m)
    BY <1>1, <1>2, <2>1, Emptied
  <2>3. Chained(grown, 2 * size)' /\ Distinct(grown, 2 * size, count)' /\ Copied(entries, size, grown, i)'
    BY <1>2, <2>2, AddNewTable DEF Chained, Distinct, Copied, Cells, Home
  <2>4. Moving'
    BY <1>1, <1>2, <2>1, <2>2, <2>3, AddNewTable DEF Moving, Resizing, Cells
  <2>5. QED
    BY <2>4, MovingNext
<1>4. CASE ~Crowded(m, size)
  <2>1. Idle
    BY <1>1, <1>2, <1>4 DEF AddNew, Added
  <2>2. Rest'
    BY <1>1, <1>2, <1>4, <2>1, AddNewTable DEF Rest, Idle, Cells
  <2>3. QED
    BY <2>2, RestNext
<1>5. QED
  BY <1>3, <1>4
-----------------------------------------------------------------------------
LEMMA SameGrown ==
  ASSUME Kept, UNCHANGED grown
  PROVE  /\ Chained(grown, 2 * size)' = Chained(grown, 2 * size)
         /\ Distinct(grown, 2 * size, count)' = Distinct(grown, 2 * size, count)
BY DEF Kept, Chained, Distinct, Home

LEMMA ScanEmptyStep ==
  ASSUME StrTabInv, ScanEmpty
  PROVE  StrTabInv' /\ Kept /\ UNCHANGED <<answer, strings>>
<1>1. Moving /\ doing = "scan" /\ i < size /\ entries[i].string = Null
  BY AtMove DEF ScanEmpty, Resizing
<1>2. Kept /\ UNCHANGED <<doing, arg, index, times, grown, answer, strings>> /\ i' = i + 1
  BY DEF ScanEmpty, Kept, table, probe
<1>3. i' \in 0 .. size /\ Cells(i') = Cells(i) \cup {i}
  BY <1>1, <1>2 DEF Moving, Cells
<1>4. Copied(entries, size, grown, i')
  BY <1>1, <1>3 DEF Moving, Copied
<1>5. Copied(entries, size, grown, i)'
  BY <1>2, <1>4 DEF Kept, Copied
<1>6. Moving'
  BY <1>1, <1>2, <1>3, <1>5, SameTable, SameGrown DEF Moving, Resizing, Kept
<1>7. QED
  BY <1>2, <1>6, MovingNext

LEMMA ScanMoveStep ==
  ASSUME StrTabInv, ScanMove
  PROVE  StrTabInv' /\ Kept /\ UNCHANGED <<answer, strings>>
<1>1. Moving /\ doing = "scan" /\ i < size /\ entries[i].string # Null
  BY AtMove DEF ScanMove, Resizing
<1>2. /\ Kept /\ UNCHANGED <<grown, i, answer, strings>>
      /\ doing' = "move" /\ arg' = entries[i].string /\ times' = 0
      /\ index' = Home(entries[i].string, 2 * size)
  BY DEF ScanMove, Start, Kept, table
<1>3. i \in Cells(size) /\ entries[i].string \in Strings
  BY <1>1 DEF Moving, Tables, Cells
<1>4. index' \in Cells(2 * size) /\ Passed(grown, 2 * size, entries[i].string, index', 0)
  BY <1>1, <1>2, <1>3, Begin, HomeCell DEF Moving
<1>5. Passed(grown, 2 * size, arg, index, times)'
  BY <1>2, <1>4 DEF Passed, Home, Kept
<1>6. Copied(entries, size, grown, i)'
  BY <1>1, <1>2 DEF Moving, Kept, Copied
<1>7. Moving'
  BY <1>1, <1>2, <1>3, <1>4, <1>5, <1>6, SameTable, SameGrown DEF Moving, Resizing, Kept
<1>8. QED
  BY <1>2, <1>7, MovingNext

LEMMA MoveProbeStep ==
  ASSUME StrTabInv, MoveProbe
  PROVE  StrTabInv' /\ Kept /\ UNCHANGED <<answer, strings>>
<1>1. Moving /\ doing = "move" /\ grown[index].string \notin {Null, arg}
  BY AtMove DEF MoveProbe, Resizing
<1>2. /\ times \in Cells(2 * size)
      /\ (index + 1) % (2 * size) \in Cells(2 * size)
      /\ Passed(grown, 2 * size, arg, (index + 1) % (2 * size), times + 1)
  BY <1>1, GoOn DEF Moving
<1>3. ~ (times > 2 * size)
  BY <1>1, <1>2 DEF Cells, Moving
<1>4. /\ Kept /\ UNCHANGED <<doing, grown, i, answer, strings>>
      /\ arg' = arg /\ index' = (index + 1) % (2 * size) /\ times' = times + 1
  BY <1>3 DEF MoveProbe, Probe, Kept, table
<1>5. Passed(grown, 2 * size, arg, index, times)' /\ index' \in Cells(2 * size) /\ times' \in Nat
  BY <1>1, <1>2, <1>4 DEF Passed, Home, Kept, Moving
<1>6. Copied(entries, size, grown, i)'
  BY <1>1, <1>4 DEF Moving, Kept, Copied
<1>7. Moving'
  BY <1>1, <1>4, <1>5, <1>6, SameTable, SameGrown DEF Moving, Resizing, Kept
<1>8. QED
  BY <1>4, <1>7, MovingNext

\* An entry is moved once: what it is looked for by is not in the larger table.
LEMMA MoveEndsStep ==
  ASSUME StrTabInv, MoveEnds
  PROVE  StrTabInv' /\ Kept /\ UNCHANGED <<answer, strings>>
<1>1. /\ Moving /\ doing = "move" /\ grown[index].string \in {Null, arg}
      /\ index \in Cells(2 * size) /\ i \in Cells(size) /\ arg \in Strings /\ entries[i].string = arg
  BY AtMove DEF MoveEnds, Resizing, Moving
<1>2. arg # Null
  BY <1>1, StrTabAssumption
<1>3. entries[i].order \in 1 .. count - 1
  BY <1>1, <1>2 DEF Moving, Distinct, Cells
<1>4. \A d \in Cells(2 * size) :
        grown[d].string # Null => grown[d].string # arg /\ grown[d].order # entries[i].order
  <2>1. SUFFICES ASSUME NEW d \in Cells(2 * size), grown[d].string # Null
                 PROVE  grown[d].string # arg /\ grown[d].order # entries[i].order
    OBVIOUS
  <2>2. PICK c \in Cells(i) : entries[c] = grown[d]
    BY <1>1, <2>1 DEF Moving, Copied
  <2>3. c \in Cells(size) /\ c # i
    BY <1>1, <2>2 DEF Moving, Cells
  <2>4. QED
    BY <1>1, <1>2, <2>1, <2>2, <2>3 DEF Moving, Distinct, Cells
<1>5. grown[index].string = Null
  BY <1>1, <1>2, <1>4
<1> DEFINE u == [grown EXCEPT ![index] = Entry(arg, entries[i].order)]
<1>6. u \in Tables(2 * size) /\ Chained(u, 2 * size) /\ Distinct(u, 2 * size, count)
  BY <1>1, <1>3, <1>4, <1>5, Put DEF Moving
<1>7. /\ Kept /\ UNCHANGED <<answer, strings>>
      /\ grown' = u /\ i' = i + 1 /\ doing' = "scan" /\ arg' = Null /\ index' = 0 /\ times' = 0
  BY <1>5 DEF MoveEnds, Kept, table
<1>8. Copied(entries, size, u, i + 1)
  <2>1. Cells(i + 1) = Cells(i) \cup {i}
    BY <1>1 DEF Cells
  <2>2. Entry(arg, entries[i].order) = entries[i]
    BY <1>1 DEF Entry, Moving, Tables, Cells
  <2>3. u[index] = entries[i] /\ \A d \in Cells(2 * size) \ {index} : u[d] = grown[d]
    BY <1>1, <2>2 DEF Moving, Tables, Cells
  <2> HIDE DEF u
  <2>4. \A c \in Cells(i + 1) : entries[c].string # Null => \E d \in Cells(2 * size) : u[d] = entries[c]
    BY <1>1, <1>5, <2>1, <2>3 DEF Moving, Copied
  <2>5. \A d \in Cells(2 * size) : u[d].string # Null => \E c \in Cells(i + 1) : entries[c] = u[d]
    BY <1>1, <2>1, <2>3 DEF Moving, Copied
  <2>6. QED
    BY <2>4, <2>5 DEF Copied
<1> HIDE DEF u
<1>9. Copied(entries, size, grown, i)'
  BY <1>7, <1>8 DEF Kept, Copied
<1>10. Chained(grown, 2 * size)' /\ Distinct(grown, 2 * size, count)'
  BY <1>6, <1>7 DEF Chained, Distinct, Kept, Home
<1>11. i' \in 0 .. size /\ 0 \in Cells(size)
  BY <1>1, <1>7 DEF Moving, Cells
<1>12. Moving'
  BY <1>1, <1>6, <1>7, <1>9, <1>10, <1>11, SameTable DEF Moving, Resizing, Kept
<1>13. QED
  BY <1>7, <1>12, MovingNext

LEMMA ScanEndsStep ==
  ASSUME StrTabInv, ScanEnds
  PROVE  StrTabInv'
<1>1. Moving /\ doing = "scan" /\ i = size
  BY AtMove DEF ScanEnds, Resizing
<1>2. /\ UNCHANGED <<hash, count, arg, index, times, strings>>
      /\ entries' = grown /\ size' = 2 * size /\ i' = 0 /\ doing' = "idle"
  BY DEF ScanEnds, probe
<1>3. 2 * size \in Nat \ {0} /\ index \in Cells(2 * size)
  BY <1>1 DEF Moving, Cells
<1>4. Complete(grown, 2 * size, count)
  <2>1. SUFFICES ASSUME NEW o \in 1 .. count - 1
                 PROVE  \E d \in Cells(2 * size) : grown[d].string # Null /\ grown[d].order = o
    BY DEF Complete
  <2>2. PICK c \in Cells(size) : entries[c].string # Null /\ entries[c].order = o
    BY <1>1, <2>1 DEF Moving, Complete
  <2>3. PICK d \in Cells(2 * size) : grown[d] = entries[c]
    BY <1>1, <2>2 DEF Moving, Copied
  <2>4. QED
    BY <2>2, <2>3
<1>5. Chained(entries, size)' /\ Distinct(entries, size, count)'
  BY <1>1, <1>2 DEF Moving, Chained, Distinct, Home
<1>6. Complete(entries, size, count)'
  BY <1>2, <1>4 DEF Complete
<1>7. Rest'
  BY <1>1, <1>2, <1>3, <1>5, <1>6 DEF Rest, Moving
<1>8. QED
  BY <1>7, RestNext
LEMMA ToArrayStep ==
  ASSUME StrTabInv, ToArray
  PROVE  StrTabInv'
<1>1. Rest
  BY AtRest DEF ToArray
<1>2. /\ UNCHANGED <<hash, size, count, arg, index, times, i>> /\ doing' = "closed"
      /\ entries' = [c \in 0 .. size - 1 |-> [entries[c] EXCEPT !.string = Null]]
  BY DEF ToArray, probe
<1>3. entries' \in Tables(size)
  BY <1>1, <1>2 DEF Rest, Tables
<1>4. TypeOK'
  BY <1>1, <1>2, <1>3 DEF TypeOK, Rest, Cells
<1>5. QED
  BY <1>1, <1>2, <1>4 DEF StrTabInv, NeverAborts, TableOK, Room, Resizing, Searching, Rest

LEMMA StutterStep ==
  ASSUME StrTabInv, UNCHANGED vars
  PROVE  StrTabInv'
BY DEF vars, table, probe, StrTabInv, TypeOK, NeverAborts, TableOK, Room, Resizing, Searching,
       Copied, Complete, Passed, Chained, Distinct, Home, Path, Turns, Cells, Tables

LEMMA StepInv == StrTabInv /\ [Next]_vars => StrTabInv'
<1> SUFFICES ASSUME StrTabInv, [Next]_vars
             PROVE  StrTabInv'
  OBVIOUS
<1>1. ASSUME NEW s \in Strings, AddString(s) \/ LookupString(s)
      PROVE  StrTabInv'
  BY <1>1, CallStep
<1>2. CASE AddProbe
  BY <1>2, ProbeStep
<1>3. CASE LookupProbe
  BY <1>3, ProbeStep
<1>4. CASE AddNew
  BY <1>4, AddNewStep
<1>5. CASE AddKnown
  BY <1>5, AddKnownStep
<1>6. CASE LookupEnds
  BY <1>6, LookupEndsStep
<1>7. CASE ScanEmpty
  BY <1>7, ScanEmptyStep
<1>8. CASE ScanMove
  BY <1>8, ScanMoveStep
<1>9. CASE MoveProbe
  BY <1>9, MoveProbeStep
<1>10. CASE MoveEnds
  BY <1>10, MoveEndsStep
<1>11. CASE ScanEnds
  BY <1>11, ScanEndsStep
<1>12. CASE ToArray
  BY <1>12, ToArrayStep
<1>13. CASE UNCHANGED vars
  BY <1>13, StutterStep
<1>14. QED
  BY <1>1, <1>2, <1>3, <1>4, <1>5, <1>6, <1>7, <1>8, <1>9, <1>10, <1>11, <1>12, <1>13 DEF Next, Step

THEOREM StrTabAlways == Spec => []StrTabInv
BY InitInv, StepInv, PTL DEF Spec

\* The table never fills up: no search or move meets assert(0) of
\* strtab_entry_add_string, for any hash function and initial size.
THEOREM StrTabNeverAborts == Spec => []NeverAborts
<1>1. StrTabInv => NeverAborts
  BY DEF StrTabInv
<1>2. QED
  BY StrTabAlways, <1>1, PTL

\* In every state every string that was added can be found in its table.
THEOREM StrTabTables == Spec => []TableOK
<1>1. StrTabInv => TableOK
  BY DEF StrTabInv
<1>2. QED
  BY StrTabAlways, <1>1, PTL

\* Types, for any strings, hash function and initial size.
THEOREM StrTabTypes == Spec => []TypeOK
<1>1. StrTabInv => TypeOK
  BY DEF StrTabInv
<1>2. QED
  BY StrTabAlways, <1>1, PTL
-----------------------------------------------------------------------------
(***************************************************************************)
(* The table implements Interning.                                         *)
(***************************************************************************)
LEMMA OrderThere ==
  ASSUME NEW n \in Nat, NEW t, NEW m, Distinct(t, n, m),
         NEW c \in Cells(n), t[c].string # Null
  PROVE  OrderIn(t, n, t[c].string) = t[c].order
<1> DEFINE d == CHOOSE d \in 0 .. n - 1 : t[d].string = t[c].string
<1>1. d \in Cells(n) /\ t[d].string = t[c].string
  BY DEF Cells
<1> HIDE DEF d
<1>2. d = c
  BY <1>1 DEF Distinct, Cells
<1>3. QED
  BY <1>2 DEF OrderIn, Cells, d

LEMMA OrderNone ==
  ASSUME NEW n, NEW t, NEW s, \A c \in Cells(n) : t[c].string # s
  PROVE  OrderIn(t, n, s) = 0
BY DEF OrderIn, Cells

LEMMA SameOrders ==
  ASSUME Kept
  PROVE  Orders(entries, size)' = Orders(entries, size)
BY DEF Kept, Orders, OrderIn

\* A new string gets its number and the others keep theirs.
LEMMA OrdersAdded ==
  ASSUME StrTabInv, AddNew
  PROVE  Orders(entries, size)' = [Orders(entries, size) EXCEPT ![arg] = count]
<1> DEFINE u == entries'
<1>1. /\ Rest /\ arg \in Strings /\ index \in Cells(size) /\ size' = size /\ count' = count + 1
      /\ Distinct(u, size, count + 1)
  BY AddNewTable DEF Rest, Distinct
<1>2. /\ u[index] = Entry(arg, count)
      /\ \A d \in Cells(size) \ {index} : u[d] = entries[d]
  BY <1>1, AddNewTable DEF Rest, Tables, Cells
<1>3. entries[index].string = Null
  BY DEF AddNew
<1>4. u[index].string = arg /\ u[index].order = count
  BY <1>2 DEF Entry
<1> HIDE DEF u
<1>5. OrderIn(u, size, arg) = count
  BY <1>1, <1>4, OrderThere, StrTabAssumption DEF Rest
<1>6. ASSUME NEW s \in Strings \ {arg}
      PROVE  OrderIn(u, size, s) = OrderIn(entries, size, s)
  <2>1. CASE \E c \in Cells(size) : entries[c].string = s
    <3>1. PICK c \in Cells(size) : entries[c].string = s
      BY <2>1
    <3>2. c # index /\ u[c] = entries[c] /\ s # Null
      BY <1>2, <1>3, <3>1, StrTabAssumption
    <3>3. OrderIn(u, size, s) = u[c].order
      BY <1>1, <3>1, <3>2, OrderThere DEF Rest
    <3>4. OrderIn(entries, size, s) = entries[c].order
      BY <1>1, <3>1, <3>2, OrderThere DEF Rest
    <3>5. QED
      BY <3>2, <3>3, <3>4
  <2>2. CASE \A c \in Cells(size) : entries[c].string # s
    <3>1. \A c \in Cells(size) : u[c].string # s
      BY <1>2, <1>4, <1>6, <2>2
    <3>2. QED
      BY <2>2, <3>1, OrderNone
  <2>3. QED
    BY <2>1, <2>2
<1>7. Orders(entries, size)' = Orders(u, size)
  BY <1>1 DEF Orders, OrderIn, u
<1>8. Orders(u, size) = [Orders(entries, size) EXCEPT ![arg] = count]
  BY <1>1, <1>5, <1>6 DEF Orders
<1>9. QED
  BY <1>7, <1>8

\* The larger table gives every string the number it had.
LEMMA OrdersMoved ==
  ASSUME StrTabInv, ScanEnds
  PROVE  Orders(entries, size)' = Orders(entries, size)
<1>1. Moving /\ i = size /\ entries' = grown /\ size' = 2 * size
  BY AtMove DEF ScanEnds, Resizing
<1>2. ASSUME NEW s \in Strings
      PROVE  OrderIn(grown, 2 * size, s) = OrderIn(entries, size, s)
  <2>0. s # Null /\ size \in Nat /\ 2 * size \in Nat
    BY <1>1, StrTabAssumption DEF Moving
  <2>1. CASE \E c \in Cells(size) : entries[c].string = s
    <3>1. PICK c \in Cells(size) : entries[c].string = s
      BY <2>1
    <3>2. PICK d \in Cells(2 * size) : grown[d] = entries[c]
      BY <1>1, <2>0, <3>1 DEF Moving, Copied
    <3>3. OrderIn(entries, size, s) = entries[c].order
      BY <1>1, <2>0, <3>1, OrderThere DEF Moving
    <3>4. OrderIn(grown, 2 * size, s) = grown[d].order
      BY <1>1, <2>0, <3>1, <3>2, OrderThere DEF Moving
    <3>5. QED
      BY <3>2, <3>3, <3>4
  <2>2. CASE \A c \in Cells(size) : entries[c].string # s
    <3>1. \A d \in Cells(2 * size) : grown[d].string # s
      BY <1>1, <2>0, <2>2 DEF Moving, Copied
    <3>2. QED
      BY <2>2, <3>1, OrderNone
  <2>3. QED
    BY <2>1, <2>2
<1>3. QED
  BY <1>1, <1>2 DEF Orders, OrderIn

\* The array has each string at its number, and no number is without one.
LEMMA ArrayStep ==
  ASSUME StrTabInv, ToArray
  PROVE  Numbers!ToArray
<1>1. /\ Rest /\ UNCHANGED <<size, count, answer>>
      /\ entries' = [c \in 0 .. size - 1 |-> [entries[c] EXCEPT !.string = Null]]
  BY AtRest DEF ToArray
<1> DEFINE at(o) == CHOOSE c \in 0 .. size - 1 : entries[c].string # Null /\ entries[c].order = o
           order == Orders(entries, size)
<1>2. ASSUME NEW o \in 1 .. count - 1
      PROVE  /\ \E c \in 0 .. size - 1 : entries[c].string # Null /\ entries[c].order = o
             /\ entries[at(o)].string = CHOOSE s \in Strings : order[s] = o
  <2>1. \E c \in 0 .. size - 1 : entries[c].string # Null /\ entries[c].order = o
    BY <1>1, <1>2 DEF Rest, Complete, Cells
  <2>2. at(o) \in Cells(size) /\ entries[at(o)].string # Null /\ entries[at(o)].order = o
    BY <2>1 DEF Cells
  <2> HIDE DEF at
  <2>3. entries[at(o)].string \in Strings
    BY <1>1, <2>2 DEF Rest, Tables, Cells
  <2>4. order[entries[at(o)].string] = o
    BY <1>1, <2>2, <2>3, OrderThere DEF Rest, Orders
  <2>5. ASSUME NEW s \in Strings, order[s] = o
        PROVE  s = entries[at(o)].string
    <3>1. OrderIn(entries, size, s) = o /\ o # 0
      BY <1>2, <2>5 DEF Orders
    <3>2. PICK c \in Cells(size) : entries[c].string = s
      BY <3>1, OrderNone
    <3>3. entries[c].order = o /\ s # Null
      BY <1>1, <3>1, <3>2, OrderThere, StrTabAssumption DEF Rest
    <3>4. c = at(o)
      BY <1>1, <2>2, <3>2, <3>3 DEF Rest, Distinct, Cells
    <3>5. QED
      BY <3>2, <3>4
  <2> HIDE DEF order
  <2>6. (CHOOSE s \in Strings : order[s] = o) = entries[at(o)].string
    BY <2>3, <2>4, <2>5
  <2>7. QED
    BY <2>1, <2>6
<1>3. strings' = [o \in 0 .. count - 1 |->
                   IF o = 0 THEN Null ELSE CHOOSE s \in Strings : order[s] = o]
  <2> DEFINE made(o) == IF o = 0 THEN Null
                        ELSE IF \E c \in 0 .. size - 1 : entries[c].string # Null /\ entries[c].order = o
                        THEN entries[at(o)].string ELSE Garbage
             due(o) == IF o = 0 THEN Null ELSE CHOOSE s \in Strings : order[s] = o
  <2>1. strings' = [o \in 0 .. count - 1 |-> made(o)]
    BY DEF ToArray
  <2>2. \A o \in 0 .. count - 1 : o = 0 \/ o \in 1 .. count - 1
    BY <1>1 DEF Rest
  <2> HIDE DEF at, order
  <2>3. \A o \in 0 .. count - 1 : made(o) = due(o)
    BY <1>2, <2>2
  <2> HIDE DEF made, due
  <2>4. strings' = [o \in 0 .. count - 1 |-> due(o)]
    BY <2>1, <2>3
  <2>5. QED
    BY <2>4 DEF due
<1>4. Orders(entries, size)' = [s \in Strings |-> 0]
  <2>1. \A c \in Cells(size) : entries'[c].string = Null
    BY <1>1 DEF Rest, Tables, Cells
  <2>2. \A s \in Strings : OrderIn(entries', size, s) = 0
    BY <2>1, OrderNone, StrTabAssumption
  <2>3. QED
    BY <1>1, <2>2 DEF Orders, OrderIn
<1>5. strings = << >>
  BY <1>1 DEF Rest
<1>6. QED
  BY <1>1, <1>3, <1>4, <1>5 DEF Numbers!ToArray
InterningVars == <<Orders(entries, size), count, answer, strings>>

LEMMA InitInterns == Init => Numbers!Init
<1> SUFFICES ASSUME Init PROVE Numbers!Init
  OBVIOUS
<1>1. \A c \in Cells(size) : entries[c].string = Null
  BY StrTabAssumption DEF Init, NoEntries, NoEntry, Entry, Cells
<1>2. \A s \in Strings : OrderIn(entries, size, s) = 0
  BY <1>1, OrderNone, StrTabAssumption
<1>3. Orders(entries, size) = [s \in Strings |-> 0]
  BY <1>2 DEF Orders
<1>4. QED
  BY <1>3 DEF Init, Numbers!Init, Numbers!Asked, Entry

\* A step that leaves the table alone and answers nothing.
LEMMA Silent ==
  ASSUME Kept, UNCHANGED <<answer, strings>>
  PROVE  UNCHANGED InterningVars
BY SameOrders DEF InterningVars, Kept

\* The answer of a search that ended at the string's own entry, or at an empty one.
LEMMA LookupInterns ==
  ASSUME StrTabInv, LookupEnds
  PROVE  \E s \in Strings : Numbers!Lookup(s)
<1>1. /\ Rest /\ arg \in Strings /\ index \in Cells(size) /\ entries[index].string \in {Null, arg}
      /\ Passed(entries, size, arg, index, times)
  BY AtRest DEF LookupEnds, Rest
<1>2. Kept /\ UNCHANGED strings
  BY DEF LookupEnds, Kept, table
<1>3. OrderIn(entries, size, arg) = IF entries[index].string = arg THEN entries[index].order ELSE 0
  <2>1. CASE entries[index].string = arg
    BY <1>1, <2>1, OrderThere, StrTabAssumption DEF Rest
  <2>2. CASE entries[index].string # arg
    BY <1>1, <2>2, NotThere, OrderNone DEF Rest
  <2>3. QED
    BY <2>1, <2>2
<1>4. answer' = Entry(arg, Orders(entries, size)[arg])
  BY <1>1, <1>3 DEF LookupEnds, Orders
<1>5. Numbers!Lookup(arg)
  BY <1>1, <1>2, <1>4, SameOrders DEF Numbers!Lookup, Numbers!Asked, Entry, Rest, Kept
<1>6. QED
  BY <1>1, <1>5

LEMMA AddKnownInterns ==
  ASSUME StrTabInv, AddKnown
  PROVE  \E s \in Strings : Numbers!Add(s)
<1>1. Rest /\ arg \in Strings /\ index \in Cells(size) /\ entries[index].string = arg
  BY AtRest DEF AddKnown, Rest
<1>2. arg # Null
  BY <1>1, StrTabAssumption
<1>3. Orders(entries, size)[arg] = entries[index].order /\ entries[index].order # 0
  BY <1>1, <1>2, OrderThere DEF Rest, Orders, Distinct, Cells
<1>4. Kept /\ UNCHANGED strings /\ answer' = Entry(arg, entries[index].order)
  BY AddKnownStep
<1>5. Numbers!Add(arg)
  BY <1>1, <1>3, <1>4, SameOrders DEF Numbers!Add, Numbers!Asked, Entry, Rest, Kept
<1>6. QED
  BY <1>1, <1>5

LEMMA AddNewInterns ==
  ASSUME StrTabInv, AddNew
  PROVE  \E s \in Strings : Numbers!Add(s)
<1>1. /\ Rest /\ arg \in Strings /\ answer' = Entry(arg, count) /\ count' = count + 1
      /\ UNCHANGED strings /\ \A d \in Cells(size) : entries[d].string # arg
  BY AddNewTable DEF Rest
<1>2. Orders(entries, size)[arg] = 0
  BY <1>1, OrderNone DEF Orders
<1>3. Numbers!Add(arg)
  BY <1>1, <1>2, OrdersAdded DEF Numbers!Add, Numbers!Asked, Entry, Rest
<1>4. QED
  BY <1>1, <1>3

LEMMA StepInterns == StrTabInv /\ [Next]_vars => [Numbers!Next]_InterningVars
<1> SUFFICES ASSUME StrTabInv, [Next]_vars
             PROVE  Numbers!Next \/ UNCHANGED InterningVars
  OBVIOUS
<1>1. ASSUME NEW s \in Strings, AddString(s) \/ LookupString(s)
      PROVE  UNCHANGED InterningVars
  BY <1>1, Silent DEF AddString, LookupString, Kept, table
<1>2. CASE AddProbe \/ LookupProbe
  BY <1>2, ProbeStep, Silent DEF Kept, table
<1>3. CASE AddNew
  BY <1>3, AddNewInterns DEF Numbers!Next
<1>4. CASE AddKnown
  BY <1>4, AddKnownInterns DEF Numbers!Next
<1>5. CASE LookupEnds
  BY <1>5, LookupInterns DEF Numbers!Next
<1>6. CASE ScanEmpty \/ ScanMove \/ MoveProbe \/ MoveEnds
  BY <1>6, ScanEmptyStep, ScanMoveStep, MoveProbeStep, MoveEndsStep, Silent
<1>7. CASE ScanEnds
  BY <1>7, OrdersMoved DEF InterningVars, ScanEnds
<1>8. CASE ToArray
  BY <1>8, ArrayStep DEF Numbers!Next
<1>9. CASE UNCHANGED vars
  BY <1>9, Silent DEF vars, table, Kept
<1>10. QED
  BY <1>1, <1>2, <1>3, <1>4, <1>5, <1>6, <1>7, <1>8, <1>9 DEF Next, Step

\* A string keeps its number through every insertion, collision and growth, is
\* found as long as the table is open, and is at its number in the array.
THEOREM StrTabInterns == Spec => ImplementsInterning
BY InitInterns, StrTabAlways, StepInterns, PTL DEF Spec, ImplementsInterning, Numbers!Spec, InterningVars
=============================================================================
