----------------------------- MODULE TableProofs -----------------------------
(***************************************************************************)
(* What the steps of ProbedTable do, for a table of any size, any hash     *)
(* function and any names: an addition keeps everything findable and       *)
(* single, a search that gives up has missed nothing, and a table holds as *)
(* many names as it has cells in use.                                      *)
(***************************************************************************)
EXTENDS ProbedTable, FiniteSetTheorems, TLAPS

Cells(n) == 0 .. n - 1

\* A table of n cells for the names X, with the values V and the hash h.
IsTableOf(t, n, h, X, V) ==
  /\ n \in Nat \ {0}
  /\ NoName \notin X
  /\ h \in [X -> Nat]
  /\ t \in Tables(n, X, V)

LEMMA Remainder ==
  ASSUME NEW n \in Nat \ {0}, NEW a \in Nat
  PROVE  /\ a % n \in 0 .. n - 1
         /\ a \div n \in Nat
         /\ a = (a \div n) * n + (a % n)
OBVIOUS

LEMMA RemainderOf ==
  ASSUME NEW n \in Nat \ {0}, NEW q \in Nat, NEW r \in 0 .. n - 1
  PROVE  (q * n + r) % n = r
OBVIOUS

\* A search starts at the name's home and goes once around.
LEMMA CellAt ==
  ASSUME NEW n \in Nat \ {0}, NEW h, NEW x, h[x] \in Nat, NEW d \in Cells(n)
  PROVE  /\ h[x] % n \in Cells(n)
         /\ Cell(h, n, x, d) = IF (h[x] % n) + d < n THEN (h[x] % n) + d ELSE (h[x] % n) + d - n
         /\ Cell(h, n, x, d) \in Cells(n)
<1> DEFINE a == h[x]
           r == a % n
           q == a \div n
<1>1. r \in Cells(n) /\ q \in Nat /\ a = q * n + r
  BY Remainder DEF Cells
<1> HIDE DEF a, r, q
<1>2. (a + d) % n = IF r + d < n THEN r + d ELSE r + d - n
  <2>1. CASE r + d < n
    <3>1. r + d \in 0 .. n - 1 /\ a + d = q * n + (r + d)
      BY <1>1, <2>1 DEF Cells
    <3>2. QED
      BY <1>1, <2>1, <3>1, RemainderOf
  <2>2. CASE ~(r + d < n)
    <3>1. r + d - n \in 0 .. n - 1 /\ a + d = (q + 1) * n + (r + d - n)
      BY <1>1, <2>2 DEF Cells
    <3> DEFINE p == q + 1
               s == r + d - n
    <3>2. p \in Nat /\ s \in 0 .. n - 1 /\ a + d = p * n + s
      BY <1>1, <3>1
    <3> HIDE DEF p, s
    <3>3. (a + d) % n = s
      BY <3>2, RemainderOf
    <3>4. QED
      BY <2>2, <3>3 DEF s
  <2>3. QED
    BY <2>1, <2>2
<1>3. Cell(h, n, x, d) = (a + d) % n
  BY DEF Cell, a
<1>4. QED
  BY <1>1, <1>2, <1>3 DEF Cells, r, a

LEMMA CellOnce ==
  ASSUME NEW n \in Nat \ {0}, NEW h, NEW x, h[x] \in Nat, NEW d \in Cells(n), NEW e \in Cells(n),
         Cell(h, n, x, d) = Cell(h, n, x, e)
  PROVE  d = e
<1>1. PICK r \in Cells(n) : r = h[x] % n
  BY CellAt
<1>2. Cell(h, n, x, d) = IF r + d < n THEN r + d ELSE r + d - n
  BY <1>1, CellAt
<1>3. Cell(h, n, x, e) = IF r + e < n THEN r + e ELSE r + e - n
  BY <1>1, CellAt
<1>4. (IF r + d < n THEN r + d ELSE r + d - n) = (IF r + e < n THEN r + e ELSE r + e - n)
  BY <1>2, <1>3
<1>5. QED
  BY <1>4 DEF Cells

LEMMA CellOfTurn ==
  ASSUME NEW n \in Nat \ {0}, NEW h, NEW x, h[x] \in Nat, NEW c \in Cells(n)
  PROVE  \E d \in Cells(n) : Cell(h, n, x, d) = c
<1>1. PICK r \in Cells(n) : r = h[x] % n
  BY CellAt
<1>2. CASE r <= c
  <2>1. c - r \in Cells(n) /\ r + (c - r) < n
    BY <1>2 DEF Cells
  <2>2. Cell(h, n, x, c - r) = c
    BY <1>1, <2>1, CellAt DEF Cells
  <2>3. QED
    BY <2>1, <2>2
<1>3. CASE ~(r <= c)
  <2>1. c - r + n \in Cells(n) /\ ~(r + (c - r + n) < n)
    BY <1>3 DEF Cells
  <2>2. Cell(h, n, x, c - r + n) = c
    BY <1>1, <2>1, CellAt DEF Cells
  <2>3. QED
    BY <2>1, <2>2
<1>4. QED
  BY <1>2, <1>3
-----------------------------------------------------------------------------
\* An empty table.
LEMMA EmptyTable ==
  ASSUME NEW n \in Nat \ {0}, NEW h, NEW X, NEW V
  PROVE  /\ NoEntries(n) \in Tables(n, X, V)
         /\ TableOK(NoEntries(n), n, h)
         /\ \A c \in Cells(n) : NoEntries(n)[c] = NoEntry /\ NoEntries(n)[c].name = NoName
         /\ NamesIn(NoEntries(n), n) = {}
<1>1. \A c \in Cells(n) : NoEntries(n)[c] = NoEntry /\ NoEntries(n)[c].name = NoName
  BY DEF NoEntries, NoEntry, Entry, Cells
<1>2. NoEntries(n) \in Tables(n, X, V)
  BY DEF NoEntries, NoEntry, Entry, Tables
<1>3. QED
  BY <1>1, <1>2 DEF TableOK, Chained, Distinct, NamesIn, Cells

\* A search that gives up, or stops at an empty cell, has not missed the name.
LEMMA NotFoundIsMissing ==
  ASSUME NEW n, NEW h, NEW X, NEW V, NEW t, IsTableOf(t, n, h, X, V), TableOK(t, n, h),
         NEW x \in X, NotFound(t, n, h, x)
  PROVE  x \notin NamesIn(t, n)
<1>1. SUFFICES ASSUME NEW c \in Cells(n), t[c].name = x
               PROVE  FALSE
  BY DEF NamesIn, Cells
<1>2. n \in Nat \ {0} /\ x # NoName /\ h[x] \in Nat
  BY DEF IsTableOf
<1>3. PICK d \in Cells(n) : /\ Cell(h, n, x, d) = c
                            /\ \A e \in 0 .. d - 1 : t[Cell(h, n, x, e)].name # NoName
  BY <1>1, <1>2 DEF TableOK, Chained, Cells
<1>4. ASSUME NEW e \in 0 .. d - 1
      PROVE  t[Cell(h, n, x, e)].name # x
  <2>1. SUFFICES ASSUME t[Cell(h, n, x, e)].name = x
                 PROVE  FALSE
    OBVIOUS
  <2>2. e \in Cells(n) /\ e # d
    BY <1>2, <1>3, <1>4 DEF Cells
  <2>3. Cell(h, n, x, e) \in Cells(n)
    BY <1>2, <2>2, CellAt
  <2>4. Cell(h, n, x, e) = c
    BY <1>1, <1>2, <2>1, <2>3 DEF TableOK, Distinct, Cells
  <2>5. QED
    BY <1>2, <1>3, <2>2, <2>4, CellOnce
<1>5. StopsAt(t, n, h, x, d) /\ EntryAt(t, n, h, x, d).name = x
  BY <1>1, <1>3, <1>4 DEF StopsAt, EntryAt
<1>6. QED
  BY <1>3, <1>5 DEF NotFound, Cells

\* An entry is what its table has for its name.
LEMMA ValueThere ==
  ASSUME NEW n, NEW t, NEW h, TableOK(t, n, h), NEW c \in Cells(n), t[c].name # NoName
  PROVE  ValueOf(t, n, t[c].name) = t[c].value
<1> DEFINE d == CHOOSE d \in 0 .. n - 1 : t[d].name = t[c].name
<1>1. d \in 0 .. n - 1 /\ t[d].name = t[c].name
  BY DEF Cells
<1> HIDE DEF d
<1>2. d = c
  BY <1>1 DEF TableOK, Distinct, Cells
<1>3. QED
  BY <1>2 DEF ValueOf, d

\* The entry of a new name goes into the empty cell its search came to.
LEMMA PutTable ==
  ASSUME NEW n, NEW h, NEW X, NEW V, NEW t, IsTableOf(t, n, h, X, V), TableOK(t, n, h),
         NEW x \in X, x \notin NamesIn(t, n), NEW d \in Cells(n), FreeAt(t, n, h, x, d),
         NEW v \in V \cup {NoName}
  PROVE  LET u == Put(t, n, h, x, d, v)
             a == Cell(h, n, x, d)
         IN  /\ u \in Tables(n, X, V)
             /\ a \in Cells(n) /\ t[a].name = NoName
             /\ u[a] = Entry(x, v) /\ \A c \in Cells(n) \ {a} : u[c] = t[c]
             /\ TableOK(u, n, h)
<1> DEFINE u == Put(t, n, h, x, d, v)
           a == Cell(h, n, x, d)
<1>1. n \in Nat \ {0} /\ x # NoName /\ h[x] \in Nat /\ NoName \notin X /\ t \in Tables(n, X, V)
  BY DEF IsTableOf
<1>2. a \in Cells(n) /\ t[a].name = NoName
  BY <1>1, CellAt DEF FreeAt
<1>3. u = [t EXCEPT ![a] = Entry(x, v)]
  BY DEF Put
<1>4. Entry(x, v) \in [name : X \cup {NoName}, value : V \cup {NoName}]
  BY DEF Entry
<1> HIDE DEF u, a
<1>5. u \in Tables(n, X, V)
  BY <1>1, <1>2, <1>3, <1>4 DEF Tables
<1>6. u[a] = Entry(x, v) /\ \A c \in Cells(n) \ {a} : u[c] = t[c]
  BY <1>1, <1>2, <1>3 DEF Tables, Cells
<1>7. u[a].name = x
  BY <1>6 DEF Entry
<1>8. \A c \in Cells(n) : t[c].name # NoName => u[c].name # NoName /\ c # a
  BY <1>2, <1>6
<1>9. Chained(u, n, h)
  <2>1. SUFFICES ASSUME NEW c \in Cells(n), u[c].name # NoName
                 PROVE  \E e \in Cells(n) :
                          /\ Cell(h, n, u[c].name, e) = c
                          /\ \A b \in 0 .. e - 1 : u[Cell(h, n, u[c].name, b)].name # NoName
    BY DEF Chained, Cells
  <2>2. CASE c = a
    <3>1. \A b \in 0 .. d - 1 : b \in Cells(n) /\ t[Cell(h, n, x, b)].name # NoName
      BY <1>1 DEF FreeAt, Cells
    <3>2. \A b \in 0 .. d - 1 : u[Cell(h, n, x, b)].name # NoName
      BY <1>1, <1>8, <3>1, CellAt
    <3>3. QED
      BY <1>7, <2>2, <3>2 DEF a
  <2>3. CASE c # a
    <3>1. u[c] = t[c]
      BY <1>6, <2>3
    <3>2. PICK e \in Cells(n) : /\ Cell(h, n, t[c].name, e) = c
                                /\ \A b \in 0 .. e - 1 : t[Cell(h, n, t[c].name, b)].name # NoName
      BY <2>1, <3>1 DEF TableOK, Chained, Cells
    <3>3. h[t[c].name] \in Nat
      BY <1>1, <2>1, <3>1 DEF Tables, Cells, IsTableOf
    <3>4. \A b \in 0 .. e - 1 : b \in Cells(n)
      BY <1>1, <3>2 DEF Cells
    <3>5. \A b \in 0 .. e - 1 : u[Cell(h, n, t[c].name, b)].name # NoName
      BY <1>1, <1>8, <3>2, <3>3, <3>4, CellAt
    <3>6. QED
      BY <3>1, <3>2, <3>5
  <2>4. QED
    BY <2>2, <2>3
<1>10. Distinct(u, n)
  <2>1. \A c \in Cells(n) : t[c].name # x
    BY <1>1 DEF NamesIn, Cells
  <2>2. \A c \in Cells(n) : c # a => u[c].name = t[c].name
    BY <1>6
  <2>3. QED
    BY <1>2, <1>7, <2>1, <2>2 DEF TableOK, Distinct, Cells
<1>11. QED
  BY <1>2, <1>5, <1>6, <1>9, <1>10 DEF TableOK, u, a
-----------------------------------------------------------------------------
\* How many of the first m cells are in use.
UsedTo(t, m) == {c \in Cells(m) : t[c].name # NoName}
Used(t, m)   == Cardinality(UsedTo(t, m))

LEMMA UsedBound ==
  ASSUME NEW t, NEW m \in Nat
  PROVE  IsFiniteSet(UsedTo(t, m)) /\ Used(t, m) \in 0 .. m
<1>1. IsFiniteSet(Cells(m)) /\ Cardinality(Cells(m)) = m
  BY FS_Interval DEF Cells
<1>2. UsedTo(t, m) \subseteq Cells(m)
  BY DEF UsedTo
<1>3. IsFiniteSet(UsedTo(t, m)) /\ Cardinality(UsedTo(t, m)) <= Cardinality(Cells(m))
  BY <1>1, <1>2, FS_Subset
<1>4. Cardinality(UsedTo(t, m)) \in Nat
  BY <1>3, FS_CardinalityType
<1>5. QED
  BY <1>1, <1>3, <1>4 DEF Used

LEMMA UsedNone ==
  ASSUME NEW t, NEW m, \A c \in Cells(m) : t[c].name = NoName
  PROVE  Used(t, m) = 0
<1>1. UsedTo(t, m) = {}
  BY DEF UsedTo
<1>2. QED
  BY <1>1, FS_EmptySet DEF Used

LEMMA RoomLeft ==
  ASSUME NEW t, NEW n \in Nat, Used(t, n) < n
  PROVE  ~Full(t, n)
<1>1. SUFFICES ASSUME Full(t, n) PROVE FALSE
  OBVIOUS
<1>2. UsedTo(t, n) = Cells(n)
  BY <1>1 DEF Full, UsedTo, Cells
<1>3. Cardinality(Cells(n)) = n
  BY FS_Interval DEF Cells
<1>4. QED
  BY <1>2, <1>3 DEF Used

\* One cell more.
LEMMA UsedMore ==
  ASSUME NEW t, NEW u, NEW m \in Nat, NEW a \in Cells(m), t[a].name = NoName, u[a].name # NoName,
         \A c \in Cells(m) \ {a} : u[c].name = t[c].name
  PROVE  Used(u, m) = Used(t, m) + 1
<1>1. UsedTo(u, m) = UsedTo(t, m) \cup {a} /\ a \notin UsedTo(t, m)
  BY DEF UsedTo
<1>2. QED
  BY <1>1, UsedBound, FS_AddElement DEF Used

LEMMA UsedNext ==
  ASSUME NEW t, NEW m \in Nat
  PROVE  Used(t, m + 1) = IF t[m].name = NoName THEN Used(t, m) ELSE Used(t, m) + 1
<1>1. m \notin UsedTo(t, m)
  BY DEF UsedTo, Cells
<1>2. UsedTo(t, m + 1) = IF t[m].name = NoName THEN UsedTo(t, m) ELSE UsedTo(t, m) \cup {m}
  BY DEF UsedTo, Cells
<1>3. QED
  BY <1>1, <1>2, UsedBound, FS_AddElement DEF Used

LEMMA ThreeQuarters ==
  ASSUME NEW m \in Nat, NEW n \in Nat \ {0}
  PROVE  /\ ~Crowded(m, n) => m < n
         /\ m <= n => ~Crowded(m, 2 * n)
BY DEF Crowded

-----------------------------------------------------------------------------
\* The larger table u has what the first m cells of t have.
Copied(t, m, u, n) ==
  /\ \A c \in Cells(m) : t[c].name # NoName => \E d \in Cells(n) : u[d] = t[c]
  /\ \A d \in Cells(n) : u[d].name # NoName => \E c \in Cells(m) : t[c] = u[d]

LEMMA CopiedNone ==
  ASSUME NEW t, NEW n \in Nat \ {0}
  PROVE  Copied(t, 0, NoEntries(n), n)
BY EmptyTable DEF Copied, Cells

LEMMA CopiedSkip ==
  ASSUME NEW t, NEW m \in Nat, NEW u, NEW n, Copied(t, m, u, n), t[m].name = NoName
  PROVE  Copied(t, m + 1, u, n)
BY DEF Copied, Cells

\* What is moved next is not there yet.
LEMMA NotMovedYet ==
  ASSUME NEW t, NEW k \in Nat, NEW h, TableOK(t, k, h), NEW m \in Cells(k), t[m].name # NoName,
         NEW u, NEW n, Copied(t, m, u, n)
  PROVE  t[m].name \notin NamesIn(u, n)
<1>1. SUFFICES ASSUME NEW d \in Cells(n), u[d].name = t[m].name
               PROVE  FALSE
  BY DEF NamesIn, Cells
<1>2. PICK c \in Cells(m) : t[c] = u[d]
  BY <1>1 DEF Copied
<1>3. c \in Cells(k) /\ c # m /\ t[c].name = t[m].name
  BY <1>1, <1>2 DEF Cells
<1>4. QED
  BY <1>3 DEF TableOK, Distinct, Cells

LEMMA CopiedMove ==
  ASSUME NEW t, NEW m \in Nat, NEW u, NEW n, Copied(t, m, u, n),
         NEW a \in Cells(n), u[a].name = NoName, NEW w, w[a] = t[m],
         \A c \in Cells(n) \ {a} : w[c] = u[c]
  PROVE  Copied(t, m + 1, w, n)
<1>1. ASSUME NEW c \in Cells(m + 1), t[c].name # NoName
      PROVE  \E d \in Cells(n) : w[d] = t[c]
  <2>1. CASE c = m
    BY <2>1
  <2>2. CASE c # m
    <3>1. c \in Cells(m)
      BY <2>2 DEF Cells
    <3>2. PICK d \in Cells(n) : u[d] = t[c]
      BY <1>1, <3>1 DEF Copied
    <3>3. d # a
      BY <1>1, <3>2
    <3>4. QED
      BY <3>2, <3>3
  <2>3. QED
    BY <2>1, <2>2
<1>2. ASSUME NEW d \in Cells(n), w[d].name # NoName
      PROVE  \E c \in Cells(m + 1) : t[c] = w[d]
  <2>1. CASE d = a
    BY <2>1 DEF Cells
  <2>2. CASE d # a
    <3>1. PICK c \in Cells(m) : t[c] = u[d]
      BY <1>2, <2>2 DEF Copied
    <3>2. c \in Cells(m + 1)
      BY DEF Cells
    <3>3. QED
      BY <2>2, <3>1, <3>2
  <2>3. QED
    BY <2>1, <2>2
<1>3. QED
  BY <1>1, <1>2 DEF Copied

\* What a table has for its names, after an addition and after a move.
LEMMA MapPut ==
  ASSUME NEW n, NEW t, NEW u, NEW h, TableOK(t, n, h), TableOK(u, n, h), NEW x, NEW v, x # NoName,
         NEW a \in Cells(n), t[a].name = NoName, u[a] = Entry(x, v),
         \A c \in Cells(n) \ {a} : u[c] = t[c]
  PROVE  /\ NamesIn(u, n) = NamesIn(t, n) \cup {x}
         /\ ValueOf(u, n, x) = v
         /\ \A y \in NamesIn(t, n) : y # x => ValueOf(u, n, y) = ValueOf(t, n, y)
<1>1. u[a].name = x /\ u[a].value = v
  BY DEF Entry
<1>2. NamesIn(u, n) = NamesIn(t, n) \cup {x}
  BY <1>1 DEF NamesIn, Cells
<1>3. ValueOf(u, n, x) = v
  BY <1>1, ValueThere
<1>4. ASSUME NEW y \in NamesIn(t, n), y # x
      PROVE  ValueOf(u, n, y) = ValueOf(t, n, y)
  <2>1. PICK c \in Cells(n) : t[c].name = y /\ y # NoName
    BY <1>4 DEF NamesIn, Cells
  <2>2. u[c] = t[c]
    BY <2>1
  <2>3. QED
    BY <2>1, <2>2, ValueThere
<1>5. QED
  BY <1>2, <1>3, <1>4

LEMMA MapMoved ==
  ASSUME NEW m, NEW n, NEW t, NEW u, NEW h, TableOK(t, m, h), TableOK(u, n, h), Copied(t, m, u, n)
  PROVE  MapOf(u, n) = MapOf(t, m)
<1>1. NamesIn(u, n) = NamesIn(t, m)
  BY DEF NamesIn, Copied, Cells
<1>2. ASSUME NEW y \in NamesIn(t, m)
      PROVE  ValueOf(u, n, y) = ValueOf(t, m, y)
  <2>1. PICK c \in Cells(m) : t[c].name = y /\ y # NoName
    BY <1>2 DEF NamesIn, Cells
  <2>2. PICK d \in Cells(n) : u[d] = t[c]
    BY <2>1 DEF Copied
  <2>3. ValueOf(t, m, y) = t[c].value
    BY <2>1, ValueThere
  <2>4. ValueOf(u, n, y) = u[d].value
    BY <2>1, <2>2, ValueThere
  <2>5. QED
    BY <2>2, <2>3, <2>4
<1>3. QED
  BY <1>1, <1>2 DEF MapOf
=============================================================================
