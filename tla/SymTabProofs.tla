----------------------------- MODULE SymTabProofs ----------------------------
(***************************************************************************)
(* That the symbol tables of front/symtab.c keep their promise, whatever   *)
(* the names and the hash function, however many tables there are and      *)
(* however large they are made: a name means its innermost declaration in  *)
(* reach, before, while and after tables grow.                             *)
(***************************************************************************)
EXTENDS SymTab, TableProofs, SequenceTheorems

AnyTable == UNION {Tables(n, Names, Nat) : n \in Nat}
Records  == [type : {"FUNC", "BLOCK"}, parent : Nat, size : Nat, count : Nat, entries : AnyTable]
Requests == [scope : Nat, op : {"LOCAL", "GLOBAL"}, name : Names \cup {NoName}, adds : BOOLEAN]

(***************************************************************************)
(* The inductive invariant.  The properties leave out that the count of a  *)
(* table is that of its cells in use, which bounds how full it is; what    *)
(* the larger table has during a move; and that a name that is to be added *)
(* has been looked for in the table it is added to.                        *)
(***************************************************************************)
Filled(t) ==
  /\ TableOK(t.entries, t.size, hash)
  /\ t.count = Used(t.entries, t.size)
  /\ \A c \in Cells(t.size) : t.entries[c].name # NoName => t.entries[c].value # NoName

Counts ==
  \A s \in DOMAIN scopes :
    Filled(scopes[s]) /\ (~Crowded(scopes[s].count, scopes[s].size) \/ (doing = "grow" /\ s = at))

Growth ==
  /\ doing = "grow" => /\ TableOK(grown, 2 * scopes[at].size, hash)
                       /\ Used(grown, 2 * scopes[at].size) = Used(scopes[at].entries, i)
                       /\ Copied(scopes[at].entries, i, grown, 2 * scopes[at].size)
  /\ doing # "grow" => i = 0

Has(s, x) == x \in NamesIn(scopes[s].entries, scopes[s].size)

Sought ==
  /\ doing = "look" /\ at # request.scope => ~Has(request.scope, request.name)
  /\ doing = "add" => ~Has(at, request.name)

SymInv ==
  /\ TypeOK /\ scopes \in Seq(Records) /\ request \in Requests
  /\ Counts /\ Growth /\ Sought

LEMMA Hash ==
  ASSUME TypeOK
  PROVE  hash \in [Names -> Nat] /\ NoName \notin Names /\ NoName \notin Nat
BY SymTabAssumption DEF TypeOK

LEMMA InitInv == Init => SymInv
BY DEF Init, SymInv, TypeOK, NoRequest, Requests, Counts, Growth, Sought

LEMMA WiderTables ==
  ASSUME NEW n, NEW V, NEW W, V \subseteq W
  PROVE  Tables(n, Names, V) \subseteq Tables(n, Names, W)
BY DEF Tables

\* What is known of a table.
LEMMA ATable ==
  ASSUME SymInv, NEW s \in DOMAIN scopes
  PROVE  /\ scopes[s] \in Records /\ DOMAIN scopes = 1 .. Len(scopes) /\ DOMAIN scopes \subseteq Nat
         /\ scopes[s].size \in Nat \ {0} /\ scopes[s].count \in Nat
         /\ IsTableOf(scopes[s].entries, scopes[s].size, hash, Names, DOMAIN scopes)
         /\ TableOK(scopes[s].entries, scopes[s].size, hash)
         /\ Filled(scopes[s])
<1>1. scopes \in Seq(Records) /\ IsTable(scopes[s]) /\ Filled(scopes[s]) /\ hash \in [Names -> Nat] /\ NoName \notin Names
  BY Hash DEF SymInv, TypeOK, Counts
<1>2. scopes[s] \in Records /\ DOMAIN scopes = 1 .. Len(scopes) /\ Len(scopes) \in Nat
  BY <1>1
<1>3. QED
  BY <1>1, <1>2 DEF IsTable, Filled, IsTableOf

-----------------------------------------------------------------------------
\* symtab_new: an empty table.
LEMMA OpenStep ==
  ASSUME SymInv, NEW type \in {"FUNC", "BLOCK"}, NEW parent \in {0} \cup DOMAIN scopes, Open(type, parent)
  PROVE  SymInv'
<1>1. /\ TypeOK /\ scopes \in Seq(Records) /\ request \in Requests /\ Counts /\ Growth /\ Sought
      /\ doing = "idle" /\ UNCHANGED <<hash, doing, request, at, grown, i, answer>>
  BY DEF SymInv, Open
<1>2. PICK n \in Nat \ {0} : n = SizeOf(type)
  BY SymTabAssumption DEF SizeOf
<1> DEFINE r == [type |-> type, parent |-> parent, size |-> n, count |-> 0, entries |-> NoEntries(n)]
<1> PICK k : k = Len(scopes)
  OBVIOUS
<1>3. scopes' = Append(scopes, r)
  BY <1>2 DEF Open
<1>4. k \in Nat /\ DOMAIN scopes = 1 .. k
  BY <1>1
<1>5. /\ NoEntries(n) \in Tables(n, Names, Nat) /\ NoEntries(n) \in Tables(n, Names, 1 .. k + 1)
      /\ TableOK(NoEntries(n), n, hash)
      /\ \A c \in Cells(n) : NoEntries(n)[c].name = NoName
  BY EmptyTable
<1>6. Used(NoEntries(n), n) = 0 /\ ~Crowded(0, n)
  BY <1>5, UsedNone DEF Crowded
<1>7. r \in Records
  BY <1>4, <1>5 DEF Records, AnyTable
<1>8. Filled(r)
  BY <1>5, <1>6 DEF Filled
<1>9. r.size = n /\ r.count = 0 /\ r.entries = NoEntries(n) /\ r.type = type /\ r.parent = parent
  OBVIOUS
<1> HIDE DEF r
<1>10. /\ scopes' \in Seq(Records) /\ DOMAIN scopes' = 1 .. k + 1 /\ scopes'[k + 1] = r
       /\ \A s \in 1 .. k : scopes'[s] = scopes[s]
  BY <1>1, <1>3, <1>4, <1>7
<1>11. TypeOK'
  <2>1. ASSUME NEW s \in 1 .. k
        PROVE  IsTable(scopes[s])' /\ scopes'[s].parent \in 0 .. s - 1
    <3>1. IsTable(scopes[s]) /\ scopes[s].parent \in 0 .. s - 1
      BY <1>1, <1>4 DEF TypeOK
    <3>2. Tables(scopes[s].size, Names, 1 .. k) \subseteq Tables(scopes[s].size, Names, 1 .. k + 1)
      BY <1>4, WiderTables
    <3>3. QED
      BY <1>4, <1>10, <3>1, <3>2 DEF IsTable
  <2>2. IsTable(scopes[k + 1])' /\ scopes'[k + 1].parent \in 0 .. (k + 1) - 1
    BY <1>2, <1>4, <1>5, <1>9, <1>10 DEF IsTable
  <2>3. \A s \in 1 .. k + 1 : s \in 1 .. k \/ s = k + 1
    BY <1>4
  <2>4. \A s \in DOMAIN scopes' : IsTable(scopes[s])' /\ scopes'[s].parent \in 0 .. s - 1
    BY <1>10, <2>1, <2>2, <2>3
  <2>5. QED
    BY <1>1, <2>4 DEF TypeOK
<1>12. Counts'
  <2>1. ASSUME NEW s \in DOMAIN scopes'
        PROVE  Filled(scopes'[s]) /\ ~Crowded(scopes'[s].count, scopes'[s].size)
    <3>1. CASE s \in 1 .. k
      BY <1>1, <1>4, <1>10, <3>1 DEF Counts
    <3>2. CASE s = k + 1
      BY <1>6, <1>8, <1>9, <1>10, <3>2
    <3>3. QED
      BY <1>4, <1>10, <3>1, <3>2
  <2>2. \A t : Filled(t)' <=> Filled(t)
    BY <1>1 DEF Filled, TableOK, Chained, Distinct
  <2>3. QED
    BY <2>1, <2>2 DEF Counts, Filled
<1>13. Growth' /\ Sought'
  BY <1>1 DEF Growth, Sought
<1>14. QED
  BY <1>1, <1>10, <1>11, <1>12, <1>13 DEF SymInv

-----------------------------------------------------------------------------
\* Steps that leave the tables alone.
LEMMA TablesKept ==
  ASSUME SymInv, UNCHANGED <<hash, scopes, grown, i>>, doing # "grow", doing' # "grow",
         doing' \in {"idle", "look", "add"}, request' \in Requests,
         doing' \in {"look", "add"} =>
           request'.name \in Names /\ request'.scope \in DOMAIN scopes /\ at' \in DOMAIN scopes,
         doing' = "add" => at' = request'.scope /\ ~Has(request'.scope, request'.name),
         doing' = "look" => at' = request'.scope \/ ~Has(request'.scope, request'.name)
  PROVE  SymInv'
<1>1. TypeOK /\ scopes \in Seq(Records) /\ Counts /\ Growth
  BY DEF SymInv
<1>2. TypeOK'
  <2>1. \A s \in DOMAIN scopes' : IsTable(scopes[s])' /\ scopes'[s].parent \in 0 .. s - 1
    BY <1>1 DEF TypeOK, IsTable
  <2>2. QED
    BY <1>1, <2>1 DEF TypeOK
<1>3. Counts'
  BY <1>1 DEF Counts, Filled, TableOK, Chained, Distinct
<1>4. Growth' /\ Sought'
  BY <1>1 DEF Growth, Sought, Has
<1>5. QED
  BY <1>1, <1>2, <1>3, <1>4 DEF SymInv

LEMMA RequestStep ==
  ASSUME SymInv, NEW s \in DOMAIN scopes, NEW op \in {"LOCAL", "GLOBAL"}, NEW x \in Names, NEW adds \in BOOLEAN,
         Request(s, op, x, adds)
  PROVE  SymInv'
<1>1. DOMAIN scopes \subseteq Nat
  BY ATable
<1>2. /\ doing = "idle" /\ doing' = "look" /\ at' = s
      /\ request' = [scope |-> s, op |-> op, name |-> x, adds |-> adds]
      /\ UNCHANGED <<hash, scopes, grown, i>>
  BY DEF Request
<1>3. request' \in Requests
  BY <1>1, <1>2 DEF Requests
<1>4. QED
  BY <1>2, <1>3, TablesKept

\* A search that finds nothing in a table has missed nothing in it.
LEMMA MissIsMissing ==
  ASSUME SymInv, Miss
  PROVE  at \in DOMAIN scopes /\ ~Has(at, request.name)
<1>1. at \in DOMAIN scopes /\ request.name \in Names /\ NotFound(scopes[at].entries, scopes[at].size, hash, request.name)
  BY DEF SymInv, TypeOK, Miss
<1>2. QED
  BY <1>1, ATable, NotFoundIsMissing DEF Has

LEMMA SearchStep ==
  ASSUME SymInv, Hit \/ Miss \/ UNCHANGED vars
  PROVE  SymInv'
<1>1. TypeOK /\ scopes \in Seq(Records) /\ request \in Requests /\ Counts /\ Growth /\ Sought
  BY DEF SymInv
<1>2. NoRequest \in Requests
  BY DEF NoRequest, Requests
<1>3. CASE doing = "look" /\ doing' = "idle" /\ request' = NoRequest /\ UNCHANGED <<hash, scopes, grown, i>>
  BY <1>2, <1>3, TablesKept
<1>4. CASE Hit
  BY <1>3, <1>4 DEF Hit, Return
<1>5. CASE Miss
  <2>1. doing = "look" /\ UNCHANGED <<hash, scopes, grown, i>> /\ at \in DOMAIN scopes /\ ~Has(at, request.name)
    BY <1>5, MissIsMissing DEF Miss
  <2>2. at = request.scope \/ ~Has(request.scope, request.name)
    BY <1>1, <2>1 DEF Sought
  <2>3. ~Has(request.scope, request.name)
    BY <2>1, <2>2
  <2>4. request.name \in Names /\ request.scope \in DOMAIN scopes
    BY <1>1, <2>1 DEF TypeOK
  <2>5. CASE GoesOn(scopes[at]) /\ at' = scopes[at].parent /\ UNCHANGED <<doing, request, answer>>
    <3>1. scopes[at].parent \in 0 .. at - 1 /\ scopes[at].parent # 0 /\ at \in 1 .. Len(scopes) /\ Len(scopes) \in Nat
      BY <1>1, <2>1, <2>5 DEF TypeOK, GoesOn
    <3>2. at' \in DOMAIN scopes
      BY <1>1, <2>5, <3>1
    <3>3. QED
      BY <1>1, <2>1, <2>3, <2>4, <2>5, <3>2, TablesKept
  <2>6. CASE doing' = "add" /\ at' = request.scope /\ UNCHANGED <<request, answer>>
    BY <1>1, <2>1, <2>3, <2>4, <2>6, TablesKept
  <2>7. QED
    BY <1>3, <1>5, <2>1, <2>5, <2>6 DEF Miss, Return
<1>6. CASE UNCHANGED vars
  <2>1. UNCHANGED <<hash, scopes, doing, request, at, grown, i, answer>>
    BY <1>6 DEF vars
  <2>2. TypeOK' /\ Counts' /\ Growth' /\ Sought'
    <3>1. \A s \in DOMAIN scopes' : IsTable(scopes[s])' /\ scopes'[s].parent \in 0 .. s - 1
      BY <1>1, <2>1 DEF TypeOK, IsTable
    <3>2. TypeOK'
      BY <1>1, <2>1, <3>1 DEF TypeOK
    <3>3. Counts'
      <4>1. Counts' <=> Counts
        BY <2>1 DEF Counts, Filled, TableOK, Chained, Distinct, Used, UsedTo
      <4>2. QED
        BY <1>1, <4>1
    <3>4. Growth'
      <4>1. Growth' <=> Growth
        BY <2>1 DEF Growth, TableOK, Chained, Distinct, Copied, Used, UsedTo
      <4>2. QED
        BY <1>1, <4>1
    <3>5. Sought'
      BY <1>1, <2>1 DEF Sought, Has
    <3>6. QED
      BY <3>2, <3>3, <3>4, <3>5
  <2>3. QED
    BY <1>1, <2>1, <2>2 DEF SymInv
<1>7. QED
  BY <1>4, <1>5, <1>6

-----------------------------------------------------------------------------
\* A step that changes one table, and what it must leave true of it.
ChangedAt(r) == scopes' = [scopes EXCEPT ![at] = r]

LEMMA TableChanged ==
  ASSUME SymInv, at \in DOMAIN scopes, UNCHANGED hash, NEW r \in Records, ChangedAt(r),
         r.type = scopes[at].type, r.parent = scopes[at].parent,
         r.size # 0, r.entries \in Tables(r.size, Names, DOMAIN scopes), Filled(r),
         doing' # "grow" => ~Crowded(r.count, r.size), doing' = "grow" => at' = at
  PROVE  /\ scopes' \in Seq(Records) /\ DOMAIN scopes' = DOMAIN scopes
         /\ \A s \in DOMAIN scopes' : IsTable(scopes[s])' /\ scopes'[s].parent \in 0 .. s - 1
         /\ Counts'
<1>1. TypeOK /\ scopes \in Seq(Records) /\ Counts /\ at \in Nat
  BY ATable DEF SymInv
<1>2. /\ scopes' \in Seq(Records) /\ DOMAIN scopes' = DOMAIN scopes
      /\ scopes'[at] = r /\ \A s \in DOMAIN scopes \ {at} : scopes'[s] = scopes[s]
  BY <1>1 DEF ChangedAt
<1>3. \A s \in DOMAIN scopes' : IsTable(scopes[s])' /\ scopes'[s].parent \in 0 .. s - 1
  <2>1. TAKE s \in DOMAIN scopes'
  <2>2. IsTable(scopes[s]) /\ scopes[s].parent \in 0 .. s - 1
    BY <1>1, <1>2 DEF TypeOK
  <2>3. CASE s = at
    BY <1>2, <2>2, <2>3 DEF IsTable, Records
  <2>4. CASE s # at
    BY <1>2, <2>2, <2>4 DEF IsTable
  <2>5. QED
    BY <2>3, <2>4
<1>4. Counts'
  <2>1. ASSUME NEW s \in DOMAIN scopes'
        PROVE  Filled(scopes'[s]) /\ (~Crowded(scopes'[s].count, scopes'[s].size) \/ (doing' = "grow" /\ s = at'))
    <3>1. CASE s = at
      BY <1>2, <3>1
    <3>2. CASE s # at
      BY <1>1, <1>2, <3>2 DEF Counts
    <3>3. QED
      BY <3>1, <3>2
  <2>2. \A t : Filled(t)' <=> Filled(t)
    BY <1>1 DEF Filled, TableOK, Chained, Distinct
  <2>3. QED
    BY <2>1, <2>2 DEF Counts, Filled
<1>5. QED
  BY <1>2, <1>3, <1>4

\* The table after an addition.
Larger(t, u) == [t EXCEPT !.entries = u, !.count = @ + 1]

LEMMA AddTable ==
  ASSUME SymInv, Add
  PROVE  /\ doing = "add" /\ at \in DOMAIN scopes /\ at = request.scope /\ request.name \in Names
         /\ \E u \in Tables(scopes[at].size, Names, DOMAIN scopes) :
              /\ ChangedAt(Larger(scopes[at], u)) /\ Filled(Larger(scopes[at], u))
              /\ \E a \in Cells(scopes[at].size) :
                   /\ scopes[at].entries[a].name = NoName
                   /\ u[a] = Entry(request.name, at)
                   /\ \A c \in Cells(scopes[at].size) \ {a} : u[c] = scopes[at].entries[c]
<1> PICK t : t = scopes[at]
  OBVIOUS
<1> PICK n : n = t.size
  OBVIOUS
<1>1. /\ doing = "add" /\ at \in DOMAIN scopes /\ at = request.scope /\ request.name \in Names
      /\ NoName \notin Names /\ at # NoName
      /\ ~Has(at, request.name) /\ scopes \in Seq(Records)
  BY ATable, Hash DEF Add, SymInv, TypeOK, Sought
<1>2. /\ t \in Records /\ n \in Nat \ {0} /\ t.count \in Nat
      /\ IsTableOf(t.entries, n, hash, Names, DOMAIN scopes) /\ TableOK(t.entries, n, hash) /\ Filled(t)
  BY <1>1, ATable
<1>3. PICK d \in Cells(n) :
        /\ FreeAt(t.entries, n, hash, request.name, d)
        /\ scopes' = [scopes EXCEPT ![at].entries = Put(t.entries, n, hash, request.name, d, at),
                                    ![at].count = @ + 1]
  BY DEF Add, Cells
<1> DEFINE u == Put(t.entries, n, hash, request.name, d, at)
           a == Cell(hash, n, request.name, d)
<1>4. request.name \notin NamesIn(t.entries, n)
  BY <1>1 DEF Has
<1>5. /\ u \in Tables(n, Names, DOMAIN scopes)
      /\ a \in Cells(n) /\ t.entries[a].name = NoName
      /\ u[a] = Entry(request.name, at) /\ \A c \in Cells(n) \ {a} : u[c] = t.entries[c]
      /\ TableOK(u, n, hash)
  BY <1>1, <1>2, <1>3, <1>4, PutTable
<1>6. ChangedAt(Larger(t, u))
  BY <1>1, <1>3 DEF ChangedAt, Larger
<1> HIDE DEF u, a
<1>7. u[a].name = request.name /\ u[a].value = at
  BY <1>5 DEF Entry
<1>8. Used(u, n) = t.count + 1
  BY <1>1, <1>2, <1>5, <1>7, UsedMore DEF Filled
<1>9. \A c \in Cells(n) : u[c].name # NoName => u[c].value # NoName
  BY <1>1, <1>2, <1>5, <1>7 DEF Filled
<1>10. Larger(t, u).entries = u /\ Larger(t, u).count = t.count + 1 /\ Larger(t, u).size = n
  BY <1>2 DEF Larger, Records
<1>11. Filled(Larger(t, u))
  BY <1>5, <1>8, <1>9, <1>10 DEF Filled
<1>12. QED
  BY <1>1, <1>5, <1>6, <1>11

LEMMA AddStep ==
  ASSUME SymInv, Add
  PROVE  SymInv'
<1>1. /\ doing = "add" /\ at \in DOMAIN scopes /\ at = request.scope /\ request.name \in Names
      /\ TypeOK /\ request \in Requests /\ UNCHANGED <<hash, i>> /\ i = 0
  BY AddTable DEF SymInv, Add, Growth
<1> PICK t : t = scopes[at]
  OBVIOUS
<1> PICK n : n = t.size
  OBVIOUS
<1> PICK m : m = 2 * n
  OBVIOUS
<1>2. PICK u \in Tables(n, Names, DOMAIN scopes) : ChangedAt(Larger(t, u)) /\ Filled(Larger(t, u))
  BY AddTable
<1>3. /\ t \in Records /\ n \in Nat \ {0} /\ m \in Nat \ {0} /\ t.count \in Nat /\ DOMAIN scopes \subseteq Nat
  BY <1>1, ATable
<1>4. u \in AnyTable
  BY <1>3, WiderTables DEF AnyTable
<1>5. /\ Larger(t, u).entries = u /\ Larger(t, u).count = t.count + 1 /\ Larger(t, u).size = n
      /\ Larger(t, u) \in Records /\ Larger(t, u).type = t.type /\ Larger(t, u).parent = t.parent
  <2>1. /\ Larger(t, u).entries = u /\ Larger(t, u).count = t.count + 1 /\ Larger(t, u).size = n
        /\ Larger(t, u).type = t.type /\ Larger(t, u).parent = t.parent
    BY <1>3 DEF Larger, Records
  <2>2. t.count + 1 \in Nat
    BY <1>3
  <2>3. Larger(t, u) \in Records
    BY <1>3, <1>4, <2>2 DEF Larger, Records
  <2>4. QED
    BY <2>1, <2>3
<1>6. \/ /\ Crowded(t.count + 1, n) /\ doing' = "grow" /\ grown' = NoEntries(m)
         /\ UNCHANGED <<request, at>>
      \/ /\ ~Crowded(t.count + 1, n) /\ doing' = "idle" /\ request' = NoRequest /\ at' = 0
         /\ UNCHANGED grown
  BY DEF Add
<1>7. /\ scopes' \in Seq(Records) /\ DOMAIN scopes' = DOMAIN scopes
      /\ \A s \in DOMAIN scopes' : IsTable(scopes[s])' /\ scopes'[s].parent \in 0 .. s - 1
      /\ Counts'
  <2>1. doing' # "grow" => ~Crowded(Larger(t, u).count, Larger(t, u).size)
    BY <1>5, <1>6
  <2>2. Larger(t, u).size # 0 /\ Larger(t, u).entries \in Tables(Larger(t, u).size, Names, DOMAIN scopes)
    BY <1>3, <1>5
  <2>3. QED
    BY <1>1, <1>2, <1>5, <1>6, <2>1, <2>2, TableChanged
<1>8. scopes'[at] = Larger(t, u)
  BY <1>1, <1>2 DEF ChangedAt, SymInv
<1>9. request' \in Requests
  <2>1. NoRequest \in Requests
    BY DEF NoRequest, Requests
  <2>2. QED
    BY <1>1, <1>6, <2>1
<1>10. CASE doing' = "grow"
  <2>1. /\ NoEntries(m) \in Tables(m, Names, DOMAIN scopes)
        /\ TableOK(NoEntries(m), m, hash)
        /\ \A c \in Cells(m) : NoEntries(m)[c].name = NoName
    BY <1>3, EmptyTable
  <2>2. Used(NoEntries(m), m) = 0 /\ Used(u, 0) = 0
    <3>1. \A c \in Cells(0) : u[c].name = NoName
      BY DEF Cells
    <3>2. QED
      BY <1>3, <2>1, <3>1, UsedNone
  <2>3. Copied(u, 0, NoEntries(m), m)
    BY <1>3, CopiedNone
  <2>4. grown' = NoEntries(m) /\ at' = at /\ scopes'[at].entries = u /\ 2 * scopes'[at].size = m /\ i' = 0
    BY <1>1, <1>5, <1>6, <1>8, <1>10
  <2>5. Growth'
    <3>1. TableOK(grown, 2 * scopes[at].size, hash)' <=> TableOK(NoEntries(m), m, hash)
      BY <1>1, <2>4 DEF TableOK, Chained, Distinct
    <3>2. Used(grown, 2 * scopes[at].size)' = Used(NoEntries(m), m) /\ Used(scopes[at].entries, i)' = Used(u, 0)
      BY <2>4 DEF Used, UsedTo
    <3>3. Copied(scopes[at].entries, i, grown, 2 * scopes[at].size)' <=> Copied(u, 0, NoEntries(m), m)
      BY <2>4 DEF Copied
    <3>4. QED
      BY <1>10, <2>1, <2>2, <2>3, <3>1, <3>2, <3>3 DEF Growth
  <2>6. TypeOK'
    BY <1>1, <1>3, <1>5, <1>6, <1>7, <1>8, <1>10, <2>1, <2>4 DEF TypeOK
  <2>7. Sought'
    BY <1>10 DEF Sought
  <2>8. QED
    BY <1>7, <1>9, <2>5, <2>6, <2>7 DEF SymInv
<1>11. CASE doing' = "idle"
  <2>1. TypeOK'
    BY <1>1, <1>7, <1>11 DEF TypeOK
  <2>2. Growth' /\ Sought'
    BY <1>1, <1>11 DEF Growth, Sought
  <2>3. QED
    BY <1>7, <1>9, <2>1, <2>2 DEF SymInv
<1>12. QED
  BY <1>6, <1>10, <1>11

-----------------------------------------------------------------------------
\* What a growing table is.
LEMMA Growing ==
  ASSUME SymInv, doing = "grow", NEW m, m = 2 * scopes[at].size
  PROVE  /\ at \in DOMAIN scopes /\ m \in Nat \ {0} /\ i \in 0 .. scopes[at].size /\ i \in Nat
         /\ IsTableOf(grown, m, hash, Names, DOMAIN scopes) /\ TableOK(grown, m, hash)
         /\ Used(grown, m) = Used(scopes[at].entries, i)
         /\ Copied(scopes[at].entries, i, grown, m)
         /\ scopes[at].size \in Nat \ {0} /\ scopes[at].size < m
<1>1. TypeOK /\ Growth /\ at \in DOMAIN scopes
  BY DEF SymInv, TypeOK
<1>2. scopes[at].size \in Nat \ {0} /\ hash \in [Names -> Nat] /\ NoName \notin Names
  BY <1>1, ATable, Hash
<1>3. m \in Nat \ {0} /\ scopes[at].size < m
  BY <1>2
<1>4. i \in 0 .. scopes[at].size /\ i \in Nat /\ grown \in Tables(m, Names, DOMAIN scopes)
  BY <1>1, <1>2 DEF TypeOK
<1>5. QED
  BY <1>1, <1>2, <1>3, <1>4 DEF Growth, IsTableOf

\* A step that moves one entry leaves everything but the larger table alone.
LEMMA MovedOne ==
  ASSUME SymInv, doing = "grow", i < scopes[at].size, i' = i + 1,
         UNCHANGED <<hash, scopes, doing, request, at>>, NEW m, m = 2 * scopes[at].size,
         grown' \in Tables(m, Names, DOMAIN scopes), TableOK(grown', m, hash),
         Used(grown', m) = Used(scopes[at].entries, i + 1), Copied(scopes[at].entries, i + 1, grown', m)
  PROVE  SymInv'
<1>1. TypeOK /\ scopes \in Seq(Records) /\ request \in Requests /\ Counts /\ i + 1 \in 0 .. scopes[at].size
  BY Growing DEF SymInv
<1>2. TypeOK'
  <2>1. \A s \in DOMAIN scopes' : IsTable(scopes[s])' /\ scopes'[s].parent \in 0 .. s - 1
    BY <1>1 DEF TypeOK, IsTable
  <2>2. QED
    BY <1>1, <2>1 DEF TypeOK
<1>3. Counts'
  BY <1>1 DEF Counts, Filled, TableOK, Chained, Distinct
<1>4. Growth'
  <2>1. /\ TableOK(grown, 2 * scopes[at].size, hash)' = TableOK(grown', m, hash)
        /\ Used(grown, 2 * scopes[at].size)' = Used(grown', m)
        /\ Used(scopes[at].entries, i)' = Used(scopes[at].entries, i + 1)
        /\ Copied(scopes[at].entries, i, grown, 2 * scopes[at].size)' = Copied(scopes[at].entries, i + 1, grown', m)
    BY DEF TableOK, Chained, Distinct, Used, UsedTo, Copied
  <2>2. QED
    BY <2>1 DEF Growth
<1>5. Sought'
  BY DEF Sought
<1>6. QED
  BY <1>1, <1>2, <1>3, <1>4, <1>5 DEF SymInv

LEMMA SkipStep ==
  ASSUME SymInv, Skip
  PROVE  SymInv'
<1> PICK m : m = 2 * scopes[at].size
  OBVIOUS
<1>1. doing = "grow" /\ i < scopes[at].size /\ scopes[at].entries[i].name = NoName /\ i' = i + 1 /\ grown' = grown
  BY DEF Skip
<1>2. /\ i \in Nat /\ IsTableOf(grown, m, hash, Names, DOMAIN scopes) /\ TableOK(grown, m, hash)
      /\ Used(grown, m) = Used(scopes[at].entries, i) /\ Copied(scopes[at].entries, i, grown, m)
  BY <1>1, Growing
<1>3. Used(scopes[at].entries, i + 1) = Used(scopes[at].entries, i)
  BY <1>1, <1>2, UsedNext
<1>4. Copied(scopes[at].entries, i + 1, grown, m)
  BY <1>1, <1>2, CopiedSkip
<1>5. grown' \in Tables(m, Names, DOMAIN scopes) /\ TableOK(grown', m, hash)
  BY <1>1, <1>2 DEF IsTableOf
<1>6. Used(grown', m) = Used(scopes[at].entries, i + 1) /\ Copied(scopes[at].entries, i + 1, grown', m)
  BY <1>1, <1>2, <1>3, <1>4
<1>7. QED
  BY <1>1, <1>5, <1>6, MovedOne DEF Skip

LEMMA MoveStep ==
  ASSUME SymInv, Move
  PROVE  SymInv'
<1> PICK t : t = scopes[at].entries
  OBVIOUS
<1> PICK n : n = scopes[at].size
  OBVIOUS
<1> PICK m : m = 2 * n
  OBVIOUS
<1> PICK x : x = t[i].name
  OBVIOUS
<1> PICK v : v = t[i].value
  OBVIOUS
<1>1. doing = "grow" /\ i < n /\ x # NoName /\ i' = i + 1
  BY DEF Move
<1>2. PICK d \in Cells(m) : /\ FreeAt(grown, m, hash, x, d)
                            /\ grown' = Put(grown, m, hash, x, d, v)
  BY DEF Move, MoveIn, Cells
<1>3. /\ at \in DOMAIN scopes /\ m \in Nat \ {0} /\ i \in Cells(n) /\ i \in Nat
      /\ IsTableOf(grown, m, hash, Names, DOMAIN scopes) /\ TableOK(grown, m, hash)
      /\ Used(grown, m) = Used(t, i) /\ Copied(t, i, grown, m) /\ n \in Nat
  BY <1>1, Growing DEF Cells
<1>4. IsTableOf(t, n, hash, Names, DOMAIN scopes) /\ TableOK(t, n, hash)
  BY <1>3, ATable
<1>5. t[i] \in [name : Names \cup {NoName}, value : DOMAIN scopes \cup {NoName}]
  BY <1>3, <1>4 DEF IsTableOf, Tables, Cells
<1>6. x \in Names /\ v \in DOMAIN scopes \cup {NoName} /\ t[i] = Entry(x, v)
  BY <1>1, <1>5 DEF Entry
<1>7. x \notin NamesIn(grown, m)
  BY <1>1, <1>3, <1>4, NotMovedYet
<1> DEFINE a == Cell(hash, m, x, d)
<1>8. /\ grown' \in Tables(m, Names, DOMAIN scopes)
      /\ a \in Cells(m) /\ grown[a].name = NoName
      /\ grown'[a] = Entry(x, v) /\ \A c \in Cells(m) \ {a} : grown'[c] = grown[c]
      /\ TableOK(grown', m, hash)
  BY <1>2, <1>3, <1>6, <1>7, PutTable
<1> HIDE DEF a
<1>9. grown'[a].name = x /\ grown'[a] = t[i]
  BY <1>6, <1>8 DEF Entry
<1>10. Used(grown', m) = Used(grown, m) + 1
  <2>1. m \in Nat /\ a \in Cells(m) /\ grown[a].name = NoName /\ grown'[a].name # NoName
    BY <1>1, <1>3, <1>8, <1>9
  <2>2. \A c \in Cells(m) \ {a} : grown'[c].name = grown[c].name
    BY <1>8
  <2>3. QED
    BY <2>1, <2>2, UsedMore
<1>11. Used(t, i + 1) = Used(t, i) + 1
  BY <1>1, <1>3, UsedNext
<1>12. Used(grown', m) = Used(t, i + 1)
  BY <1>3, <1>10, <1>11
<1>13. Copied(t, i + 1, grown', m)
  BY <1>3, <1>8, <1>9, CopiedMove
<1>14. QED
  BY <1>1, <1>8, <1>12, <1>13, MovedOne DEF Move

\* The end of the move.
Wider(t) == [t EXCEPT !.entries = grown, !.size = 2 * @]

LEMMA GrownTable ==
  ASSUME SymInv, Grown
  PROVE  /\ doing = "grow" /\ at \in DOMAIN scopes
         /\ ChangedAt(Wider(scopes[at])) /\ Filled(Wider(scopes[at])) /\ Wider(scopes[at]) \in Records
         /\ Wider(scopes[at]).entries \in Tables(Wider(scopes[at]).size, Names, DOMAIN scopes)
         /\ Wider(scopes[at]).size # 0
         /\ Wider(scopes[at]).type = scopes[at].type /\ Wider(scopes[at]).parent = scopes[at].parent
         /\ ~Crowded(Wider(scopes[at]).count, Wider(scopes[at]).size)
         /\ Copied(scopes[at].entries, scopes[at].size, Wider(scopes[at]).entries, Wider(scopes[at]).size)
<1> PICK t : t = scopes[at]
  OBVIOUS
<1> PICK m : m = 2 * t.size
  OBVIOUS
<1> PICK w : w = Wider(t)
  OBVIOUS
<1>1. /\ doing = "grow" /\ i = t.size
      /\ scopes' = [scopes EXCEPT ![at].entries = grown, ![at].size = 2 * @]
  BY DEF Grown
<1>2. /\ at \in DOMAIN scopes /\ m \in Nat \ {0}
      /\ IsTableOf(grown, m, hash, Names, DOMAIN scopes) /\ TableOK(grown, m, hash)
      /\ Used(grown, m) = Used(t.entries, t.size) /\ Copied(t.entries, t.size, grown, m)
      /\ t.size \in Nat \ {0} /\ t \in Records /\ t.count \in Nat /\ Filled(t)
      /\ scopes \in Seq(Records) /\ DOMAIN scopes \subseteq Nat
  BY <1>1, Growing, ATable DEF SymInv
<1>3. grown \in Tables(m, Names, DOMAIN scopes) /\ grown \in AnyTable
  BY <1>2, WiderTables DEF AnyTable, IsTableOf
<1>4. /\ w.entries = grown /\ w.size = m /\ w.count = t.count /\ w.type = t.type /\ w.parent = t.parent
      /\ w \in Records
  BY <1>2, <1>3 DEF Wider, Records
<1>5. ChangedAt(w)
  BY <1>1, <1>2 DEF ChangedAt, Wider
<1>6. ASSUME NEW c \in Cells(m), grown[c].name # NoName PROVE grown[c].value # NoName
  <2>1. PICK b \in Cells(t.size) : t.entries[b] = grown[c]
    BY <1>2, <1>6 DEF Copied
  <2>2. QED
    BY <1>2, <1>6, <2>1 DEF Filled
<1>7. Filled(w)
  BY <1>2, <1>4, <1>6 DEF Filled
<1>8. ~Crowded(w.count, w.size)
  <2>1. Used(t.entries, t.size) \in 0 .. t.size /\ t.count = Used(t.entries, t.size)
    BY <1>2, UsedBound DEF Filled
  <2>2. t.count <= t.size
    BY <1>2, <2>1
  <2>3. ~Crowded(t.count, 2 * t.size)
    BY <1>2, <2>2, ThreeQuarters
  <2>4. QED
    BY <1>4, <2>3
<1>9. QED
  BY <1>1, <1>2, <1>3, <1>4, <1>5, <1>7, <1>8

LEMMA GrownStep ==
  ASSUME SymInv, Grown
  PROVE  SymInv'
<1>1. /\ doing' = "idle" /\ request' = NoRequest /\ i' = 0 /\ UNCHANGED hash /\ TypeOK
  BY DEF SymInv, Grown, Done
<1>2. /\ scopes' \in Seq(Records) /\ DOMAIN scopes' = DOMAIN scopes
      /\ \A s \in DOMAIN scopes' : IsTable(scopes[s])' /\ scopes'[s].parent \in 0 .. s - 1
      /\ Counts'
  BY <1>1, GrownTable, TableChanged
<1>3. TypeOK'
  BY <1>1, <1>2 DEF TypeOK
<1>4. Growth' /\ Sought' /\ request' \in Requests
  BY <1>1 DEF Growth, Sought, NoRequest, Requests
<1>5. QED
  BY <1>2, <1>3, <1>4 DEF SymInv

LEMMA StepInv == SymInv /\ [Next]_vars => SymInv'
<1> SUFFICES ASSUME SymInv, [Next]_vars PROVE SymInv'
  OBVIOUS
<1>1. ASSUME NEW s \in DOMAIN scopes, NEW op \in {"LOCAL", "GLOBAL"}, NEW x \in Names, Declare(s, op, x) \/ Find(s, op, x)
      PROVE  SymInv'
  BY <1>1, RequestStep DEF Declare, Find
<1>2. QED
  BY <1>1, OpenStep, SearchStep, AddStep, SkipStep, MoveStep, GrownStep DEF Next, Step

LEMMA Invariance == Spec => []SymInv
BY InitInv, StepInv, PTL DEF Spec

-----------------------------------------------------------------------------
\* Types, and that parents are older: for all names, hash functions and sizes.
THEOREM SymTabTypes == Spec => []TypeOK
<1>1. SymInv => TypeOK
  BY DEF SymInv
<1>2. QED
  BY <1>1, Invariance, PTL

\* Every table, and the one it grows into, finds what was put in, once, and an
\* addition finds a free cell.
LEMMA InvTables == SymInv => TablesOK
<1> SUFFICES ASSUME SymInv PROVE TablesOK
  OBVIOUS
<1>1. \A s \in DOMAIN scopes : TableOK(scopes[s].entries, scopes[s].size, hash)
  BY ATable
<1>2. ASSUME doing = "add" PROVE ~Full(scopes[at].entries, scopes[at].size)
  <2>1. at \in DOMAIN scopes
    BY <1>2 DEF SymInv, TypeOK
  <2>2. ~Crowded(scopes[at].count, scopes[at].size) /\ scopes[at].size \in Nat \ {0} /\ scopes[at].count \in Nat
    BY <1>2, <2>1, ATable DEF SymInv, Counts
  <2>3. scopes[at].count = Used(scopes[at].entries, scopes[at].size)
    BY <2>1, ATable DEF Filled
  <2>4. QED
    BY <2>2, <2>3, ThreeQuarters, RoomLeft
<1>3. ASSUME doing = "grow"
      PROVE  TableOK(grown, 2 * scopes[at].size, hash) /\ ~Full(grown, 2 * scopes[at].size)
  <2> PICK m : m = 2 * scopes[at].size
    OBVIOUS
  <2>1. /\ m \in Nat \ {0} /\ i \in 0 .. scopes[at].size /\ i \in Nat /\ scopes[at].size < m
        /\ TableOK(grown, m, hash) /\ Used(grown, m) = Used(scopes[at].entries, i)
        /\ scopes[at].size \in Nat
    BY <1>3, Growing
  <2>2. Used(grown, m) < m
    BY <2>1, UsedBound
  <2>3. QED
    BY <2>1, <2>2, RoomLeft
<1>4. QED
  BY <1>1, <1>2, <1>3 DEF TablesOK

THEOREM SymTabTables == Spec => []TablesOK
BY Invariance, InvTables, PTL

-----------------------------------------------------------------------------
(***************************************************************************)
(* The refinement.  A search that goes on keeps the meaning of the name it *)
(* is for: what the name means where the search is, is what it means where *)
(* the search began.  So the table that has the name has its meaning, and  *)
(* when none is left the name means nothing.                               *)
(***************************************************************************)
View == [s \in 1 .. Len(scopes) |->
           [type |-> scopes[s].type, parent |-> scopes[s].parent,
            names |-> MapOf(scopes[s].entries, scopes[s].size)]]

MeansAt(s) == Seen!Meaning(s, request.op, request.name)

Meant ==
  /\ doing = "look" => MeansAt(request.scope) = MeansAt(at)
  /\ doing = "add" => MeansAt(request.scope) = NoName

LEMMA ViewOf ==
  ASSUME SymInv
  PROVE  /\ DOMAIN View = DOMAIN scopes
         /\ \A s \in DOMAIN scopes : /\ View[s].type = scopes[s].type
                                     /\ View[s].parent = scopes[s].parent
                                     /\ View[s].names = MapOf(scopes[s].entries, scopes[s].size)
BY DEF SymInv, View

\* Around a table is an older one, and what is in reach of it is in reach here.
LEMMA AroundOf ==
  ASSUME SymInv, NEW s \in DOMAIN scopes, NEW op
  PROVE  /\ Seen!Around(s, op) = IF op = "GLOBAL" \/ scopes[s].type = "BLOCK" THEN scopes[s].parent ELSE 0
         /\ Seen!Around(s, op) \in 0 .. s - 1
         /\ Seen!Around(s, op) # 0 => Seen!Around(s, op) \in DOMAIN scopes
<1>1. Seen!Around(s, op) = IF op = "GLOBAL" \/ scopes[s].type = "BLOCK" THEN scopes[s].parent ELSE 0
  BY ViewOf DEF Seen!Around, View
<1>2. scopes[s].parent \in 0 .. s - 1 /\ DOMAIN scopes = 1 .. Len(scopes) /\ Len(scopes) \in Nat
  BY DEF SymInv, TypeOK
<1>3. QED
  BY <1>1, <1>2

LEMMA ReachOf ==
  ASSUME SymInv, NEW s \in DOMAIN scopes, NEW op, NEW t
  PROVE  Seen!InReach(s, op, t) <=>
           \A S \in SUBSET DOMAIN scopes :
             s \in S /\ (\A u \in S : Seen!Around(u, op) # 0 => Seen!Around(u, op) \in S) => t \in S
BY ViewOf DEF Seen!InReach, View, SymInv

LEMMA ReachOn ==
  ASSUME SymInv, NEW s \in DOMAIN scopes, NEW op, NEW t
  PROVE  Seen!InReach(s, op, t) <=>
           t = s \/ (Seen!Around(s, op) # 0 /\ Seen!InReach(Seen!Around(s, op), op, t))
<1> PICK p : p = Seen!Around(s, op)
  OBVIOUS
<1> DEFINE Closed(S) == \A u \in S : Seen!Around(u, op) # 0 => Seen!Around(u, op) \in S
<1>1. p # 0 => p \in DOMAIN scopes
  BY AroundOf
<1>2. Seen!InReach(s, op, t) <=> \A S \in SUBSET DOMAIN scopes : s \in S /\ Closed(S) => t \in S
  BY ReachOf
<1>3. p # 0 => (Seen!InReach(p, op, t) <=> \A S \in SUBSET DOMAIN scopes : p \in S /\ Closed(S) => t \in S)
  BY <1>1, ReachOf
<1>4. ASSUME Seen!InReach(s, op, t), t # s
      PROVE  p # 0 /\ Seen!InReach(p, op, t)
  <2>1. CASE p = 0
    <3>1. Closed({s}) /\ {s} \in SUBSET DOMAIN scopes
      BY <2>1
    <3>2. QED
      BY <1>2, <1>4, <3>1
  <2>2. CASE p # 0
    <3>1. SUFFICES ASSUME NEW S \in SUBSET DOMAIN scopes, p \in S, Closed(S)
                   PROVE  t \in S
      BY <1>3, <2>2
    <3>2. Closed(S \cup {s}) /\ S \cup {s} \in SUBSET DOMAIN scopes
      BY <3>1
    <3>3. t \in S \cup {s}
      BY <1>2, <1>4, <3>2
    <3>4. QED
      BY <1>4, <3>3
  <2>3. QED
    BY <2>1, <2>2
<1>5. ASSUME p # 0, Seen!InReach(p, op, t)
      PROVE  Seen!InReach(s, op, t)
  <2>1. SUFFICES ASSUME NEW S \in SUBSET DOMAIN scopes, s \in S, Closed(S)
                 PROVE  t \in S
    BY <1>2
  <2>2. p \in S
    BY <1>5, <2>1
  <2>3. QED
    BY <1>3, <1>5, <2>1, <2>2
<1>6. t = s => Seen!InReach(s, op, t)
  BY <1>2
<1>7. QED
  BY <1>4, <1>5, <1>6

LEMMA ReachOlder ==
  ASSUME SymInv, NEW s \in DOMAIN scopes, NEW op, NEW t, Seen!InReach(s, op, t)
  PROVE  t <= s
<1>1. DOMAIN scopes = 1 .. Len(scopes) /\ Len(scopes) \in Nat
  BY DEF SymInv
<1> DEFINE S == 1 .. s
<1>2. S \in SUBSET DOMAIN scopes /\ s \in S
  BY <1>1
<1>3. ASSUME NEW u \in S, Seen!Around(u, op) # 0
      PROVE  Seen!Around(u, op) \in S
  <2>1. u \in DOMAIN scopes
    BY <1>2
  <2>2. Seen!Around(u, op) \in 0 .. u - 1
    BY <2>1, AroundOf
  <2>3. QED
    BY <1>1, <1>3, <2>2
<1>4. t \in S
  BY <1>2, <1>3, ReachOf
<1>5. QED
  BY <1>1, <1>4

\* What a table declares.
LEMMA NamesOf ==
  ASSUME SymInv, NEW s \in DOMAIN scopes
  PROVE  /\ DOMAIN MapOf(scopes[s].entries, scopes[s].size) = NamesIn(scopes[s].entries, scopes[s].size)
         /\ DOMAIN View[s].names = NamesIn(scopes[s].entries, scopes[s].size)
BY ViewOf DEF MapOf

LEMMA DeclaringOf ==
  ASSUME SymInv, NEW s, NEW op, NEW x
  PROVE  Seen!Declaring(s, op, x) = {t \in DOMAIN scopes : Seen!InReach(s, op, t) /\ Has(t, x)}
<1>1. Seen!Declaring(s, op, x) = {t \in DOMAIN View : Seen!InReach(s, op, t) /\ x \in DOMAIN View[t].names}
  BY DEF Seen!Declaring, View
<1>2. QED
  BY <1>1, ViewOf, NamesOf DEF Has

LEMMA MeaningOf ==
  ASSUME SymInv, NEW s, NEW op, NEW x
  PROVE  Seen!Meaning(s, op, x) =
           IF Seen!Declaring(s, op, x) = {} THEN NoName
           ELSE View[CHOOSE u \in Seen!Declaring(s, op, x) : \A v \in Seen!Declaring(s, op, x) : v <= u].names[x]
BY DEF Seen!Meaning, View

\* A table that does not have the name: it means what it means around it.
LEMMA MeaningAround ==
  ASSUME SymInv, NEW s \in DOMAIN scopes, NEW op, NEW x, ~Has(s, x)
  PROVE  Seen!Meaning(s, op, x) =
           IF Seen!Around(s, op) = 0 THEN NoName ELSE Seen!Meaning(Seen!Around(s, op), op, x)
<1> PICK p : p = Seen!Around(s, op)
  OBVIOUS
<1>1. CASE p = 0
  <2>1. Seen!Declaring(s, op, x) = {}
    <3>1. \A t : Seen!InReach(s, op, t) <=> t = s
      BY <1>1, ReachOn
    <3>2. QED
      BY <3>1, DeclaringOf
  <2>2. QED
    BY <1>1, <2>1, MeaningOf
<1>2. CASE p # 0
  <2>1. Seen!Declaring(s, op, x) = Seen!Declaring(p, op, x)
    <3>1. \A t : Seen!InReach(s, op, t) <=> t = s \/ Seen!InReach(p, op, t)
      BY <1>2, ReachOn
    <3>2. QED
      BY <3>1, DeclaringOf
  <2>2. QED
    BY <1>2, <2>1, MeaningOf
<1>3. QED
  BY <1>1, <1>2

\* A table that has it.
LEMMA MeaningHere ==
  ASSUME SymInv, NEW s \in DOMAIN scopes, NEW op, NEW x, Has(s, x)
  PROVE  Seen!Meaning(s, op, x) = MapOf(scopes[s].entries, scopes[s].size)[x]
<1> DEFINE D == Seen!Declaring(s, op, x)
<1>1. s \in D
  BY DeclaringOf, ReachOn
<1>2. \A v \in D : v \in DOMAIN scopes /\ v <= s
  BY DeclaringOf, ReachOlder
<1>3. DOMAIN scopes \subseteq Nat
  BY ATable
<1> HIDE DEF D
<1> DEFINE t == CHOOSE u \in D : \A v \in D : v <= u
<1>4. t \in D /\ \A v \in D : v <= t
  BY <1>1, <1>2
<1> HIDE DEF t
<1>5. t = s
  BY <1>1, <1>2, <1>3, <1>4
<1>6. Seen!Meaning(s, op, x) = View[s].names[x]
  BY <1>1, <1>5, MeaningOf DEF D, t
<1>7. QED
  BY <1>6, ViewOf

LEMMA MeaningKept ==
  ASSUME UNCHANGED scopes, NEW s, NEW op, NEW x
  PROVE  Seen!Meaning(s, op, x)' = Seen!Meaning(s, op, x)
<1>1. \A u, o : Seen!Around(u, o)' = Seen!Around(u, o)
  BY DEF Seen!Around
<1>2. \A u, o, t : Seen!InReach(u, o, t)' <=> Seen!InReach(u, o, t)
  BY <1>1 DEF Seen!InReach
<1>3. \A u, o, y : Seen!Declaring(u, o, y)' = Seen!Declaring(u, o, y)
  BY <1>2 DEF Seen!Declaring
<1> PICK D : D = Seen!Declaring(s, op, x)
  OBVIOUS
<1> DEFINE t == CHOOSE u \in D : \A v \in D : v <= u
<1>4. Seen!Meaning(s, op, x) = IF D = {} THEN NoName ELSE View[t].names[x]
  BY DEF Seen!Meaning, View
<1>5. Seen!Declaring(s, op, x)' = D
  BY <1>3
<1>6. Seen!Meaning(s, op, x)' = IF D = {} THEN NoName ELSE View'[t].names[x]
  BY <1>5 DEF Seen!Meaning, View
<1>7. View' = View
  BY DEF View
<1>8. QED
  BY <1>4, <1>6, <1>7

\* What a search finds, and what it leaves.
LEMMA HitMeaning ==
  ASSUME SymInv, Meant, Hit
  PROVE  answer' = Answer(MeansAt(request.scope))
<1>1. doing = "look" /\ at \in DOMAIN scopes /\ request.name \in Names /\ MeansAt(request.scope) = MeansAt(at)
  BY DEF Hit, SymInv, TypeOK, Meant
<1> PICK t : t = scopes[at].entries
  OBVIOUS
<1> PICK n : n = scopes[at].size
  OBVIOUS
<1>2. PICK d \in Cells(n) : /\ EntryAt(t, n, hash, request.name, d).name = request.name
                            /\ answer' = Answer(EntryAt(t, n, hash, request.name, d).value)
  BY DEF Hit, Return, Cells
<1>3. n \in Nat \ {0} /\ hash[request.name] \in Nat /\ request.name # NoName /\ TableOK(t, n, hash)
  BY <1>1, ATable DEF IsTableOf
<1> PICK c \in Cells(n) : c = Cell(hash, n, request.name, d)
  BY <1>3, CellAt
<1>4. t[c].name = request.name /\ answer' = Answer(t[c].value)
  BY <1>2 DEF EntryAt
<1>5. Has(at, request.name) /\ MapOf(t, n)[request.name] = ValueOf(t, n, request.name)
  BY <1>3, <1>4 DEF Has, NamesIn, Cells, MapOf
<1>6. ValueOf(t, n, request.name) = t[c].value
  BY <1>3, <1>4, ValueThere
<1>7. MeansAt(at) = t[c].value
  BY <1>1, <1>5, <1>6, MeaningHere DEF MeansAt
<1>8. QED
  BY <1>1, <1>4, <1>7

LEMMA MissMeaning ==
  ASSUME SymInv, Meant, Miss
  PROVE  MeansAt(request.scope) = IF GoesOn(scopes[at]) THEN MeansAt(scopes[at].parent) ELSE NoName
<1>1. at \in DOMAIN scopes /\ ~Has(at, request.name) /\ doing = "look"
  BY MissIsMissing DEF Miss
<1>2. MeansAt(request.scope) = MeansAt(at)
  BY <1>1 DEF Meant
<1>3. MeansAt(at) = IF Seen!Around(at, request.op) = 0 THEN NoName
                    ELSE Seen!Meaning(Seen!Around(at, request.op), request.op, request.name)
  BY <1>1, MeaningAround DEF MeansAt
<1>4. Seen!Around(at, request.op) =
        IF request.op = "GLOBAL" \/ scopes[at].type = "BLOCK" THEN scopes[at].parent ELSE 0
  BY <1>1, AroundOf
<1>5. QED
  BY <1>2, <1>3, <1>4 DEF GoesOn, MeansAt

LEMMA MeantStep == SymInv /\ Meant /\ [Next]_vars => Meant'
<1> SUFFICES ASSUME SymInv, Meant, [Next]_vars PROVE Meant'
  OBVIOUS
<1>1. CASE doing' \notin {"look", "add"}
  BY <1>1 DEF Meant
<1>2. CASE \E s, op, x, adds : Request(s, op, x, adds)
  BY <1>2 DEF Request, Meant, MeansAt
<1>3. CASE Miss
  <2>1. UNCHANGED scopes
    BY <1>3 DEF Miss
  <2>2. CASE GoesOn(scopes[at]) /\ at' = scopes[at].parent /\ UNCHANGED <<doing, request, answer>>
    <3>1. doing' = "look"
      BY <1>3, <2>2 DEF Miss
    <3>2. MeansAt(request.scope) = MeansAt(scopes[at].parent)
      BY <1>3, <2>2, MissMeaning
    <3>3. MeansAt(request.scope)' = MeansAt(request.scope) /\ MeansAt(at)' = MeansAt(scopes[at].parent)
      BY <2>1, <2>2, MeaningKept DEF MeansAt
    <3>4. QED
      BY <3>1, <3>2, <3>3 DEF Meant
  <2>3. CASE ~GoesOn(scopes[at]) /\ doing' = "add" /\ UNCHANGED request
    <3>1. MeansAt(request.scope) = NoName
      BY <1>3, <2>3, MissMeaning
    <3>2. MeansAt(request.scope)' = MeansAt(request.scope)
      BY <2>1, <2>3, MeaningKept DEF MeansAt
    <3>3. QED
      BY <2>3, <3>1, <3>2 DEF Meant
  <2>4. QED
    BY <1>1, <1>3, <2>2, <2>3 DEF Miss, Return
<1>4. CASE UNCHANGED <<scopes, doing, request, at>>
  <2>1. MeansAt(request.scope)' = MeansAt(request.scope) /\ MeansAt(at)' = MeansAt(at)
    BY <1>4, MeaningKept DEF MeansAt
  <2>2. QED
    BY <1>4, <2>1 DEF Meant
<1>5. CASE \E type, parent : Open(type, parent)
  BY <1>1, <1>5 DEF Open
<1>6. CASE Hit \/ Add \/ Skip \/ Move \/ Grown
  BY <1>1, <1>6 DEF Hit, Return, Add, Skip, Move, Grown, Done
<1>7. QED
  BY <1>2, <1>3, <1>4, <1>5, <1>6 DEF Next, Step, Declare, Find, vars

LEMMA MeantAlways == Spec => [](SymInv /\ Meant)
<1>1. Init => Meant
  BY DEF Init, Meant
<1>2. QED
  BY <1>1, InitInv, StepInv, MeantStep, PTL DEF Spec

-----------------------------------------------------------------------------
\* The steps as the abstract tables see them.
LEMMA ViewKept ==
  ASSUME UNCHANGED scopes
  PROVE  UNCHANGED View
BY DEF View

LEMMA RefineInit == Init => Seen!Init
BY DEF Init, Seen!Init

LEMMA RefineOpen ==
  ASSUME SymInv, NEW type \in {"FUNC", "BLOCK"}, NEW parent \in {0} \cup DOMAIN scopes, Open(type, parent)
  PROVE  Seen!Open
<1> PICK n : n = SizeOf(type)
  OBVIOUS
<1> PICK k : k = Len(scopes)
  OBVIOUS
<1> DEFINE r == [type |-> type, parent |-> parent, size |-> n, count |-> 0, entries |-> NoEntries(n)]
           e == [type |-> type, parent |-> parent, names |-> << >>]
<1>1. n \in Nat \ {0} /\ k \in Nat /\ DOMAIN scopes = 1 .. k /\ scopes \in Seq(Records)
  BY SymTabAssumption DEF SizeOf, SymInv
<1>2. scopes' = Append(scopes, r) /\ UNCHANGED answer
  BY DEF Open
<1>3. MapOf(NoEntries(n), n) = << >>
  <2>1. NamesIn(NoEntries(n), n) = {}
    BY <1>1, EmptyTable
  <2>2. QED
    BY <2>1 DEF MapOf
<1>4. /\ Len(scopes') = k + 1 /\ \A s \in 1 .. k : scopes'[s] = scopes[s]
      /\ scopes'[k + 1].type = type /\ scopes'[k + 1].parent = parent
      /\ scopes'[k + 1].size = n /\ scopes'[k + 1].entries = NoEntries(n)
  <2>1. scopes \in Seq(Records \cup {r}) /\ r \in Records \cup {r}
    BY <1>1
  <2>2. Len(scopes') = k + 1 /\ (\A s \in 1 .. k : scopes'[s] = scopes[s]) /\ scopes'[k + 1] = r
    <3> HIDE DEF r
    <3>1. QED
      BY <1>1, <1>2, <2>1
  <2>3. QED
    BY <2>2
<1>5. \A s \in 1 .. k + 1 : View'[s] = IF s = k + 1 THEN e ELSE View[s]
  <2>1. \A s \in 1 .. k : View'[s] = View[s]
    BY <1>1, <1>4 DEF View
  <2>2. View'[k + 1] = e
    BY <1>1, <1>3, <1>4 DEF View
  <2>3. QED
    BY <1>1, <2>1, <2>2
<1>6. View' = Append(View, e)
  <2> DEFINE S == {View[s] : s \in 1 .. k} \cup {e}
  <2>1. \A s \in 1 .. k : View[s] \in S
    OBVIOUS
  <2>2. DOMAIN View = 1 .. k /\ DOMAIN View' = 1 .. k + 1 /\ View = [s \in 1 .. k |-> View[s]]
    BY <1>1, <1>4 DEF View
  <2> HIDE DEF e
  <2>3. View \in [1 .. k -> S]
    BY <2>1, <2>2
  <2>4. View \in Seq(S)
    BY <1>1, <2>3, SeqDef
  <2>5. e \in S
    OBVIOUS
  <2> HIDE DEF S
  <2>6. Len(View) = k
    BY <1>1, <2>2, <2>4
  <2>7. /\ DOMAIN Append(View, e) = 1 .. k + 1
        /\ \A s \in 1 .. k + 1 : Append(View, e)[s] = IF s = k + 1 THEN e ELSE View[s]
    BY <1>1, <2>4, <2>5, <2>6
  <2>8. View' = [s \in 1 .. k + 1 |-> View'[s]]
    BY <1>4 DEF View
  <2>9. Append(View, e) = [s \in 1 .. k + 1 |-> Append(View, e)[s]]
    <3>1. Append(View, e) \in Seq(S)
      BY <2>4, <2>5
    <3>2. Append(View, e) \in UNION {[1 .. m -> S] : m \in Nat}
      BY <3>1, SeqDef, Zenon
    <3>3. PICK m \in Nat : Append(View, e) \in [1 .. m -> S]
      BY <3>2
    <3>4. QED
      BY <2>7, <3>3
  <2>10. QED
    BY <1>5, <2>7, <2>8, <2>9
<1>7. \E ty \in {"FUNC", "BLOCK"}, pa \in {0} \cup DOMAIN View :
        View' = Append(View, [type |-> ty, parent |-> pa, names |-> << >>])
  BY <1>6, ViewOf
<1>8. QED
  BY <1>2, <1>7 DEF Seen!Open, View

\* A search that is over has answered what was asked.
LEMMA RefineSearch ==
  ASSUME SymInv, Meant, Hit \/ Miss
  PROVE  [Seen!Next]_(Seen!vars)
<1>1. /\ doing = "look" /\ UNCHANGED scopes /\ View' = View
      /\ request.scope \in DOMAIN View /\ request.op \in {"LOCAL", "GLOBAL"} /\ request.name \in Names
  BY ViewKept, ViewOf DEF Hit, Miss, SymInv, TypeOK, Requests
<1>2. CASE answer' = Answer(MeansAt(request.scope))
  <2>1. Seen!Find(request.scope, request.op, request.name)
    BY <1>1, <1>2 DEF Seen!Find, Seen!Answer, Answer, MeansAt, View
  <2>2. QED
    BY <1>1, <2>1 DEF Seen!Next, View
<1>3. CASE UNCHANGED answer
  BY <1>1, <1>3 DEF Seen!vars, View
<1>4. CASE Miss /\ answer' = Answer(NoName) /\ ~GoesOn(scopes[at])
  BY <1>2, <1>4, MissMeaning
<1>5. CASE Hit
  BY <1>2, <1>5, HitMeaning
<1>6. QED
  BY <1>3, <1>4, <1>5 DEF Miss, Return

\* An addition declares a name that meant nothing.
LEMMA RefineAdd ==
  ASSUME SymInv, Meant, Add, NEW s, NEW op, NEW x, s = request.scope, op = request.op, x = request.name
  PROVE  Seen!Declare(s, op, x)
<1> PICK t : t = scopes[at]
  OBVIOUS
<1>1. /\ doing = "add" /\ at \in DOMAIN scopes /\ at = s /\ x \in Names
      /\ scopes \in Seq(Records) /\ MeansAt(at) = NoName
  BY AddTable DEF Meant, SymInv
<1>2. PICK u \in Tables(t.size, Names, DOMAIN scopes) :
        /\ ChangedAt(Larger(t, u)) /\ Filled(Larger(t, u))
        /\ \E a \in Cells(t.size) :
             /\ t.entries[a].name = NoName
             /\ u[a] = Entry(x, at)
             /\ \A c \in Cells(t.size) \ {a} : u[c] = t.entries[c]
  BY AddTable
<1>3. t \in Records /\ TableOK(t.entries, t.size, hash) /\ x # NoName
  BY <1>1, ATable, Hash DEF SymInv
<1>4. /\ Larger(t, u).entries = u /\ Larger(t, u).size = t.size
      /\ Larger(t, u).type = t.type /\ Larger(t, u).parent = t.parent
  BY <1>3 DEF Larger, Records
<1>5. TableOK(u, t.size, hash)
  BY <1>2, <1>4 DEF Filled
<1> DEFINE f == [y \in NamesIn(t.entries, t.size) \cup {x} |->
                   IF y = x THEN at ELSE MapOf(t.entries, t.size)[y]]
<1>6. MapOf(u, t.size) = f
  <2>1. PICK a \in Cells(t.size) :
          /\ t.entries[a].name = NoName
          /\ u[a] = Entry(x, at)
          /\ \A c \in Cells(t.size) \ {a} : u[c] = t.entries[c]
    BY <1>2
  <2>2. QED
    <3> PICK v, n, e : v = at /\ n = t.size /\ e = t.entries
      OBVIOUS
    <3>1. /\ TableOK(e, n, hash) /\ TableOK(u, n, hash) /\ x # NoName
          /\ a \in Cells(n) /\ e[a].name = NoName /\ u[a] = Entry(x, v)
          /\ \A c \in Cells(n) \ {a} : u[c] = e[c]
      BY <1>3, <1>5, <2>1
    <3>2. /\ NamesIn(u, n) = NamesIn(e, n) \cup {x}
          /\ ValueOf(u, n, x) = v
          /\ \A y \in NamesIn(e, n) : y # x => ValueOf(u, n, y) = ValueOf(e, n, y)
      BY <3>1, MapPut
    <3>3. QED
      BY <3>2 DEF MapOf
<1>7. /\ DOMAIN scopes' = DOMAIN scopes /\ scopes' \in Seq(Records \cup {Larger(t, u)})
      /\ scopes'[at] = Larger(t, u) /\ \A b \in DOMAIN scopes \ {at} : scopes'[b] = scopes[b]
  BY <1>1, <1>2 DEF ChangedAt
<1>8. DOMAIN View = DOMAIN scopes /\ DOMAIN View' = DOMAIN scopes
  <2>1. DOMAIN scopes = 1 .. Len(scopes) /\ DOMAIN scopes' = 1 .. Len(scopes')
    BY <1>1, <1>7
  <2>2. QED
    BY <1>7, <2>1 DEF View
<1>9. \A b \in DOMAIN scopes \ {at} : View'[b] = View[b]
  BY <1>7, <1>8 DEF View
<1>10. View[at] = [type |-> t.type, parent |-> t.parent, names |-> MapOf(t.entries, t.size)]
  BY <1>1, <1>8 DEF View
<1>11. View'[at] = [type |-> t.type, parent |-> t.parent, names |-> f]
  <2> HIDE DEF f
  <2>1. View'[at] = [type |-> Larger(t, u).type, parent |-> Larger(t, u).parent,
                     names |-> MapOf(Larger(t, u).entries, Larger(t, u).size)]
    BY <1>1, <1>7, <1>8 DEF View
  <2>2. QED
    BY <1>4, <1>6, <2>1
<1> HIDE DEF f
<1>12. View' = [View EXCEPT ![at].names = f]
  <2> DEFINE w == [View EXCEPT ![at].names = f]
  <2>1. DOMAIN w = DOMAIN scopes /\ \A b \in DOMAIN scopes \ {at} : w[b] = View[b]
    BY <1>8
  <2>2. w[at] = [type |-> t.type, parent |-> t.parent, names |-> f]
    BY <1>1, <1>8, <1>10
  <2>3. w = [b \in DOMAIN scopes |-> w[b]]
    BY <1>8
  <2> HIDE DEF w
  <2>4. View' = [b \in DOMAIN scopes |-> View'[b]]
    BY <1>8 DEF View
  <2>5. QED
    BY <1>9, <1>11, <2>1, <2>2, <2>3, <2>4 DEF w
<1>13. View[at].names = MapOf(t.entries, t.size) /\ DOMAIN View[at].names = NamesIn(t.entries, t.size)
  BY <1>1, <1>10, NamesOf
<1>14. View' = [View EXCEPT ![at].names =
                 [y \in DOMAIN View[at].names \cup {x} |-> IF y = x THEN at ELSE View[at].names[y]]]
  BY <1>12, <1>13 DEF f
<1>15. Seen!Meaning(s, op, x) = NoName
  BY <1>1 DEF MeansAt
<1>16. answer' = Answer(NoName)
  BY DEF Add
<1>17. answer' = Seen!Answer(s, op, x, Seen!Meaning(s, op, x))
  BY <1>1, <1>15, <1>16 DEF Answer, Seen!Answer
<1>18. QED
  BY <1>1, <1>14, <1>15, <1>17 DEF Seen!Declare, View

\* A move, and its end, do not show.
LEMMA RefineGrown ==
  ASSUME SymInv, Grown
  PROVE  UNCHANGED <<View, answer>>
<1> PICK t : t = scopes[at]
  OBVIOUS
<1> PICK w : w = Wider(t)
  OBVIOUS
<1>1. /\ at \in DOMAIN scopes /\ scopes \in Seq(Records)
      /\ ChangedAt(w) /\ w \in Records /\ w.type = t.type /\ w.parent = t.parent
      /\ TableOK(w.entries, w.size, hash) /\ Copied(t.entries, t.size, w.entries, w.size)
      /\ TableOK(t.entries, t.size, hash)
  BY GrownTable, ATable DEF Filled, SymInv
<1>2. MapOf(w.entries, w.size) = MapOf(t.entries, t.size)
  BY <1>1, MapMoved
<1>3. /\ Len(scopes') = Len(scopes) /\ DOMAIN scopes = 1 .. Len(scopes)
      /\ scopes'[at] = w /\ \A s \in DOMAIN scopes \ {at} : scopes'[s] = scopes[s]
  BY <1>1 DEF ChangedAt
<1>4. View' = View
  BY <1>1, <1>2, <1>3 DEF View
<1>5. QED
  BY <1>4 DEF Grown, Done

LEMMA RefineStep == SymInv /\ Meant /\ [Next]_vars => [Seen!Next]_(Seen!vars)
<1> SUFFICES ASSUME SymInv, Meant, [Next]_vars PROVE [Seen!Next]_(Seen!vars)
  OBVIOUS
<1>1. CASE \E type \in {"FUNC", "BLOCK"}, parent \in {0} \cup DOMAIN scopes : Open(type, parent)
  BY <1>1, RefineOpen DEF Seen!Next
<1>2. CASE \E s, op, x, adds : Request(s, op, x, adds)
  <2>1. answer' = NoName /\ UNCHANGED scopes
    BY <1>2 DEF Request
  <2>2. Seen!Forget
    BY <2>1, ViewKept DEF Seen!Forget, View
  <2>3. QED
    BY <2>2 DEF Seen!Next
<1>3. CASE Hit \/ Miss
  BY <1>3, RefineSearch
<1>4. CASE Add
  <2>1. request.scope \in DOMAIN View /\ request.name \in Names
    BY <1>4, AddTable, ViewOf
  <2>2. request.op \in {"LOCAL", "GLOBAL"}
    BY DEF SymInv, Requests
  <2> PICK t, o, y : t = request.scope /\ o = request.op /\ y = request.name
    OBVIOUS
  <2>3. Seen!Declare(t, o, y) /\ t \in DOMAIN View /\ o \in {"LOCAL", "GLOBAL"} /\ y \in Names
    BY <1>4, <2>1, <2>2, RefineAdd
  <2>4. \E s \in DOMAIN View, op \in {"LOCAL", "GLOBAL"}, x \in Names : Seen!Declare(s, op, x) \/ Seen!Find(s, op, x)
    BY <2>3
  <2>5. QED
    BY <2>4 DEF Seen!Next, View
<1>5. CASE UNCHANGED <<scopes, answer>>
  BY <1>5, ViewKept DEF Seen!vars, View
<1>6. CASE Grown
  BY <1>6, RefineGrown DEF Seen!vars, View
<1>7. QED
  BY <1>1, <1>2, <1>3, <1>4, <1>5, <1>6 DEF Next, Step, Declare, Find, Skip, Move, vars

\* A name means its innermost declaration in reach, before, while and after
\* tables grow, and is declared once, for all programs, names and hashes.
THEOREM SymTabRefines == Spec => ImplementsScopes
<1>1. Seen!Init /\ [][Seen!Next]_(Seen!vars) => ImplementsScopes
  BY DEF ImplementsScopes, Seen!Spec
<1>2. QED
  BY <1>1, RefineInit, RefineStep, MeantAlways, PTL DEF Spec
=============================================================================
