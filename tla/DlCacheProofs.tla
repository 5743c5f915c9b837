---------------------------- MODULE DlCacheProofs ----------------------------
(***************************************************************************)
(* That the cache of open libraries of back/dlcache.c keeps its promise,   *)
(* whatever the libraries, the hash function and the size it starts with,  *)
(* and whichever dlopen, dlsym and ffi_prep_cif fail: a library is opened  *)
(* once in a machine's life and closed once, and no descriptor is left.    *)
(***************************************************************************)
EXTENDS DlCache, TableProofs

(***************************************************************************)
(* The inductive invariant.  The properties leave out how many cells are   *)
(* in use, which bounds the table's filling; that a handle is that of its  *)
(* entry's library; what the larger table has during a move; and the       *)
(* relation the refinement rests on, which libraries are open: those with  *)
(* a handle in the cache, and the one that is being put in.                *)
(***************************************************************************)
CacheOK(t, n, k) ==
  /\ t \in Tables(n, Libs, Libs)
  /\ TableOK(t, n, hash)
  /\ \A c \in Cells(n) : t[c].value \in {t[c].name, NoName}
  /\ k = Used(t, n)

Cached(l)  == \E c \in Cells(size) : entries[c].value = l
IsOpen(l)  == Cached(l) \/ (doing = "add" /\ handle = l)
InCall     == doing \in {"prepare", "find", "call"} \/ (doing \in {"add", "grow"} /\ descriptors = 1)

Counts ==
  /\ CacheOK(entries, size, count)
  /\ doing \notin {"none", "grow"} => ~Crowded(count, size)
  /\ doing = "grow" => /\ CacheOK(grown, 2 * size, Used(entries, i))
                       /\ Copied(entries, i, grown, 2 * size)
  /\ doing # "grow" => i = 0

Requests ==
  /\ descriptors = IF InCall THEN 1 ELSE 0
  /\ doing = "add" => lib \notin NamesIn(entries, size)
  /\ doing \in {"add", "grow"} => handle = lib \/ (handle = NoName /\ descriptors = 0)
  /\ doing \in {"call", "grow"} /\ descriptors = 1 => handle \in Libs /\ Cached(handle)

Balance == \A l \in Libs : opened[l] = IF IsOpen(l) THEN 1 ELSE 0

DlInv == TypeOK /\ Counts /\ Requests /\ Balance

LEMMA Hash ==
  ASSUME TypeOK
  PROVE  hash \in [Libs -> Nat] /\ NoName \notin Libs
BY DlCacheAssumption DEF TypeOK

LEMMA NoTable ==
         /\ << >> \in Tables(0, Libs, Libs)
         /\ TableOK(<< >>, 0, hash)
         /\ Used(<< >>, 0) = 0
         /\ Cells(0) = {}
<1>1. Cells(0) = {} /\ 0 .. 0 - 1 = {}
  BY DEF Cells
<1>2. << >> \in Tables(0, Libs, Libs)
  BY <1>1 DEF Tables
<1>3. TableOK(<< >>, 0, hash)
  BY <1>1 DEF TableOK, Chained, Distinct
<1>4. Used(<< >>, 0) = 0
  BY <1>1, UsedNone
<1>5. QED
  BY <1>1, <1>2, <1>3, <1>4

LEMMA InitInv == Init => DlInv
<1> SUFFICES ASSUME Init PROVE DlInv
  OBVIOUS
<1>1. TypeOK
  BY NoTable DEF Init, TypeOK
<1>2. Counts
  BY NoTable DEF Init, Counts, CacheOK
<1>3. Requests /\ Balance
  BY NoTable DEF Init, Requests, Balance, InCall, IsOpen, Cached
<1>4. QED
  BY <1>1, <1>2, <1>3 DEF DlInv

-----------------------------------------------------------------------------
\* Steps that leave the tables alone.
SameTables == UNCHANGED <<hash, table, growth>>

LEMMA TablesKept ==
  ASSUME SameTables
  PROVE  /\ CacheOK(entries, size, count)' = CacheOK(entries, size, count)
         /\ CacheOK(grown, 2 * size, Used(entries, i))' = CacheOK(grown, 2 * size, Used(entries, i))
         /\ Copied(entries, i, grown, 2 * size)' = Copied(entries, i, grown, 2 * size)
         /\ NamesIn(entries, size)' = NamesIn(entries, size)
         /\ \A l : Cached(l)' = Cached(l)
BY DEF SameTables, table, growth, CacheOK, TableOK, Chained, Distinct, Used, UsedTo, Cells, Copied, NamesIn, Cached, Tables

\* A library that is not found is not open.
LEMMA MissIsClosed ==
  ASSUME DlInv, CacheMiss
  PROVE  lib \notin NamesIn(entries, size) /\ ~Cached(lib)
<1>1. /\ lib \in Libs /\ NotFound(entries, size, hash, lib) /\ size \in Nat \ {0} /\ NoName \notin Libs
      /\ CacheOK(entries, size, count) /\ hash \in [Libs -> Nat]
  BY Hash DEF DlInv, Counts, TypeOK, CacheMiss
<1>2. IsTableOf(entries, size, hash, Libs, Libs) /\ TableOK(entries, size, hash)
  BY <1>1 DEF CacheOK, IsTableOf
<1>3. lib \notin NamesIn(entries, size)
  BY <1>1, <1>2, NotFoundIsMissing
<1>4. QED
  BY <1>1, <1>3 DEF CacheOK, Cached, NamesIn, Cells

\* A step of a call between its additions.
LEMMA CallStep ==
  ASSUME DlInv, NEW l \in Libs, FuncFfi(l) \/ Prepare \/ CacheHit \/ CacheMiss \/ Call
  PROVE  DlInv'
<1>1. SameTables /\ TypeOK /\ Counts /\ Requests /\ Balance
  BY DEF DlInv, FuncFfi, Prepare, CacheHit, CacheMiss, Call, SameTables
<1>2. doing \in {"idle", "prepare", "find", "call"} /\ doing' \in {"idle", "prepare", "find", "call", "add"}
  BY DEF FuncFfi, Prepare, CacheHit, CacheMiss, Call, Finish
<1>3. Counts'
  BY <1>1, <1>2, TablesKept DEF Counts, SameTables, table, growth, Crowded
<1>4. /\ hash' = hash /\ entries' = entries /\ size' = size /\ count' = count /\ grown' = grown /\ i' = i
      /\ size # 0
  BY <1>1, <1>2 DEF SameTables, table, growth, TypeOK
<1>5. CASE FuncFfi(l)
  <2>1. /\ doing = "idle" /\ doing' = "prepare" /\ lib' = l /\ outcome' = "none"
        /\ descriptors' = descriptors + 1 /\ UNCHANGED <<handle, opened>>
    BY <1>5 DEF FuncFfi
  <2>2. descriptors = 0 /\ descriptors' = 1
    BY <1>1, <2>1 DEF Requests, InCall
  <2>3. TypeOK'
    BY <1>1, <1>4, <2>1, <2>2 DEF TypeOK
  <2>4. Requests' /\ Balance'
    BY <1>1, <2>1, <2>2, TablesKept DEF Requests, InCall, Balance, IsOpen
  <2>5. QED
    BY <1>3, <2>3, <2>4 DEF DlInv
<1>6. CASE Finish("failed") /\ UNCHANGED opened /\ doing \in {"prepare", "find", "call"}
  <2>1. /\ doing' = "idle" /\ lib' = NoName /\ handle' = NoName /\ outcome' = "failed"
        /\ descriptors' = descriptors - 1 /\ UNCHANGED opened
    BY <1>6 DEF Finish
  <2>2. descriptors = 1 /\ descriptors' = 0
    BY <1>1, <1>6, <2>1 DEF Requests, InCall
  <2>3. TypeOK'
    BY <1>1, <1>4, <2>1, <2>2 DEF TypeOK
  <2>4. Requests' /\ Balance'
    BY <1>1, <1>6, <2>1, <2>2, TablesKept DEF Requests, InCall, Balance, IsOpen
  <2>5. QED
    BY <1>3, <2>3, <2>4 DEF DlInv
<1>7. CASE Prepare
  <2>1. CASE doing' = "find" /\ UNCHANGED <<lib, handle, descriptors, outcome>>
    <3>1. doing = "prepare" /\ UNCHANGED opened
      BY <1>7 DEF Prepare
    <3>2. TypeOK'
      BY <1>1, <1>4, <2>1, <3>1 DEF TypeOK
    <3>3. Requests' /\ Balance'
      BY <1>1, <2>1, <3>1, TablesKept DEF Requests, InCall, Balance, IsOpen
    <3>4. QED
      BY <1>3, <3>2, <3>3 DEF DlInv
  <2>2. QED
    BY <1>6, <1>7, <2>1 DEF Prepare
<1>8. CASE CacheHit
  <2>1. PICK d \in 0 .. size - 1 :
          /\ StopsAt(entries, size, hash, lib, d)
          /\ EntryAt(entries, size, hash, lib, d).name = lib
          /\ IF EntryAt(entries, size, hash, lib, d).value = NoName
             THEN Finish("failed")
             ELSE /\ handle' = EntryAt(entries, size, hash, lib, d).value
                  /\ doing' = "call"
                  /\ UNCHANGED <<lib, descriptors, outcome>>
    BY <1>8 DEF CacheHit
  <2>2. doing = "find" /\ UNCHANGED opened
    BY <1>8 DEF CacheHit
  <2>3. CASE EntryAt(entries, size, hash, lib, d).value = NoName
    BY <1>6, <2>1, <2>2, <2>3
  <2>4. CASE EntryAt(entries, size, hash, lib, d).value # NoName
    <3>1. lib \in Libs /\ hash[lib] \in Nat /\ size \in Nat \ {0}
      BY <1>1, <1>4, <2>2, Hash DEF TypeOK
    <3> DEFINE c == Cell(hash, size, lib, d)
    <3>2. c \in Cells(size) /\ EntryAt(entries, size, hash, lib, d) = entries[c]
      BY <3>1, CellAt DEF Cells, EntryAt
    <3> HIDE DEF c
    <3>3. entries[c].name = lib /\ entries[c].value = lib /\ handle' = lib
      BY <1>1, <2>1, <2>4, <3>2 DEF Counts, CacheOK
    <3>4. Cached(lib)
      BY <3>2, <3>3 DEF Cached
    <3>5. doing' = "call" /\ UNCHANGED <<lib, descriptors, outcome>>
      BY <2>1, <2>4
    <3>6. TypeOK'
      BY <1>1, <1>4, <2>2, <3>1, <3>3, <3>5 DEF TypeOK
    <3>7. Requests' /\ Balance'
      BY <1>1, <2>2, <3>1, <3>3, <3>4, <3>5, TablesKept DEF Requests, InCall, Balance, IsOpen
    <3>8. QED
      BY <1>3, <3>6, <3>7 DEF DlInv
  <2>5. QED
    BY <2>3, <2>4
<1>9. CASE CacheMiss
  <2>1. doing = "find" /\ lib \in Libs /\ size \in Nat \ {0}
    BY <1>1, <1>4, <1>9 DEF CacheMiss, TypeOK
  <2>2. lib \notin NamesIn(entries, size) /\ ~Cached(lib)
    BY <1>9, MissIsClosed
  <2>3. CASE /\ handle' = lib /\ opened' = [opened EXCEPT ![lib] = @ + 1]
             /\ doing' = "add"
             /\ UNCHANGED <<lib, descriptors, outcome>>
    <3>2. descriptors = 1 /\ opened[lib] = 0 /\ opened \in [Libs -> Nat]
      BY <1>1, <2>1, <2>2 DEF Requests, InCall, Balance, IsOpen, TypeOK
    <3>3. TypeOK'
      BY <1>1, <1>4, <2>1, <2>3, <3>2 DEF TypeOK
    <3>4. Requests'
      BY <1>1, <2>1, <2>2, <2>3, <3>2, TablesKept DEF Requests, InCall
    <3>5. Balance'
      BY <1>1, <2>1, <2>3, <3>2, TablesKept DEF Balance, IsOpen
    <3>6. QED
      BY <1>3, <3>3, <3>4, <3>5 DEF DlInv
  <2>4. QED
    BY <1>6, <1>9, <2>1, <2>3 DEF CacheMiss
<1>10. CASE Call
  <2>1. PICK out \in {"failed", handle} : Finish(out)
    BY <1>10 DEF Call
  <2>2. /\ doing = "call" /\ doing' = "idle" /\ lib' = NoName /\ handle' = NoName /\ outcome' = out
        /\ descriptors' = descriptors - 1 /\ UNCHANGED opened
    BY <1>10, <2>1 DEF Call, Finish
  <2>3. descriptors = 1 /\ descriptors' = 0 /\ handle \in Libs
    BY <1>1, <2>2 DEF Requests, InCall
  <2>4. TypeOK'
    BY <1>1, <1>4, <2>2, <2>3 DEF TypeOK
  <2>5. Requests' /\ Balance'
    BY <1>1, <2>2, <2>3, TablesKept DEF Requests, InCall, Balance, IsOpen
  <2>6. QED
    BY <1>3, <2>4, <2>5 DEF DlInv
<1>11. QED
  BY <1>5, <1>7, <1>8, <1>9, <1>10

-----------------------------------------------------------------------------
\* A cache: how many there are of each library's handle.
LEMMA UsesOf ==
  ASSUME DlInv, size \in Nat \ {0}, NEW l \in Libs
  PROVE  /\ Cached(l) => Cardinality(Uses(l)) = 1
         /\ ~Cached(l) => Cardinality(Uses(l)) = 0
<1>1. /\ \A c \in Cells(size) : entries[c].value \in {entries[c].name, NoName}
      /\ Distinct(entries, size) /\ l # NoName
  BY Hash DEF DlInv, Counts, CacheOK, TableOK
<1>2. ASSUME Cached(l) PROVE Cardinality(Uses(l)) = 1
  <2>1. PICK c \in Cells(size) : entries[c].value = l
    BY <1>2 DEF Cached
  <2>2. Uses(l) = {c}
    BY <1>1, <2>1 DEF Uses, Cells, Distinct
  <2>3. QED
    BY <2>2, FS_Singleton
<1>3. ASSUME ~Cached(l) PROVE Cardinality(Uses(l)) = 0
  <2>1. Uses(l) = {}
    BY <1>3 DEF Uses, Cells, Cached
  <2>2. QED
    BY <2>1, FS_EmptySet
<1>4. QED
  BY <1>2, <1>3

LEMMA VmNewStep ==
  ASSUME DlInv, VmNew
  PROVE  DlInv'
<1>1. /\ TypeOK /\ Counts /\ Requests /\ Balance /\ Host \in Libs /\ NoName \notin Libs
      /\ CacheSize \in Nat \ {0}
  BY DlCacheAssumption DEF DlInv
<1>2. /\ doing = "none" /\ doing' = "add" /\ lib' = Host /\ outcome' = "none"
      /\ entries' = NoEntries(CacheSize) /\ size' = CacheSize /\ count' = 0
      /\ UNCHANGED <<hash, grown, i, descriptors>>
      /\ Dlopen(Host)
  BY DEF VmNew, growth
<1>3. i = 0 /\ size = 0 /\ descriptors = 0
  BY <1>1, <1>2 DEF TypeOK, Counts, Requests, InCall
<1>4. /\ NoEntries(CacheSize) \in Tables(CacheSize, Libs, Libs)
      /\ TableOK(NoEntries(CacheSize), CacheSize, hash)
      /\ \A c \in Cells(CacheSize) : NoEntries(CacheSize)[c] = NoEntry /\ NoEntries(CacheSize)[c].name = NoName
      /\ NamesIn(NoEntries(CacheSize), CacheSize) = {}
  BY <1>1, EmptyTable
<1>5. Used(NoEntries(CacheSize), CacheSize) = 0
  BY <1>1, <1>4, UsedNone
<1>6. \A c \in Cells(CacheSize) : NoEntries(CacheSize)[c].value = NoName
  BY <1>4 DEF NoEntry, Entry
<1>7. \A l \in Libs : opened[l] = 0 /\ ~Cached(l)'
  <2>1. ASSUME NEW l \in Libs PROVE opened[l] = 0
    BY <1>1, <1>2, <1>3 DEF Balance, IsOpen, Cached, Cells
  <2>2. QED
    BY <1>1, <1>2, <1>6, <2>1 DEF Cached
<1>8. \/ handle' = Host /\ opened' = [opened EXCEPT ![Host] = @ + 1]
      \/ handle' = NoName /\ UNCHANGED opened
  BY <1>2 DEF Dlopen
<1>9. TypeOK'
  BY <1>1, <1>2, <1>3, <1>4, <1>8 DEF TypeOK
<1>10. Counts'
  <2>1. ~Crowded(0, CacheSize)
    BY <1>1 DEF Crowded
  <2>2. CacheOK(entries, size, count)'
    BY <1>2, <1>4, <1>5, <1>6 DEF CacheOK, TableOK, Chained, Distinct
  <2>3. QED
    BY <1>2, <1>3, <2>1, <2>2 DEF Counts
<1>11. Requests'
  BY <1>2, <1>3, <1>4, <1>8 DEF Requests, InCall
<1>12. Balance'
  BY <1>1, <1>2, <1>7, <1>8 DEF Balance, IsOpen, TypeOK
<1>13. QED
  BY <1>9, <1>10, <1>11, <1>12 DEF DlInv

LEMMA VmDeleteStep ==
  ASSUME DlInv, VmDelete
  PROVE  DlInv' /\ \A l \in Libs : opened'[l] = 0
<1>1. TypeOK /\ Counts /\ Requests /\ Balance
  BY DEF DlInv
<1>2. /\ doing = "idle" /\ doing' = "none" /\ outcome' = "none"
      /\ entries' = << >> /\ size' = 0 /\ count' = 0
      /\ opened' = [l \in Libs |-> opened[l] - Cardinality(Uses(l))]
      /\ UNCHANGED <<hash, lib, handle, grown, i, descriptors>>
  BY DEF VmDelete, growth
<1>3. size \in Nat \ {0} /\ i = 0 /\ descriptors = 0
  BY <1>1, <1>2 DEF TypeOK, Counts, Requests, InCall
<1>4. ASSUME NEW l \in Libs PROVE opened'[l] = 0
  <2>1. opened[l] = IF Cached(l) THEN 1 ELSE 0
    BY <1>1, <1>2 DEF Balance, IsOpen
  <2>2. QED
    BY <1>2, <1>3, <2>1, UsesOf
<1>5. opened' \in [Libs -> Nat]
  BY <1>2, <1>4
<1>6. TypeOK'
  BY <1>1, <1>2, <1>3, <1>5, NoTable DEF TypeOK
<1>7. Counts'
  <2>1. CacheOK(entries, size, count)'
    BY <1>2, NoTable DEF CacheOK, TableOK, Chained, Distinct
  <2>2. QED
    BY <1>2, <1>3, <2>1 DEF Counts
<1>8. Requests' /\ Balance'
  BY <1>2, <1>3, <1>4, NoTable DEF Requests, InCall, Balance, IsOpen, Cached
<1>9. QED
  BY <1>4, <1>6, <1>7, <1>8 DEF DlInv

-----------------------------------------------------------------------------
\* The table after an addition.
LEMMA AddDlTable ==
  ASSUME DlInv, AddDl
  PROVE  /\ size \in Nat \ {0} /\ size' = size /\ hash' = hash /\ doing = "add" /\ i = 0
         /\ CacheOK(entries, size, count)' /\ count \in Nat /\ count' = count + 1
         /\ \A l \in Libs : Cached(l)' <=> Cached(l) \/ handle = l
<1>1. /\ doing = "add" /\ count' = count + 1 /\ size' = size /\ hash' = hash
  BY DEF AddDl
<1>2. PICK d \in Cells(size) : /\ FreeAt(entries, size, hash, lib, d)
                               /\ entries' = Put(entries, size, hash, lib, d, handle)
  BY DEF AddDl, Cells
<1>3. /\ TypeOK /\ lib \in Libs /\ size \in Nat \ {0} /\ i = 0 /\ count \in Nat
      /\ CacheOK(entries, size, count) /\ lib \notin NamesIn(entries, size)
      /\ handle \in {lib, NoName} /\ NoName \notin Libs /\ hash \in [Libs -> Nat]
  BY <1>1, Hash DEF DlInv, TypeOK, Counts, Requests
<1>4. IsTableOf(entries, size, hash, Libs, Libs) /\ TableOK(entries, size, hash)
  BY <1>3 DEF CacheOK, IsTableOf
<1> DEFINE a == Cell(hash, size, lib, d)
<1>5. /\ entries' \in Tables(size, Libs, Libs)
      /\ a \in Cells(size) /\ entries[a].name = NoName
      /\ entries'[a] = Entry(lib, handle) /\ \A c \in Cells(size) \ {a} : entries'[c] = entries[c]
      /\ TableOK(entries', size, hash)
  <2>1. handle \in Libs \cup {NoName}
    BY <1>3
  <2>2. QED
    BY <1>2, <1>3, <1>4, <2>1, PutTable
<1> HIDE DEF a
<1>6. entries'[a].name = lib /\ entries'[a].value = handle /\ lib # NoName
  BY <1>3, <1>5 DEF Entry
<1>7. Used(entries', size) = Used(entries, size) + 1
  BY <1>3, <1>5, <1>6, UsedMore
<1>8. \A c \in Cells(size) : entries'[c].value \in {entries'[c].name, NoName}
  BY <1>3, <1>5, <1>6 DEF CacheOK
<1>9. CacheOK(entries', size, count + 1)
  BY <1>3, <1>5, <1>7, <1>8 DEF CacheOK
<1>10. CacheOK(entries, size, count)' = CacheOK(entries', size, count + 1)
  BY <1>1 DEF CacheOK, TableOK, Chained, Distinct
<1>11. ASSUME NEW l \in Libs PROVE Cached(l)' <=> Cached(l) \/ handle = l
  <2>1. entries[a].value # l
    BY <1>3, <1>5 DEF CacheOK
  <2>2. QED
    BY <1>1, <1>5, <1>6, <2>1 DEF Cached
<1>12. QED
  BY <1>1, <1>3, <1>9, <1>10, <1>11

LEMMA AddDlStep ==
  ASSUME DlInv, AddDl
  PROVE  DlInv'
<1>1. TypeOK /\ Counts /\ Requests /\ Balance /\ NoName \notin Libs
  BY DlCacheAssumption DEF DlInv
<1>2. /\ size \in Nat \ {0} /\ size' = size /\ hash' = hash /\ doing = "add" /\ i = 0
      /\ CacheOK(entries, size, count)' /\ count \in Nat /\ count' = count + 1
      /\ \A l \in Libs : Cached(l)' <=> Cached(l) \/ handle = l
  BY AddDlTable
<1>3. UNCHANGED <<i, opened, descriptors, outcome>> /\ lib \in Libs
  BY <1>1, <1>2 DEF AddDl, TypeOK
<1>4. /\ entries' \in Tables(size, Libs, Libs) /\ TableOK(entries', size, hash)
      /\ count + 1 = Used(entries', size)
  BY <1>2 DEF CacheOK, TableOK, Chained, Distinct
<1>5. handle \in {lib, NoName} /\ (handle = lib \/ descriptors = 0) /\ descriptors \in {0, 1}
  BY <1>1, <1>2 DEF Requests, TypeOK
<1>6. \/ /\ Crowded(count + 1, size) /\ doing' = "grow"
         /\ grown' = NoEntries(2 * size) /\ UNCHANGED <<lib, handle>>
      \/ /\ ~Crowded(count + 1, size) /\ descriptors = 0 /\ doing' = "idle"
         /\ lib' = NoName /\ handle' = NoName /\ UNCHANGED grown
      \/ /\ ~Crowded(count + 1, size) /\ descriptors = 1 /\ doing' = "call"
         /\ UNCHANGED <<lib, handle, grown>>
  BY <1>5 DEF AddDl, Added
<1>7. Balance'
  BY <1>1, <1>2, <1>3, <1>6 DEF Balance, IsOpen
<1>8. CASE doing' = "grow"
  <2>1. 2 * size \in Nat \ {0}
    BY <1>2
  <2>2. /\ NoEntries(2 * size) \in Tables(2 * size, Libs, Libs)
        /\ TableOK(NoEntries(2 * size), 2 * size, hash)
        /\ \A c \in Cells(2 * size) : NoEntries(2 * size)[c] = NoEntry /\ NoEntries(2 * size)[c].name = NoName
    BY <2>1, EmptyTable
  <2>3. Used(NoEntries(2 * size), 2 * size) = 0 /\ Used(entries', 0) = 0
    <3>1. \A c \in Cells(0) : entries'[c].name = NoName
      BY DEF Cells
    <3>2. QED
      BY <2>1, <2>2, <3>1, UsedNone
  <2>4. Copied(entries', 0, NoEntries(2 * size), 2 * size)
    BY <2>1, CopiedNone
  <2>5. grown' = NoEntries(2 * size) /\ UNCHANGED <<lib, handle>>
    BY <1>6, <1>8
  <2>6. TypeOK'
    BY <1>1, <1>2, <1>3, <1>4, <1>8, <2>2, <2>5 DEF TypeOK
  <2>7. CacheOK(NoEntries(2 * size), 2 * size, 0)
    BY <2>2, <2>3 DEF CacheOK, NoEntry, Entry
  <2>8. /\ CacheOK(grown, 2 * size, Used(entries, i))' = CacheOK(NoEntries(2 * size), 2 * size, 0)
        /\ Copied(entries, i, grown, 2 * size)' = Copied(entries', 0, NoEntries(2 * size), 2 * size)
    BY <1>2, <1>3, <2>3, <2>5 DEF CacheOK, TableOK, Chained, Distinct, Copied, Used, UsedTo
  <2>9. Counts'
    BY <1>2, <1>3, <1>8, <2>4, <2>7, <2>8 DEF Counts
  <2>10. Requests'
    BY <1>1, <1>2, <1>3, <1>5, <1>8, <2>5 DEF Requests, InCall
  <2>11. QED
    BY <1>7, <2>6, <2>9, <2>10 DEF DlInv
<1>9. CASE doing' \in {"idle", "call"}
  <2>1. TypeOK'
    BY <1>1, <1>2, <1>3, <1>4, <1>6, <1>9 DEF TypeOK
  <2>2. Counts'
    BY <1>2, <1>3, <1>6, <1>9 DEF Counts
  <2>3. Requests'
    BY <1>1, <1>2, <1>3, <1>5, <1>6, <1>9 DEF Requests, InCall
  <2>4. QED
    BY <1>7, <2>1, <2>2, <2>3 DEF DlInv
<1>10. QED
  BY <1>6, <1>8, <1>9

-----------------------------------------------------------------------------
\* A step that moves one entry leaves everything but the larger table alone.
LEMMA MovedOne ==
  ASSUME DlInv, doing = "grow", i < size, i' = i + 1, UNCHANGED <<hash, table, doing, lib, handle, opened, descriptors, outcome>>,
         grown' \in Tables(2 * size, Libs, Libs),
         CacheOK(grown', 2 * size, Used(entries, i + 1)), Copied(entries, i + 1, grown', 2 * size)
  PROVE  DlInv'
<1>1. TypeOK /\ Counts /\ Requests /\ Balance /\ UNCHANGED <<entries, size, count>>
  BY DEF DlInv, table
<1>2. size \in Nat /\ i \in Nat
  BY <1>1 DEF TypeOK
<1>3. TypeOK'
  BY <1>1, <1>2 DEF TypeOK
<1>4. /\ CacheOK(entries, size, count)' = CacheOK(entries, size, count)
      /\ CacheOK(grown, 2 * size, Used(entries, i))' = CacheOK(grown', 2 * size, Used(entries, i + 1))
      /\ Copied(entries, i, grown, 2 * size)' = Copied(entries, i + 1, grown', 2 * size)
      /\ \A l : Cached(l)' = Cached(l)
  BY <1>1 DEF CacheOK, TableOK, Chained, Distinct, Used, UsedTo, Cells, Copied, Cached, Tables
<1>5. Counts'
  BY <1>1, <1>4 DEF Counts
<1>6. Requests' /\ Balance'
  BY <1>1, <1>4 DEF Requests, Balance, InCall, IsOpen
<1>7. QED
  BY <1>3, <1>5, <1>6 DEF DlInv

\* What a growing table is.
LEMMA Growing ==
  ASSUME DlInv, doing = "grow"
  PROVE  /\ size \in Nat \ {0} /\ 2 * size \in Nat \ {0} /\ i \in 0 .. size
         /\ IsTableOf(entries, size, hash, Libs, Libs) /\ TableOK(entries, size, hash)
         /\ IsTableOf(grown, 2 * size, hash, Libs, Libs) /\ TableOK(grown, 2 * size, hash)
         /\ CacheOK(entries, size, count) /\ CacheOK(grown, 2 * size, Used(entries, i))
         /\ Copied(entries, i, grown, 2 * size)
<1>1. TypeOK /\ Counts
  BY DEF DlInv
<1>2. size \in Nat \ {0} /\ 2 * size \in Nat \ {0} /\ i \in 0 .. size
  BY <1>1 DEF TypeOK
<1>3. hash \in [Libs -> Nat] /\ NoName \notin Libs
  BY <1>1, Hash
<1>4. QED
  BY <1>1, <1>2, <1>3 DEF Counts, CacheOK, IsTableOf

LEMMA SkipStep ==
  ASSUME DlInv, Skip
  PROVE  DlInv'
<1>1. doing = "grow" /\ i < size /\ entries[i].name = NoName /\ i' = i + 1 /\ grown' = grown
  BY DEF Skip
<1>2. i \in Nat /\ CacheOK(grown, 2 * size, Used(entries, i)) /\ Copied(entries, i, grown, 2 * size)
  BY <1>1, Growing
<1>3. Used(entries, i + 1) = Used(entries, i)
  BY <1>1, <1>2, UsedNext
<1>4. Copied(entries, i + 1, grown, 2 * size)
  BY <1>1, <1>2, CopiedSkip
<1>5. CacheOK(grown', 2 * size, Used(entries, i + 1)) /\ grown' \in Tables(2 * size, Libs, Libs)
  BY <1>1, <1>2, <1>3 DEF CacheOK
<1>6. QED
  BY <1>1, <1>4, <1>5, MovedOne DEF Skip

LEMMA MoveStep ==
  ASSUME DlInv, Move
  PROVE  DlInv'
<1> DEFINE x == entries[i].name
           v == entries[i].value
<1>1. doing = "grow" /\ i < size /\ x # NoName /\ i' = i + 1
  BY DEF Move
<1> PICK n : n = 2 * size
  OBVIOUS
<1>2. PICK d \in Cells(n) : /\ FreeAt(grown, n, hash, x, d)
                                   /\ grown' = Put(grown, n, hash, x, d, v)
  BY DEF Move, Cells
<1>3. /\ size \in Nat \ {0} /\ n \in Nat \ {0} /\ i \in Cells(size) /\ i \in Nat
      /\ IsTableOf(entries, size, hash, Libs, Libs) /\ TableOK(entries, size, hash)
      /\ IsTableOf(grown, n, hash, Libs, Libs) /\ TableOK(grown, n, hash)
      /\ CacheOK(entries, size, count) /\ CacheOK(grown, n, Used(entries, i))
      /\ Copied(entries, i, grown, n)
  BY <1>1, Growing DEF Cells
<1>4. /\ entries[i] \in [name : Libs \cup {NoName}, value : Libs \cup {NoName}]
      /\ v \in {x, NoName}
  BY <1>3 DEF IsTableOf, Tables, Cells, CacheOK
<1>5. x \in Libs /\ v \in Libs \cup {NoName} /\ entries[i] = Entry(x, v)
  BY <1>1, <1>4 DEF Entry
<1>6. x \notin NamesIn(grown, n)
  BY <1>1, <1>3, NotMovedYet
<1> HIDE DEF x, v
<1> DEFINE a == Cell(hash, n, x, d)
<1>7. /\ grown' \in Tables(n, Libs, Libs)
      /\ a \in Cells(n) /\ grown[a].name = NoName
      /\ grown'[a] = Entry(x, v) /\ \A c \in Cells(n) \ {a} : grown'[c] = grown[c]
      /\ TableOK(grown', n, hash)
  BY <1>2, <1>3, <1>5, <1>6, PutTable
<1> HIDE DEF a
<1>8. grown'[a].name = x /\ grown'[a].value = v /\ grown'[a] = entries[i]
  BY <1>5, <1>7 DEF Entry
<1>9. Used(grown', n) = Used(grown, n) + 1
  BY <1>1, <1>3, <1>7, <1>8, UsedMore
<1>10. Used(entries, i + 1) = Used(entries, i) + 1
  BY <1>1, <1>3, UsedNext DEF x
<1>11. \A c \in Cells(n) : grown'[c].value \in {grown'[c].name, NoName}
  BY <1>3, <1>4, <1>7, <1>8 DEF CacheOK
<1>12. CacheOK(grown', n, Used(entries, i + 1))
  BY <1>3, <1>7, <1>9, <1>10, <1>11 DEF CacheOK
<1>13. Copied(entries, i + 1, grown', n)
  BY <1>3, <1>7, <1>8, CopiedMove
<1>14. QED
  <2>1. /\ grown' \in Tables(2 * size, Libs, Libs)
        /\ CacheOK(grown', 2 * size, Used(entries, i + 1)) /\ Copied(entries, i + 1, grown', 2 * size)
    BY <1>7, <1>12, <1>13
  <2>2. QED
    BY <1>1, <2>1, MovedOne DEF Move

LEMMA GrownStep ==
  ASSUME DlInv, Grown
  PROVE  DlInv'
<1>1. /\ doing = "grow" /\ i = size /\ entries' = grown /\ size' = 2 * size /\ grown' = << >> /\ i' = 0
      /\ UNCHANGED <<hash, count, opened, descriptors, outcome>> /\ Added
  BY DEF Grown
<1> PICK n : n = 2 * size
  OBVIOUS
<1>2. /\ size \in Nat \ {0} /\ n \in Nat \ {0} /\ count = Used(entries, size)
      /\ grown \in Tables(n, Libs, Libs)
      /\ CacheOK(entries, size, count) /\ CacheOK(grown, n, count)
      /\ Copied(entries, size, grown, n) /\ NoName \notin Libs
  BY <1>1, Growing DEF CacheOK, IsTableOf
<1>3. /\ TypeOK /\ Counts /\ Requests /\ Balance /\ lib \in Libs /\ count \in Nat
  BY <1>1 DEF DlInv, TypeOK
<1>4. /\ descriptors \in {0, 1} /\ (handle = lib \/ (handle = NoName /\ descriptors = 0))
      /\ (descriptors = 1 => Cached(handle))
  BY <1>1, <1>3 DEF Requests, TypeOK
<1>5. \/ /\ descriptors = 0 /\ doing' = "idle" /\ lib' = NoName /\ handle' = NoName
      \/ /\ descriptors = 1 /\ doing' = "call" /\ UNCHANGED <<lib, handle>>
  BY <1>1, <1>4 DEF Added
<1>6. ASSUME NEW l \in Libs PROVE Cached(l)' <=> Cached(l)
  <2>1. ASSUME NEW c \in Cells(size), entries[c].value = l
        PROVE  \E b \in Cells(n) : grown[b].value = l
    <3>1. entries[c].name # NoName
      BY <1>2, <2>1 DEF CacheOK
    <3>2. QED
      BY <1>2, <2>1, <3>1 DEF Copied
  <2>2. ASSUME NEW b \in Cells(n), grown[b].value = l
        PROVE  \E c \in Cells(size) : entries[c].value = l
    <3>1. grown[b].name # NoName
      BY <1>2, <2>2 DEF CacheOK
    <3>2. QED
      BY <1>2, <2>2, <3>1 DEF Copied
  <2>3. QED
    BY <1>1, <2>1, <2>2 DEF Cached
<1>7. ~Crowded(count, n)
  BY <1>2, UsedBound, ThreeQuarters
<1>8. TypeOK'
  BY <1>1, <1>2, <1>3, <1>4, <1>5 DEF TypeOK
<1>9. Counts'
  <2>1. CacheOK(entries, size, count)' = CacheOK(grown, n, count)
    BY <1>1 DEF CacheOK, TableOK, Chained, Distinct
  <2>2. QED
    BY <1>1, <1>2, <1>5, <1>7, <2>1 DEF Counts
<1>10. Requests'
  BY <1>1, <1>3, <1>4, <1>5, <1>6 DEF Requests, InCall
<1>11. Balance'
  BY <1>1, <1>3, <1>5, <1>6 DEF Balance, IsOpen
<1>12. QED
  BY <1>8, <1>9, <1>10, <1>11 DEF DlInv

LEMMA StutterStep ==
  ASSUME DlInv, UNCHANGED vars
  PROVE  DlInv'
<1>1. /\ SameTables /\ TypeOK /\ Counts /\ Requests /\ Balance
      /\ UNCHANGED <<hash, entries, size, count, doing, lib, handle, grown, i, opened, descriptors, outcome>>
  BY DEF DlInv, vars, table, growth, SameTables
<1>2. TypeOK' /\ Counts'
  BY <1>1, TablesKept DEF TypeOK, Counts
<1>3. Requests' /\ Balance'
  BY <1>1, TablesKept DEF Requests, Balance, InCall, IsOpen
<1>4. QED
  BY <1>2, <1>3 DEF DlInv

LEMMA StepInv == DlInv /\ [Next]_vars => DlInv'
BY CallStep, VmNewStep, VmDeleteStep, AddDlStep, SkipStep, MoveStep, GrownStep, StutterStep, DlCacheAssumption DEF Next

LEMMA Invariance == Spec => []DlInv
BY InitInv, StepInv, PTL DEF Spec

-----------------------------------------------------------------------------
\* Types, for all libraries, hash functions and sizes of the cache.
THEOREM DlCacheTypes == Spec => []TypeOK
<1>1. DlInv => TypeOK
  BY DEF DlInv
<1>2. QED
  BY <1>1, Invariance, PTL

\* The cache and the table it grows into find what was put in, once, and an
\* addition finds a free cell.
LEMMA InvTables == DlInv => TablesOK
<1> SUFFICES ASSUME DlInv PROVE TablesOK
  OBVIOUS
<1>1. TypeOK /\ Counts /\ CacheOK(entries, size, count)
  BY DEF DlInv, Counts
<1>2. ASSUME doing = "add" PROVE ~Full(entries, size)
  <2>1. size \in Nat \ {0} /\ count \in Nat /\ ~Crowded(count, size) /\ count = Used(entries, size)
    BY <1>1, <1>2 DEF TypeOK, Counts, CacheOK
  <2>2. QED
    BY <2>1, ThreeQuarters, RoomLeft
<1>3. ASSUME doing = "grow" PROVE TableOK(grown, 2 * size, hash) /\ ~Full(grown, 2 * size)
  <2> PICK n : n = 2 * size
    OBVIOUS
  <2>1. /\ size \in Nat \ {0} /\ n \in Nat \ {0} /\ i \in 0 .. size
        /\ TableOK(grown, n, hash) /\ Used(grown, n) = Used(entries, i)
    BY <1>3, Growing DEF CacheOK
  <2>2. Used(entries, i) \in 0 .. i
    BY <2>1, UsedBound
  <2>3. Used(grown, n) < n
    BY <2>1, <2>2
  <2>4. QED
    BY <2>1, <2>3, RoomLeft
<1>4. QED
  BY <1>1, <1>2, <1>3 DEF TablesOK, CacheOK

THEOREM DlCacheTables == Spec => []TablesOK
BY Invariance, InvTables, PTL

-----------------------------------------------------------------------------
(***************************************************************************)
(* The refinement.  What is open is known from the cache, so a library is  *)
(* opened at a miss only when it is not open (NotFoundIsMissing and        *)
(* Balance), a call ends in a library that is open once (Requests), and    *)
(* the machine's end leaves nothing open (VmDeleteStep).                   *)
(***************************************************************************)
LEMMA RefineInit == Init => Foreign!Init
BY DEF Init, Foreign!Init, Foreign!Nothing

LEMMA RefineVmNew ==
  ASSUME DlInv, VmNew
  PROVE  Foreign!Start
<1>1. TypeOK /\ doing = "none" /\ doing' = "add" /\ size = 0 /\ Host \in Libs
  BY DlCacheAssumption DEF DlInv, VmNew, TypeOK
<1>2. opened = Foreign!Nothing
  <2>1. \A l \in Libs : opened[l] = 0
    BY <1>1 DEF DlInv, Balance, IsOpen, Cached, Cells
  <2>2. QED
    BY <1>1, <2>1 DEF TypeOK, Foreign!Nothing
<1>3. \E k \in {0, 1} : opened' = [Foreign!Nothing EXCEPT ![Host] = k]
  <2>1. CASE opened' = [opened EXCEPT ![Host] = @ + 1]
    BY <1>1, <1>2, <2>1 DEF Foreign!Nothing
  <2>2. CASE opened' = opened
    <3>1. opened' = [Foreign!Nothing EXCEPT ![Host] = 0]
      BY <1>1, <1>2, <2>2 DEF Foreign!Nothing
    <3>2. QED
      BY <3>1
  <2>3. QED
    BY <2>1, <2>2 DEF VmNew, Dlopen
<1>4. QED
  BY <1>1, <1>3 DEF VmNew, Foreign!Start

LEMMA RefineVmDelete ==
  ASSUME DlInv, VmDelete
  PROVE  Foreign!Stop
<1>1. \A l \in Libs : opened'[l] = 0
  BY VmDeleteStep
<1>2. opened' = Foreign!Nothing
  BY <1>1 DEF VmDelete, Foreign!Nothing
<1>3. descriptors = 0
  BY DEF DlInv, Requests, InCall, VmDelete
<1>4. QED
  BY <1>2, <1>3 DEF VmDelete, Foreign!Stop

\* A call that ends before it is made, and one that ends in a library.
LEMMA RefineFail ==
  ASSUME DlInv, doing \in {"prepare", "find", "call"}, Finish("failed"), UNCHANGED opened
  PROVE  Foreign!Fail
BY DEF DlInv, Requests, InCall, Finish, Foreign!Fail

LEMMA RefineCallStep ==
  ASSUME DlInv, NEW l \in Libs, FuncFfi(l) \/ Prepare \/ CacheHit \/ CacheMiss \/ Call
  PROVE  [Foreign!Next]_(Foreign!vars)
<1>1. CASE FuncFfi(l)
  <2>1. descriptors = 0
    BY <1>1 DEF DlInv, Requests, InCall, FuncFfi
  <2>2. Foreign!Begin
    BY <1>1, <2>1 DEF FuncFfi, Foreign!Begin
  <2>3. QED
    BY <2>2 DEF Foreign!Next
<1>2. CASE Prepare
  <2>1. \/ doing = "prepare" /\ doing' = "find" /\ UNCHANGED <<opened, descriptors, outcome>>
        \/ doing = "prepare" /\ Finish("failed") /\ UNCHANGED opened
    BY <1>2 DEF Prepare
  <2>2. QED
    BY <2>1, RefineFail DEF Foreign!Next, Foreign!vars
<1>3. CASE CacheHit
  <2>1. \/ doing = "find" /\ doing' = "call" /\ UNCHANGED <<opened, descriptors, outcome>>
        \/ doing = "find" /\ Finish("failed") /\ UNCHANGED opened
    BY <1>3 DEF CacheHit
  <2>2. QED
    BY <2>1, RefineFail DEF Foreign!Next, Foreign!vars
<1>4. CASE CacheMiss
  <2>1. \/ /\ doing = "find" /\ doing' = "add" /\ opened' = [opened EXCEPT ![lib] = @ + 1]
           /\ UNCHANGED <<descriptors, outcome>>
        \/ doing = "find" /\ Finish("failed") /\ UNCHANGED opened
    BY <1>4 DEF CacheMiss
  <2>2. CASE doing = "find" /\ doing' = "add" /\ opened' = [opened EXCEPT ![lib] = @ + 1]
             /\ UNCHANGED <<descriptors, outcome>>
    <3>1. lib \in Libs /\ descriptors = 1
      BY <2>2 DEF DlInv, TypeOK, Requests, InCall
    <3>2. ~Cached(lib)
      BY <1>4, <2>2, MissIsClosed
    <3>3. opened[lib] = 0 /\ opened \in [Libs -> Nat]
      BY <2>2, <3>1, <3>2 DEF DlInv, Balance, IsOpen, TypeOK
    <3>4. Foreign!Open(lib)
      BY <2>2, <3>1, <3>3 DEF Foreign!Open
    <3>5. QED
      BY <3>1, <3>4 DEF Foreign!Next
  <2>3. QED
    BY <2>1, <2>2, RefineFail DEF Foreign!Next
<1>5. CASE Call
  <2>1. /\ doing = "call" /\ (Finish("failed") \/ Finish(handle)) /\ UNCHANGED opened
    BY <1>5 DEF Call
  <2>2. CASE Finish(handle)
    <3>1. descriptors = 1 /\ handle \in Libs /\ opened[handle] = 1
      BY <2>1 DEF DlInv, Requests, InCall, Balance, IsOpen
    <3>2. Foreign!Succeed(handle)
      BY <2>1, <2>2, <3>1 DEF Finish, Foreign!Succeed
    <3>3. QED
      BY <3>1, <3>2 DEF Foreign!Next
  <2>3. QED
    BY <2>1, <2>2, RefineFail DEF Foreign!Next
<1>6. QED
  BY <1>1, <1>2, <1>3, <1>4, <1>5

\* The steps that keep the cache do not show.
LEMMA RefineHidden ==
  ASSUME DlInv, AddDl \/ Skip \/ Move \/ Grown \/ UNCHANGED vars
  PROVE  UNCHANGED Foreign!vars
<1>1. UNCHANGED <<opened, descriptors, outcome>>
  BY DEF AddDl, Skip, Move, Grown, vars
<1>2. (doing # "none") = (doing' # "none")
  BY DEF AddDl, Skip, Move, Grown, Added, vars
<1>3. QED
  BY <1>1, <1>2 DEF Foreign!vars

LEMMA RefineStep == DlInv /\ [Next]_vars => [Foreign!Next]_(Foreign!vars)
BY RefineVmNew, RefineVmDelete, RefineCallStep, RefineHidden, DlCacheAssumption DEF Next, Foreign!Next

\* Each call opens its library at most once and leaves no descriptor, and each
\* machine closes what it opened, for all libraries and whatever fails.
THEOREM DlCacheRefines == Spec => ImplementsLibraries
<1>1. Foreign!Init /\ [][Foreign!Next]_(Foreign!vars) => ImplementsLibraries
  BY DEF ImplementsLibraries, Foreign!Spec
<1>2. QED
  BY <1>1, RefineInit, RefineStep, Invariance, PTL DEF Spec
=============================================================================
