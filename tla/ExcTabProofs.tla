---------------------------- MODULE ExcTabProofs ----------------------------
(***************************************************************************)
(* That the binary search of back/exctab.c finds the right handler in a    *)
(* table of any size, and that the table never runs out of room.           *)
(***************************************************************************)
EXTENDS ExcTab, TLAPS

LEMMA InitInv == Init => ExcTabInv
<1> USE ExcTabAssumption DEF Init
<1>1. Init => TypeOK
  BY DEF TypeOK, TabEntry, Uint, Ip, Sentinel
<1>2. Init => RoomForNext /\ Sorted /\ SearchInv
  BY DEF RoomForNext, Sorted, SearchInv
<1>3. QED
  BY <1>1, <1>2 DEF ExcTabInv

LEMMA Below ==
  ASSUME NEW n \in Nat, NEW i \in Nat, i < n
  PROVE  i \in 0 .. n - 1
OBVIOUS

\* What an insertion leaves: the old entries, the new one, the sentinel.
Written(b, h) ==
  /\ count' = count + 1 /\ count \in Nat /\ count' <= MaxBlocks
  /\ size' \in Nat /\ count + 2 < size'
  /\ tab' \in [0 .. size' - 1 -> TabEntry]
  /\ tab'[count] = [block |-> b, handler |-> h]
  /\ tab'[count + 1] = Sentinel
  /\ \A i \in 0 .. count - 1 : tab'[i] = tab[i]

LEMMA InsertWrites ==
  ASSUME ExcTabInv, NEW b \in Ip, NEW h \in Ip, Insert(b, h)
  PROVE  Written(b, h)
<1> USE ExcTabAssumption
<1>0. tab \in [0 .. size - 1 -> TabEntry]
  BY DEF ExcTabInv, TypeOK
<1>1. /\ count \in Nat /\ count + 1 < size /\ size \in Nat
      /\ count' = count + 1
  BY DEF ExcTabInv, TypeOK, RoomForNext, Insert
<1>2a. count' <= MaxBlocks
  BY <1>1 DEF Insert
<1>2. size' \in Nat /\ count + 2 < size' /\ size <= size'
  BY <1>1 DEF Insert, NewSize
<1> DEFINE new == [block |-> b, handler |-> h]
           written == WriteEntry(b, h)
<1>3. written = [tab EXCEPT ![count] = new, ![count + 1] = Sentinel]
  BY DEF WriteEntry
<1>4. tab' = [i \in 0 .. size' - 1 |-> IF i < size THEN written[i] ELSE Garbage]
  BY DEF Insert, Grown
<1>5. new \in TabEntry /\ Sentinel \in TabEntry
  BY DEF TabEntry, Sentinel, Uint, Ip
<1> HIDE DEF new, written
<1>6. count \in 0 .. size - 1 /\ count + 1 \in 0 .. size - 1 /\ count # count + 1
  BY <1>1
<1>7. written \in [0 .. size - 1 -> TabEntry]
  BY <1>0, <1>3, <1>5, <1>6
<1>8. written[count] = new /\ written[count + 1] = Sentinel
  BY <1>0, <1>3, <1>6
<1>9. \A i \in 0 .. count - 1 : written[i] = tab[i]
  BY <1>0, <1>1, <1>3, <1>6
<1>10. \A i \in 0 .. size' - 1 : tab'[i] \in TabEntry
  BY <1>1, <1>2, <1>4, <1>7
<1>11. tab' \in [0 .. size' - 1 -> TabEntry]
  BY <1>4, <1>10
<1>12. \A i \in 0 .. count + 1 : tab'[i] = written[i]
  <2> SUFFICES ASSUME NEW i \in 0 .. count + 1
               PROVE  tab'[i] = written[i]
    OBVIOUS
  <2>1. i < size /\ i < size' /\ i \in Nat
    BY <1>1, <1>2
  <2>2. i \in 0 .. size' - 1
    BY <2>1, <1>2, Below
  <2>3. QED
    BY <2>1, <2>2, <1>4
<1>13. tab'[count] = new /\ tab'[count + 1] = Sentinel
  BY <1>1, <1>8, <1>12
<1>14. \A i \in 0 .. count - 1 : tab'[i] = tab[i]
  BY <1>1, <1>9, <1>12
<1>15. QED
  BY <1>1, <1>2a, <1>2, <1>11, <1>13, <1>14 DEF Written, new

LEMMA InsertInv ==
  ASSUME ExcTabInv, NEW b \in Ip, NEW h \in Ip, Insert(b, h)
  PROVE  ExcTabInv'
<1> USE ExcTabAssumption
<1>1. Written(b, h)
  BY InsertWrites
<1>2. count \in Nat /\ count' = count + 1 /\ count' <= MaxBlocks
  BY <1>1 DEF Written
<1>3. TypeOK'
  BY <1>1 DEF ExcTabInv, TypeOK, Insert, searchVars, Written
<1>4. RoomForNext'
  BY <1>1 DEF RoomForNext, Written
<1>5. /\ tab'[count].block = b /\ tab'[count].handler = h
      /\ tab'[count + 1].block = UintMax /\ tab'[count + 1] = Sentinel
  BY <1>1 DEF Written, Sentinel
<1>6. \A i \in 0 .. count - 1 : tab'[i] = tab[i]
  BY <1>1 DEF Written
<1>7. \A i \in 0 .. count - 1 : tab[i].block \in Nat /\ tab[i].handler \in Nat
  BY <1>2 DEF ExcTabInv, TypeOK, RoomForNext, TabEntry, Uint
<1>8. /\ b \in Nat /\ h \in Nat /\ b < h /\ h < UintMax
      /\ \A i \in 0 .. count - 1 : tab[i].handler < b
  BY DEF Insert, Ip
<1>9. \A i \in 0 .. count - 1 : tab[i].block < tab[i].handler
  BY DEF ExcTabInv, Sorted
<1>10. \A i \in 0 .. count - 1 : tab[i].block < b
  BY <1>7, <1>8, <1>9
<1>11. \A i, j \in 0 .. count' : i < j => tab'[i].block < tab'[j].block
  <2> SUFFICES ASSUME NEW i \in 0 .. count + 1, NEW j \in 0 .. count + 1, i < j
               PROVE  tab'[i].block < tab'[j].block
    BY <1>2
  <2>1. CASE j = count + 1
    <3>1. CASE i = count
      BY <3>1, <2>1, <1>5, <1>8
    <3>2. CASE i \in 0 .. count - 1
      BY <3>2, <2>1, <1>5, <1>6, <1>7, <1>8, <1>10
    <3>3. QED
      BY <3>1, <3>2, <2>1, <1>2
  <2>2. CASE j = count
    <3>1. i \in 0 .. count - 1
      BY <2>2, <1>2
    <3>2. QED
      BY <3>1, <2>2, <1>5, <1>6, <1>10
  <2>3. CASE j < count
    <3>1. i \in 0 .. count - 1 /\ j \in 0 .. count - 1
      BY <2>3, <1>2
    <3>2. tab[i].block < tab[j].block
      BY <3>1, <1>2 DEF ExcTabInv, Sorted
    <3>3. QED
      BY <3>1, <3>2, <1>6
  <2>4. QED
    BY <2>1, <2>2, <2>3, <1>2
<1>12. \A i \in 0 .. count' - 1 : /\ tab'[i].block < tab'[i].handler
                                  /\ tab'[i].handler < tab'[i + 1].block
  <2> SUFFICES ASSUME NEW i \in 0 .. count
               PROVE  /\ tab'[i].block < tab'[i].handler
                      /\ tab'[i].handler < tab'[i + 1].block
    BY <1>2
  <2>1. CASE i = count
    BY <2>1, <1>5, <1>8
  <2>2. CASE i = count - 1
    <3>1. i \in 0 .. count - 1 /\ i + 1 = count
      BY <2>2, <1>2
    <3>2. QED
      BY <3>1, <1>5, <1>6, <1>8, <1>9
  <2>3. CASE i < count - 1
    <3>1. i \in 0 .. count - 1 /\ i + 1 \in 0 .. count - 1
      BY <2>3, <1>2
    <3>2. tab[i].handler < tab[i + 1].block
      BY <3>1 DEF ExcTabInv, Sorted
    <3>3. QED
      BY <3>1, <3>2, <1>6, <1>9
  <2>4. QED
    BY <2>1, <2>2, <2>3, <1>2
<1>13. Sorted'
  BY <1>2, <1>5, <1>11, <1>12 DEF Sorted
<1>14. SearchInv'
  BY DEF ExcTabInv, SearchInv, Insert, searchVars
<1>15. QED
  BY <1>3, <1>4, <1>13, <1>14 DEF ExcTabInv

LEMMA StartSearchInv ==
  ASSUME ExcTabInv, NEW x \in Ip, StartSearch(x)
  PROVE  ExcTabInv'
<1> USE ExcTabAssumption
<1>1. TypeOK' /\ RoomForNext' /\ Sorted'
  BY DEF ExcTabInv, TypeOK, RoomForNext, Sorted, StartSearch, tabVars
<1>2. SearchInv'
  BY DEF ExcTabInv, TypeOK, Sorted, SearchInv, StartSearch, tabVars, Sentinel, Ip
<1>3. QED
  BY <1>1, <1>2 DEF ExcTabInv

\* One turn of the loop keeps the block looked for between from and to.
LEMMA SearchTurnInv ==
  ASSUME ExcTabInv, SearchTurn
  PROVE  ExcTabInv'
<1> USE ExcTabAssumption
<1>1. /\ pc = "search" /\ found = -1 /\ pc' = "search"
      /\ size' = size /\ count' = count /\ tab' = tab /\ ip' = ip
  BY DEF SearchTurn, tabVars
<1>2. /\ count \in Nat \ {0} /\ count <= MaxBlocks /\ ip \in Ip
      /\ from \in Nat /\ to \in Nat /\ from <= to /\ to < count
      /\ tab[0].block <= ip /\ tab[from].block <= ip /\ ip < tab[to + 1].block
  BY <1>1 DEF ExcTabInv, TypeOK, SearchInv
<1> DEFINE middle == from + (to - from) \div 2
<1>3. middle \in Nat /\ from <= middle /\ middle <= to
  BY <1>2
<1>4. \A i \in 0 .. count : tab[i].block \in Nat
  BY <1>2 DEF ExcTabInv, TypeOK, RoomForNext, TabEntry, Uint
<1>5. \A i, j \in 0 .. count : i < j => tab[i].block < tab[j].block
  BY DEF ExcTabInv, Sorted
<1>6. RoomForNext' /\ Sorted'
  BY <1>1 DEF ExcTabInv, RoomForNext, Sorted
<1> DEFINE cmp == Between(tab[middle], tab[middle + 1])
<1>7. /\ from'  = IF cmp > 0 THEN middle + 1 ELSE from
      /\ to'    = IF cmp < 0 THEN middle - 1 ELSE to
      /\ found' = IF cmp = 0 THEN middle ELSE found
  BY DEF SearchTurn, NextFrom, NextTo
<1> HIDE DEF middle
<1>8. CASE ip < tab[middle].block
  <2>1. cmp = -1
    BY <1>8 DEF Between
  <2>2. from' = from /\ to' = middle - 1 /\ found' = -1
    BY <2>1, <1>7, <1>1
  <2>3. middle # from
    BY <1>8, <1>2, <1>4 DEF Ip
  <2>4. TypeOK'
    BY <2>2, <2>3, <1>1, <1>2, <1>3 DEF ExcTabInv, TypeOK
  <2>5. SearchInv'
    BY <2>2, <2>3, <1>1, <1>2, <1>3, <1>8 DEF SearchInv
  <2>6. QED
    BY <2>4, <2>5, <1>6 DEF ExcTabInv
<1>9. CASE ip >= tab[middle].block /\ ip >= tab[middle + 1].block
  <2>1. cmp = 1
    BY <1>9, <1>2, <1>3, <1>4 DEF Between, Ip
  <2>2. from' = middle + 1 /\ to' = to /\ found' = -1
    BY <2>1, <1>7, <1>1
  <2>3. middle # to
    BY <1>9, <1>2, <1>3, <1>4 DEF Ip
  <2>4. TypeOK'
    BY <2>2, <2>3, <1>1, <1>2, <1>3 DEF ExcTabInv, TypeOK
  <2>5. tab[middle + 1].block <= ip
    BY <1>9, <1>2, <1>3, <1>4 DEF Ip
  <2>6. SearchInv'
    BY <2>2, <2>3, <2>5, <1>1, <1>2, <1>3 DEF SearchInv
  <2>7. QED
    BY <2>4, <2>6, <1>6 DEF ExcTabInv
<1>10. CASE ip >= tab[middle].block /\ ip < tab[middle + 1].block
  <2>1. cmp = 0
    BY <1>10, <1>2, <1>3, <1>4 DEF Between, Ip
  <2>2. from' = from /\ to' = to /\ found' = middle
    BY <2>1, <1>7
  <2>3. TypeOK'
    BY <2>2, <1>1, <1>2, <1>3 DEF ExcTabInv, TypeOK
  <2>4. tab[middle].block <= ip
    BY <1>10, <1>2, <1>3, <1>4 DEF Ip
  <2>5. ASSUME NEW j \in 0 .. count - 1, tab[j].block <= ip
        PROVE  j <= middle
    <3>1. SUFFICES ASSUME middle < j PROVE FALSE
      BY <1>2, <1>3
    <3>2. tab[middle + 1].block <= tab[j].block
      BY <3>1, <1>2, <1>3, <1>4, <1>5
    <3>3. QED
      BY <3>2, <2>5, <1>10, <1>2, <1>3, <1>4 DEF Ip
  <2>6. IsLastBefore(middle, ip)
    BY <2>4, <2>5, <1>2, <1>3 DEF IsLastBefore
  <2>7. SearchInv'
    BY <2>2, <2>6, <1>1, <1>2, <1>3 DEF SearchInv, IsLastBefore
  <2>8. QED
    BY <2>3, <2>7, <1>6 DEF ExcTabInv
<1>11. QED
  BY <1>8, <1>9, <1>10, <1>2, <1>3, <1>4 DEF Ip

LEMMA StepInv == ExcTabInv /\ [Next]_vars => ExcTabInv'
<1> SUFFICES ASSUME ExcTabInv, [Next]_vars
             PROVE  ExcTabInv'
  OBVIOUS
<1>1. ASSUME NEW b \in Ip, NEW h \in Ip, Insert(b, h)
      PROVE  ExcTabInv'
  BY <1>1, InsertInv
<1>2. ASSUME NEW x \in Ip, StartSearch(x)
      PROVE  ExcTabInv'
  BY <1>2, StartSearchInv
<1>3. CASE SearchTurn
  BY <1>3, SearchTurnInv
<1>4. CASE EndSearch
  BY <1>4 DEF ExcTabInv, TypeOK, RoomForNext, Sorted, SearchInv, EndSearch, tabVars, IsLastBefore
<1>5. CASE Return
  BY <1>5, ExcTabAssumption DEF ExcTabInv, TypeOK, RoomForNext, Sorted, SearchInv, Return, tabVars, Ip
<1>6. CASE UNCHANGED vars
  BY <1>6 DEF ExcTabInv, TypeOK, RoomForNext, Sorted, SearchInv, IsLastBefore, vars, tabVars, searchVars
<1>7. QED
  BY <1>1, <1>2, <1>3, <1>4, <1>5, <1>6 DEF Next

\* The invariant of the search loop holds always.
LEMMA ExcTabAlways == Spec => []ExcTabInv
<1>1. QED
  BY InitInv, StepInv, PTL DEF Spec

(***************************************************************************)
(* exception_tab_search gives the handler of the last block that starts at *)
(* or before the address, whatever the table and the address.              *)
(***************************************************************************)
THEOREM ExcTabSearchCorrect == Spec => []SearchCorrect
<1>1. ExcTabInv => SearchCorrect
  BY DEF ExcTabInv, SearchInv, SearchCorrect, IsLastBefore
<1>2. QED
  BY <1>1, ExcTabAlways, PTL

(***************************************************************************)
(* exception_tab_insert never writes behind the table, from any initial    *)
(* size of two or more.                                                    *)
(***************************************************************************)
THEOREM ExcTabRoom == Spec => []RoomForNext
<1>1. ExcTabInv => RoomForNext
  BY DEF ExcTabInv
<1>2. QED
  BY <1>1, ExcTabAlways, PTL

(***************************************************************************)
(* The table stays sorted, its sentinel behind the last block.             *)
(***************************************************************************)
THEOREM ExcTabSorted == Spec => []Sorted
<1>1. ExcTabInv => Sorted
  BY DEF ExcTabInv
<1>2. QED
  BY <1>1, ExcTabAlways, PTL

\* Types, the bounds of both indices included.
THEOREM ExcTabTypes == Spec => []TypeOK
<1>1. ExcTabInv => TypeOK
  BY DEF ExcTabInv
<1>2. QED
  BY <1>1, ExcTabAlways, PTL
=============================================================================
