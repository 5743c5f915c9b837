------------------------------ MODULE Interning ------------------------------
(***************************************************************************)
(* What the emitter expects of the string table: a string keeps the number *)
(* it got when it was first added, numbers are given from 1 up, 0 is the   *)
(* number of no string, and the array made at the end has each string at   *)
(* its number.                                                             *)
(***************************************************************************)
EXTENDS Integers

CONSTANTS
  Strings,
  Null         \* no string

VARIABLES
  order,       \* the number of each string, or 0
  next,        \* the number the next new string gets
  answer,      \* the last string asked for, and the number given
  strings      \* the array, once it is made

Asked(s, o) == [string |-> s, order |-> o]

Init ==
  /\ order = [s \in Strings |-> 0]
  /\ next = 1
  /\ answer = Asked(Null, 0)
  /\ strings = << >>

Add(s) ==
  /\ IF order[s] = 0
     THEN /\ order' = [order EXCEPT ![s] = next]
          /\ next' = next + 1
          /\ answer' = Asked(s, next)
     ELSE /\ answer' = Asked(s, order[s])
          /\ UNCHANGED <<order, next>>
  /\ strings = << >> /\ UNCHANGED strings

Lookup(s) ==
  /\ answer' = Asked(s, order[s])
  /\ strings = << >> /\ UNCHANGED <<order, next, strings>>

\* The table hands its strings over to the array, and has none.
ToArray ==
  /\ strings = << >>
  /\ strings' = [o \in 0 .. next - 1 |->
                   IF o = 0 THEN Null ELSE CHOOSE s \in Strings : order[s] = o]
  /\ order' = [s \in Strings |-> 0]
  /\ UNCHANGED <<next, answer>>

Next == ToArray \/ \E s \in Strings : Add(s) \/ Lookup(s)

Spec == Init /\ [][Next]_<<order, next, answer, strings>>
=============================================================================
