----------------------------- MODULE Libraries ------------------------------
(***************************************************************************)
(* What the library cache and the foreign call promise: while a machine    *)
(* lives a library is open at most once, the program itself from the       *)
(* start; a function is called in an open library; a call has one          *)
(* descriptor, and none is left when it is over, however it ends; when the *)
(* machine is gone nothing is open.                                        *)
(***************************************************************************)
EXTENDS Integers

CONSTANTS Libs, Host

VARIABLES
  alive,        \* whether there is a machine
  opened,       \* how often each library is open
  descriptors,  \* of calls
  outcome       \* of the last call

vars == <<alive, opened, descriptors, outcome>>

Nothing == [l \in Libs |-> 0]

Init == ~alive /\ opened = Nothing /\ descriptors = 0 /\ outcome = "none"

Start ==
  /\ ~alive /\ alive'
  /\ \E n \in {0, 1} : opened' = [Nothing EXCEPT ![Host] = n]
  /\ outcome' = "none"
  /\ UNCHANGED descriptors

Begin ==
  /\ alive /\ descriptors = 0
  /\ descriptors' = 1 /\ outcome' = "none"
  /\ UNCHANGED <<alive, opened>>

Open(l) ==
  /\ descriptors = 1 /\ opened[l] = 0
  /\ opened' = [opened EXCEPT ![l] = 1]
  /\ UNCHANGED <<alive, descriptors, outcome>>

Fail ==
  /\ descriptors = 1
  /\ descriptors' = 0 /\ outcome' = "failed"
  /\ UNCHANGED <<alive, opened>>

Succeed(l) ==
  /\ descriptors = 1 /\ opened[l] = 1
  /\ descriptors' = 0 /\ outcome' = l
  /\ UNCHANGED <<alive, opened>>

Stop ==
  /\ alive /\ descriptors = 0
  /\ ~alive' /\ opened' = Nothing /\ outcome' = "none"
  /\ UNCHANGED descriptors

Next == Start \/ Begin \/ Fail \/ Stop \/ \E l \in Libs : Open(l) \/ Succeed(l)

Spec == Init /\ [][Next]_vars
=============================================================================
