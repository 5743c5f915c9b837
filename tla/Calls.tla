-------------------------------- MODULE Calls --------------------------------
(***************************************************************************)
(* What the frames on the machine's stack stand for: the calls that have   *)
(* not ended, the last one running.  A call has its function, the cells of *)
(* its arguments, the cells its function has captured and the address it   *)
(* returns to, and keeps them as long as it lasts; whatever happens in the *)
(* calls above it, exceptions included.                                    *)
(***************************************************************************)
EXTENDS Naturals, Sequences

VARIABLE calls

Init == calls = << >>

\* The running function calls one.
Call ==
  /\ Len(calls') = Len(calls) + 1
  /\ SubSeq(calls', 1, Len(calls)) = calls

\* The last call ends, with a result or with an exception.
End ==
  /\ calls # << >>
  /\ calls' = SubSeq(calls, 1, Len(calls) - 1)

\* The last call becomes a call of the same function with other arguments.
Again ==
  /\ calls # << >> /\ Len(calls') = Len(calls)
  /\ \E as \in {calls'[Len(calls)].args} : calls' = [calls EXCEPT ![Len(calls)].args = as]

Next == Call \/ End \/ Again

Spec == Init /\ [][Next]_calls
=============================================================================
