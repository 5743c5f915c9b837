------------------------------- MODULE Scopes -------------------------------
(***************************************************************************)
(* What the symbol tables promise the type checker and gencode: scopes     *)
(* inside scopes, each a map from names to what they declare, and for a    *)
(* name the innermost declaration in reach.  A scope sees the ones around  *)
(* it, or, when asked for what is local, only those that belong to the     *)
(* same function.                                                          *)
(***************************************************************************)
EXTENDS Integers, Sequences

CONSTANTS Names, Nothing

VARIABLES scopes, answer

vars == <<scopes, answer>>

\* The scope around s that a search goes on to, 0 when there is none.
Around(s, op) ==
  IF op = "GLOBAL" \/ scopes[s].type = "BLOCK" THEN scopes[s].parent ELSE 0

\* The least set with s in it that is closed under going on.
InReach(s, op, t) ==
  \A S \in SUBSET DOMAIN scopes :
    s \in S /\ (\A u \in S : Around(u, op) # 0 => Around(u, op) \in S) => t \in S

Declaring(s, op, x) ==
  {t \in DOMAIN scopes : InReach(s, op, t) /\ x \in DOMAIN scopes[t].names}

\* What x means in scope s: an inner scope has a higher number than the one
\* around it.
Meaning(s, op, x) ==
  IF Declaring(s, op, x) = {} THEN Nothing
  ELSE LET t == CHOOSE u \in Declaring(s, op, x) : \A v \in Declaring(s, op, x) : v <= u
       IN  scopes[t].names[x]

Answer(s, op, x, found) == [scope |-> s, op |-> op, name |-> x, found |-> found]

Init == scopes = << >> /\ answer = Nothing

Open ==
  /\ \E type \in {"FUNC", "BLOCK"}, parent \in {0} \cup DOMAIN scopes :
       scopes' = Append(scopes, [type |-> type, parent |-> parent, names |-> << >>])
  /\ UNCHANGED answer

\* Nothing is declared twice: the second time, what is there is reported.
Declare(s, op, x) ==
  /\ answer' = Answer(s, op, x, Meaning(s, op, x))
  /\ IF Meaning(s, op, x) = Nothing
     THEN scopes' = [scopes EXCEPT ![s].names =
                       [y \in DOMAIN scopes[s].names \cup {x} |-> IF y = x THEN s ELSE scopes[s].names[y]]]
     ELSE UNCHANGED scopes

Find(s, op, x) ==
  /\ answer' = Answer(s, op, x, Meaning(s, op, x))
  /\ UNCHANGED scopes

\* The caller is done with the answer.
Forget == answer' = Nothing /\ UNCHANGED scopes

Next ==
  \/ Open
  \/ Forget
  \/ \E s \in DOMAIN scopes, op \in {"LOCAL", "GLOBAL"}, x \in Names : Declare(s, op, x) \/ Find(s, op, x)

Spec == Init /\ [][Next]_vars
=============================================================================
