------------------------------ MODULE Constred ------------------------------
(***************************************************************************)
(* front/constred.c: operations and conversions of literals are done by    *)
(* the compiler, and a condition that is an int literal is replaced by the *)
(* branch it chooses, an EXPR_SUP like an expression in parentheses.  A    *)
(* literal divided by a literal zero is an error, wherever it is; the      *)
(* program is rejected.                                                    *)
(*                                                                         *)
(* The code rewrites the tree and sets `result` on its way; here Reduce    *)
(* returns the tree and Fails says whether it is set.                      *)
(***************************************************************************)
EXTENDS Gencode, Values

IsInt(e) == e.type = "INT"
IsFloat(e) == e.type = "FLOAT"
Truth(c) == IF c THEN 1 ELSE 0

\* Division in C, towards zero.
Divided(a, b) ==
  LET q == (IF a < 0 THEN -a ELSE a) \div (IF b < 0 THEN -b ELSE b)
  IN  IF (a < 0) = (b < 0) THEN q ELSE -q

Folded(t, a, b) ==
  CASE t = "ADD" -> a + b
    [] t = "SUB" -> a - b
    [] t = "MUL" -> a * b
    [] t = "DIV" -> Divided(a, b)
    [] t = "MOD" -> a - b * Divided(a, b)
    [] t = "LT"  -> Truth(a < b)
    [] t = "GT"  -> Truth(a > b)
    [] t = "LTE" -> Truth(a <= b)
    [] t = "GTE" -> Truth(a >= b)
    [] t = "EQ"  -> Truth(a = b)
    [] t = "NEQ" -> Truth(a # b)
    [] t = "AND" -> Truth(a # 0 /\ b # 0)
    [] t = "OR"  -> Truth(a # 0 \/ b # 0)

\* What the code does with two floats; comparing them gives an int, and there is
\* no remainder, AND or OR of floats.
FoldedFloat(t, a, b) ==
  CASE t = "ADD" -> FloatLit(a + b)
    [] t = "SUB" -> FloatLit(a - b)
    [] t = "MUL" -> FloatLit(TimesFloat(a, b))
    [] t = "DIV" -> FloatLit(OverFloat(a, b))
    [] t \in {"LT", "GT", "LTE", "GTE", "EQ", "NEQ"} -> Lit(Folded(t, a, b))

\* A division of literals by zero, its children reduced.
ByZero(e) ==
  /\ e.type \in {"DIV", "MOD"}
  /\ e.kids[1].type = e.kids[2].type
  /\ \/ IsInt(e.kids[1])
     \/ IsFloat(e.kids[1]) /\ e.type = "DIV"
  /\ e.kids[2].value = 0

\* The expression e whose children are reduced.
FoldNode(e) ==
  CASE /\ e.type \in Binaries \cup {"AND", "OR"}
       /\ IsInt(e.kids[1]) /\ IsInt(e.kids[2]) /\ ~ByZero(e) ->
         Lit(Folded(e.type, e.kids[1].value, e.kids[2].value))
    [] e.type \in Binaries /\ IsFloat(e.kids[1]) /\ IsFloat(e.kids[2]) /\ ~ByZero(e) ->
         FoldedFloat(e.type, e.kids[1].value, e.kids[2].value)
    [] e.type = "ADD" /\ e.kids[1].type = "STRING" /\ e.kids[2].type = "STRING" ->
         StringLit(e.kids[1].value \o e.kids[2].value)
    [] e.type = "NEG"  /\ IsFloat(e.kids[1]) -> FloatLit(-e.kids[1].value)
    [] e.type = "SUP"  /\ IsFloat(e.kids[1]) -> e.kids[1]
    [] e.type = "INT_TO_FLOAT" /\ IsInt(e.kids[1])   -> FloatLit(Quarters(e.kids[1].value))
    [] e.type = "FLOAT_TO_INT" /\ IsFloat(e.kids[1]) -> Lit(Whole(e.kids[1].value))
    [] e.type = "NEG"  /\ IsInt(e.kids[1]) -> Lit(-e.kids[1].value)
    [] e.type = "NOT"  /\ IsInt(e.kids[1]) -> Lit(Truth(e.kids[1].value = 0))
    [] e.type = "SUP"  /\ IsInt(e.kids[1]) -> e.kids[1]
    [] e.type = "COND" /\ IsInt(e.kids[1]) -> Sup(e.kids[IF e.kids[1].value # 0 THEN 2 ELSE 3])
    [] OTHER -> e

\* Every expression of a function, but not of the functions in it.
InBody(f) == [i \in DOMAIN f.binds |-> f.binds[i].expr] \o <<f.ret>>
               \o [i \in DOMAIN f.excepts |-> f.excepts[i].expr] \o f.all

RECURSIVE Reduce(_), ReduceFunc(_), Fails(_), FuncFails(_)
Reduce(e) ==
  IF e.type = "FUNC" THEN FuncLit(ReduceFunc(e.func_value))
  ELSE FoldNode([e EXCEPT !.kids = [i \in DOMAIN e.kids |-> Reduce(e.kids[i])]])

\* func_constred_native.
ReduceFunc(f) ==
  [f EXCEPT
     !.binds   = [i \in DOMAIN f.binds |-> Bind(f.binds[i].id, Reduce(f.binds[i].expr))],
     !.funcs   = [i \in DOMAIN f.funcs |-> ReduceFunc(f.funcs[i])],
     !.ret     = Reduce(f.ret),
     !.excepts = [i \in DOMAIN f.excepts |-> Catch(f.excepts[i].no, Reduce(f.excepts[i].expr))],
     !.all     = [i \in DOMAIN f.all |-> Reduce(f.all[i])]]

Fails(e) ==
  IF e.type = "FUNC" THEN FuncFails(e.func_value)
  ELSE \/ \E i \in DOMAIN e.kids : Fails(e.kids[i])
       \/ ByZero([e EXCEPT !.kids = [i \in DOMAIN e.kids |-> Reduce(e.kids[i])]])
FuncFails(f) ==
  \/ \E i \in DOMAIN f.funcs : FuncFails(f.funcs[i])
  \/ \E i \in DOMAIN InBody(f) : Fails(InBody(f)[i])
=============================================================================
