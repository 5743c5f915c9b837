------------------------------ MODULE Tailrec -------------------------------
(***************************************************************************)
(* front/tailrec.c: a call whose result is the function's own, of the      *)
(* function itself by its own name, becomes an EXPR_LAST_CALL, which the   *)
(* emitter turns into a jump.  `op` is TAILREC_OP_ADD for an expression    *)
(* whose value is the function's result and TAILREC_OP_SKIP otherwise.     *)
(***************************************************************************)
EXTENDS Gencode

\* expr_id_tailrec: the name is the function's own, not one it declares.
IsFunction(f, e) ==                                    \* mutant: the level is not looked at
  /\ e.type = "ID"
  /\ e.id \in DOMAIN f.stab
  /\ f.stab[e.id].type = "FUNC"
IsSelf(f, e) ==
  /\ e.type = "ID"
  /\ e.id \in DOMAIN f.stab
  /\ f.stab[e.id].type = "FUNC"
  /\ f.stab[e.id].syn_level = f.syn_level - 1

\* What holds of a child when op holds of its parent.
TailInOperand(e, i, op) ==                             \* mutant: an operand is the result
  CASE e.type = "SUP"                     -> op
    [] e.type = "COND" /\ i > 1           -> op
    [] e.type = "SEQ"  /\ i = Len(e.kids) -> op
    [] e.type = "CALL" /\ i = 1           -> op
    [] e.type \in Binaries               -> op
    [] OTHER                              -> "SKIP"
OpOfChild(e, i, op) ==
  CASE e.type = "SUP"                     -> op
    [] e.type = "COND" /\ i > 1           -> op
    [] e.type = "SEQ"  /\ i = Len(e.kids) -> op
    [] e.type = "CALL" /\ i = 1           -> op
    [] OTHER                              -> "SKIP"

RECURSIVE MarkExpr(_, _, _), MarkFunc(_)
MarkExpr(f, e, op) ==
  CASE e.type = "FUNC" -> FuncLit(MarkFunc(e.func_value))
    [] e.type = "CALL" /\ op = "ADD" /\ IsSelf(f, e.kids[1]) ->
         [type |-> "LAST_CALL", kids |-> [i \in DOMAIN e.kids |-> MarkExpr(f, e.kids[i], "SKIP")]]
    [] OTHER -> [e EXCEPT !.kids = [i \in DOMAIN e.kids |-> MarkExpr(f, e.kids[i], OpOfChild(e, i, op))]]

\* func_tailrec_native.
MarkFunc(f) ==
  [f EXCEPT
     !.binds   = [i \in DOMAIN f.binds |-> Bind(f.binds[i].id, MarkExpr(f, f.binds[i].expr, "SKIP"))],
     !.funcs   = [i \in DOMAIN f.funcs |-> MarkFunc(f.funcs[i])],
     !.ret     = MarkExpr(f, f.ret, "ADD"),
     !.excepts = [i \in DOMAIN f.excepts |-> Catch(f.excepts[i].no, MarkExpr(f, f.excepts[i].expr, "SKIP"))],
     !.all     = [i \in DOMAIN f.all |-> MarkExpr(f, f.all[i], "SKIP")]]
=============================================================================
