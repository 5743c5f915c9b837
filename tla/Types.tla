------------------------------- MODULE Types -------------------------------
(***************************************************************************)
(* The types of front/param.h, as they are written in declarations, and    *)
(* those the type checker of front/typecheck.c gives to expressions (comb  *)
(* types), with its comparisons of the two.                                *)
(*                                                                         *)
(* A record or an enumeration is written by name and means nothing until   *)
(* the name is looked up: its `value` is NULL before that.                 *)
(***************************************************************************)
EXTENDS Integers, Sequences

IntT    == [k |-> "INT"]
FloatT  == [k |-> "FLOAT"]
CharT   == [k |-> "CHAR"]
StringT == [k |-> "STRING"]
DimT    == [k |-> "DIM"]                    \* D in a[D] : int
NULL    == "NULL"
Named(x) == [k |-> "RECORD", id |-> x, value |-> NULL]
ArrayOf(names, t) == [k |-> "ARRAY", dims |-> names, ret |-> t]
FuncOf(params, t) == [k |-> "FUNC", params |-> params, ret |-> t]

\* What expressions can be besides: nil, the name of a record or enumeration,
\* not yet anything, wrong.
NilC     == [k |-> "NIL"]
Unknown  == [k |-> "UNKNOWN"]
Err      == [k |-> "ERR"]
RecordC(k, r) == [k |-> k, value |-> r]     \* k: RECORD, RECORD_ID, ENUMTYPE, ENUMTYPE_ID
ArrayC(n, t)  == [k |-> "ARRAY", dims |-> n, ret |-> t]

Numbers == {"INT", "FLOAT"}

\* expr_set_return_type: the type of an expression that is given type t.
CombOf(t) ==
  CASE t.k = "DIM"                    -> IntT
    [] t.k = "ARRAY"                  -> ArrayC(Len(t.dims), t.ret)
    [] t.k \in {"RECORD", "ENUMTYPE"} -> RecordC(t.k, t.value)
    [] OTHER                          -> t

-----------------------------------------------------------------------------
\* param_cmp.  Two points of the code: its answers are 0 for alike and 1 for
\* different, and arrays are compared with && between the two; and of the
\* results of two functions the first is compared with itself.
RECURSIVE ParamCmp(_, _)
ParamListCmp(ps, qs) ==
  Len(ps) = Len(qs) /\ \A i \in DOMAIN ps : ParamCmp(ps[i], qs[i])
FuncCmp(ps, r, qs, s) == ParamListCmp(ps, qs) /\ ParamCmp(r, s)
ParamCmp(a, b) ==
  /\ a.k = b.k
  /\ CASE a.k \in {"RECORD", "ENUMTYPE"} -> a.value = b.value
       [] a.k = "ARRAY" -> ~(Len(a.dims) = Len(b.dims) /\ ~ParamCmp(a.ret, b.ret))
       [] a.k = "FUNC"  -> FuncCmp(a.params, a.ret, b.params, a.ret)
       [] OTHER         -> a.k # "DIM"

ArrayCmp(c, d) == c.dims = d.dims /\ ParamCmp(c.ret, d.ret)

\* Expressions of the same type, as an assignment and the two branches of a
\* condition need them; arrays, which the two compare each in its own way, apart.
IsRecord(c) == c.k \in {"RECORD", "RECORD_ID"}
Alike(c, d) ==
  \/ c.k = d.k /\ c.k \in Numbers \cup {"CHAR", "STRING"}
  \/ c.k = d.k /\ c.k = "ENUMTYPE" /\ c.value = d.value
  \/ IsRecord(c) /\ IsRecord(d) /\ c.value = d.value
  \/ c.k = d.k /\ c.k = "FUNC" /\ FuncCmp(c.params, c.ret, d.params, d.ret)

\* What becomes of an expression where a number of kind k is wanted.
ConvTo(k) == IF k = "FLOAT" THEN "INT_TO_FLOAT" ELSE "FLOAT_TO_INT"

\* param_expr_cmp: an expression of type c where a t is declared, "SUCC",
\* "FAIL" or the conversion it needs.
NumberOf(t) == IF t.k = "DIM" THEN "INT" ELSE t.k
ParamExprCmp(t, c) ==
  CASE NumberOf(t) \in Numbers /\ c.k \in Numbers ->
         IF c.k = NumberOf(t) THEN "SUCC" ELSE ConvTo(NumberOf(t))
    [] \/ t.k = c.k /\ t.k \in {"CHAR", "STRING"}
       \/ t.k = c.k /\ t.k = "ENUMTYPE" /\ t.value = c.value
       \/ t.k = c.k /\ t.k = "ARRAY" /\ Len(t.dims) = c.dims /\ ParamCmp(t.ret, c.ret)
       \/ t.k = "RECORD" /\ IsRecord(c) /\ t.value = c.value
       \/ t.k = "RECORD" /\ c.k = "NIL"
       \/ t.k = c.k /\ t.k = "FUNC" /\ FuncCmp(t.params, t.ret, c.params, c.ret) -> "SUCC"
    [] OTHER -> "FAIL"
=============================================================================
