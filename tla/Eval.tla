-------------------------------- MODULE Eval --------------------------------
(***************************************************************************)
(* What a program means, for the compiler and the machine to agree with:   *)
(* the trees of Ast evaluated directly, by the names in them.  An          *)
(* environment maps the names in scope to locations and a store maps these *)
(* to values.  Variables, parameters and the results of expressions are    *)
(* locations, so that an assignment through one name is seen through the   *)
(* others.  An array is shared by those who hold it, and so is each of its *)
(* elements.                                                               *)
(*                                                                         *)
(* This is the meaning docs/index.md gives the language: names are those   *)
(* of the nearest enclosing declaration; a call of any kind returns to its *)
(* caller; an exception goes to the catch clauses of the function it       *)
(* happens in, one after the other, and from there to the caller's; a list *)
(* comprehension takes the elements of its generators in their order and   *)
(* keeps what passes its filters; an assertion that fails ends the program. *)
(***************************************************************************)
EXTENDS Ast, SequencesExt, Values

EXCEPT_DIVISION    == 1
EXCEPT_ARR_SIZE    == 2
EXCEPT_INDEX_OOB   == 3
EXCEPT_INVALID     == 4
EXCEPT_NIL_POINTER == 8
EXCEPT_FFI_FAIL    == 9
ASSERTION          == -1      \* what no clause catches

\* Numbers and strings as Values has them; each value knows its type.
Plain(t, v)  == [t |-> t, v |-> v]
IntVal(n)    == Plain("INT", n)
FloatVal(q)  == Plain("FLOAT", q)
CharVal(c)   == Plain("CHAR", c)
StrVal(s)    == Plain("STRING", s)
NoStr        == [t |-> "nostr"]
RecVal(ls)   == [t |-> "rec", fields |-> ls]
NilVal       == [t |-> "nil"]
Closure(f, env) == [t |-> "fun", fn |-> f, env |-> env]
NoFun        == [t |-> "nofun"]

\* An array's value says where its elements are: at the locations `elems` row
\* by row, as many in each dimension as `dims` says.
ArrVal(l)        == [t |-> "arr", at |-> l]
NoArr            == ArrVal(0)
Cells(dims, ls)  == [t |-> "cells", dims |-> dims, elems |-> ls]
Nothing          == {NilVal, NoStr, NoFun, NoArr}

\* An outcome: a location or an exception, and the store.
Value(l, st)  == [ok |-> TRUE,  at |-> l, st |-> st]
Thrown(x, st) == [ok |-> FALSE, exc |-> x, st |-> st]
Fresh(v, st)  == Value(Len(st) + 1, Append(st, v))

\* A new array of these cells.
FreshArray(dims, ls, st) == Fresh(ArrVal(Len(st) + 1), Append(st, Cells(dims, ls)))

With(env, x, l) == [y \in DOMAIN env \cup {x} |-> IF y = x THEN l ELSE env[y]]
Bool(c)   == IF c THEN 1 ELSE 0
Toward0(a, b) == LET q == Unsigned(a) \div Unsigned(b) IN IF (a < 0) = (b < 0) THEN q ELSE -q
IntArith(t, a, b) ==
  CASE t = "ADD" -> IntVal(a + b)
    [] t = "SUB" -> IntVal(a - b)
    [] t = "MUL" -> IntVal(a * b)
    [] t = "DIV" -> IntVal(Toward0(a, b))
    [] t = "MOD" -> IntVal(a - b * Toward0(a, b))
FloatArith(t, p, q) ==
  CASE t = "ADD" -> FloatVal(p + q)
    [] t = "SUB" -> FloatVal(p - q)
    [] t = "MUL" -> FloatVal(TimesFloat(p, q))
    [] t = "DIV" -> FloatVal(OverFloat(p, q))
Relations == {"LT", "GT", "LTE", "GTE", "EQ", "NEQ"}
Related(t, a, b) ==
  CASE t = "LT"  -> a < b
    [] t = "GT"  -> a > b
    [] t = "LTE" -> a <= b
    [] t = "GTE" -> a >= b
    [] t = "EQ"  -> a = b
    [] t = "NEQ" -> a # b
Arith(t, a, b) ==
  CASE t \in Relations                    -> IntVal(Bool(Related(t, a.v, b.v)))
    [] t \notin Relations /\ a.t = "INT"   -> IntArith(t, a.v, b.v)
    [] t \notin Relations /\ a.t = "FLOAT" -> FloatArith(t, a.v, b.v)

\* A value as a part of a string.
Shown(a) == CASE a.t = "STRING" -> a.v [] a.t = "INT" -> TextOfInt(a.v) [] a.t = "FLOAT" -> TextOfFloat(a.v)

RECURSIVE EvalExpr(_, _, _), EvalAll(_, _, _), EvalSeq(_, _, _), Loop(_, _, _, _), Call0(_, _, _),
          Handle(_, _, _), Bound(_, _, _), Qualified(_, _, _, _, _), EachElement(_, _, _, _, _, _, _)

\* An exception ends what is being evaluated; otherwise it goes on.
OnValue(o, Do(_)) == IF o.ok THEN Do(o) ELSE o

\* Expressions from left to right: the locations of all of them, in `at`.
EvalAll(es, env, st) ==
  IF es = << >> THEN Value(<< >>, st)
  ELSE OnValue(EvalExpr(Head(es), env, st),
               LAMBDA h : OnValue(EvalAll(Tail(es), env, h.st),
                                  LAMBDA r : Value(<<h.at>> \o r.at, r.st)))

EvalSeq(es, env, st) ==
  IF Len(es) = 1 THEN EvalExpr(es[1], env, st)
  ELSE OnValue(EvalExpr(Head(es), env, st), LAMBDA h : EvalSeq(Tail(es), env, h.st))

IntOf(o) == o.st[o.at].v

\* While c holds, evaluate the expressions es.
Loop(c, es, env, st) ==
  OnValue(EvalExpr(c, env, st),
          LAMBDA t : IF IntOf(t) = 0 THEN Fresh(IntVal(0), t.st)
                     ELSE OnValue(EvalSeq(es, env, t.st), LAMBDA o : Loop(c, es, env, o.st)))

\* The names in a function: its own, its parameters, its bindings and the
\* functions in it, whose closures are at the locations after `base`.
OwnName(f, l, env) == IF f.id = NoName THEN env ELSE With(env, f.id, l)
WithParams(f, ls, env) ==
  [x \in DOMAIN env \cup {f.params[i] : i \in DOMAIN f.params} |->
     IF \E i \in DOMAIN f.params : f.params[i] = x
     THEN ls[CHOOSE i \in DOMAIN f.params : f.params[i] = x] ELSE env[x]]
WithFuncs(f, base, env) ==
  [x \in DOMAIN env \cup {f.funcs[i].id : i \in DOMAIN f.funcs} |->
     IF \E i \in DOMAIN f.funcs : f.funcs[i].id = x
     THEN base + (CHOOSE i \in DOMAIN f.funcs : f.funcs[i].id = x) ELSE env[x]]

\* The bindings, each seeing those before it; `at` is the environment.
Bound(bs, env, st) ==
  IF bs = << >> THEN Value(env, st)
  ELSE OnValue(EvalExpr(Head(bs).expr, env, st),
               LAMBDA h : Bound(Tail(bs), With(env, Head(bs).id, h.at), h.st))

\* The result, in the environment env of all names.
Returned(f, env, st) == EvalExpr(f.ret, env, st \o [i \in DOMAIN f.funcs |-> Closure(f.funcs[i], env)])

\* The catch clauses; 0 catches every exception.
Catches(no, exc) == no = exc \/ (no = 0 /\ exc # ASSERTION)
Handle(cs, env, o) ==
  IF o.ok \/ cs = << >> THEN o
  ELSE Handle(Tail(cs), env,
              IF Catches(Head(cs).no, o.exc) THEN EvalExpr(Head(cs).expr, env, o.st) ELSE o)

\* A call of the closure of f over env at the arguments ls, in the environment
\* `params` of its parameters.
Body(f, params, st) ==
  Handle(f.excepts \o [i \in DOMAIN f.all |-> Catch(0, f.all[i])], params,
         OnValue(Bound(f.binds, params, st),
                 LAMBDA o : Returned(f, WithFuncs(f, Len(o.st), o.at), o.st)))
\* The names of dimensions are ints made for the call.
NamedDims(f, base, env) ==
  [x \in DOMAIN env \cup {f.dims[i].id : i \in DOMAIN f.dims} |->
     IF \E i \in DOMAIN f.dims : f.dims[i].id = x
     THEN base + (CHOOSE i \in DOMAIN f.dims : f.dims[i].id = x) ELSE env[x]]
DimsOf(f, ls, st) ==
  [i \in DOMAIN f.dims |-> IntVal(st[st[ls[f.dims[i].param]].at].dims[f.dims[i].dim + 1])]
Call0(l, ls, st) ==
  IF st[l] = NoFun THEN Thrown(EXCEPT_NIL_POINTER, st)
  ELSE Body(st[l].fn,
            NamedDims(st[l].fn, Len(st), WithParams(st[l].fn, ls, OwnName(st[l].fn, l, st[l].env))),
            st \o DimsOf(st[l].fn, ls, st))

\* An operation on two values: a comparison with nil, one with a string, one of
\* numbers.
Operation(t, a, b, st) ==
  IF NilVal \in {a, b} THEN Fresh(IntVal(Bool((t = "EQ") = ({a, b} \subseteq Nothing))), st)
  ELSE IF NoStr \in {a, b} THEN Thrown(EXCEPT_NIL_POINTER, st)
  ELSE IF t = "ADD" /\ "STRING" \in {a.t, b.t} THEN Fresh(StrVal(Shown(a) \o Shown(b)), st)
  ELSE IF t \in {"DIV", "MOD"} /\ b.v = 0 THEN Thrown(EXCEPT_DIVISION, st)
  ELSE Fresh(Arith(t, a, b), st)
EvalTwo(e, env, st) ==
  OnValue(EvalAll(e.kids, env, st), LAMBDA o : Operation(e.type, o.st[o.at[1]], o.st[o.at[2]], o.st))

EvalAss(e, env, st) ==
  OnValue(EvalAll(e.kids, env, st),
          LAMBDA o : IF o.st[o.at[2]] \in {NoArr, NoFun, NoStr} THEN Thrown(EXCEPT_NIL_POINTER, o.st)
                     ELSE Value(o.at[1], [o.st EXCEPT ![o.at[1]] = o.st[o.at[2]]]))

\* AND and OR give 1 or 0 and do not evaluate the right side in vain.
EvalShort(e, env, st) ==
  OnValue(EvalExpr(e.kids[1], env, st),
          LAMBDA l : IF (IntOf(l) = 0) = (e.type = "AND") THEN Fresh(IntVal(Bool(e.type = "OR")), l.st)
                     ELSE OnValue(EvalExpr(e.kids[2], env, l.st),
                                  LAMBDA r : Fresh(IntVal(Bool(IntOf(r) # 0)), r.st)))

\* Arguments from the last to the first, then the function.
EvalCall(e, env, st) ==
  OnValue(EvalAll(Reverse(Tail(e.kids)), env, st),
          LAMBDA args : OnValue(EvalExpr(e.kids[1], env, args.st),
                                LAMBDA f : Call0(f.at, Reverse(args.at), f.st)))

-----------------------------------------------------------------------------
\* Arrays.

RECURSIVE Product(_)
Product(ns) == IF ns = << >> THEN 1 ELSE Head(ns) * Product(Tail(ns))

EmptyVal(comb) == CASE comb \in {"INT", "FLOAT", "CHAR"} -> Plain(comb, 0)
                    [] comb = "STRING" -> NoStr [] comb = "FUNC" -> NoFun
                    [] comb = "RECORD" -> NilVal [] comb = "ARRAY" -> NoArr

\* An array of literal elements, the last evaluated first.
EvalArray(e, env, st) ==
  OnValue(EvalAll(Reverse(e.kids), env, st), LAMBDA o : FreshArray(e.dims, Reverse(o.at), o.st))

\* A new array, of at least one element in each dimension.
EvalNewArray(e, env, st) ==
  OnValue(EvalAll(Reverse(e.kids), env, st),
          LAMBDA o : LET dims == Reverse([i \in DOMAIN o.at |-> o.st[o.at[i]].v])
                         size == Product(dims)
                     IN  IF \E i \in DOMAIN dims : dims[i] <= 0 THEN Thrown(EXCEPT_INDEX_OOB, o.st)
                         ELSE FreshArray(dims, [i \in 1 .. size |-> Len(o.st) + i],
                                         o.st \o [i \in 1 .. size |-> EmptyVal(e.comb)]))

\* Where in the rows the element is: the index read as a number whose digits
\* count the elements of each dimension.
Digits(dims, index) == FoldLeft(LAMBDA n, d : n * dims[d] + index[d], 0, [d \in DOMAIN dims |-> d])
ElementAt(arr, index, st) ==
  CASE \E d \in DOMAIN index : index[d] < 0 -> Thrown(EXCEPT_INDEX_OOB, st)
    [] \A d \in DOMAIN index : index[d] >= 0 ->
         IF arr = NoArr THEN Thrown(EXCEPT_NIL_POINTER, st)
         ELSE IF \E d \in DOMAIN index : index[d] >= st[arr.at].dims[d] THEN Thrown(EXCEPT_INDEX_OOB, st)
         ELSE Value(st[arr.at].elems[Digits(st[arr.at].dims, index) + 1], st)

\* A char of a string, by an index that is not below 0.
CharIn(s, i, st) ==
  CASE s = NoStr -> Thrown(EXCEPT_NIL_POINTER, st)
    [] s # NoStr -> IF i >= Len(s.v) THEN Thrown(EXCEPT_INDEX_OOB, st) ELSE Fresh(CharVal(s.v[i + 1]), st)
EvalCharAt(e, env, st) ==
  OnValue(EvalAll(e.kids, env, st), LAMBDA o : CharIn(o.st[o.at[1]], o.st[o.at[2]].v, o.st))

\* The array, then the indices from the last to the first.
EvalDeref(e, env, st) ==
  OnValue(EvalExpr(e.kids[1], env, st),
          LAMBDA arr : OnValue(EvalAll(Reverse(Tail(e.kids)), env, arr.st),
                               LAMBDA o : ElementAt(o.st[arr.at], Reverse([i \in DOMAIN o.at |-> o.st[o.at[i]].v]), o.st)))

\* The numbers of an array, and an array of such.
Numbers(v, st) == [i \in DOMAIN st[v.at].elems |-> st[st[v.at].elems[i]]]
ArrayOf(dims, ns, st) ==
  FreshArray(dims, [i \in DOMAIN ns |-> Len(st) + i], st \o [i \in DOMAIN ns |-> ns[i]])
Negative(a) == Plain(a.t, -a.v)

\* Element by element, and the product of matrices.
RowTimesColumn(n, s, t, w, i, j) ==
  FoldLeft(LAMBDA sum, k : Arith("ADD", sum, Arith("MUL", s[(i - 1) * n + k], t[(k - 1) * w + j])),
           Plain(s[1].t, 0), [k \in 1 .. n |-> k])
OnArrays(e, vs, st) ==
  LET v    == vs[Len(vs)]
      dims == st[v.at].dims
      b    == Numbers(v, st)
      a    == Numbers(vs[1], st)
      da   == st[vs[1].at].dims
  IN  CASE e.type = "NEG_ARR" -> ArrayOf(dims, [i \in DOMAIN b |-> Negative(b[i])], st)
        [] e.type = "MUL_ARR" -> ArrayOf(dims, [i \in DOMAIN b |-> Arith("MUL", vs[1], b[i])], st)
        [] e.type = "ADD_ARR" /\ da = dims -> ArrayOf(dims, [i \in DOMAIN b |-> Arith("ADD", a[i], b[i])], st)
        [] e.type = "SUB_ARR" /\ da = dims -> ArrayOf(dims, [i \in DOMAIN b |-> Arith("SUB", a[i], b[i])], st)
        [] e.type = "MUL_ARR_ARR" /\ da[2] = dims[1] ->
             ArrayOf(<<da[1], dims[2]>>,
                     [x \in 1 .. da[1] * dims[2] |->
                        RowTimesColumn(dims[1], a, b, dims[2], ((x - 1) \div dims[2]) + 1, ((x - 1) % dims[2]) + 1)], st)
        [] OTHER -> Thrown(EXCEPT_ARR_SIZE, st)
EvalArrayOp(e, env, st) ==
  OnValue(EvalAll(e.kids, env, st),
          LAMBDA o : LET vs == [i \in DOMAIN o.at |-> o.st[o.at[i]]]
                     IN  IF \E i \in DOMAIN vs : vs[i] = NoArr THEN Thrown(EXCEPT_NIL_POINTER, o.st)
                         ELSE OnArrays(e, vs, o.st))

\* A comprehension from its i-th qualifier on, the locations in `out` yielded so
\* far: `at` is what it has yielded then.
EachElement(e, i, l, n, out, env, st) ==
  IF n > Len(st[st[l].at].elems) THEN Value(out, st)
  ELSE OnValue(Qualified(e, i + 1, out, With(env, e.quals[i], st[st[l].at].elems[n]), st),
               LAMBDA o : EachElement(e, i, l, n + 1, o.at, env, o.st))
Qualified(e, i, out, env, st) ==
  OnValue(EvalExpr(e.kids[i], env, st),
          LAMBDA o : CASE i = Len(e.kids) -> Value(Append(out, o.at), o.st)
                       [] i < Len(e.kids) /\ e.quals[i] # NoName -> EachElement(e, i, o.at, 1, out, env, o.st)
                       [] i < Len(e.kids) /\ e.quals[i] = NoName ->
                            IF IntOf(o) = 0 THEN Value(out, o.st) ELSE Qualified(e, i + 1, out, env, o.st))
EvalListcomp(e, env, st) ==
  OnValue(Qualified(e, 1, << >>, env, st), LAMBDA o : FreshArray(<<Len(o.at)>>, o.at, o.st))

-----------------------------------------------------------------------------
\* The functions that are built in, of values.
BuiltIn(lib, x, st) ==
  CASE lib = "STR"  -> Fresh(StrVal(TextOfInt(x[1].v)), st)
    [] lib = "STRF" -> Fresh(StrVal(TextOfFloat(x[1].v)), st)
    [] lib = "ORD"  -> Fresh(IntVal(x[1].v), st)
    [] lib = "CHR"  -> Fresh(CharVal(CharOf(x[1].v)), st)
    [] lib \in {"PRINT", "PRINTF", "PRINTC"} -> Fresh(x[1], st)
    [] lib = "PRINTS" -> IF x[1] = NoStr THEN Thrown(EXCEPT_NIL_POINTER, st) ELSE Fresh(x[1], st)
    [] lib = "LENGTH" -> IF x[1] = NoStr THEN Thrown(EXCEPT_NIL_POINTER, st) ELSE Fresh(IntVal(Len(x[1].v)), st)
    [] lib = "SQRT" -> IF HasRoot(x[1].v) THEN Fresh(FloatVal(Root(x[1].v)), st) ELSE Thrown(EXCEPT_INVALID, st)
    [] lib = "POW"  -> IF HasPower(x[1].v, x[2].v) THEN Fresh(FloatVal(Power(x[1].v, x[2].v)), st)
                       ELSE Thrown(EXCEPT_DIVISION, st)
    [] lib = "ASSERT"  -> IF x[1].v # 0 THEN Fresh(IntVal(1), st) ELSE Thrown(ASSERTION, st)
    [] lib = "ASSERTF" -> IF Unsigned(x[1].v) <= x[2].v THEN Fresh(IntVal(1), st) ELSE Thrown(ASSERTION, st)
EvalBuiltIn(e, env, st) ==
  OnValue(EvalAll(e.kids, env, st), LAMBDA o : BuiltIn(e.lib, [i \in DOMAIN o.at |-> o.st[o.at[i]]], o.st))

\* A foreign function of values, if it is there.
EvalForeign(e, env, st) ==
  OnValue(EvalAll(e.kids, env, st),
          LAMBDA o : IF IsThere(e.lib, e.name)
                     THEN Fresh(Plain(Last(e.types), ForeignResult(e.name, [i \in DOMAIN o.at |-> o.st[o.at[i]].v])), o.st)
                     ELSE Thrown(EXCEPT_FFI_FAIL, o.st))

-----------------------------------------------------------------------------
EvalExpr(e, env, st) ==
  CASE e.type \in {"INT", "FLOAT", "CHAR", "STRING"} -> Fresh(Plain(e.type, e.value), st)
    [] e.type = "NIL"  -> Fresh(NilVal, st)
    [] e.type = "ID"   -> Value(env[e.id], st)
    [] e.type = "FUNC" -> Fresh(Closure(e.func_value, env), st)
    [] e.type \in Binaries -> EvalTwo(e, env, st)
    [] e.type = "NOT"  -> OnValue(EvalExpr(e.kids[1], env, st),
                                  LAMBDA o : Fresh(IntVal(Bool(IntOf(o) = 0)), o.st))
    [] e.type = "NEG"  -> OnValue(EvalExpr(e.kids[1], env, st),
                                  LAMBDA o : Fresh(Negative(o.st[o.at]), o.st))
    [] e.type = "INT_TO_FLOAT" -> OnValue(EvalExpr(e.kids[1], env, st),
                                          LAMBDA o : Fresh(FloatVal(Quarters(IntOf(o))), o.st))
    [] e.type = "FLOAT_TO_INT" -> OnValue(EvalExpr(e.kids[1], env, st),
                                          LAMBDA o : Fresh(IntVal(Whole(IntOf(o))), o.st))
    [] e.type = "BUILD_IN" -> EvalBuiltIn(e, env, st)
    [] e.type = "FOREIGN"  -> EvalForeign(e, env, st)
    [] e.type \in {"AND", "OR"} -> EvalShort(e, env, st)
    [] e.type = "ASS"  -> EvalAss(e, env, st)
    [] e.type = "SUP"  -> EvalExpr(e.kids[1], env, st)
    [] e.type = "SEQ"  -> EvalSeq(e.kids, env, st)
    [] e.type = "COND" -> OnValue(EvalExpr(e.kids[1], env, st),
                                  LAMBDA c : EvalExpr(e.kids[IF IntOf(c) # 0 THEN 2 ELSE 3], env, c.st))
    [] e.type = "WHILE" -> Loop(e.kids[1], <<e.kids[2]>>, env, st)
    [] e.type = "DO_WHILE" -> OnValue(EvalExpr(e.kids[2], env, st),
                                      LAMBDA o : Loop(e.kids[1], <<e.kids[2]>>, env, o.st))
    [] e.type = "FOR"  -> OnValue(EvalExpr(e.kids[1], env, st),
                                  LAMBDA i : Loop(e.kids[2], <<e.kids[4], e.kids[3]>>, env, i.st))
    [] e.type = "CALL" -> EvalCall(e, env, st)
    [] e.type = "ARRAY"    -> EvalArray(e, env, st)
    [] e.type = "MK_ARRAY" -> EvalNewArray(e, env, st)
    [] e.type = "ARRAY_DEREF" -> IF TypesOf(e) = "STRING" THEN EvalCharAt(e, env, st) ELSE EvalDeref(e, env, st)
    [] e.type \in ArrayOps -> EvalArrayOp(e, env, st)
    [] e.type = "LISTCOMP" -> EvalListcomp(e, env, st)
    [] e.type = "RECORD" -> OnValue(EvalAll(Reverse(e.kids), env, st),
                                    LAMBDA o : Fresh(RecVal(Reverse(o.at)), o.st))
    [] e.type = "ATTR" -> OnValue(EvalExpr(e.kids[1], env, st),
                                  LAMBDA o : IF o.st[o.at].t = "nil" THEN Thrown(EXCEPT_NIL_POINTER, o.st)
                                             ELSE Value(o.st[o.at].fields[e.index + 1], o.st))

\* A program of functions of which the last is main: its number, or what it
\* throws.
Answer(o) ==
  CASE o.ok -> <<"HALT", o.st[o.at].t, IntOf(o)>>
    [] ~o.ok /\ o.exc # ASSERTION -> <<"ERROR", o.exc>>
    [] ~o.ok /\ o.exc = ASSERTION -> <<"ASSERT">>
EvalProgram(fs, params) ==
  LET n   == Len(fs)
      env == [x \in {fs[i].id : i \in 1 .. n} |-> CHOOSE i \in 1 .. n : fs[i].id = x]
      st  == [i \in 1 .. n |-> Closure(fs[i], env)] \o [i \in DOMAIN params |-> Plain(params[i].type, params[i].value)]
  IN  Answer(Call0(n, [i \in DOMAIN params |-> n + i], st))
=============================================================================
