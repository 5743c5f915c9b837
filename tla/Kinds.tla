------------------------------- MODULE Kinds -------------------------------
(***************************************************************************)
(* What an expression the type checker has accepted comes to: the          *)
(* instruction back/emit.c chooses for each node by the types in it, or    *)
(* none where its assertions say there is always one, and what back/vm.c   *)
(* does with objects when it executes it.                                  *)
(*                                                                         *)
(* Of an object only what can go wrong is kept: its kind, whether it is    *)
(* nil, the dimensions and elements of an array, the fields of a record,   *)
(* the code and variables of a function.  Reading an object as one of      *)
(* another kind is a fault: an assertion of back/gc.c fails.  An outcome   *)
(* is the set of the objects an expression may give, with Raised if it may *)
(* raise an exception and Faulted if it may fault.  Objects have values,   *)
(* not cells: an assignment gives what it assigns and leaves the variables *)
(* as they are.                                                            *)
(***************************************************************************)
EXTENDS Typecheck

None == <<"none">>

ArrOp(t, c) == IF NumArray(c) THEN <<t, "ARR", c.ret.k>> ELSE None
Numeric(t, c) == IF c.k \in Numbers THEN <<t, c.k>> ELSE ArrOp(t, c)

\* expr_add_emit, expr_mul_emit, and the others by their operands' types.
AddInstr(c, l, r) ==
  IF "STRING" \in {l, r} /\ {l, r} \subseteq Numbers \cup {"STRING"} THEN <<"ADD", l, r>> ELSE Numeric("ADD", c)
MulInstr(c, l, r) ==
  CASE c.k \in Numbers                               -> <<"MUL", c.k>>
    [] c.k = "ARRAY" /\ l \in Numbers                -> <<"MUL", "ARR", l>>
    [] NumArray(c) /\ l = "ARRAY" /\ r = "ARRAY"     -> <<"MUL", "ARR", "ARR", c.ret.k>>
    [] OTHER                                         -> None
CompareInstr(t, l, r) == IF l = r /\ l \in Numbers \cup {"CHAR"} THEN <<t, l>> ELSE None

Nilable(k) == IF k = "RECORD_ID" THEN "RECORD" ELSE k
EqualInstr(t, l, r) ==
  CASE l = r /\ l \in Numbers \cup {"CHAR", "STRING", "NIL"} -> <<t, l>>
    [] l = r /\ l = "ENUMTYPE"                               -> <<t, "INT">>
    [] "NIL" \in {l, r} /\ \E k \in {l, r} : Nilable(k) \in {"STRING", "ARRAY", "RECORD", "FUNC"} ->
         <<t, Nilable(l), Nilable(r)>>
    [] OTHER -> None
AssignInstr(c, l, r) ==
  CASE l \in {"RECORD", "RECORD_ID"} /\ r = "NIL" -> <<"ASS", "RECORD", "NIL">>
    [] c.k = "ENUMTYPE"                           -> <<"ASS", "INT">>
    [] c.k \in Numbers \cup {"CHAR", "STRING", "ARRAY", "FUNC", "RECORD"} -> <<"ASS", c.k>>
    [] OTHER -> None
AttrInstr(e, l) ==
  CASE e.index = -1                   -> None
    [] l \in {"RECORD", "RECORD_ID"}  -> <<"ATTR">>
    [] l = "ENUMTYPE_ID"              -> <<"INT">>
    [] OTHER                          -> None

\* expr_emit.
Choose(e, c, l, r) ==
  CASE e.type = "ID"             -> IF e.entry = "ENUMTYPE" THEN None ELSE <<"ID">>
    [] e.type \in {"NEG", "SUB"} -> Numeric(e.type, c)
    [] e.type = "ADD"            -> AddInstr(c, l, r)
    [] e.type = "MUL"            -> MulInstr(c, l, r)
    [] e.type = "DIV"            -> IF c.k \in Numbers THEN <<"DIV", c.k>> ELSE None
    [] e.type = "MOD"            -> IF l = "INT" /\ r = "INT" THEN <<"MOD", "INT">> ELSE None
    [] e.type \in {"LT", "GT", "LTE", "GTE"} -> CompareInstr(e.type, l, r)
    [] e.type \in {"EQ", "NEQ"}  -> EqualInstr(e.type, l, r)
    [] e.type = "NOT"            -> IF c.k = "INT" THEN <<"NOT", "INT">> ELSE None
    [] e.type = "ASS"            -> AssignInstr(c, l, r)
    [] e.type = "ARRAY_DEREF"    -> IF l \in {"ARRAY", "STRING"} THEN <<l, "DEREF">> ELSE None
    [] e.type = "ATTR"           -> AttrInstr(e, l)
    [] e.type = "CALL"           -> IF l = "RECORD_ID" THEN <<"RECORD">> ELSE <<"CALL">>
    [] e.type = "ARRAY"          -> IF e.kind = "SUB" THEN None ELSE <<"MK_ARRAY", e.kind>>
    [] e.type = "INT_TO_FLOAT"   -> IF l = "INT" THEN <<e.type>> ELSE None
    [] e.type = "FLOAT_TO_INT"   -> IF l = "FLOAT" THEN <<e.type>> ELSE None
    [] OTHER                     -> <<e.type>>
CombK(e, i) == IF i \in DOMAIN e.kids THEN e.kids[i].comb.k ELSE "none"
Instr(e) == Choose(e, e.comb, CombK(e, 1), CombK(e, 2))

\* The operands that get code: not the name of a record that is built or of
\* an enumeration, and of an array's rows only what is in them.
Operands(e) ==
  CASE e.type = "CALL" /\ CombK(e, 1) = "RECORD_ID"   -> Tail(e.kids)
    [] e.type = "ATTR" /\ CombK(e, 1) = "ENUMTYPE_ID" -> << >>
    [] e.type = "ARRAY" /\ e.kind = "INIT"            -> Last(Levels(e.kids))
    [] OTHER                                          -> e.kids

RECURSIVE HasCode(_), FuncHasCode(_)
HasCode(e) ==
  /\ Instr(e) # None
  /\ \A i \in DOMAIN Operands(e) : HasCode(Operands(e)[i])
  /\ e.type = "FUNC" => FuncHasCode(e.func_value)
  /\ e.type = "LISTCOMP" => HasCode(e.expr) /\ \A i \in DOMAIN e.quals : HasCode(e.quals[i].expr)
FuncHasCode(f) ==
  /\ HasCode(f.ret)
  /\ \A i \in DOMAIN f.binds : HasCode(f.binds[i].expr)
  /\ \A i \in DOMAIN f.funcs : FuncHasCode(f.funcs[i])
  /\ \A i \in DOMAIN f.excepts : HasCode(f.excepts[i].expr)
  /\ \A i \in DOMAIN f.all : HasCode(f.all[i].expr)

-----------------------------------------------------------------------------
(* Objects and outcomes. *)

Num(k)       == [k |-> k]
Str(nil)     == [k |-> "STRING_REF", nil |-> nil]
Arr(n, vs)   == [k |-> "ARRAY_REF", nil |-> FALSE, dims |-> n, elems |-> vs]
NilArr       == [k |-> "ARRAY_REF", nil |-> TRUE]
Vec(vs)      == [k |-> "VEC_REF", nil |-> FALSE, vals |-> vs]
NilVec       == [k |-> "VEC_REF", nil |-> TRUE]
Code(f, env, beside) == [k |-> "FUNC", nil |-> FALSE, f |-> f, env |-> env, beside |-> beside]
NilCode      == [k |-> "FUNC", nil |-> TRUE]
DimOf(v, j)  == [k |-> "DIM", of |-> v, at |-> j]     \* not an object: dimension j of v

\* The kind of object that holds a value of a type.
KindOf(k) ==
  CASE k \in {"INT", "DIM", "ENUMTYPE"}       -> "INT"
    [] k = "STRING"                           -> "STRING_REF"
    [] k = "ARRAY"                            -> "ARRAY_REF"
    [] k \in {"RECORD", "RECORD_ID", "NIL"}   -> "VEC_REF"
    [] OTHER                                  -> k
IsNil(v)  == "nil" \in DOMAIN v /\ v.nil

Raised        == [k |-> "raised"]
Faulted       == [k |-> "faulted"]
Objects(o)    == o \ {Raised, Faulted}
MayRaise(o)   == o \cup {Raised}
Raises        == {Raised}
Fault         == {Faulted}
After(os, o)  == o \cup {v \in UNION os : v \in {Raised, Faulted}}

\* gc_get_int and its like: an operand of the kinds the instruction reads.
Reads(ks, vs, o) == IF \A i \in DOMAIN ks : vs[i].k = ks[i] THEN o ELSE Fault
NotNil(vs, o)    == IF \E v \in vs : IsNil(v) THEN Raises ELSE o

\* Instructions on numbers, chars and strings; division and comparing nil
\* strings raise.
Comparisons == {"LT", "GT", "LTE", "GTE", "EQ", "NEQ"}
Scalar(t, k, vs) ==
  Reads([i \in DOMAIN vs |-> KindOf(k)], vs,
    CASE t \in {"DIV", "MOD"}   -> MayRaise({Num(k)})
      [] t \in Comparisons      -> IF k = "STRING" THEN NotNil(Range(vs), {Num("INT")}) ELSE {Num("INT")}
      [] OTHER                  -> {Num(k)})
Concat(vs)  == NotNil(Range(vs), {Str(FALSE)})
NilTest     == {Num("INT")}
Pair(t, k, vs) ==
  Reads([i \in DOMAIN vs |-> KindOf(k[i])], vs,
    CASE t = "ADD"  -> Concat(vs)
      [] t = "ASS"  -> {NilVec}
      [] OTHER      -> NilTest)

\* On arrays of numbers, alone, two of one size or with a number before.
OnArray(k, vs) ==
  Reads([i \in DOMAIN vs |-> IF vs[i].k \in Numbers /\ i < Len(vs) THEN k ELSE "ARRAY_REF"], vs,
    NotNil(Range(vs),
      CASE \E v \in Range(vs) : v.k = "ARRAY_REF" /\ \E x \in v.elems : x.k # k -> Fault
        [] Len(vs) = 2 /\ vs[1].k = "ARRAY_REF" -> MayRaise({Arr(Last(vs).dims, {Num(k)})})
        [] OTHER -> {Arr(Last(vs).dims, {Num(k)})}))

\* The result is the cell on the left with the value from the right.
Assigned(k, vs) ==
  Reads(<<KindOf(k), KindOf(k)>>, vs,
    IF k \in {"STRING", "ARRAY", "FUNC"} THEN NotNil({vs[2]}, {vs[2]}) ELSE {vs[2]})

ArrayDeref(vs) ==
  Reads([i \in DOMAIN vs |-> IF i = 1 THEN "ARRAY_REF" ELSE "INT"], vs,
    NotNil({vs[1]}, IF vs[1].dims = Len(vs) - 1 THEN MayRaise(vs[1].elems) ELSE Fault))
StringDeref(vs) ==
  Reads(<<"STRING_REF", "INT">>, vs, NotNil({vs[1]}, MayRaise({Num("CHAR")})))
AttrOf(vs, index) ==
  Reads(<<"VEC_REF">>, vs,
    NotNil(Range(vs), IF index < Len(vs[1].vals) THEN {vs[1].vals[index + 1]} ELSE Fault))

\* mk_array_num fills a new array; mk_init_array takes as many elements from
\* the stack as the dimensions multiply to.
Default(k) ==
  CASE k = "STRING" -> Str(TRUE) [] k = "ARRAY" -> NilArr [] k = "RECORD" -> NilVec [] k = "FUNC" -> NilCode
    [] OTHER -> Num(KindOf(k))
MkArray(n, k, vs) ==
  Reads([i \in DOMAIN vs |-> "INT"], vs, MayRaise({Arr(n, {Default(k)})}))
MkInitArray(dims, vs) ==
  IF FoldLeft(LAMBDA a, b : a * b, 1, dims) = Len(vs) THEN {Arr(Len(dims), Range(vs))} ELSE Fault

\* libvm_execute_build_in.
ReadsFloat == {"sin", "cos", "tan", "exp", "log", "sqrt", "pow", "strf", "printf", "assertf"}
LibraryCall(x, vs) ==
  LET k == CASE x \in ReadsFloat -> "FLOAT" [] x \in {"ord", "printc"} -> "CHAR"
             [] x \in {"prints", "length"} -> "STRING_REF" [] OTHER -> "INT"
      r == CASE x \in ReadsFloat \ {"strf", "assertf"} -> Num("FLOAT")
             [] x \in {"str", "strf", "prints"} -> Str(FALSE) [] x \in {"chr", "printc"} -> Num("CHAR")
             [] OTHER -> Num("INT")
  IN  Reads([i \in DOMAIN vs |-> k], vs, NotNil(Range(vs), MayRaise({r})))

\* vm_execute_func_ffi: the arguments are read as the parameters say.  A string
\* that is nil is read like any other.
ForeignCall(e, vs) ==
  IF \E v \in Range(vs) : IsNil(v) THEN Fault
  ELSE Reads([i \in DOMAIN vs |-> KindOf(e.types[i].k)], vs,
             MayRaise({IF e.ret = StringT THEN Str(FALSE) ELSE Num(KindOf(e.ret.k))}))

Execute(e, op, vs) ==
  CASE op = <<"ATTR">>                       -> AttrOf(vs, e.index)
    [] op[1] = "INT"                         -> {Num("INT")}
    [] op[1] \in {"FLOAT", "CHAR"}           -> {Num(op[1])}
    [] op[1] = "STRING"  /\ Len(op) = 1      -> {Str(FALSE)}
    [] op[1] = "NIL"                         -> {NilVec}
    [] op = <<"ARRAY", "DEREF">>             -> ArrayDeref(vs)
    [] op = <<"STRING", "DEREF">>            -> StringDeref(vs)
    [] op = <<"RECORD">>                     -> {Vec(vs)}
    [] op = <<"MK_ARRAY", "INIT">>           -> MkInitArray(e.dims, vs)
    [] op = <<"MK_ARRAY", "DIMS">>           -> MkArray(Len(vs), e.ret.k, vs)
    [] op = <<"INT_TO_FLOAT">>               -> Reads(<<"INT">>, vs, {Num("FLOAT")})
    [] op = <<"FLOAT_TO_INT">>               -> Reads(<<"FLOAT">>, vs, {Num("INT")})
    [] op = <<"BUILD_IN">>                   -> LibraryCall(e.id, vs)
    [] op[1] = "ASS" /\ Len(op) = 2          -> Assigned(op[2], vs)
    [] "ARR" \in Range(op)                   -> OnArray(Last(op), vs)
    [] Len(op) = 2                           -> Scalar(op[1], op[2], vs)
    [] OTHER                                 -> Pair(op[1], Tail(op), vs)

-----------------------------------------------------------------------------
(* Evaluation.  An environment maps the names in scope to sets of objects;  *)
(* names that are not in it are functions of the program.                   *)

CONSTANT Program       \* the functions of the program, checked, by name

RECURSIVE Ev(_, _), Apply(_, _), Body(_, _), EvQuals(_, _, _)

\* JUMPZ.
Tested(o) == {IF v.k \in {"INT", "raised", "faulted"} THEN v ELSE Faulted : v \in o}

Beside(funcs, env) == [x \in {funcs[i].id : i \in DOMAIN funcs} |->
                        {Code(funcs[CHOOSE i \in DOMAIN funcs : funcs[i].id = x], env, funcs)}]

\* ID_DIM_LOCAL reads the array behind the reference, nil or not.
DimRead(v) ==
  IF v.of.k # "ARRAY_REF" \/ IsNil(v.of) THEN Fault
  ELSE IF v.at <= v.of.dims THEN {Num("INT")} ELSE Fault
Read(e, env) ==
  CASE e.entry = "RECORD"      -> {NilVec}
    [] e.id \in DOMAIN Program \ DOMAIN env -> {Code(Program[e.id], NoNames, << >>)}
    [] e.id \notin DOMAIN env  -> Fault
    [] OTHER                   -> UNION {IF v.k = "DIM" THEN DimRead(v) ELSE {v} : v \in env[e.id]}

Tuples(os) == {t \in [DOMAIN os -> UNION Range(os)] : \A i \in DOMAIN os : t[i] \in Objects(os[i])}
Run(e, op, vs) == IF op = <<"CALL">> THEN Apply(Head(vs), Tail(vs)) ELSE Execute(e, op, vs)
Strict(e, os)  == After(Range(os), UNION {Run(e, op, vs) : op \in {Instr(e)}, vs \in Tuples(os)})

Each(es, env) == [i \in DOMAIN es |-> Ev(es[i], env)]

\* generator_emit asks the array for its dimension first; a name that was
\* taken when it was checked is not bound.
Bound(e, i) == e.quals[i].id \in DOMAIN e.stab /\ \A j \in 1 .. i - 1 : e.quals[j].id # e.quals[i].id
Over(e, i, env, v) ==
  IF v \in {Raised, Faulted} THEN {v}
  ELSE IF v.k # "ARRAY_REF" \/ IsNil(v) THEN Fault
  ELSE EvQuals(e, i + 1, IF Bound(e, i) THEN (e.quals[i].id :> v.elems) @@ env ELSE env)
EvQuals(e, i, env) ==
  IF i > Len(e.quals) THEN Ev(e.expr, env)
  ELSE IF e.quals[i].id = NoName THEN After({Tested(Ev(e.quals[i].expr, env))}, EvQuals(e, i + 1, env))
  ELSE UNION {Over(e, i, env, v) : v \in Ev(e.quals[i].expr, env)}
Listed(o) == After({o}, {Arr(1, Objects(o))})

Ev(e, env) ==
  CASE e.type = "ID"       -> Read(e, env)
    [] e.type = "FUNC"     -> {Code(e.func_value, env, << >>)}
    [] e.type = "SUP"      -> Ev(e.kids[1], env)
    [] e.type = "SEQ"      -> After(Range(Each(e.kids, env)), Ev(Last(e.kids), env))
    [] e.type = "COND"     -> After({Tested(Ev(e.kids[1], env))}, Ev(e.kids[2], env) \cup Ev(e.kids[3], env))
    [] e.type \in {"AND", "OR"} -> After({Tested(Ev(e.kids[i], env)) : i \in {1, 2}}, {Num("INT")})
    [] e.type \in {"WHILE", "DO_WHILE"} ->
         After({Tested(Ev(e.kids[1], env)), Ev(e.kids[2], env)}, {Num("INT")})
    [] e.type = "FOR"      ->
         After({Tested(Ev(e.kids[2], env))} \cup {Ev(e.kids[i], env) : i \in {1, 3, 4}}, {Num("INT")})
    [] e.type = "LISTCOMP" -> Listed(EvQuals(e, 1, env))
    [] e.type = "FOREIGN"  -> UNION {ForeignCall(e, vs) : vs \in Tuples([i \in DOMAIN e.kids |-> env[e.kids[i].id]])}
    [] OTHER               -> Strict(e, Each(Operands(e), env))

\* A function's parameters, and the dimensions of those that are arrays.
Arguments(f, args) ==
  LET bound(i) == (f.params[i].id :> {args[i]}) @@
                  [x \in {d.id : d \in Range(DimNames(f.params[i].type))} |->
                    {DimOf(args[i], j) : j \in {j \in DOMAIN f.params[i].type.dims : f.params[i].type.dims[j] = x}}]
  IN  FoldLeft(LAMBDA env, i : bound(i) @@ env, NoNames, [i \in DOMAIN args |-> i])

Apply(v, args) ==
  CASE v.k # "FUNC" -> Fault
    [] IsNil(v)     -> Raises
    [] OTHER        -> Body(v.f, Arguments(v.f, args) @@ (v.f.id :> {v}) @@ Beside(v.beside, v.env) @@ v.env)

\* What the bindings come to, and after them the functions and the result.
BindTo(s, x, o) == [env |-> (x :> Objects(o)) @@ s.env, ends |-> After({o}, s.ends)]
Binding(f, env) ==
  FoldLeft(LAMBDA s, b : BindTo(s, b.id, Ev(b.expr, s.env)), [env |-> env, ends |-> {}], f.binds)
Straight(f, s) == After({s.ends}, Ev(f.ret, Beside(f.funcs, s.env) @@ s.env))

\* Any clause may handle an exception; without one for all of them it may go on.
Handlings(f, env) == UNION {Ev(c.expr, env) : c \in Range(f.excepts) \cup Range(f.all)}
Handle(f, o, os)  == UNION {IF v = Raised THEN os \cup (IF f.all = << >> THEN Raises ELSE {}) ELSE {v} : v \in o}
Body(f, env) == Handle(f, Straight(f, Binding(f, env)), Handlings(f, env))

-----------------------------------------------------------------------------
\* An object that holds a value of type c, as far as it can be followed.
RECURSIVE Fits(_, _)
Fits(v, c) ==
  /\ v.k = KindOf(c.k)
  /\ v.k = "ARRAY_REF" /\ ~v.nil => v.dims = c.dims /\ \A x \in v.elems : Fits(x, CombOf(c.ret))
  /\ v.k = "VEC_REF" /\ ~v.nil => \A i \in DOMAIN v.vals : Fits(v.vals[i], CombOf(FieldTypes(c.value)[i]))
=============================================================================
