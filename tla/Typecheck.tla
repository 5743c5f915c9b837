----------------------------- MODULE Typecheck -----------------------------
(***************************************************************************)
(* The type checker of front/typecheck.c and front/tcheckarr.c on the      *)
(* expressions of Ast and on arrays, strings, floats, list comprehensions, *)
(* enumerations and build-in functions.                                    *)
(*                                                                         *)
(* The code writes the type of an expression into its node (comb), replaces*)
(* nodes by conversions of them, and reports a failure through one flag.   *)
(* Check returns the node with its type; a failure anywhere in it makes    *)
(* that type Err.  Scopes are sequences of symbol tables, innermost first. *)
(***************************************************************************)
EXTENDS Ast, Types, SequencesExt

CONSTANTS Records,   \* the records of the program: for a name its fields [id, type]
          Enums      \* the enumerations: for a name its items

Literal(t)      == [type |-> t, kids |-> << >>]
Array(es, t)    == [type |-> "ARRAY", kind |-> "INIT", kids |-> es, ret |-> t]     \* [ es ] : t
Row(es)         == [type |-> "ARRAY", kind |-> "SUB",  kids |-> es]                \* [ es ] in an array
ArrayDims(es, t) == [type |-> "ARRAY", kind |-> "DIMS", kids |-> es, ret |-> t]    \* {[ es ]} : t
Attribute(r, x) == [type |-> "ATTR", kids |-> <<r>>, id |-> x]
Comprehension(e, quals, t) ==                                                      \* [ e | quals ] : t
  [type |-> "LISTCOMP", kids |-> << >>, expr |-> e, quals |-> quals, ret |-> t]
Param(x, t)     == [id |-> x, type |-> t]
Function(x, params, t, binds, funcs, e, excepts, all) ==
  Func(NoName, x, params, binds, funcs, e, excepts, all) @@ [rtype |-> t]
Plain(x, params, t, e) == Function(x, params, t, << >>, << >>, e, << >>, << >>)

\* A function of a library: its result is what is found there by its name.
Outside(x, params, t) ==
  Plain(x, params, t, [type |-> "FOREIGN", kids |-> [i \in DOMAIN params |-> Id(params[i].id)],
                       types |-> [i \in DOMAIN params |-> params[i].type], ret |-> t])

\* libmath_add_funcs: the build-in functions, written as functions of the
\* program whose result is the operation on their parameters.
LibMath ==
  LET F(x, ts, r) ==
        Plain(x, [i \in DOMAIN ts |-> Param(<<"x", "y">>[i], ts[i])], r,
              [type |-> "BUILD_IN", id |-> x, ret |-> r,
               kids |-> [i \in DOMAIN ts |-> Id(<<"x", "y">>[i])]])
  IN  [i \in 1 .. 6 |-> F(<<"sin", "cos", "tan", "exp", "log", "sqrt">>[i], <<FloatT>>, FloatT)] \o
      <<F("pow", <<FloatT, FloatT>>, FloatT), F("str", <<IntT>>, StringT), F("strf", <<FloatT>>, StringT),
        F("ord", <<CharT>>, IntT), F("chr", <<IntT>>, CharT), F("read", << >>, IntT),
        F("print", <<IntT>>, IntT), F("printf", <<FloatT>>, FloatT), F("printc", <<CharT>>, CharT),
        F("prints", <<StringT>>, StringT), F("length", <<StringT>>, IntT),
        F("assert", <<IntT>>, IntT), F("assertf", <<FloatT, FloatT>>, IntT)>>

-----------------------------------------------------------------------------
(* Symbol tables. *)

NoNames == [x \in {} |-> Unknown]
Table(block, of) == [block |-> block, of |-> of]
Entry(type, comb) == [type |-> type, comb |-> comb]

Found(sc, x)  == \E i \in DOMAIN sc : x \in DOMAIN sc[i].of
LookUp(sc, x) == sc[CHOOSE i \in DOMAIN sc : x \in DOMAIN sc[i].of /\
                                             \A j \in 1 .. i - 1 : x \notin DOMAIN sc[j].of].of[x]

\* SYMTAB_LOOKUP_LOCAL leaves a table for the one around it only if it is a block.
FoundHere(sc, x) ==
  \E i \in DOMAIN sc : x \in DOMAIN sc[i].of /\ \A j \in 1 .. i - 1 : sc[j].block

Define(sc, x, entry) == [sc EXCEPT ![1].of = (x :> entry) @@ @]

\* What is being checked: the scope, whether it is accepted so far, and the
\* function the findings are written into.
Add(st, x, entry) ==
  CASE x = NoName          -> st
    [] FoundHere(st.sc, x) -> [st EXCEPT !.ok = FALSE]
    [] OTHER               -> [st EXCEPT !.sc = Define(st.sc, x, entry)]

FuncEntry(f) == Entry("FUNC", FuncOf([i \in DOMAIN f.params |-> f.params[i].type], f.rtype))

\* A parameter that is an array declares its dimensions as well.
DimNames(t) == IF t.k = "ARRAY" THEN [i \in DOMAIN t.dims |-> Param(t.dims[i], DimT)] ELSE << >>
WithDims(params) == FlattenSeq([i \in DOMAIN params |-> <<params[i]>> \o DimNames(params[i].type)])

-----------------------------------------------------------------------------
(* The names of records and enumerations in a type. *)

RECURSIVE Resolve(_, _), Resolves(_, _)
Resolve(t, sc) ==
  CASE t.k \in {"RECORD", "ENUMTYPE"} /\ Resolves(t, sc) ->
         [t EXCEPT !.k = LookUp(sc, t.id).type, !.value = t.id]
    [] t.k = "ARRAY" -> [t EXCEPT !.ret = Resolve(@, sc)]
    [] t.k = "FUNC"  -> FuncOf([i \in DOMAIN t.params |-> Resolve(t.params[i], sc)], Resolve(t.ret, sc))
    [] OTHER         -> t
Resolves(t, sc) ==
  CASE t.k \in {"RECORD", "ENUMTYPE"} -> Found(sc, t.id) /\ LookUp(sc, t.id).type \in {"RECORD", "ENUMTYPE"}
    [] t.k = "ARRAY" -> Resolves(t.ret, sc)
    [] t.k = "FUNC"  -> Resolves(t.ret, sc) /\ \A i \in DOMAIN t.params : Resolves(t.params[i], sc)
    [] OTHER         -> TRUE

\* never_sem_check enters enumerations and records before it checks anything.
TopTable ==
  Table(FALSE, [x \in DOMAIN Enums   |-> Entry("ENUMTYPE", RecordC("ENUMTYPE_ID", x))] @@
               [x \in DOMAIN Records |-> Entry("RECORD",   RecordC("RECORD_ID", x))])

FieldTypes(r) == [i \in DOMAIN Records[r] |-> Resolve(Records[r][i].type, <<TopTable>>)]

\* The names an attribute of a record may have, with the index the field has:
\* the record's table gets the dimensions of its arrays too, counted from 0
\* in each array.
Fields(r) ==
  UNION {{[id |-> Records[r][i].id, index |-> i - 1, type |-> FieldTypes(r)[i]]} \cup
         {[id |-> Records[r][i].type.dims[j], index |-> j - 1, type |-> DimT] :
            j \in IF Records[r][i].type.k = "ARRAY" THEN DOMAIN Records[r][i].type.dims ELSE {}} :
         i \in DOMAIN Records[r]}

\* enumtype_check_type and record_check_type find nothing to refuse.
DefinitionsOK ==
  /\ \A x \in DOMAIN Enums : IsInjective(Enums[x])
  /\ \A r \in DOMAIN Records :
       /\ IsInjective([i \in DOMAIN WithDims(Records[r]) |-> WithDims(Records[r])[i].id])
       /\ \A i \in DOMAIN Records[r] : Resolves(Records[r][i].type, <<TopTable>>)

-----------------------------------------------------------------------------
(* The type of an operation from the types of its operands, with the        *)
(* conversions it makes of them: `conv` maps an operand to one.             *)

Typed(c)     == [comb |-> c, conv |-> << >>]
Bad          == Typed(Err)
OnlyIf(p, r) == IF p THEN r ELSE Bad

BothNumbers(l, r) == {l.k, r.k} \subseteq Numbers
Unconverted(l, r) ==                      \* mutant: mixed operands stay as they are
  Typed(IF FloatT \in {l, r} THEN FloatT ELSE IntT)
Mixed(l, r) ==
  LET c == IF FloatT \in {l, r} THEN FloatT ELSE IntT
  IN  [comb |-> c, conv |-> [i \in {i \in {1, 2} : <<l, r>>[i] # c} |-> "INT_TO_FLOAT"]]

NumArray(c)      == c.k = "ARRAY" /\ c.ret.k \in Numbers
NumArrays(l, r)  == NumArray(l) /\ NumArray(r) /\ l.ret.k = r.ret.k /\ l.dims = r.dims

AddSubString(type, l, r) ==               \* mutant: strings can be subtracted
  CASE BothNumbers(l, r) -> Mixed(l, r)
    [] StringT \in {l, r} /\ {l.k, r.k} \subseteq Numbers \cup {"STRING"} -> Typed(StringT)
    [] OTHER -> OnlyIf(NumArrays(l, r), Typed(r))
AddSub(type, l, r) ==
  CASE BothNumbers(l, r) -> Mixed(l, r)
    [] type = "ADD" /\ StringT \in {l, r} /\ {l.k, r.k} \subseteq Numbers \cup {"STRING"} -> Typed(StringT)
    [] OTHER -> OnlyIf(NumArrays(l, r), Typed(r))

Mul(l, r) ==
  CASE BothNumbers(l, r) -> Mixed(l, r)
    [] l.k \in Numbers /\ NumArray(r) ->
         [comb |-> r, conv |-> [i \in {1} \ (IF l.k = r.ret.k THEN {1} ELSE {}) |-> ConvTo(r.ret.k)]]
    [] OTHER -> OnlyIf(NumArrays(l, r) /\ l.dims = 2, Typed(l))

Compared(l, r) == OnlyIf(l.k = r.k /\ l.k \in Numbers \cup {"CHAR"}, Typed(IntT))

\* EXPR_EQ and EXPR_NEQ: what may be nil is compared with nil only.
Equal(l, r) ==
  OnlyIf(\/ l.k = r.k /\ l.k \in Numbers \cup {"NIL", "CHAR", "STRING"}
         \/ l.k = r.k /\ l.k = "ENUMTYPE" /\ l.value = r.value
         \/ \E c, d \in {l, r} : c.k = "NIL" /\ d.k \in {"STRING", "ARRAY", "RECORD", "RECORD_ID", "FUNC"},
         Typed(IntT))

\* The type of what was assigned to or chosen: a record's name stands for a record.
AsValue(c) == IF IsRecord(c) THEN RecordC("RECORD", c.value) ELSE c

\* What malloc left in a node, which its constructor does not clear and which
\* is read where the check has not written it: the enumeration, the dimensions
\* and the elements of its comb type.  It is any value, chosen when the node is
\* built; where nothing is said of it, it is zero.  A pointer to no type makes
\* the compiler itself fail, so the elements are a null pointer, which no type equals.
Cleared   == [enum |-> NULL, dims |-> 0, ret |-> [k |-> NULL]]
Memory(e) == IF "memory" \in DOMAIN e THEN e.memory ELSE Cleared

\* An assignment of enumerations is given no enumeration: it has what was left in it.
Assign(e, l, r) ==
  CASE BothNumbers(l, r) -> [comb |-> l, conv |-> [i \in {i \in {2} : r # l} |-> ConvTo(l.k)]]
    [] l.k = "ENUMTYPE"  -> OnlyIf(Alike(l, r), Typed(RecordC("ENUMTYPE", Memory(e).enum)))
    [] OTHER -> OnlyIf(\/ Alike(l, r)
                       \/ l.k = "ARRAY" /\ r.k = "ARRAY" /\ ArrayCmp(l, r)
                       \/ IsRecord(l) /\ r.k = "NIL", Typed(AsValue(l)))

\* The branches of a condition.  If the first is an array the second, n of type
\* d, is compared as one, whatever it is.
AsArray(n, d) ==
  CASE d.k = "ARRAY" -> d
    [] d.k = "FUNC"  -> ArrayC(Memory(n).dims, d.ret)
    [] OTHER         -> ArrayC(Memory(n).dims, Memory(n).ret)
Chosen(n, c, d) ==
  OnlyIf(Alike(c, d) \/ (c.k = "ARRAY" /\ ArrayCmp(c, AsArray(n, d))), Typed(AsValue(c)))

\* param_expr_list_cmp for a call's arguments, which follow what is called.
Passed(ts, cs, c) ==
  LET fit == [i \in DOMAIN ts |-> ParamExprCmp(ts[i], cs[i + 1])]
  IN  IF Len(cs) # Len(ts) + 1 THEN Bad
      ELSE OnlyIf(\A i \in DOMAIN ts : fit[i] # "FAIL",
                  [comb |-> c, conv |-> [i \in {i \in DOMAIN cs : i > 1 /\ fit[i - 1] # "SUCC"} |-> fit[i - 1]]])
Called(cs) ==
  CASE cs[1].k = "FUNC"      -> Passed(cs[1].params, cs, CombOf(cs[1].ret))
    [] cs[1].k = "RECORD_ID" -> Passed(FieldTypes(cs[1].value), cs, RecordC("RECORD", cs[1].value))
    [] OTHER                 -> Bad

AllInts(cs) == \A i \in DOMAIN cs : cs[i] = IntT

Rule(e, cs) ==
  CASE e.type \in {"INT", "FLOAT", "CHAR", "STRING", "NIL"} -> Typed([k |-> e.type])
    [] e.type = "NEG"             -> OnlyIf(cs[1].k \in Numbers \/ NumArray(cs[1]), Typed(cs[1]))
    [] e.type \in {"ADD", "SUB"}  -> AddSub(e.type, cs[1], cs[2])
    [] e.type = "MUL"             -> Mul(cs[1], cs[2])
    [] e.type = "DIV"             -> OnlyIf(BothNumbers(cs[1], cs[2]), Mixed(cs[1], cs[2]))
    [] e.type \in {"MOD", "AND", "OR", "NOT"} -> OnlyIf(AllInts(cs), Typed(IntT))
    [] e.type \in {"LT", "GT", "LTE", "GTE"}  -> Compared(cs[1], cs[2])
    [] e.type \in {"EQ", "NEQ"}   -> Equal(cs[1], cs[2])
    [] e.type = "SUP"             -> Typed(cs[1])
    [] e.type = "SEQ"             -> IF cs = << >> THEN Bad ELSE Typed(Last(cs))
    [] e.type = "COND"            -> OnlyIf(cs[1] = IntT, Chosen(e.kids[3], cs[2], cs[3]))
    [] e.type = "ASS"             -> Assign(e, cs[1], cs[2])
    [] e.type \in {"WHILE", "DO_WHILE"} -> OnlyIf(cs[1] = IntT, Typed(IntT))
    [] e.type = "FOR"             -> OnlyIf(cs[2] = IntT, Typed(IntT))
    [] e.type = "BUILD_IN"        -> Typed(CombOf(e.ret))
    [] e.type = "INT_TO_FLOAT"    -> OnlyIf(cs[1] = IntT, Typed(FloatT))
    [] e.type = "FLOAT_TO_INT"    -> OnlyIf(cs[1] = FloatT, Typed(IntT))
    [] e.type = "CALL"            -> Called(cs)

\* expr_conv puts the conversion in the place of the operand.
Convert(n, how) ==
  IF how = "SUCC" THEN n
  ELSE [type |-> how, kids |-> <<n>>, comb |-> IF how = "INT_TO_FLOAT" THEN FloatT ELSE IntT]
Marked(e, ks, c) == ("comb" :> c) @@ ("kids" :> ks) @@ e
Failed(ks)       == \E i \in DOMAIN ks : ks[i].comb.k = "ERR"
ByRule(e, ks, r) ==
  Marked(e, [i \in DOMAIN ks |-> IF i \in DOMAIN r.conv THEN Convert(ks[i], r.conv[i]) ELSE ks[i]], r.comb)

\* An expression where a value of type t is declared: a result, an element.
AsParam(t, n) ==
  IF n.comb.k = "ERR" \/ ParamExprCmp(t, n.comb) = "FAIL" THEN Marked(n, n.kids, Err)
  ELSE Convert(n, ParamExprCmp(t, n.comb))

\* array_dims_check_type_expr: an index or a dimension.
OnlyInts(n) ==                            \* mutant: a float is not converted
  IF n.comb = IntT THEN n ELSE Marked(n, n.kids, Err)
AsIndex(n) == IF n.comb.k \in Numbers THEN AsParam(IntT, n) ELSE Marked(n, n.kids, Err)

\* expr_attr_check_type.  Of a record that is not known yet any attribute is
\* accepted, without a type and without an index.
OfAttr(e, ks) ==
  LET r     == ks[1].comb
      field == {f \in Fields(r.value) : f.id = e.id}
  IN  CASE r.k = "ENUMTYPE_ID" /\ \E i \in DOMAIN Enums[r.value] : Enums[r.value][i] = e.id ->
             Marked(e, ks, RecordC("ENUMTYPE", r.value)) @@
             [index |-> (CHOOSE i \in DOMAIN Enums[r.value] : Enums[r.value][i] = e.id) - 1]
        [] IsRecord(r) /\ r.value = NULL -> Marked(e, ks, Unknown) @@ [index |-> -1]
        [] IsRecord(r) /\ r.value # NULL /\ field # {} ->
             LET f == CHOOSE f \in field : TRUE
             IN  Marked(e, ks, CombOf(f.type)) @@ [index |-> f.index]
        [] OTHER -> Marked(e, ks, Err)

-----------------------------------------------------------------------------
(* Arrays (front/tcheckarr.c, front/array.c).                               *)

IsRow(n)   == n.type = "ARRAY" /\ n.kind = "SUB"

\* array_to_depth_list: the elements level by level, through the rows.
RECURSIVE Levels(_)
Levels(es) ==
  IF es = << >> THEN << >>
  ELSE <<es>> \o Levels(FlattenSeq([i \in DOMAIN es |-> IF IsRow(es[i]) THEN es[i].kids ELSE << >>]))

\* array_depth_list_well_formed: the innermost level are values, the others
\* rows of the same length; an array written out counts as a row here.
WellFormed(levels, t) ==
  /\ \A n \in Range(Last(levels)) : ParamExprCmp(t, n.comb) # "FAIL"
  /\ \A l \in Range(Front(levels)) : \A n \in Range(l) :
       n.type = "ARRAY" /\ n.kind \in {"SUB", "INIT"} /\ Len(n.kids) = Len(l[1].kids)

\* array_set_dims asks one element of each level.
DimsOf(es, levels) ==
  <<Len(es)>> \o FlattenSeq([i \in 1 .. Len(levels) - 1 |->
                              IF IsRow(Last(levels[i])) THEN <<Len(Last(levels[i]).kids)>> ELSE << >>])

RECURSIVE AtDepth(_, _, _)
AtDepth(es, depth, t) ==
  [i \in DOMAIN es |-> IF depth = 1 THEN AsParam(t, es[i])
                       ELSE IF IsRow(es[i]) THEN Marked(es[i], AtDepth(es[i].kids, depth - 1, t), Unknown)
                       ELSE es[i]]

WrittenOut(e, ks, levels, t) ==
  IF ~WellFormed(levels, t) THEN Marked(e, ks, Err)
  ELSE [dims |-> DimsOf(ks, levels), ret |-> t] @@
       Marked(e, AtDepth(ks, Len(levels), t), ArrayC(Len(DimsOf(ks, levels)), t))

\* array_check_type.
OfArray(e, ks, sc) ==
  CASE e.kind = "SUB"  -> Marked(e, ks, Unknown)
    [] e.kind = "INIT" -> IF Resolves(e.ret, sc) THEN WrittenOut(e, ks, Levels(ks), Resolve(e.ret, sc))
                          ELSE Marked(e, ks, Err)
    [] e.kind = "DIMS" ->
         LET ns == [i \in DOMAIN ks |-> AsIndex(ks[i])]
         IN  IF Failed(ns) \/ ~Resolves(e.ret, sc) THEN Marked(e, ns, Err)
             ELSE [ret |-> Resolve(e.ret, sc)] @@ Marked(e, ns, ArrayC(Len(ks), Resolve(e.ret, sc)))

-----------------------------------------------------------------------------
(* expr_check_type.                                                         *)

RECURSIVE Check(_, _), CheckFunc(_, _)

CheckAll(es, sc) == [i \in DOMAIN es |-> Check(es[i], sc)]

\* expr_id_check_type.
OfId(e, sc) ==
  IF ~Found(sc, e.id) THEN Marked(e, << >>, Err)
  ELSE [entry |-> LookUp(sc, e.id).type] @@ Marked(e, << >>, LookUp(sc, e.id).comb)

\* expr_array_deref_check_type: the indices have been checked with the other
\* operands and are checked once more as indices.
DerefOf(e, ks, c) ==
  CASE Failed(ks)                              -> Marked(e, ks, Err)
    [] c.k = "ARRAY" /\ c.dims = Len(ks) - 1   -> Marked(e, ks, CombOf(c.ret))
    [] c.k = "STRING" /\ Len(ks) = 2           -> Marked(e, ks, CharT)
    [] OTHER                                   -> Marked(e, ks, Err)
OfDeref(e, ks, sc) ==
  DerefOf(e, [i \in DOMAIN ks |-> IF i = 1 THEN ks[1] ELSE AsIndex(Check(ks[i], sc))], ks[1].comb)

OfNode(e, ks, sc) ==
  CASE Failed(ks)              -> Marked(e, ks, Err)
    [] e.type = "ARRAY"        -> OfArray(e, ks, sc)
    [] e.type = "ARRAY_DEREF"  -> OfDeref(e, ks, sc)
    [] e.type = "ATTR"         -> OfAttr(e, ks)
    [] OTHER -> ByRule(e, ks, Rule(e, [i \in DOMAIN ks |-> ks[i].comb]))

\* A table outlives the check it was made for.
TableOf(n) == IF "stab" \in DOMAIN n THEN n.stab ELSE NoNames

\* qualifier_check_type.  A name that is taken is reported and not entered,
\* and the program is accepted all the same.
Qualified(st, i, n) ==
  LET q   == st.f.quals[i]
      new == [st EXCEPT !.f.quals[i] = [id |-> q.id, expr |-> n]]
  IN  CASE q.id = NoName -> [new EXCEPT !.ok = @ /\ n.comb = IntT]
        [] n.comb.k # "ARRAY" \/ n.comb.dims # 1 -> [new EXCEPT !.ok = FALSE]
        [] FoundHere(st.sc, q.id) -> new
        [] OTHER -> [new EXCEPT !.sc = Define(@, q.id, Entry("QUALIFIER", CombOf(n.comb.ret)))]

OfListcomp(e, st, n) ==
  IF ~st.ok \/ ~Resolves(e.ret, st.sc) \/ n.comb.k = "ERR" THEN Marked(e, << >>, Err)
  ELSE [expr |-> AsParam(Resolve(e.ret, st.sc), n), ret |-> Resolve(e.ret, st.sc), stab |-> st.sc[1].of] @@
       Marked(st.f, << >>, IF AsParam(Resolve(e.ret, st.sc), n).comb.k = "ERR" THEN Err
                           ELSE ArrayC(1, Resolve(e.ret, st.sc)))
CheckListcomp(e, st) == OfListcomp(e, st, Check(e.expr, st.sc))

OfFunc(e, r) ==
  [func_value |-> r.f] @@ Marked(e, << >>, IF r.ok THEN FuncEntry(r.f).comb ELSE Err)

Check(e, sc) ==
  CASE e.type = "ID"       -> OfId(e, sc)
    [] e.type = "FUNC"     -> OfFunc(e, CheckFunc(e.func_value, sc))
    [] e.type = "LISTCOMP" ->
         CheckListcomp(e, FoldLeft(LAMBDA st, i : Qualified(st, i, Check(st.f.quals[i].expr, st.sc)),
                                   [sc |-> <<Table(TRUE, TableOf(e))>> \o sc, ok |-> TRUE, f |-> e],
                                   [i \in DOMAIN e.quals |-> i]))
    [] OTHER               -> OfNode(e, CheckAll(e.kids, sc), sc)

-----------------------------------------------------------------------------
(* func_check_type: func_native_check_type, step by step.                   *)

Own(st) == Add(st, st.f.id, FuncEntry(st.f))

\* The function's own types; its entry, which refers to it, has them from now on.
SignatureIn(f, sc) ==
  [f EXCEPT !.params = [i \in DOMAIN f.params |-> Param(f.params[i].id, Resolve(f.params[i].type, sc))],
            !.rtype  = Resolve(f.rtype, sc)]
KnownIn(f, sc) == Resolves(f.rtype, sc) /\ \A i \in DOMAIN f.params : Resolves(f.params[i].type, sc)
Renewed(st, g) == IF g.id = NoName THEN st ELSE [st EXCEPT !.sc = Define(@, g.id, FuncEntry(g))]
Signature(st) ==
  Renewed([st EXCEPT !.f = SignatureIn(@, st.sc), !.ok = @ /\ KnownIn(st.f, st.sc)], SignatureIn(st.f, st.sc))

Params(st) ==
  FoldLeft(LAMBDA s, p : Add(s, p.id, Entry("PARAM", CombOf(p.type))), st, WithDims(st.f.params))

\* The catch clauses see the parameters only: they come before the bindings.
Good(ns)    == \A i \in DOMAIN ns : ns[i].expr.comb.k # "ERR"
Clauses(cs, t, sc) == [i \in DOMAIN cs |-> Catch(cs[i].no, AsParam(t, Check(cs[i].expr, sc)))]
Handlers(st) == [st EXCEPT !.f.excepts = Clauses(@, st.f.rtype, st.sc), !.f.all = Clauses(@, st.f.rtype, st.sc)]
Handled(st)  == [st EXCEPT !.ok = @ /\ Good(st.f.excepts) /\ Good(st.f.all)]

BindOne(st, i, n) ==
  Add([st EXCEPT !.f.binds[i].expr = n, !.ok = @ /\ n.comb.k # "ERR"], st.f.binds[i].id, Entry("BIND", n.comb))
Binds(st) ==
  FoldLeft(LAMBDA s, i : BindOne(s, i, Check(s.f.binds[i].expr, s.sc)), st, [i \in DOMAIN st.f.binds |-> i])

\* Functions of one level see each other, but the types of those that are yet
\* to be checked as they are written.
FuncOne(st, i, r) ==
  [st EXCEPT !.f.funcs[i] = r.f, !.ok = @ /\ r.ok, !.sc = Define(@, r.f.id, FuncEntry(r.f))]
Funcs(st) ==
  FoldLeft(LAMBDA s, i : FuncOne(s, i, CheckFunc(s.f.funcs[i], s.sc)),
           FoldLeft(LAMBDA s, i : Add(s, s.f.funcs[i].id, FuncEntry(s.f.funcs[i])), st, [i \in DOMAIN st.f.funcs |-> i]),
           [i \in DOMAIN st.f.funcs |-> i])

Result(st, n) == [f  |-> [ret |-> n, stab |-> st.sc[1].of] @@ st.f, ok |-> st.ok /\ n.comb.k # "ERR"]
Returned(st)  == Result(st, AsParam(st.f.rtype, Check(st.f.ret, st.sc)))

Stages == <<"own", "signature", "params", "handlers", "handled", "binds", "funcs">>
Stage(name, st) ==
  CASE name = "own"       -> Own(st)
    [] name = "signature" -> Signature(st)
    [] name = "params"    -> Params(st)
    [] name = "handlers"  -> Handlers(st)
    [] name = "handled"   -> Handled(st)
    [] name = "binds"     -> Binds(st)
    [] name = "funcs"     -> Funcs(st)
CheckNative(f, sc) ==
  Returned(FoldLeft(LAMBDA st, name : Stage(name, st),
                    [sc |-> <<Table(FALSE, TableOf(f))>> \o sc, ok |-> TRUE, f |-> f], Stages))
\* func_ffi_check_type.
CheckForeign(f, sc) == [f |-> SignatureIn(f, sc), ok |-> KnownIn(f, sc)]
CheckFunc(f, sc) == IF f.ret.type = "FOREIGN" THEN CheckForeign(f, sc) ELSE CheckNative(f, sc)

\* never_sem_check: the functions of the program and the build-in ones, then main.
CheckTop(fs) == Funcs([sc |-> <<TopTable>>, ok |-> DefinitionsOK, f |-> [funcs |-> fs \o LibMath]])
MainOK(fs) ==
  \E i \in DOMAIN fs : /\ fs[i].id = "main"
                       /\ fs[i].rtype.k \in Numbers
                       /\ \A j \in DOMAIN fs[i].params : fs[i].params[j].type.k \in Numbers
Accepted(fs) == CheckTop(fs).ok /\ MainOK(fs)
=============================================================================
