-------------------------------- MODULE Ast ---------------------------------
(***************************************************************************)
(* The trees the parser of front/parser.y builds (front/expr.c, func.c,    *)
(* bind.c, except.c): what the other modules of the compiler work on.  An  *)
(* expression is a record with its type, its children in `kids`, in the    *)
(* order the type checker visits them, and for some types a value, a name, *)
(* a function or the type checker's choice of an instruction (`comb`).     *)
(***************************************************************************)
EXTENDS Integers, Sequences, TLC

NoName == ""

Lit(n)      == [type |-> "INT", kids |-> << >>, value |-> n]
Id(x)       == [type |-> "ID",  kids |-> << >>, id |-> x]
NilRecord   == [type |-> "NIL", kids |-> << >>]

\* Literals of the other types, as Values has them.
FloatLit(q)  == [type |-> "FLOAT",  kids |-> << >>, value |-> q]
CharLit(c)   == [type |-> "CHAR",   kids |-> << >>, value |-> c]
StringLit(s) == [type |-> "STRING", kids |-> << >>, value |-> s]

\* EXPR_ADD ... EXPR_NEQ, whose children are left and right.
Binaries    == {"ADD", "SUB", "MUL", "DIV", "MOD", "LT", "GT", "LTE", "GTE", "EQ", "NEQ"}
Two(t, a, b) == [type |-> t, kids |-> <<a, b>>]
Not(a)      == [type |-> "NOT", kids |-> <<a>>]
Neg(a)      == [type |-> "NEG", kids |-> <<a>>]
And(a, b)   == Two("AND", a, b)
Or(a, b)    == Two("OR", a, b)
Cond(c, a, b) == [type |-> "COND", kids |-> <<c, a, b>>]
\* The operation e on operands that are no ints: `on` is what the type checker
\* has made of their types.
On(types, e) == [on |-> types] @@ e
TypesOf(e)   == IF "on" \in DOMAIN e THEN e.on ELSE "INT"
IntToFloat(a) == [type |-> "INT_TO_FLOAT", kids |-> <<a>>]
FloatToInt(a) == [type |-> "FLOAT_TO_INT", kids |-> <<a>>]
Sup(a)      == [type |-> "SUP", kids |-> <<a>>]           \* (a)
InOrder(es)   == [type |-> "SEQ", kids |-> es]
While(c, b) == Two("WHILE", c, b)
DoWhile(c, b) == Two("DO_WHILE", c, b)
For(i, c, n, b) == [type |-> "FOR", kids |-> <<i, c, n, b>>]

\* EXPR_ASS on what the type says.
Ass(t, a, b) == [type |-> "ASS", kids |-> <<a, b>>, comb |-> t]

\* EXPR_CALL: the function, then the arguments.  A call of a record's name
\* builds the record.
Call(f, es) == [type |-> "CALL", kids |-> <<f>> \o es]
Record(es)  == [type |-> "RECORD", kids |-> es]
Attr(r, i)  == [type |-> "ATTR", kids |-> <<r>>, index |-> i]

\* EXPR_ARRAY: a literal, its elements row by row under the dimensions the
\* checker has counted, and an array of so many empty elements of a type.
ArrayLit(dims, es)  == [type |-> "ARRAY", kids |-> es, dims |-> dims]
NewArray(t, es)  == [type |-> "MK_ARRAY", kids |-> es, comb |-> t]
Deref(arr, es)   == [type |-> "ARRAY_DEREF", kids |-> <<arr>> \o es]
CharAt(s, i)     == On("STRING", Deref(s, <<i>>))

\* Operations on arrays, chosen by the type checker: -a, a + b, a - b, n * a and
\* the product of matrices.
NegArr(a)        == [type |-> "NEG_ARR", kids |-> <<a>>]
ArrayOps         == {"NEG_ARR", "ADD_ARR", "SUB_ARR", "MUL_ARR", "MUL_ARR_ARR"}

\* EXPR_LISTCOMP: the expressions of its qualifiers, then the one it yields.  A
\* generator has a name, a filter has none.
In(x, e)  == [id |-> x, expr |-> e]
If(e)     == [id |-> NoName, expr |-> e]
ListComp(uid, qs, e) ==
  [type |-> "LISTCOMP", kids |-> [i \in DOMAIN qs |-> qs[i].expr] \o <<e>>, uid |-> uid,
   quals |-> [i \in DOMAIN qs |-> qs[i].id]]

\* A function: its name, parameters, bindings, nested functions, result, the
\* catch clauses with an exception, and none or one without.  `uid` tells
\* the functions of a program apart.  `dims` are the names an array among the
\* parameters gives its dimensions.
Func(uid, id, params, binds, funcs, ret, excepts, all) ==
  [uid |-> uid, id |-> id, params |-> params, dims |-> << >>, binds |-> binds, funcs |-> funcs,
   ret |-> ret, excepts |-> excepts, all |-> all]
Dim(x, param, dim)  == [id |-> x, param |-> param, dim |-> dim]
NamingDims(f, ds)     == [f EXCEPT !.dims = ds]
Bind(x, e)  == [id |-> x, expr |-> e]
Catch(n, e) == [no |-> n, expr |-> e]
Simple(uid, id, params, ret) == Func(uid, id, params, << >>, << >>, ret, << >>, << >>)

\* EXPR_BUILD_IN, all there is in a build-in function.
BuildIn(id, params) ==
  Simple(id, id, params, [type |-> "BUILD_IN", kids |-> [i \in DOMAIN params |-> Id(params[i])], lib |-> id])

\* func_new_ffi: a function found in a library by name when it is called.  The
\* types are those of its parameters and, last, of its result; the kids are for
\* what it is given.
Foreign(lib, id, name, params, types) ==
  Simple(id, id, params, [type |-> "FOREIGN", kids |-> [i \in DOMAIN params |-> Id(params[i])],
                          lib |-> lib, name |-> name, types |-> types])

\* A function written as an expression (let func).
FuncLit(f)  == [type |-> "FUNC", kids |-> << >>, func_value |-> f]
=============================================================================
