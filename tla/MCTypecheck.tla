---------------------------- MODULE MCTypecheck ----------------------------
(***************************************************************************)
(* Expressions of a function `t`, built from its parameters and the other  *)
(* functions of a program as the parser builds them, checked by the type   *)
(* checker and followed to the objects they give.  A family is a program   *)
(* and the parts its expressions are built from.                           *)
(***************************************************************************)
EXTENDS Kinds

CONSTANTS Source,      \* a family: a program and the parts
          Depth        \* how often an expression is made part of another

VARIABLES expr,          \* the expression as the parser builds it
          node,          \* the same when it has been checked
          depth

Float == Literal("FLOAT")
Char  == Literal("CHAR")
Str1  == Literal("STRING")
One   == Lit(1)

-----------------------------------------------------------------------------
(* Families. *)

MCRecords == [P |-> <<Param("x", IntT), Param("y", FloatT), Param("next", Named("P")),
                      Param("of", ArrayOf(<<"L">>, Named("E")))>>,
              Q |-> <<Param("a", ArrayOf(<<"D">>, IntT))>>]
MCEnums   == [E |-> <<"A", "B">>]

Inc    == Plain("inc",  <<Param("n", IntT)>>, IntT, Two("ADD", Id("n"), One))
Half   == Plain("half", <<Param("x", FloatT)>>, FloatT, Two("DIV", Id("x"), Float))
Sum    == Plain("sum",  <<Param("v", ArrayOf(<<"K">>, IntT))>>, IntT,
                Two("MUL", Deref(Id("v"), <<Two("SUB", Id("K"), One)>>), Id("K")))
Next0  == Plain("next", <<Param("r", Named("P"))>>, Named("P"), Attribute(Id("r"), "next"))
Twice  == Plain("twice", <<Param("f", FuncOf(<<IntT>>, IntT)), Param("n", IntT)>>, FloatT,
                Call(Id("f"), <<Call(Id("f"), <<Id("n")>>)>>))
Spare  == Function("spare", <<Param("n", IntT)>>, StringT, <<Bind("z", Two("DIV", One, Id("n")))>>,
                   <<Plain("in", << >>, IntT, Two("ADD", Id("z"), Id("n")))>>,
                   Call(Id("str"), <<Call(Id("in"), << >>)>>), <<Catch("division", Str1)>>, << >>)
Power  == Outside("powf", <<Param("x", FloatT), Param("y", FloatT)>>, FloatT)
Label  == Outside("label", <<Param("n", IntT), Param("c", CharT)>>, StringT)
Paint  == Plain("paint", <<Param("e", Named("E"))>>, Named("E"), Cond(One, Id("e"), Attribute(Id("E"), "B")))

\* `before` and `after` are the functions around t; the parameters in `nilable`
\* may be nil; expressions start as one of `leaves` and are combined with
\* `parts`; `functions` are called, `attributes` selected, `over` iterated over;
\* `memory` is what malloc may have left in a node.
Types ==
  [params  |-> <<Param("n", IntT), Param("x", FloatT), Param("c", CharT), Param("s", StringT),
                 Param("e", Named("E")), Param("p", Named("P")), Param("a", ArrayOf(<<"D">>, IntT)),
                 Param("m", ArrayOf(<<"M", "N">>, FloatT)), Param("b", ArrayOf(<<"B">>, FloatT))>>,
   before  |-> <<Inc, Half, Sum, Next0, Twice, Spare, Paint, Power, Label>>,
   after   |-> << >>,
   nilable |-> {"b"},
   leaves  |-> {One, Float, NilRecord, Attribute(Id("E"), "A")} \cup
               {Id(x) : x \in {"n", "x", "c", "s", "e", "p", "a", "m", "b", "D", "N", "P", "inc", "half", "sum",
                               "next", "twice", "spare", "paint", "label"}},
   parts   |-> {Id(x) : x \in {"n", "x", "c", "s", "e", "p", "a", "m", "inc"}} \cup {NilRecord},
   functions  |-> {"inc", "half", "sum", "next", "paint", "spare", "powf", "label", "str", "length"},
   attributes |-> {"x", "next", "of", "A"},
   bindings |-> {<< >>},
   over    |-> {Id("a"), Array(<<Float, One>>, FloatT), Array(<<Str1>>, StringT)},
   memory  |-> {Cleared, [Cleared EXCEPT !.enum = "E"]}]

Small ==
  [params |-> << >>, before |-> << >>, after |-> << >>, nilable |-> {}, leaves |-> {One},
   parts |-> {One}, functions |-> {}, attributes |-> {"x"}, bindings |-> {<< >>}, over |-> {},
   memory |-> {Cleared}]

\* A function below t with a record in its signature.
Later == [Small EXCEPT !.params = <<Param("p", Named("P"))>>,
                       !.after  = <<Plain("g", <<Param("r", Named("P"))>>, Named("P"), Id("r")),
                                    Plain("h", << >>, Named("P"), NilRecord)>>,
                       !.leaves = {Id("p"), Id("h")}, !.functions = {"g"}]

\* A function that takes a function that takes a function.
Fl    == Plain("fl", <<Param("n", IntT)>>, FloatT, Float)
UseInt == Plain("useint", <<Param("g", FuncOf(<<IntT>>, IntT))>>, IntT, Two("ADD", Call(Id("g"), <<One>>), One))
WithFl == Plain("withfl", <<Param("f", FuncOf(<<FuncOf(<<IntT>>, FloatT)>>, IntT))>>, IntT, Call(Id("f"), <<Id("fl")>>))
FuncTypes == [Small EXCEPT !.before = <<Fl, UseInt, WithFl>>, !.leaves = {Id("fl"), Id("useint")}, !.functions = {"withfl"}]

\* A function that takes a function that takes an array.
Cell  == Plain("cell", <<Param("v", ArrayOf(<<"U", "V">>, IntT))>>, IntT, Deref(Id("v"), <<One, One>>))
OnRow == Plain("onrow", <<Param("f", FuncOf(<<ArrayOf(<<"X">>, IntT)>>, IntT))>>, IntT,
               Call(Id("f"), <<Array(<<One>>, IntT)>>))
ArrayTypes == [Small EXCEPT !.before = <<Cell, OnRow>>, !.leaves = {Id("cell")}, !.functions = {"onrow"}]

EnumName == [Small EXCEPT !.leaves = {Id("E")}]
Indices  == [Small EXCEPT !.bindings = {<<Bind("z", One)>>}]
Mixture  == [Small EXCEPT !.leaves = {Array(<<One>>, IntT)}, !.parts = {Row(<<One>>)}]
DimField == [Small EXCEPT !.params = <<Param("q", Named("Q"))>>, !.leaves = {Id("q")}, !.attributes = {"D"}]
NilDims  == [Small EXCEPT !.before = <<Sum>>, !.leaves = {ArrayDims(<<One>>, ArrayOf(<<"X">>, IntT))}, !.functions = {"sum"}]
\* A node for which malloc gave memory with a 1 where the dimensions of arrays are.
Leftover == [Small EXCEPT !.before = <<Inc>>, !.params = <<Param("a", ArrayOf(<<"D">>, IntT))>>,
                          !.leaves = {Id("a")}, !.parts = {Id("inc")}, !.memory = {Cleared, [Cleared EXCEPT !.dims = 1]}]

\* Where the expression stands: in t, below the functions before it, which
\* are checked, above those after it, which are known as they are written.
Before == CheckTop(Source.before)
After0 == FoldLeft(LAMBDA st, f : Add(st, f.id, FuncEntry(f)), Before, Source.after)
InT(t, e) == Plain("t", Source.params, t, e)
Scope  == Params(Signature(Own([sc |-> <<Table(FALSE, NoNames)>> \o After0.sc, ok |-> TRUE, f |-> InT(IntT, One)]))).sc
MCProgram == FoldLeft(LAMBDA fs, f : (f.id :> f) @@ fs, NoNames, Before.f.funcs)

\* What the parameters may hold.
Holds(x, t) ==
  CASE t.k = "STRING" -> {Str(FALSE), Str(TRUE)}
    [] t.k = "ARRAY"  -> {Arr(Len(t.dims), {Default(t.ret.k)})} \cup (IF x \in Source.nilable THEN {NilArr} ELSE {})
    [] t.k = "RECORD" -> {NilVec, Vec([i \in DOMAIN Records[t.id] |-> Default(FieldTypes(t.id)[i].k)])}
    [] OTHER          -> {Num(KindOf(t.k))}
Env ==
  LET ps == Source.params
      all == FoldLeft(LAMBDA env, p : (p.id :> Holds(p.id, Resolve(p.type, <<TopTable>>))) @@ env, NoNames, ps)
  IN  FoldLeft(LAMBDA env, p : [x \in {d.id : d \in Range(DimNames(p.type))} |->
                                 {DimOf(v, CHOOSE j \in DOMAIN p.type.dims : p.type.dims[j] = x) : v \in all[p.id]}] @@ env,
               all, ps)

-----------------------------------------------------------------------------
(* Growing an expression. *)

IsTyped    == node.comb.k # "ERR"

Operations == {"ADD", "SUB", "MUL", "DIV", "MOD", "LT", "EQ", "AND"}
Results    == {IntT, FloatT, Named("P")}
Leaves     == Source.leaves
Parts      == Source.parts

Init == depth = 0 /\ expr \in Leaves /\ \E sc \in {Scope} : node = Check(expr, sc)

Grow(es) ==
  /\ depth < Depth /\ IsTyped /\ depth' = depth + 1
  /\ \E e \in es, sc \in {Scope} : expr' = e /\ node' = Check(e, sc)

\* Nodes of which what malloc left matters.
FromMalloc(e) == {[memory |-> m] @@ e : m \in Source.memory}
Binary(l, r)  == {Two(t, l, r) : t \in Operations} \cup FromMalloc(Two("ASS", l, r))
OneOf(l, r)   == {Cond(One, l, n) : n \in FromMalloc(r)}

Unary  == Grow({[type |-> t, kids |-> <<expr>>] : t \in {"NEG", "NOT", "SUP"}})
Left   == Grow(UNION {Binary(expr, e) : e \in Parts})
Right  == Grow(UNION {Binary(e, expr) : e \in Parts})
Branch == Grow(UNION {{Cond(expr, e, e), InOrder(<<expr, e>>), While(expr, e), For(e, expr, e, e)} \cup
                      OneOf(expr, e) \cup OneOf(e, expr) : e \in Parts})
Access == Grow({Attribute(expr, x) : x \in Source.attributes} \cup
               UNION {{Deref(expr, <<e>>), Deref(expr, <<e, One>>), Deref(e, <<expr>>)} : e \in Parts})
Calls  == Grow({Call(Id(f), <<expr>>) : f \in Source.functions} \cup
               UNION {{Call(expr, <<e>>), Call(expr, <<Id("inc"), e>>)} \cup
                     {Call(Id(f), <<e, expr>>) : f \in Source.functions \cap {"powf", "label"}} : e \in Parts} \cup
               {Call(Id("P"), <<Id("n"), expr, Id("p"), Array(<<Id("e")>>, Named("E"))>>), Call(expr, << >>)})
Build  == Grow(UNION {{Array(<<expr>>, t), Array(<<Row(<<expr, expr>>), Row(<<expr, Id("n")>>)>>, t),
                       ArrayDims(<<expr, Id("x")>>, t)} \cup {Array(<<Row(<<e>>), Row(<<expr>>)>>, t) : e \in Parts} :
                      t \in Results \cup {ArrayOf(<<"X">>, IntT)}})
Lists  == Grow(UNION {{Comprehension(Id("q"), <<[id |-> "q", expr |-> g], [id |-> NoName, expr |-> expr]>>, t),
                       Comprehension(expr, <<[id |-> "q", expr |-> g]>>, t),
                       Comprehension(Two("ADD", Id("q"), expr), <<[id |-> "q", expr |-> g]>>, t)} :
                      t \in Results, g \in Source.over})
Return == Grow(UNION {{FuncLit(Function(NoName, << >>, t, bs, << >>, expr, << >>, << >>)),
                       FuncLit(Function(NoName, << >>, t, bs, << >>, One, << >>, <<Catch(NoName, expr)>>))} :
                      t \in Results, bs \in Source.bindings})

Next == Unary \/ Left \/ Right \/ Branch \/ Access \/ Calls \/ Build \/ Lists \/ Return

Spec == Init /\ [][Next]_<<expr, node, depth>>

-----------------------------------------------------------------------------
\* There is an instruction for everything the type checker accepts: none of the
\* assertions of expr_emit and its like fails.
AcceptedHasCode == IsTyped => HasCode(node)

\* An accepted expression gives what its type says, and nothing in it reads an
\* object as one of another kind: none of the assertions of gc_get_int and its
\* like fails while the machine executes its code.
NoConfusion ==
  IsTyped /\ HasCode(node) =>
    \A v \in Ev(node, Env) : v # Faulted /\ (v # Raised => Fits(v, node.comb))

\* A number indexes an array: expr_array_deref_check_type accepts as an index
\* whatever is accepted and a number elsewhere.
NumbersIndex ==
  IsTyped /\ node.comb.k \in Numbers =>
    \A sc \in {Scope} : Check(Deref(Array(<<One>>, IntT), <<expr>>), sc).comb = IntT

\* Functions of one level can be used wherever they stand in it: never_check_type
\* accepts t above the functions it uses if it accepts it below them.
Main == Plain("main", << >>, IntT, One)
SameLevel ==
  \A t \in Results :
    Accepted(Source.before \o <<InT(t, expr), Main>> \o Source.after) =
    Accepted(Source.before \o Source.after \o <<InT(t, expr), Main>>)
=============================================================================
