----------------------------- MODULE MCPrograms -----------------------------
(***************************************************************************)
(* The programs the compiler and the machine are checked with.  Each       *)
(* family varies, in every combination, what its name says; a case is a    *)
(* program with the arguments of its main function.  All are well typed.   *)
(***************************************************************************)
EXTENDS Ast, SequencesExt, Values

Argument(t, n)   == [type |-> t, value |-> n]
CaseOf(t, fs, ns) == [funcs |-> fs, params |-> [i \in DOMAIN ns |-> Argument(t, ns[i])]]
Case(fs, ns)      == CaseOf("INT", fs, ns)

\* The elements of two, and of three, sequences combined in every way, and an
\* operator applied to each.  Binding a sequence in a set makes TLC compute it
\* once.
Pairs(s, t) ==
  CHOOSE r \in {[k \in 1 .. Len(u) * Len(v) |-> <<u[((k - 1) \div Len(v)) + 1], v[((k - 1) % Len(v)) + 1]>>]
                  @@ << >> : u \in {s}, v \in {t}} : TRUE
Each(Op(_), s) == CHOOSE r \in {[k \in DOMAIN t |-> Op(t[k])] @@ << >> : t \in {s}} : TRUE
Triples(s, t, u) == Each(LAMBDA p : <<p[1][1], p[1][2], p[2]>>, Pairs(Pairs(s, t), u))

Add(a, b) == Two("ADD", a, b)
Sub(a, b) == Two("SUB", a, b)
Mul(a, b) == Two("MUL", a, b)
Div(a, b) == Two("DIV", a, b)
IsZero(a) == Two("EQ", a, Lit(0))
Set(x, e) == Ass("INT", Id(x), e)
a == Id("a")
b == Id("b")
f == Id("f")
g == Id("g")
h == Id("h")
k == Id("k")
m == Id("m")
n == Id("n")
r == Id("r")
u == Id("u")
v == Id("v")
w == Id("w")
x == Id("x")
y == Id("y")
z == Id("z")

\* h(a, b) = 3 * a + b: tells its arguments apart.
H == Simple("h", "h", <<"a", "b">>, Add(Mul(Lit(3), a), b))

-----------------------------------------------------------------------------
\* Where an exception is raised, and which of two, and who handles it.
\* first(r) = the first field of r.
FirstOf == Simple("first", "first", <<"r">>, Attr(r, 0))

Raising == <<
  Div(Lit(6), n),
  Call(h, <<Lit(2), Div(Lit(6), n)>>),
  Call(h, <<Div(Lit(6), n), Lit(2)>>),
  Call(h, <<Lit(1), Call(h, <<Two("MOD", Lit(7), n), Lit(2)>>)>>),
  Add(Lit(4), Cond(n, Call(Id("first"), <<Record(<<n, Lit(3)>>)>>), Call(Id("first"), <<NilRecord>>))),
  InOrder(<<Set("x", Lit(8)), Call(h, <<x, Call(h, <<Div(x, n), Lit(1)>>)>>)>>) >>

Catching == <<
  << << >>, << >> >>,
  << <<Catch(1, Lit(10))>>, << >> >>,
  << <<Catch(8, Lit(20)), Catch(1, Add(n, Lit(30)))>>, << >> >>,
  << <<Catch(1, Div(Lit(1), n))>>, <<Add(Call(h, <<n, Lit(40)>>), Lit(1))>> >>,
  << <<Catch(1, Call(Id("first"), <<NilRecord>>)), Catch(8, Call(h, <<Lit(1), n>>)), Catch(1, Lit(60))>>, << >> >>,
  << <<Catch(1, Add(Call(h, <<n, Lit(1)>>), Div(Lit(1), n)))>>, << >> >>,
  << << >>, <<Div(Lit(1), n)>> >> >>

Outside == << << >>, <<Add(n, Lit(500))>> >>

Exceptions ==
  LET program(body, own, up) ==
        <<FirstOf, H,
          Func("f", "f", <<"n">>, <<Bind("x", Lit(1))>>, << >>, body, own[1], own[2]),
          Func("g", "g", <<"n">>, <<Bind("y", Mul(n, Lit(2)))>>, << >>,
               Add(y, Call(h, <<Call(f, <<n>>), n>>)), << >>, up),
          Simple("main", "main", <<"a">>, Add(Lit(1), Call(g, <<a>>)))>>
  IN  Each(LAMBDA p : Case(program(p[1][1], p[1][2], p[1][3]), <<p[2]>>),
           Pairs(Triples(Raising, Catching, Outside), <<0, 3>>))

-----------------------------------------------------------------------------
\* Closures: f in main and g in f, with a parameter and a variable at each
\* level, read and assigned from each.
InG == <<
  Add(Mul(x, Lit(100)), Add(Mul(y, Lit(10)), n)),
  Add(Set("x", Add(x, n)), Mul(a, Lit(10))),
  InOrder(<<Set("y", Lit(7)), Set("a", Add(a, y)), Add(b, x)>>) >>

InF == <<
  Add(Call(g, <<Lit(2)>>), Mul(y, Lit(1000))),
  InOrder(<<Call(g, <<b>>), Set("x", Add(x, y)), Call(g, <<x>>)>>),
  Call(FuncLit(Simple("l", NoName, <<"n">>, Add(Call(g, <<n>>), x))), <<Lit(5)>>) >>

Closures ==
  LET program(ing, inf) ==
        <<Func("main", "main", <<"a">>, <<Bind("x", Lit(3))>>,
            <<Func("f", "f", <<"b">>, <<Bind("y", Add(x, b))>>,
                <<Simple("g", "g", <<"n">>, ing)>>, inf, << >>, << >>)>>,
            Add(Call(f, <<Lit(4)>>), Mul(Add(x, a), Lit(10000))), << >>, << >>)>>
  IN  Each(LAMBDA p : Case(program(p[1], p[2]), <<6>>), Pairs(InG, InF))

\* The same name declared around each other, so that what an inner function
\* captures depends on which declaration it sees.
Shadowing ==
  LET inner == Simple("g", "g", <<"n">>, Add(Mul(x, Lit(10)), n))
      early == Call(FuncLit(Simple("e", NoName, <<"k">>, Mul(x, k))), <<Lit(7)>>)
      program(params, binds, lit) ==
        <<Func("main", "main", <<"a">>, <<Bind("x", Lit(3))>>,
            <<Func("f", "f", params, binds, <<inner>>,
                Add(Call(g, <<x>>), Call(FuncLit(Simple("l", NoName, lit, Add(x, Lit(1)))), <<Lit(5)>>)),
                << >>, << >>)>>,
            Add(Call(f, <<a>>), Mul(x, Lit(1000))), << >>, << >>)>>
  IN  Each(LAMBDA p : Case(program(p[1], p[2], p[3]), <<6>>),
           Triples(<< <<"b">>, <<"x">> >>, << << >>, <<Bind("y", x)>> >>, << <<"n">>, <<"x">> >>)
             \o Triples(<< <<"b">> >>, << <<Bind("x", Add(x, Lit(2)))>>, <<Bind("y", early), Bind("x", y)>> >>,
                        << <<"n">>, <<"x">> >>))

\* Functions made at run time that outlive the call that made them, called
\* while nothing else holds what they captured.
Makers == <<
  Simple("l", NoName, <<"k">>, Set("n", Add(n, k))),
  Simple("l", "me", <<"k">>, Cond(k, Add(n, Call(Id("me"), <<Sub(k, Lit(1))>>)), n)),
  Simple("l", NoName, <<"k">>, Call(FuncLit(Simple("ll", NoName, <<"m">>, Add(Set("n", Mul(n, m)), k))), <<Lit(3)>>)) >>

Uses == <<
  Call(Call(Id("make"), <<a>>), <<Lit(2)>>),
  Add(Mul(Call(f, <<Lit(1)>>), Lit(100)), Add(Call(f, <<Lit(2)>>), Call(h, <<a, Call(f, <<Lit(0)>>)>>))),
  InOrder(<<Ass("FUNC", f, Call(Id("make"), <<Lit(7)>>)), Call(Id("other"), <<Lit(1)>>), Call(f, <<Lit(1)>>)>>) >>

LongLived ==
  LET program(made, use) ==
        <<H, Simple("make", "make", <<"n">>, FuncLit(made)),
          Func("main", "main", <<"a">>,
               <<Bind("f", Call(Id("make"), <<Lit(4)>>)), Bind("other", f)>>, << >>, use, << >>, << >>)>>
  IN  Each(LAMBDA p : Case(program(p[1], p[2]), <<5>>), Pairs(Makers, Uses))

\* Nested functions that call each other, and capture each other's closures
\* before these are filled in.
Mutual ==
  LET even == Simple("even", "even", <<"n">>, Cond(n, Call(Id("odd"), <<Sub(n, Lit(1))>>), x))
      odd  == Simple("odd", "odd", <<"n">>, Cond(IsZero(n), Lit(0), Call(Id("even"), <<Sub(n, Lit(1))>>)))
      third == Simple("third", "third", <<"f", "n">>, Add(Call(f, <<n>>), Call(Id("even"), <<n>>)))
      program(use) == <<Func("main", "main", <<"a">>, <<Bind("x", Lit(9))>>, <<even, odd, third>>, use, << >>, << >>)>>
  IN  Each(LAMBDA p : Case(program(p[1]), <<p[2]>>),
           Pairs(<<Call(Id("odd"), <<a>>), Call(Id("third"), <<Id("odd"), a>>)>>, <<2, 3>>))

-----------------------------------------------------------------------------
\* A function that calls itself, from where the result is its own and from
\* where it is not, with variables and a nested function in its frame.
SelfCall(e1, e2) == Call(f, <<e1, e2>>)
Recursing == <<
  Cond(n, SelfCall(Sub(n, Lit(1)), Add(m, y)), m),
  InOrder(<<Set("y", Mul(y, Lit(2))), Cond(IsZero(n), Add(m, y), InOrder(<<Set("m", y), SelfCall(Sub(n, Lit(1)), m)>>))>>),
  Cond(n, Add(Lit(1), SelfCall(Sub(n, Lit(1)), m)), m),
  Cond(And(n, SelfCall(Lit(0), n)), SelfCall(Sub(n, Lit(1)), Sub(n, m)), Add(m, Lit(3))),
  InOrder(<<Cond(n, SelfCall(Sub(n, Lit(1)), n), Lit(1)), Set("m", Add(m, y)), Add(m, n)>>),
  Cond(n, SelfCall(Sub(n, Lit(1)), Call(g, <<m>>)), Call(g, <<m>>)),
  Cond(Two("GT", n, Lit(0)), SelfCall(Sub(n, Lit(1)), SelfCall(Lit(0), Add(m, n))), m) >>

Recursion ==
  LET ff(uid, body) == Func(uid, "f", <<"n", "m">>, <<Bind("y", Add(n, Lit(10)))>>,
                            <<Simple("g", "g", <<"k">>, Add(Mul(k, Lit(2)), y))>>, body, << >>, << >>)
      main(funcs) == Func("main", "main", <<"a">>, << >>, funcs, Add(SelfCall(a, Lit(1)), a), << >>, << >>)
  IN  Each(LAMBDA p : Case(<<ff("f", p[1]), main(<< >>)>>, <<p[2]>>), Pairs(Recursing, <<0, 2>>))
        \o Each(LAMBDA e : Case(<<main(<<ff("f", e)>>)>>, <<2>>), Recursing)

\* A self call passes on a function that has captured the frame it leaves; and
\* with clauses that catch what the last of the calls raises.
Leaving ==
  LET keep == Func("f", "f", <<"n", "g">>, << >>, << >>,
                   Cond(n, SelfCall(Sub(n, Lit(1)), FuncLit(Simple("l", NoName, <<"k">>, Add(Mul(n, k), Call(g, <<Lit(1)>>))))),
                           Call(g, <<Lit(10)>>)), << >>, << >>)
      caught(e) == Func("f", "f", <<"n", "m">>, <<Bind("y", Lit(2))>>, << >>,
                        Cond(n, SelfCall(Sub(n, Lit(1)), Add(m, y)), Div(m, n)), <<Catch(1, e)>>, << >>)
      main(e) == Simple("main", "main", <<"a">>, Add(a, SelfCall(a, e)))
  IN  <<Case(<<keep, main(FuncLit(Simple("i", NoName, <<"k">>, k)))>>, <<2>>),
        Case(<<caught(Mul(m, Lit(100))), main(Lit(1))>>, <<2>>),
        Case(<<caught(Add(n, m)), main(Lit(1))>>, <<0>>)>>

-----------------------------------------------------------------------------
\* Loops and conditions, alone and in each other.
Loops == <<
  InOrder(<<While(Two("LT", x, a), InOrder(<<Set("y", Add(y, x)), Set("x", Add(x, Lit(1)))>>)), y>>),
  InOrder(<<DoWhile(Two("LTE", x, a), Set("x", Add(x, Lit(2)))), x>>),
  InOrder(<<For(Set("x", Lit(0)), Two("NEQ", x, a), Set("x", Add(x, Lit(1))),
              For(Set("y", Lit(0)), Two("GTE", x, y), Set("y", Add(y, Lit(1))), Set("b", Add(b, y)))), b>>),
  Add(b, While(Two("GT", Set("x", Sub(x, Lit(1))), Neg(a)), Cond(Or(Not(y), Two("EQ", x, Lit(0))), Set("y", x), Set("b", Div(b, x))))),
  Add(Add(Or(a, Div(b, a)), And(a, Div(b, a))), Mul(Or(Not(a), Not(Lit(5))), Lit(10))),
  Add(Mul(Set("x", Lit(2)), Set("x", Add(x, Lit(3)))), Two("MOD", Neg(Lit(7)), Lit(3))),
  Call(h, <<Set("x", Add(x, Lit(1))), Set("x", Mul(x, Lit(5)))>>) >>

Control ==
  LET program(e) == <<H, Func("main", "main", <<"a">>,
                        <<Bind("x", Lit(1)), Bind("y", Lit(0)), Bind("b", Lit(20))>>, << >>, e, << >>, << >>)>>
  IN  Each(LAMBDA p : Case(program(p[1]), <<p[2]>>), Pairs(Loops, <<0, 3>>))

\* Operations the compiler does itself, and branches it drops, one with a
\* closure and one that would fail; a tail call in what is left of a condition.
Constants ==
  LET yes == Two("LT", Lit(2), Sub(Lit(7), Lit(4)))
      no  == And(Lit(3), Not(Sup(Lit(1))))
      sum == Simple("f", "f", <<"n", "m">>,
                    Cond(yes, Sup(Cond(IsZero(n), m, Cond(no, Lit(0), SelfCall(Sub(n, Lit(1)), Add(m, n))))), Lit(0)))
      program(e) == <<H, sum, Func("main", "main", <<"a">>, <<Bind("x", Neg(Div(Neg(Lit(7)), Lit(2))))>>, << >>, e,
                                   <<Catch(1, Add(a, Cond(no, a, Two("MOD", Neg(Lit(7)), Lit(3)))))>>, << >>)>>
  IN  Each(LAMBDA p : Case(program(p[1]), <<p[2]>>),
       Pairs(<<Call(h, <<Cond(no, Call(FuncLit(Simple("l", NoName, <<"k">>, Add(k, x))), <<a>>), Add(Sup(Lit(2)), x)), a>>),
               Cond(yes, Add(x, Div(a, a)), Div(a, Lit(0))),
               Add(Cond(Or(no, yes), SelfCall(Lit(4), a), Lit(9)), Cond(no, Lit(1), Set("x", Add(x, Lit(5))))),
               InOrder(<<While(no, Set("x", Lit(0))), Div(x, Cond(no, Lit(1), a))>>)>>, <<0, 3>>))

\* Each operation on literals and a variable, and on what the compiler has
\* made of such an operation.
Operations == <<"ADD", "SUB", "MUL", "DIV", "MOD", "LT", "GT", "LTE", "GTE", "EQ", "NEQ", "AND", "OR">>
Folding ==
  LET leaves == <<Lit(0), Lit(7), Neg(Lit(2)), n>>
      twos   == Each(LAMBDA p : Two(p[1], p[2], p[3]),
                     Triples(Operations, leaves, leaves))
      nested == Each(LAMBDA p : Two(p[1], Two("SUB", p[2], Lit(7)), Not(Sup(Lit(3)))),
                     Pairs(Operations, leaves))
      chosen == Each(LAMBDA p : Cond(p[1], Sup(p[2]), Cond(p[2], n, p[1])), Pairs(leaves, leaves))
  IN  Each(LAMBDA e : Case(<<Simple("main", "main", <<"n">>, e)>>, <<2>>), twos \o nested \o chosen)

\* Records are shared by those who hold them; nil_pointer in the middle.
Records ==
  LET body(e) == <<FirstOf,
        Func("main", "main", <<"a">>,
             <<Bind("r", Record(<<a, Lit(2)>>)), Bind("x", Record(<<Lit(4), Lit(5)>>)), Bind("y", Lit(1))>>,
             << >>, e, <<Catch(8, Add(a, Lit(77)))>>, << >>)>>
      field(e, i) == Attr(e, i)
  IN  Each(LAMBDA e : Case(body(e), <<6>>),
       <<InOrder(<<Ass("RECORD", r, x), Ass("INT", field(x, 0), Lit(9)), Add(Mul(field(r, 0), Lit(10)), field(r, 1))>>),
         InOrder(<<Ass("INT", field(r, 1), field(x, 0)), Ass("RECORD_NIL", x, NilRecord), Add(field(r, 1), field(x, 0))>>),
         InOrder(<<Call(FuncLit(Simple("l", NoName, <<"k">>, Ass("INT", field(r, 0), k))), <<Lit(8)>>),
                 Add(Call(Id("first"), <<r>>), Call(Id("first"), <<x>>))>>)>>)

-----------------------------------------------------------------------------
\* Arrays.  number(v, i) = the elements of v from the i-th on as the digits of a
\* number, the first the last digit; last(v, i, s) leaves the sum s of the
\* elements to its last call, with the array's length in its frame.
At(arr, i)  == Deref(arr, <<i>>)
At2(arr, i, j) == Deref(arr, <<i, j>>)
Ints(ns)    == ArrayLit(<<Len(ns)>>, [i \in DOMAIN ns |-> Lit(ns[i])])
Next(e)     == Add(e, Lit(1))
NumberFrom  == NamingDims(Simple("number", "number", <<"v", "i">>,
                 Cond(Two("LT", Id("i"), Id("D")),
                      Add(At(v, Id("i")), Mul(Lit(10), Call(Id("number"), <<v, Next(Id("i"))>>))), Lit(0))),
                 <<Dim("D", 1, 0)>>)
Number(e)   == Call(Id("number"), <<e, Lit(0)>>)
LastFrom    == NamingDims(Simple("last", "last", <<"v", "i", "s">>,
                 Cond(Two("LT", Id("i"), Id("D")),
                      Call(Id("last"), <<v, Next(Id("i")), Add(Id("s"), At(v, Id("i")))>>),
                      Add(Id("s"), Call(FuncLit(Simple("lastl", NoName, <<"k">>, Mul(k, Id("D")))), <<Lit(100)>>)))),
                 <<Dim("D", 1, 0)>>)
\* rows(w) = the sizes of w, in which a function looks at a dimension too.
Rows        == NamingDims(Simple("rows", "rows", <<"n", "w">>,
                 Add(Mul(Id("R"), Lit(10)), Add(Id("C"), Call(FuncLit(Simple("rowsl", NoName, <<"k">>,
                   Mul(At2(w, Sub(Id("R"), Lit(1)), Sub(Id("C"), k)), Lit(100)))), <<n>>)))),
                 <<Dim("R", 2, 0), Dim("C", 2, 1)>>)

\* The variables: v of three ints, and w of two rows.
ArrayVars == <<
  Bind("v", ArrayLit(<<3>>, <<Lit(5), a, Lit(7)>>)),
  Bind("w", ArrayLit(<<2, 3>>, <<Lit(1), Lit(2), Lit(3), Lit(4), a, Lit(6)>>)),
  Bind("y", Lit(2)) >>

Indexed == <<
  Add(Lit(4), At2(w, a, Lit(2))),
  Call(h, <<At2(w, Lit(1), a), Add(At(v, a), At2(w, a, Lit(0)))>>),
  InOrder(<<Ass("INT", At(v, a), Lit(9)), Number(v)>>),
  Call(h, <<At(v, Div(Lit(2), a)), At(ArrayLit(<<2>>, <<Div(Lit(4), a), y>>), Lit(0))>>),
  Add(Call(Id("rows"), <<a, w>>), Call(Id("last"), <<v, a, Lit(3)>>)),
  InOrder(<<Ass("INT", At2(NewArray("INT", <<y, a>>), Lit(1), Lit(0)), Lit(3)), y>>),
  InOrder(<<Ass("INT", At2(w, Lit(1), Lit(1)), Set("y", Lit(8))), Add(Number(v), Mul(At2(w, Lit(1), a), Lit(10000)))>>) >>

Nil1 == NewArray("ARRAY", <<Lit(2)>>)
Filled == <<
  <<"u", NewArray("RECORD", <<a>>),
    InOrder(<<Ass("RECORD", At(u, Lit(0)), Record(<<y, Lit(3)>>)), Add(Attr(At(u, Lit(0)), 0), Attr(At(u, Sub(a, Lit(1))), 1))>>)>>,
  <<"u", NewArray("FUNC", <<Lit(2)>>),
    InOrder(<<Ass("FUNC", At(u, Lit(1)), FuncLit(Simple("l", NoName, <<"k">>, Add(Mul(k, Lit(10)), At(v, a))))),
              Call(At(u, a), <<Lit(6)>>)>>)>>,
  <<"u", NewArray("FUNC", <<Lit(2)>>),
    InOrder(<<Ass("FUNC", At(u, a), At(u, Sub(Lit(1), a))), y>>)>>,
  <<"u", Nil1, InOrder(<<Ass("ARRAY", At(u, a), v), Ass("INT", At(At(u, a), Lit(1)), Lit(8)), Add(Number(v), At(At(u, Lit(1)), Lit(0)))>>)>>,
  <<"u", Nil1, Add(y, Number(Ass("ARRAY", v, At(u, a))))>>,
  <<"u", Ints(<<1, 2, 3>>), InOrder(<<Ass("ARRAY", v, u), Ass("INT", At(v, a), Lit(8)), Add(Number(u), Number(v))>>)>>,
  <<"u", ArrayLit(<<2>>, <<FuncLit(Simple("l", NoName, <<"k">>, Set("y", Add(y, k)))), FuncLit(Simple("m", NoName, <<"k">>, Mul(y, k)))>>),
    Add(Call(At(u, a), <<Lit(5)>>), Mul(Call(At(u, Lit(1)), <<Lit(4)>>), Lit(100)))>>,
  <<"u", Add(y, a), At(v, Call(FuncLit(Simple("l", NoName, <<"k">>, At(v, Sub(k, At(v, a))))), <<Add(At(v, a), u)>>))>> >>

Sums == <<
  Number(Two("ADD_ARR", v, NewArray("INT", <<a>>))),
  Number(Two("SUB_ARR", NegArr(v), Two("MUL_ARR", y, v))),
  Add(At2(Two("MUL_ARR_ARR", w, ArrayLit(<<3, 2>>, <<Lit(1), Lit(0), a, Lit(2), Lit(0), Lit(1)>>)), Lit(1), Lit(0)), Number(NegArr(v))),
  At2(Two("MUL_ARR_ARR", w, NewArray("INT", <<a, Lit(1)>>)), Lit(0), Lit(0)),
  At2(Two("SUB_ARR", w, NegArr(Two("MUL_ARR", a, w))), Lit(1), Lit(2)),
  Number(Two("ADD_ARR", v, At(Nil1, Lit(0)))),
  Number(Two("MUL_ARR", y, At(Nil1, Lit(1)))) >>

Clauses == <<Catch(3, Add(a, Lit(300))), Catch(8, Add(a, Lit(800))), Catch(2, Add(a, Lit(200)))>>
Arrays ==
  LET program(extra, e) ==
        <<H, NumberFrom, LastFrom, Rows,
          Func("main", "main", <<"a">>, ArrayVars \o extra, << >>, e, Clauses, << >>)>>
      own == Each(LAMBDA c : Case(program(<<Bind(c[1][1], c[1][2])>>, c[1][3]), <<c[2]>>), Pairs(Filled, <<0, 1>>))
  IN  own \o Each(LAMBDA c : Case(program(<< >>, c[1]), <<c[2]>>),
                  Pairs(Indexed, <<-1, 0, 1, 2>>) \o Pairs(Sums, <<1, 3>>))

\* List comprehensions in each other, in calls and in functions, with functions
\* in them that read and keep what the generators are at.
Comp(qs, e, uid) == ListComp(uid, qs, e)
XinV       == In("x", v)
Plus(e)    == FuncLit(Simple("plus", NoName, <<"k">>, Add(k, e)))
Comprehensions == <<
  Number(Comp(<<XinV>>, Mul(x, Lit(2)), "c")),
  Number(Comp(<<XinV, If(Two("GT", x, a))>>, x, "c")),
  Call(h, <<Number(Comp(<<XinV, If(Two("NEQ", x, a)), In("k", u), If(Two("LT", k, x))>>, Add(x, k), "c")), y>>),
  Number(Comp(<<XinV, In("z", Comp(<<In("k", u)>>, Mul(x, k), "d")), If(Two("GT", z, Lit(1)))>>, Sub(z, a), "c")),
  Number(Comp(<<In("z", Comp(<<XinV>>, ArrayLit(<<2>>, <<x, y>>), "d")), In("x", z)>>, Add(x, a), "c")),
  Add(Lit(2), Number(Comp(<<XinV>>, Call(h, <<x, Div(Lit(6), Sub(x, a))>>), "c"))),
  Number(Comp(<<XinV, In("k", Comp(<<If(Div(x, a))>>, x, "d")), If(Div(x, Sub(k, Lit(2))))>>, k, "c")),
  \* functions kept beyond the loop
  Call(At(Comp(<<XinV>>, Plus(x), "c"), a), <<Lit(10)>>),
  Number(Comp(<<In("g", Comp(<<XinV, In("z", u)>>, Plus(Add(Mul(x, Lit(2)), z)), "d"))>>, Call(g, <<a>>), "c")),
  Number(Comp(<<XinV>>, Call(FuncLit(Simple("l", NoName, <<"k">>,
     Number(Comp(<<In("z", u)>>, Call(FuncLit(Simple("m", NoName, <<"m">>, Add(Mul(x, m), Add(z, k)))), <<y>>), "d")))), <<a>>), "c")),
  \* what is yielded is shared
  InOrder(<<Ass("INT", At(Comp(<<XinV>>, x, "c"), a), Lit(8)), Number(v)>>),
  While(Two("GT", y, Lit(0)), Set("y", Sub(Number(Comp(<<In("z", Ints(<<1>>))>>, Mul(z, y), "c")), Lit(1)))) >>

\* A comprehension of a function inside: in its variable, its result, its clause;
\* calling the function itself; and hiding a name around it.
Inner == <<
  Simple("f", "f", <<"n">>, Cond(n, Number(Comp(<<XinV, If(Two("LT", x, Lit(3)))>>, Add(Call(f, <<Sub(n, Lit(1))>>), x), "c")), y)),
  Func("f", "f", <<"n">>, <<Bind("z", Comp(<<In("y", v), In("x", u), If(Two("LT", x, y))>>, Mul(x, y), "c"))>>,
       <<Simple("g", "g", <<"k">>, Number(Comp(<<In("x", z)>>, Call(Plus(x), <<k>>), "d")))>>, Call(g, <<n>>), << >>, << >>),
  Func("f", "f", <<"n">>, <<Bind("y", Sub(n, Lit(1)))>>, << >>,
       Cond(n, Call(f, <<y>>), At(v, Div(n, n))),
       <<Catch(1, Number(Comp(<<In("z", v)>>, Call(Plus(z), <<n>>), "c")))>>, << >>),
  Func("f", "f", <<"x">>, << >>, <<Simple("g", "g", <<"n">>,
         Number(Comp(<<In("x", ArrayLit(<<2>>, <<Call(FuncLit(Simple("l", NoName, <<"k">>, Mul(x, k))), <<n>>), x>>))>>, Call(Plus(x), <<Mul(n, Lit(2))>>), "c")))>>,
       Call(g, <<x>>), << >>, << >>) >>

Lists ==
  LET main(funcs, e) == <<H, NumberFrom,
        Func("main", "main", <<"a">>, <<Bind("v", Ints(<<1, 2, 3>>)), Bind("u", Ints(<<1, 2>>)), Bind("y", Lit(4))>>, funcs, e,
             <<Catch(1, Add(a, Lit(100)))>>, << >>)>>
  IN  Each(LAMBDA c : Case(main(<< >>, c[1]), <<c[2]>>), Pairs(Comprehensions, <<0, 1, 2>>))
        \o Each(LAMBDA c : Case(main(<<c[1]>>, Add(Call(f, <<a>>), y)), <<c[2]>>), Pairs(Inner, <<0, 1>>))

-----------------------------------------------------------------------------
\* Floats.  Each operation on literals and a variable, as Folding has them for
\* ints; the literals are powers of two and so is every quotient.
Real(e)     == On("FLOAT", e)
OnReals(t, e1, e2) == Real(Two(t, e1, e2))
FloatOperations == <<"ADD", "SUB", "MUL", "DIV", "LT", "GT", "LTE", "GTE", "EQ", "NEQ">>
FoldingFloats ==
  LET leaves == <<IntToFloat(Lit(0)), Real(Neg(FloatLit(2))), Sup(FloatLit(8)), x>>
      twos   == Each(LAMBDA p : OnReals(p[1], p[2], p[3]), Triples(FloatOperations, leaves, leaves))
      whole  == Each(LAMBDA p : FloatToInt(OnReals(p[1], p[2], IntToFloat(Add(Lit(4), Neg(Lit(6)))))),
                     Pairs(<<"ADD", "MUL", "DIV">>, leaves))
  IN  Each(LAMBDA e : CaseOf("FLOAT", <<Simple("main", "main", <<"x">>, e)>>, <<-8>>), twos \o whole)

\* half(x) = x / 2.0; shrink(n, x) calls itself; e is evaluated where x is a
\* float, y an int and v an array of floats.
Half   == Simple("half", "half", <<"x">>, OnReals("DIV", x, FloatLit(8)))
Shrink == Simple("shrink", "shrink", <<"n", "x">>,
            Cond(n, Call(Id("shrink"), <<Sub(n, Lit(1)), Call(Id("half"), <<x>>)>>), x))
SetReal(e1, e2) == Ass("FLOAT", e1, e2)
Converted == <<
  Mul(Set("y", FloatToInt(OnReals("MUL", x, FloatLit(-6)))), Lit(10)),
  SetReal(x, IntToFloat(Add(y, a))),
  OnReals("SUB", Call(Id("half"), <<IntToFloat(a)>>), Call(Id("shrink"), <<y, SetReal(x, FloatLit(20))>>)),
  InOrder(<<While(OnReals("LT", x, FloatLit(40)), SetReal(x, OnReals("MUL", x, IntToFloat(Set("y", Add(y, Lit(1))))))), x>>),
  Call(h, <<Lit(2), FloatToInt(OnReals("DIV", FloatLit(12), IntToFloat(a)))>>),
  OnReals("ADD", Call(FuncLit(Simple("l", NoName, <<"k">>, SetReal(x, OnReals("ADD", x, k)))), <<FloatLit(2)>>), x),
  Deref(Real(Two("MUL_ARR", x, Real(Two("SUB_ARR", v, Real(NegArr(v)))))), <<a>>),
  Deref(Real(Two("ADD_ARR", v, NewArray("FLOAT", <<Add(a, Lit(2))>>))), <<Lit(1)>>),
  Deref(Real(Two("MUL_ARR_ARR", ArrayLit(<<1, 2>>, <<x, FloatLit(-2)>>), ArrayLit(<<2, 1>>, <<Deref(v, <<a>>), FloatLit(16)>>))),
        <<Lit(0), Lit(0)>>),
  Deref(Real(Two("MUL_ARR", x, At(NewArray("ARRAY", <<Lit(1)>>), a))), <<a>>) >>
Reals ==
  LET program(e) == <<H, Half, Shrink,
        Func("main", "main", <<"a">>,
             <<Bind("x", FloatLit(6)), Bind("y", Lit(2)), Bind("v", ArrayLit(<<2>>, <<FloatLit(2), FloatLit(-4)>>))>>,
             << >>, e, << >>, << >>)>>
  IN  Each(LAMBDA c : Case(program(c[1]), <<c[2]>>), Pairs(Converted, <<0, 1>>))

-----------------------------------------------------------------------------
\* Strings, looked at by code(s, i): the chars of s from the i-th on as the digits
\* of a number.  The build-in functions a program does not use are left out of it.
STR    == BuildIn("STR", <<"x">>)
STRF   == BuildIn("STRF", <<"x">>)
ORD    == BuildIn("ORD", <<"c">>)
CHR    == BuildIn("CHR", <<"x">>)
LENGTH == BuildIn("LENGTH", <<"x">>)
PRINT  == BuildIn("PRINT", <<"x">>)
PRINTF == BuildIn("PRINTF", <<"x">>)
PRINTC == BuildIn("PRINTC", <<"x">>)
PRINTS == BuildIn("PRINTS", <<"x">>)
SQRT   == BuildIn("SQRT", <<"x">>)
POW    == BuildIn("POW", <<"x", "e">>)
ASSERT == BuildIn("ASSERT", <<"x">>)
ASSERTF == BuildIn("ASSERTF", <<"x", "delta">>)

s  == Id("s")
t  == Id("t")
q  == Id("q")
Ab == <<97, 98>>
Join(e1, e2)        == On("STRING", Two("ADD", e1, e2))
JoinAs(o, e1, e2)   == On(o, Two("ADD", e1, e2))
SetText(e1, e2)     == Ass("STRING", e1, e2)
Ord(e)    == Call(Id("ORD"), <<e>>)
Length(e) == Call(Id("LENGTH"), <<e>>)
CodeFrom  == Simple("code", "code", <<"s", "i">>,
               Cond(Two("LT", Id("i"), Length(s)),
                    Add(Ord(CharAt(s, Id("i"))), Mul(Lit(3), Call(Id("code"), <<s, Next(Id("i"))>>))), Lit(0)))
Code(e)   == Call(Id("code"), <<e, Lit(0)>>)

Texts == <<
  Code(Join(s, Join(t, s))),
  Code(JoinAs("STRING_INT", s, Sub(Mul(a, Lit(6)), Lit(15)))),
  Code(JoinAs("INT_STRING", Mul(a, Lit(100)), s)),
  Code(JoinAs("FLOAT_STRING", OnReals("MUL", IntToFloat(a), FloatLit(5)), Join(t, StringLit(Ab)))),
  Code(JoinAs("STRING_FLOAT", Join(StringLit(<<48>>), StringLit(<<49>>)), FloatLit(-11))),
  Add(On("STRING", Two("EQ", Join(StringLit(<<97>>), StringLit(<<98>>)), s)),
      Mul(Lit(10), On("STRING", Two("NEQ", SetText(s, t), t)))),
  Call(h, <<Lit(1), Ord(CharAt(s, a))>>),
  Add(On("CHAR", Two("EQ", CharAt(s, a), CharLit(98))), Mul(Lit(10), On("CHAR", Two("LT", Ass("CHAR", Id("c"), CharAt(t, Sub(a, Lit(1)))), Id("c"))))),
  \* names of the same string, and copies
  InOrder(<<SetText(s, t), SetText(t, Join(t, u)), Add(Mul(Code(u), Lit(10000)), Code(t))>>),
  InOrder(<<SetText(At(q, a), s), SetText(At(q, a), Join(At(q, a), t)), Add(Length(s), Code(At(q, Lit(1))))>>),
  InOrder(<<Call(FuncLit(Simple("l", NoName, <<"k">>, SetText(s, Join(s, k)))), <<t>>), Code(u)>>),
  InOrder(<<SetText(Attr(r, 0), Join(s, Attr(r, 0))), Add(Code(t), Length(s))>>),
  \* a string that is not there
  Call(h, <<Lit(1), Code(Join(s, At(q, a)))>>),
  Add(Lit(5), Length(At(q, a))),
  Ord(CharAt(At(q, Lit(0)), a)),
  Code(SetText(s, At(q, a))),
  On("STRING", Two("EQ", s, At(q, a))),
  \* chars and strings in lists and loops
  Code(At(ListComp("c", <<In("x", ArrayLit(<<2>>, <<s, t>>)), If(On("STRING", Two("NEQ", x, t)))>>, Join(x, t)), Sub(a, Lit(1)))),
  InOrder(<<While(y, InOrder(<<SetText(t, JoinAs("STRING_INT", t, y)), Set("y", Sub(y, Lit(1)))>>)), Code(t)>>),
  Add(Ord(Ass("CHAR", At(NewArray("CHAR", <<a>>), Lit(0)), CharLit(65))), Ord(At(NewArray("CHAR", <<a>>), Sub(a, Lit(1))))) >>

TextPrograms ==
  LET program(e) == <<LENGTH, ORD, H, CodeFrom,
        Func("main", "main", <<"a">>,
             <<Bind("s", StringLit(Ab)), Bind("t", StringLit(<<45>>)), Bind("u", s), Bind("c", CharLit(46)), Bind("y", Lit(2)),
               Bind("q", NewArray("STRING", <<Lit(2)>>)), Bind("r", Record(<<t, y>>))>>,
             << >>, e, <<Catch(3, Add(a, Lit(300))), Catch(8, Add(a, Lit(800)))>>, << >>)>>
  IN  Each(LAMBDA c : Case(program(c[1]), <<c[2]>>), Pairs(Texts, <<1, 2>>))

\* What is compared with nil is there for a = 1.
NilTests(op, e, type) == <<On(type \o "_NIL", Two(op, e, NilRecord)), On("NIL_" \o type, Two(op, NilRecord, e))>>
Missing ==
  LET test(ts) == Add(ts[1], Mul(Lit(10), ts[2]))
      either(e, type, there) ==
        InOrder(<<Cond(a, InOrder(<<Ass(type, e, there), Lit(0)>>), Lit(0)),
                  Add(test(NilTests("EQ", e, type)), Mul(Lit(100), test(NilTests("NEQ", e, type))))>>)
      program(type, there) ==
        <<Func("main", "main", <<"a">>, <<Bind("q", NewArray(type, <<Lit(1)>>))>>, << >>,
               Add(either(At(q, Lit(0)), type, there),
                   Mul(Lit(10000), On("NIL", Two("EQ", NilRecord, Sup(NilRecord))))), << >>, << >>)>>
  IN  Each(LAMBDA c : Case(program(c[1][1], c[1][2]), <<c[2]>>),
           Pairs(<< <<"STRING", StringLit(Ab)>>, <<"ARRAY", Ints(<<1, 2>>)>>, <<"RECORD", Record(<<Lit(1), Lit(2)>>)>>,
                    <<"FUNC", FuncLit(Simple("l", NoName, <<"k">>, k))>> >>, <<0, 1>>))

-----------------------------------------------------------------------------
\* The functions that are built in, where they give something and where they
\* fail, and with their failures caught.
Calling(lib, es) == Call(Id(lib), es)
BuiltIns == <<
  << <<LENGTH, ORD, CodeFrom, STR>>, Code(Calling("STR", <<Mul(a, Lit(-7))>>))>>,
  << <<LENGTH, ORD, CodeFrom, STRF>>, Code(Calling("STRF", <<OnReals("DIV", IntToFloat(a), FloatLit(16))>>))>>,
  << <<ORD, CHR, PRINTC>>, Ord(Calling("PRINTC", <<Calling("CHR", <<Add(a, Lit(127))>>)>>))>>,
  << <<LENGTH, PRINTS, PRINT>>, Calling("PRINT", <<Add(a, Length(Calling("PRINTS", <<StringLit(Ab)>>)))>>)>>,
  << <<LENGTH, PRINTS>>, Length(Calling("PRINTS", <<At(NewArray("STRING", <<Lit(1)>>), Lit(0))>>))>>,
  << <<PRINTF, SQRT>>, FloatToInt(Calling("PRINTF", <<Calling("SQRT", <<OnReals("ADD", FloatLit(9), IntToFloat(Mul(a, Add(a, Lit(3)))))>>)>>))>>,
  << <<SQRT>>, Call(h, <<a, FloatToInt(Calling("SQRT", <<IntToFloat(Neg(a))>>))>>)>>,
  << <<POW>>, FloatToInt(OnReals("MUL", FloatLit(32), Calling("POW", <<FloatLit(8), IntToFloat(Sub(a, Lit(2)))>>)))>>,
  << <<POW>>, Call(h, <<Lit(1), Add(Lit(5), FloatToInt(Calling("POW", <<IntToFloat(Sub(a, Lit(1))), FloatLit(-4)>>)))>>)>>,
  << <<ASSERT>>, Call(h, <<Lit(7), Calling("ASSERT", <<a>>)>>)>>,
  << <<ASSERTF>>, Add(Lit(3), Calling("ASSERTF", <<OnReals("SUB", FloatLit(4), IntToFloat(a)), FloatLit(1)>>))>> >>

BuildIns ==
  LET program(libs, e, all) ==
        libs \o <<H, Func("f", "f", <<"a">>, << >>, << >>, e, <<Catch(4, Add(a, Lit(400))), Catch(8, Add(a, Lit(800)))>>, all),
                  Simple("main", "main", <<"a">>, Add(Call(f, <<a>>), Lit(1000)))>>
  IN  Each(LAMBDA c : Case(program(c[1][1], c[1][2], c[2]), <<c[3]>>),
           Triples(BuiltIns, << << >>, <<Add(a, Lit(100))>> >>, <<0, 1, 5>>))

\* Foreign functions: where they give something, where they and the libraries
\* they are in are not there, and where the call that fails has others around it.
NextChar    == Foreign(HOST, "nextChar", TEST_CHAR, <<"c">>, <<"CHAR", "CHAR">>)
Joined      == Foreign(HOST, "joined", TEST_CONC_STR, <<"s", "t">>, <<"STRING", "STRING", "STRING">>)
Labelled    == Foreign(HOST, "labelled", TEST_CONC_INT_STR, <<"n", "s">>, <<"INT", "STRING", "STRING">>)
Powf        == Foreign(HOST, "powf", POWF, <<"x", "y">>, <<"FLOAT", "FLOAT", "FLOAT">>)
NoFunction  == Foreign(HOST, "noFunction", <<6>>, <<"n">>, <<"INT", "INT">>)
NoLibrary   == Foreign(<<7>>, "noLibrary", TEST_CONC_INT_STR, <<"n", "s">>, <<"INT", "STRING", "STRING">>)
Nothing     == Foreign(HOST, "nothing", <<6>>, << >>, <<"INT">>)

ForeignCalls == <<
  << <<LENGTH, ORD, CodeFrom, Joined, Labelled>>, Code(Calling("joined", <<StringLit(<<45>>), Calling("labelled", <<a, StringLit(Ab)>>)>>))>>,
  << <<LENGTH, ORD, CodeFrom, Labelled, NoLibrary>>, Code(Calling("labelled", <<Neg(a), Calling("noLibrary", <<a, StringLit(Ab)>>)>>))>>,
  << <<ORD, NextChar>>, Call(h, <<Ord(Calling("nextChar", <<CharLit(90)>>)), Ord(Calling("nextChar", <<CharLit(70)>>))>>)>>,
  << <<Powf>>, FloatToInt(OnReals("MUL", FloatLit(8), Calling("powf", <<FloatLit(8), IntToFloat(a)>>)))>>,
  << <<NoFunction>>, Call(h, <<Lit(5), Call(h, <<Cond(a, Calling("noFunction", <<a>>), Lit(2)), a>>)>>)>>,
  << <<NoFunction>>, Call(h, <<Div(Lit(6), a), Calling("noFunction", <<a>>)>>)>>,
  << <<Nothing>>, Call(h, <<Lit(5), Call(h, <<Calling("nothing", << >>), a>>)>>)>>,
  << <<NoFunction>>, At(ListComp("c", <<In("x", Ints(<<1, 2>>))>>, Call(h, <<x, Calling("noFunction", <<x>>)>>)), Lit(1))>>,
  << <<Powf>>, FloatToInt(Call(FuncLit(Simple("l", NoName, <<"p">>, Call(Id("p"), <<FloatLit(12), FloatLit(8)>>))), <<Id("powf")>>))>>,
  << <<NoFunction>>, Call(FuncLit(Simple("l", NoName, <<"n">>, Call(h, <<Calling("noFunction", <<n>>), Lit(3)>>))), <<Lit(2)>>)>> >>

Foreigners ==
  LET f1(e, outer, inner, all) ==
        outer \o <<H, Func("f", "f", <<"a">>, << >>, inner, e, <<Catch(1, Add(a, Lit(100)))>>, all)>>
      program(libs, e, nested, all) ==
        (IF nested THEN f1(e, << >>, libs, all) ELSE f1(e, libs, << >>, all))
          \o <<Func("main", "main", <<"a">>, << >>, << >>, Call(h, <<Lit(2), Call(f, <<a>>)>>), <<Catch(9, Add(a, Lit(900)))>>, << >>)>>
      clauses == << << >>, <<Call(h, <<a, Div(Lit(8), a)>>)>> >>
  IN  Each(LAMBDA c : Case(program(c[1][1], c[1][2], c[2], c[3][1]), <<c[3][2]>>),
           Triples(ForeignCalls, <<FALSE, TRUE>>, Pairs(clauses, <<0, 2>>)))

\* Recursion too deep for the stack, and closures too many for the memory.
Exhausting ==
  LET deep == Simple("f", "f", <<"n">>, Cond(n, Add(Lit(1), Call(f, <<Sub(n, Lit(1))>>)), n))
      many == Simple("f", "f", <<"n", "g">>,
                     Cond(n, SelfCall(Sub(n, Lit(1)), FuncLit(Simple("l", NoName, <<"k">>, Add(n, Call(g, <<k>>))))), n))
      one  == FuncLit(Simple("i", NoName, <<"k">>, k))
  IN  <<Case(<<deep, Simple("main", "main", <<"a">>, Call(f, <<a>>))>>, <<20>>),
        Case(<<many, Simple("main", "main", <<"a">>, SelfCall(a, one))>>, <<40>>)>>

Sound == Exceptions \o Closures \o Shadowing \o LongLived \o Mutual \o Recursion \o Leaving \o Control \o Constants \o Folding \o Records
           \o Arrays \o Lists \o FoldingFloats \o Reals \o TextPrograms \o Missing \o BuildIns \o Foreigners
           \o Exhausting

-----------------------------------------------------------------------------
\* A function that calls the nested function it is written in.
CallOfEnclosing ==
  LET d == Simple("d", "d", <<"m">>, Cond(IsZero(m), Lit(7), Call(f, <<Sub(m, Lit(1))>>)))
  IN  Case(<<Func("main", "main", << >>, << >>,
                <<Func("f", "f", <<"n">>, << >>, <<d>>, Cond(IsZero(n), Lit(100), Call(Id("d"), <<n>>)), << >>, << >>)>>,
                Call(f, <<Lit(3)>>), << >>, << >>)>>, << >>)

\* A function whose result is its own call and whose clause raises again.
HandlerOfTailCall ==
  Case(<<Func("f", "f", <<"n">>, << >>, << >>,
              Cond(IsZero(n), Div(Lit(1), n), Call(f, <<Sub(n, Lit(1))>>)),
              <<Catch(1, Div(Lit(10), n))>>, << >>),
         Simple("main", "main", << >>, Call(f, <<Lit(1)>>))>>, << >>)
=============================================================================
