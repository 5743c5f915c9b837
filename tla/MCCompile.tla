----------------------------- MODULE MCCompile ------------------------------
(***************************************************************************)
(* The compiler and the machine together: programs of MCPrograms are       *)
(* compiled by Emit and run by Vm, and Eval says what they mean.           *)
(***************************************************************************)
EXTENDS Compiled, TLC

P == INSTANCE MCPrograms
E == INSTANCE Emit
V == INSTANCE Eval

Made(case) == E!Compile(case.funcs, case.params)
Meant(case)    == V!EvalProgram(case.funcs, case.params)

\* The shapes of the stack that the code leads to from its start, the starts of
\* its functions and its handlers: Through spreads them from the addresses lo to
\* hi, by halves to keep TLC's evaluation flat.
Following(p, a, sh) ==
  LET i     == p.code[a]
      after == At(sh.height - Takes(p, a) + Leaves(p, a), sh.mark)
  IN  CASE i.type = "MARK"        -> (a + 1 :> At(sh.height + 5, sh.height + 5)) @@ (i.addr :> At(sh.height + 1, sh.mark))
        [] i.type = "CLEAR_STACK" -> (a + 1 :> At(i.count, 0))
        [] i.type = "JUMP"        -> (a + 1 + i.offset :> sh)
        [] i.type = "JUMPZ"       -> (a + 1 :> after) @@ (a + 1 + i.offset :> after)
        [] i.type \in {"LABEL", "FUNC_DEF", "FUNC_OBJ", "FUNC_FFI_TYPE"} -> (a + 1 :> sh)
        [] i.type \in {"CALL", "RET", "RETHROW", "HALT", "UNHANDLED_EXCEPTION"} -> << >>
        [] OTHER                  -> (a + 1 :> after)
HandlerAt(p, a) == IF p.code[a].type \in MayFail THEN HandlerIn(p.exctab, a) :> Handling ELSE << >>

Meet(f, g) == [s \in DOMAIN f \cup DOMAIN g |-> IF s \in DOMAIN f /\ (s \in DOMAIN g => g[s].known) THEN f[s] ELSE g[s]] @@ << >>

RECURSIVE Through(_, _, _, _)
Through(p, shape, lo, hi) ==
  IF lo < hi
  THEN LET mid == (lo + hi) \div 2
       IN  CHOOSE r \in {Through(p, half, mid + 1, hi) : half \in {Through(p, shape, lo, mid)}} : TRUE
  ELSE IF lo \in DOMAIN shape THEN Meet(shape, Meet(HandlerAt(p, lo), Following(p, lo, shape[lo])))
  ELSE shape

Starting(p) == [a \in {0} \cup {p.funcs[i].start : i \in DOMAIN p.funcs} |-> At(FuncIn(p.funcs, a).params, 0)]
ShapeOf(p)  == Through(p, Starting(p), 0, Cardinality(DOMAIN p.code) - 1)

\* Binding a value to a name in a set makes TLC compute it once.
LoadSound(p) ==
  CHOOSE r \in {[shape |-> ShapeOf(q)] @@ q :
                  q \in {[name    |-> p,
                          code    |-> c.code @@ << >>,
                          strings |-> c.strings,
                          exctab  |-> c.exctab,
                          funcs   |-> c.funcs,
                          params  |-> c.params] : c \in {Made(P!Sound[p])}}} : TRUE

SoundPrograms   == {p \in DOMAIN P!Sound : E!Accepts(P!Sound[p].funcs)}
SoundMeaning(p) == Meant(P!Sound[p])
=============================================================================
