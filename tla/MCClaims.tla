------------------------------- MODULE MCClaims ------------------------------
(***************************************************************************)
(* One program against a promise of the sources that does not hold: a call *)
(* of an enclosing function, and a handler of a call in tail position.     *)
(***************************************************************************)
EXTENDS Compiled, TLC

P == INSTANCE MCPrograms
E == INSTANCE Emit
V == INSTANCE Eval

Cases == [enclosing |-> P!CallOfEnclosing, tail_handler |-> P!HandlerOfTailCall]

LoadCase(p) ==
  CHOOSE r \in {[name    |-> p,
                 code    |-> c.code @@ << >>,
                 strings |-> c.strings,
                 exctab  |-> c.exctab,
                 funcs   |-> c.funcs,
                 params  |-> c.params] : c \in {E!Compile(Cases[p].funcs, Cases[p].params)}} : TRUE

EnclosingProgram   == {"enclosing"}
TailHandlerProgram == {"tail_handler"}

CaseMeaning(p) == V!EvalProgram(Cases[p].funcs, Cases[p].params)
=============================================================================
