------------------------------- MODULE Shapes -------------------------------
(***************************************************************************)
(* What the emitter knows of the stack at each address of its code, as the *)
(* stack levels it counts with say it (back/emit.c): how high the stack is *)
(* above the running activation's frame, and how high above it the         *)
(* youngest frame is, 0 when that is its own.  Where a handler starts, it  *)
(* knows nothing but that the arguments are still there.                   *)
(*                                                                         *)
(* A program p carries this as p.shape, a function on the addresses that   *)
(* can be come to.  Shaped(p) says that every instruction leads from the   *)
(* shape at its address to the shape at the next one; nothing in it        *)
(* depends on a state of the machine.                                      *)
(***************************************************************************)
EXTENDS Vm

At(h, m) == [known |-> TRUE, height |-> h, mark |-> m]
Handling == [known |-> FALSE, height |-> 0, mark |-> 0]

\* The function whose body the address is in, as the emitter knows it: its
\* parameters and what it captures.  The code that calls main has neither.
FuncIn(funcs, x) ==
  IF x < funcs[1].start THEN [uid |-> "", start |-> 0, params |-> 0, captures |-> 0]
  ELSE funcs[CHOOSE i \in DOMAIN funcs :
               /\ funcs[i].start <= x
               /\ \A j \in DOMAIN funcs : funcs[j].start <= x => j <= i]

\* The dimensions of the array literal that ends at a: literals right before it.
Listed(p, a) == [k \in 1 .. p.code[a].dims |-> p.code[a - k].value]

\* How many entries the instruction at a takes from the top, and how many it
\* leaves in their place.
Takes(p, a) ==
  LET i == p.code[a] IN
  CASE i.type \in {"NOT", "NEG", "INT_TO_FLOAT", "FLOAT_TO_INT", "ID_FUNC_ADDR", "ATTR", "NEG_ARR",
                   "ARRAY_APPEND", "REWRITE", "JUMPZ"}                     -> 1
    [] i.type \in {"OP", "STRING_DEREF", "ADD_ARR", "SUB_ARR", "MUL_ARR", "MUL_ARR_ARR"} \cup Assignments -> 2
    [] i.type = "BUILD_IN"                -> ArgumentsOf(i)
    [] i.type \in {"GLOBAL_VEC", "RECORD"} -> i.count
    [] i.type = "MK_ARRAY"                -> i.dims
    [] i.type = "MK_INIT_ARRAY"           -> i.dims + Size(Listed(p, a))
    [] i.type = "ARRAY_DEREF"             -> i.dims + 1
    [] i.type = "SLIDE"                   -> i.q + i.m
    [] OTHER                              -> 0
Leaves(p, a) ==
  LET i == p.code[a] IN
  CASE i.type \in {"ARRAY_APPEND", "REWRITE", "JUMPZ", "OP_INC_INT"} -> 0
    [] i.type = "SLIDE"      -> i.m
    [] i.type = "ALLOC"      -> i.n
    [] i.type = "PUSH_PARAM" -> Len(p.params)
    [] OTHER                 -> 1

-----------------------------------------------------------------------------
ParamsAt(p, a)   == FuncIn(p.funcs, a).params
InFunction(p, a) == FuncIn(p.funcs, a).start # 0

\* The machine goes on at s, in the same function, and finds the shape sh there
\* or, where a clause that does not match goes on with the next handler, less.
Leads(p, a, s, sh) ==
  /\ s \in DOMAIN p.shape /\ FuncIn(p.funcs, s) = FuncIn(p.funcs, a)
  /\ \/ p.shape[s] = sh
     \/ p.shape[s] = Handling /\ sh.height >= ParamsAt(p, s)

\* A call comes back behind its CALL, one entry higher than where the frame was
\* begun.
Marks(p, a) ==
  LET sh == p.shape[a]
      r  == p.code[a].addr
  IN  /\ sh.known /\ sh.height >= ParamsAt(p, a)
      /\ Leads(p, a, a + 1, At(sh.height + 5, sh.height + 5))
      /\ Leads(p, a, r, At(sh.height + 1, sh.mark)) /\ p.shape[r].known
      /\ r - 1 \in DOMAIN p.shape /\ p.code[r - 1].type = "CALL"
      /\ FuncIn(p.funcs, r - 1) = FuncIn(p.funcs, r)

\* A tail call is one with no frame but the activation's own.
Calling(p, a) ==
  LET sh == p.shape[a]
  IN  /\ sh.known /\ sh.height > sh.mark /\ sh.height >= ParamsAt(p, a)
      /\ sh.mark = 0 => InFunction(p, a)

Returns(p, a) ==
  LET sh == p.shape[a]
  IN  sh.known /\ sh.mark = 0 /\ sh.height > 0 /\ InFunction(p, a)

Clears(p, a) ==
  /\ ~p.shape[a].known
  /\ p.code[a].count = ParamsAt(p, a)
  /\ Leads(p, a, a + 1, At(ParamsAt(p, a), 0))

\* The instructions that do not look at the stack.
Passes(p, a) ==
  Leads(p, a, IF p.code[a].type = "JUMP" THEN a + 1 + p.code[a].offset ELSE a + 1, p.shape[a])

\* All others work above the youngest frame; one that may fail above the
\* arguments, too.
Works(p, a) ==
  LET sh    == p.shape[a]
      takes == Takes(p, a)
      next  == At(sh.height - takes + Leaves(p, a), sh.mark)
  IN  /\ sh.known
      /\ takes \in Nat /\ Leaves(p, a) \in Nat
      /\ p.code[a].type = "SLIDE" => p.code[a].q \in Nat /\ p.code[a].m \in Nat
      /\ p.code[a].type \in {"MK_ARRAY", "ARRAY_DEREF", "MK_INIT_ARRAY"} => p.code[a].dims \in Nat
      /\ p.code[a].type = "MK_INIT_ARRAY" => Listed(p, a) \in Seq(Nat)
      /\ p.code[a].type \in {"MK_ARRAY", "ARRAY_DEREF", "MK_INIT_ARRAY"} => takes > 0
      /\ takes <= sh.height - sh.mark
      /\ p.code[a].type # "SLIDE" => takes <= sh.height - ParamsAt(p, a)
      /\ Leads(p, a, a + 1, next)
      /\ p.code[a].type = "JUMPZ" => Leads(p, a, a + 1 + p.code[a].offset, next)

ShapedAt(p, a) ==
  LET type == p.code[a].type IN
  CASE type = "MARK"        -> Marks(p, a)
    [] type = "CALL"        -> Calling(p, a)
    [] type = "RET"         -> Returns(p, a)
    [] type = "RETHROW"     -> InFunction(p, a)
    [] type = "CLEAR_STACK" -> Clears(p, a)
    [] type \in {"JUMP", "LABEL", "FUNC_DEF", "FUNC_OBJ", "FUNC_FFI_TYPE"} -> Passes(p, a)
    [] type \in {"HALT", "UNHANDLED_EXCEPTION"} -> ~InFunction(p, a)
    [] OTHER                -> Works(p, a)

\* What fails goes on, in the same function, at a handler behind it.
MayFail == {"OP", "OP_ASS_STRING", "OP_ASS_FUNC", "OP_ASS_ARRAY", "STRING_DEREF", "ATTR", "CALL", "BUILD_IN", "FUNC_FFI",
            "MK_ARRAY", "ARRAY_DEREF", "ARRAY_APPEND", "NEG_ARR", "ADD_ARR", "SUB_ARR", "MUL_ARR", "MUL_ARR_ARR"}
Handled(p, a) ==
  p.code[a].type \in MayFail =>
    /\ Leads(p, a, HandlerIn(p.exctab, a), Handling)
    /\ HandlerIn(p.exctab, a) > a

\* The level an identifier of the frame is read with is the height of the stack
\* above the arguments.
LevelKnown(p, a) ==
  p.code[a].type = "ID_LOCAL" /\ p.code[a].of = "frame" =>
    p.code[a].stack_level = p.shape[a].height - ParamsAt(p, a)

\* Only functions have captured cells, as many as the compiler has listed, and
\* only functions are made.
CapturesKnown(p, a) ==
  /\ p.code[a].type \in {"ID_GLOBAL", "COPYGLOB"} => InFunction(p, a)
  /\ p.code[a].type = "ID_GLOBAL" => p.code[a].index + 1 \in 1 .. FuncIn(p.funcs, a).captures
  /\ p.code[a].type = "ID_FUNC_ADDR" => \E i \in DOMAIN p.funcs : p.funcs[i].start = p.code[a].func_addr

\* The emitter writes no other build-in functions, kinds of elements and kinds of
\* operands.
KindsKnown(p, a) ==
  LET i == p.code[a] IN
  /\ i.type = "BUILD_IN" =>
       i.lib \in {"STR", "STRF", "ORD", "CHR", "PRINT", "PRINTF", "PRINTC", "PRINTS", "LENGTH", "ASSERT", "ASSERTF",
                 "SQRT", "POW"}
  /\ i.type = "MK_ARRAY" => i.comb \in Literals \cup {"STRING", "FUNC", "RECORD", "ARRAY"}
  /\ i.type \in {"NEG", "NEG_ARR", "ADD_ARR", "SUB_ARR", "MUL_ARR", "MUL_ARR_ARR"} => i.on \in {"INT", "FLOAT"}
  /\ i.type = "FUNC_FFI" => p.code[a + (i.count + 1)].of \in Literals \cup {"STRING"}

Starts(p, f) ==
  /\ f.start \in Nat \ {0} /\ f.params \in Nat
  /\ FuncIn(p.funcs, f.start) = f
  /\ f.start \in DOMAIN p.shape /\ p.shape[f.start] = At(f.params, 0)

Shaped(p) ==
  /\ DOMAIN p.shape \subseteq DOMAIN p.code /\ DOMAIN p.code \subseteq Nat
  /\ ~InFunction(p, 0) /\ 0 \in DOMAIN p.shape /\ p.shape[0] = At(0, 0)
  /\ \A i \in DOMAIN p.funcs : Starts(p, p.funcs[i])
  /\ \A a \in DOMAIN p.shape :
       /\ p.shape[a].height \in Nat /\ p.shape[a].mark \in 0 .. p.shape[a].height
       /\ ParamsAt(p, a) \in Nat
       /\ ShapedAt(p, a) /\ Handled(p, a)
       /\ LevelKnown(p, a) /\ CapturesKnown(p, a) /\ KindsKnown(p, a)
  /\ \A i \in DOMAIN p.params : p.params[i].type \in Literals
=============================================================================
