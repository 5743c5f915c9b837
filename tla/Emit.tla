-------------------------------- MODULE Emit --------------------------------
(***************************************************************************)
(* The code generator of back/emit.c: from a resolved and marked tree to   *)
(* the instructions of back/vm.c and the exception table.                  *)
(*                                                                         *)
(* `stack_level` is where the generator thinks the top of the stack will   *)
(* be when the code runs: 0 just above the function's arguments, and f is  *)
(* the function whose body the code is part of.  LINE instructions are     *)
(* left out.                                                               *)
(***************************************************************************)
EXTENDS Tailrec, Constred

Instruction(t) == <<[type |-> t]>>
LITERAL(t, v)  == <<[type |-> t, value |-> v]>>
INT(n)         == LITERAL("INT", n)
OP_ON(o, types) == <<[type |-> "OP", op |-> o, on |-> types]>>
OP(o)          == OP_ON(o, "INT")

\* `of` says what an ID_LOCAL is after, for the property LevelAgrees to tell a
\* place in the frame from one in a comprehension's loop; the code has no such
\* field.
ReadOf(o, l, i) == <<[type |-> "ID_LOCAL", stack_level |-> l, index |-> i, of |-> o]>>
ID_LOCAL(l, i)  == ReadOf("frame", l, i)
ID_DIM_LOCAL(l, i, d) == <<[type |-> "ID_DIM_LOCAL", stack_level |-> l, index |-> i, dim_index |-> d]>>
OP_INC_INT(l)   == <<[type |-> "OP_INC_INT", stack_level |-> l, index |-> 0]>>
ARRAY_APPEND(l) == <<[type |-> "ARRAY_APPEND", stack_level |-> l, index |-> 0]>>
ARRAY_DEREF(n)  == <<[type |-> "ARRAY_DEREF", dims |-> n]>>
STRING_DEREF    == Instruction("STRING_DEREF")
BUILD_IN(l)     == <<[type |-> "BUILD_IN", lib |-> l]>>
MK_INIT_ARRAY(n) == <<[type |-> "MK_INIT_ARRAY", dims |-> n]>>
ID_GLOBAL(i)   == <<[type |-> "ID_GLOBAL", index |-> i]>>
JUMP(n)        == <<[type |-> "JUMP", offset |-> n]>>
JUMPZ(n)       == <<[type |-> "JUMPZ", offset |-> n]>>
SLIDE(qq, mm)  == <<[type |-> "SLIDE", q |-> qq, m |-> mm]>>
GLOBAL_VEC(n)  == <<[type |-> "GLOBAL_VEC", count |-> n]>>
MARK(n)        == <<[type |-> "MARK", offset |-> n]>>
LABEL          == Instruction("LABEL")

\* The instruction of an operation that comes in one for ints and one for floats.
OnTypes(e)     == <<[type |-> e.type, on |-> TypesOf(e)]>>

\* The frame's return address is n instructions on; that of a function is not
\* known before its body is emitted.
ID_FUNC_FUNC(uid) == <<[type |-> "ID_FUNC_FUNC", uid |-> uid]>>

-----------------------------------------------------------------------------
\* What an entry of the running function means: its cell, or for the name of a
\* dimension a new int.  The element a generator is at lies on top of its list
\* and its counter, wherever these were put.
CounterForgotten(f, entry, stack_level) == stack_level - f.levels[entry.decl] - 2   \* mutant
LevelOfQualifier(f, entry, stack_level) == stack_level - f.levels[entry.decl] - 3
EmitLocal(f, entry, stack_level) ==
  CASE entry.type = "QUALIFIER" -> ReadOf("qualifier", LevelOfQualifier(f, entry, stack_level), 0)
    [] entry.type = "DIM"       -> ID_DIM_LOCAL(stack_level, entry.index, entry.decl[3])
    [] OTHER                    -> ID_LOCAL(stack_level, entry.index)

\* expr_id_emit.
EmitId(f, e, stack_level) ==
  CASE e.id_type = "LOCAL"     -> EmitLocal(f, e.entry, stack_level)
    [] e.id_type = "GLOBAL"    -> ID_GLOBAL(FreevarIndex(f, e.id))
    [] e.id_type = "FUNC_TOP"  -> GLOBAL_VEC(0) \o ID_FUNC_FUNC(e.entry.decl[1])
    [] e.id_type = "FUNC_NEST" -> Instruction("COPYGLOB") \o ID_FUNC_FUNC(e.entry.decl[1])

\* func_freevar_emit, for the i-th captured cell of a function in f.
LevelNotRaised(stack_level, i) == stack_level          \* mutant: the cells before it forgotten
LevelOfFreevar(stack_level, i) == stack_level + i - 1
EmitFreevar(f, fv, stack_level, i) ==
  LET src == SrcOf(f, fv)
  IN  IF src.type = "GLOBAL" THEN ID_GLOBAL(src.index)
      ELSE EmitLocal(f, src.entry, LevelOfFreevar(stack_level, i))

\* func_emit_native: the captured cells, packed, and the function over them.
\* The instruction FUNC_OBJ keeps g: it stands for the entry of g in list_weak.
EmitFunc(f, g, stack_level) ==
  <<[type |-> "FUNC_OBJ", func |-> g]>>
  \o FlattenSeq([i \in DOMAIN g.freevars |-> EmitFreevar(f, g.freevars[i], stack_level, i)])
  \o GLOBAL_VEC(Len(g.freevars))
  \o ID_FUNC_FUNC(g.uid)

\* func_list_emit: empty closures first, for the functions to capture each
\* other, then each is filled in.
EmitFuncList(f, fs, stack_level) ==
  LET n == Len(fs)
  IN  <<[type |-> "ALLOC", n |-> n]>>
      \o FlattenSeq([i \in 1 .. n |->
           EmitFunc(f, fs[i], stack_level + n) \o <<[type |-> "REWRITE", j |-> n + 1 - i]>>])

-----------------------------------------------------------------------------
RECURSIVE EmitExpr(_, _, _), EmitList(_, _, _), EmitSeq(_, _, _), EmitQualifiers(_, _, _, _)

\* Expressions one after the other, each leaving its value on the stack.
EmitList(f, es, stack_level) ==
  IF es = << >> THEN << >>
  ELSE EmitExpr(f, Head(es), stack_level) \o EmitList(f, Tail(es), stack_level + 1)

\* expr_list_emit: arguments are evaluated from the last to the first.
EmitArgs(f, es, stack_level) == EmitList(f, Reverse(es), stack_level)

\* expr_seq_emit: each value but the last is dropped.
EmitSeq(f, es, stack_level) ==
  EmitExpr(f, Head(es), stack_level)
    \o (IF Len(es) = 1 THEN << >> ELSE SLIDE(1, 0) \o EmitSeq(f, Tail(es), stack_level))

EmitCond(f, e, sl) ==
  LET m == EmitExpr(f, e.kids[2], sl)
      r == EmitExpr(f, e.kids[3], sl)
  IN  EmitExpr(f, e.kids[1], sl) \o JUMPZ(Len(m) + 2) \o m \o JUMP(Len(r) + 2) \o LABEL \o r \o LABEL

EmitAnd(f, e, sl) ==
  LET r == EmitExpr(f, e.kids[2], sl)
  IN  EmitExpr(f, e.kids[1], sl) \o JUMPZ(Len(r) + 4) \o r \o JUMPZ(3) \o INT(1) \o JUMP(3)
        \o LABEL \o INT(0) \o LABEL

EmitOr(f, e, sl) ==
  LET r == EmitExpr(f, e.kids[2], sl)
  IN  EmitExpr(f, e.kids[1], sl) \o JUMPZ(2) \o JUMP(Len(r) + 3) \o LABEL \o r \o JUMPZ(4) \o LABEL \o INT(1) \o JUMP(3)
        \o LABEL \o INT(0) \o LABEL

EmitWhile(f, e, sl) ==
  LET c == EmitExpr(f, e.kids[1], sl)
      b == EmitExpr(f, e.kids[2], sl)
  IN  LABEL \o c \o JUMPZ(Len(b) + 3) \o b \o SLIDE(1, 0) \o JUMP(-(Len(c) + Len(b) + 3))
        \o LABEL \o INT(0)

EmitDoWhile(f, e, sl) ==
  LET b == EmitExpr(f, e.kids[2], sl)
      c == EmitExpr(f, e.kids[1], sl)
  IN  LABEL \o b \o SLIDE(1, 0) \o c \o JUMPZ(2) \o JUMP(-(Len(c) + Len(b) + 3))
        \o LABEL \o INT(0)

EmitFor(f, e, sl) ==
  LET c == EmitExpr(f, e.kids[2], sl)
      b == EmitExpr(f, e.kids[4], sl)
      n == EmitExpr(f, e.kids[3], sl)
  IN  EmitExpr(f, e.kids[1], sl) \o SLIDE(1, 0) \o LABEL \o c \o JUMPZ(Len(b) + Len(n) + 4)
        \o b \o SLIDE(1, 0) \o n \o SLIDE(1, 0) \o JUMP(-(Len(c) + Len(b) + Len(n) + 4))
        \o LABEL \o INT(0)

NUM_FRAME_PTRS == 5

EmitCall(f, e, sl) ==
  LET n    == Len(e.kids) - 1
      args == EmitArgs(f, Tail(e.kids), sl + NUM_FRAME_PTRS)
      fn   == EmitExpr(f, e.kids[1], sl + NUM_FRAME_PTRS + n)
  IN  MARK(2 + Len(args) + Len(fn)) \o args \o fn \o Instruction("CALL") \o LABEL

\* What a last call slides away: everything above the frame.
DropTooFew(sl, n) == SLIDE(sl + n - 1, n + 1)          \* mutant: one entry stays
DropLocals(sl, n) == SLIDE(sl + n, n + 1)

EmitLastCall(f, e, sl) ==
  LET n == Len(e.kids) - 1
  IN  EmitArgs(f, Tail(e.kids), sl) \o EmitExpr(f, e.kids[1], sl + n) \o DropLocals(sl, n) \o Instruction("CALL")

OpsOfAss == [INT |-> "OP_ASS_INT", FLOAT |-> "OP_ASS_FLOAT", CHAR |-> "OP_ASS_CHAR", STRING |-> "OP_ASS_STRING",
             RECORD |-> "OP_ASS_RECORD", RECORD_NIL |-> "OP_ASS_RECORD_NIL", FUNC |-> "OP_ASS_FUNC",
             ARRAY |-> "OP_ASS_ARRAY"]
AssOf(t) == Instruction(OpsOfAss[t])

\* array_init_emit: the elements from the last to the first, then the
\* dimensions, likewise.
EmitArray(f, e, sl) ==
  EmitArgs(f, e.kids, sl) \o FlattenSeq([i \in DOMAIN e.dims |-> INT(Reverse(e.dims)[i])])
    \o MK_INIT_ARRAY(Len(e.dims))

\* expr_array_deref_emit and expr_string_deref_emit.
EmitDeref(f, e, sl) ==
  EmitExpr(f, e.kids[1], sl) \o EmitArgs(f, Tail(e.kids), sl + 1)
    \o (IF TypesOf(e) = "STRING" THEN STRING_DEREF ELSE ARRAY_DEREF(Len(e.kids) - 1))

\* generator_emit: under what comes after it lie the list, the counter and the
\* element.
EmitGenerator(f, e, i, sl) ==
  LET in == EmitQualifiers([f EXCEPT !.levels = (<<e.uid, i>> :> sl) @@ @], e, i + 1, sl + 3)
  IN  EmitExpr(f, e.kids[i], sl) \o INT(0) \o LABEL
        \o ReadOf("loop", 0, 0) \o ID_DIM_LOCAL(2, 0, 0) \o OP("LT") \o JUMPZ(Len(in) + 7)
        \o ReadOf("loop", 1, 0) \o ReadOf("loop", 1, 0) \o ARRAY_DEREF(1)
        \o in \o SLIDE(1, 0) \o OP_INC_INT(0) \o JUMP(-(Len(in) + 10)) \o LABEL \o SLIDE(2, 0)

\* filter_emit.
EmitFilter(f, e, i, sl) ==
  LET in == EmitQualifiers(f, e, i + 1, sl)
  IN  EmitExpr(f, e.kids[i], sl) \o JUMPZ(Len(in) + 1) \o in \o LABEL

\* expr_yeld_emit: f.levels has where the list that is made lies.
EmitYield(f, e, sl) ==
  EmitExpr(f, Last(e.kids), sl) \o ARRAY_APPEND(sl - f.levels[<<e.uid>>])

\* qualifier_stack_emit, from the i-th qualifier on.
EmitQualifiers(f, e, i, sl) ==
  CASE i = Len(e.kids)       -> EmitYield(f, e, sl)
    [] e.quals[i] = NoName   -> EmitFilter(f, e, i, sl)
    [] OTHER                 -> EmitGenerator(f, e, i, sl)

\* listcomp_emit.
EmitListcomp(f, e, sl) ==
  INT(0) \o MK_INIT_ARRAY(1)
    \o EmitQualifiers([f EXCEPT !.stab = e.stab @@ @, !.levels = (<<e.uid>> :> sl) @@ @], e, 1, sl + 1)

EmitExpr(f, e, stack_level) ==
  CASE e.type \in {"INT", "FLOAT", "CHAR", "STRING"} -> LITERAL(e.type, e.value)
    [] e.type = "NIL" -> Instruction("NIL_RECORD_REF")
    [] e.type = "ID"  -> EmitId(f, e, stack_level)
    [] e.type \in Binaries -> EmitList(f, e.kids, stack_level) \o OP_ON(e.type, TypesOf(e))
    [] e.type \in {"NOT", "NEG", "INT_TO_FLOAT", "FLOAT_TO_INT"} ->
         EmitExpr(f, e.kids[1], stack_level) \o OnTypes(e)
    [] e.type = "BUILD_IN" -> EmitArgs(f, e.kids, stack_level) \o BUILD_IN(e.lib)
    [] e.type = "SUP"    -> EmitExpr(f, e.kids[1], stack_level)
    [] e.type = "ASS"    -> EmitList(f, e.kids, stack_level) \o AssOf(e.comb)
    [] e.type = "SEQ"    -> EmitSeq(f, e.kids, stack_level)
    [] e.type = "COND"   -> EmitCond(f, e, stack_level)
    [] e.type = "AND"    -> EmitAnd(f, e, stack_level)
    [] e.type = "OR"     -> EmitOr(f, e, stack_level)
    [] e.type = "WHILE"  -> EmitWhile(f, e, stack_level)
    [] e.type = "DO_WHILE" -> EmitDoWhile(f, e, stack_level)
    [] e.type = "FOR"    -> EmitFor(f, e, stack_level)
    [] e.type = "CALL"   -> EmitCall(f, e, stack_level)
    [] e.type = "LAST_CALL" -> EmitLastCall(f, e, stack_level)
    [] e.type = "FUNC"   -> EmitFunc(f, e.func_value, stack_level)
    [] e.type \in ArrayOps -> EmitList(f, e.kids, stack_level) \o OnTypes(e)
    [] e.type = "ARRAY"  -> EmitArray(f, e, stack_level)
    [] e.type = "MK_ARRAY" -> EmitArgs(f, e.kids, stack_level)
                                \o <<[type |-> "MK_ARRAY", dims |-> Len(e.kids), comb |-> e.comb]>>
    [] e.type = "ARRAY_DEREF" -> EmitDeref(f, e, stack_level)
    [] e.type = "LISTCOMP" -> EmitListcomp(f, e, stack_level)
    [] e.type = "RECORD" -> EmitArgs(f, e.kids, stack_level)
                              \o <<[type |-> "RECORD", count |-> Len(e.kids)]>>
    [] e.type = "ATTR"   -> EmitExpr(f, e.kids[1], stack_level)
                              \o <<[type |-> "ATTR", index |-> e.index]>>

-----------------------------------------------------------------------------
\* Code with the exception table's entries for it, when it starts at `at`.
Segment(code, blocks) == [code |-> code, blocks |-> blocks]
Then(s, t) == Segment(s.code \o t.code, s.blocks \o t.blocks)
Block(b, h) == [block |-> b, handler |-> h]

ClearStack(f) == <<[type |-> "CLEAR_STACK", count |-> Len(f.params)]>>

\* except_emit: the clause is a block, and its end the handler of what it
\* does not catch or what goes wrong in it.
Unguarded(f, c, at) ==                                 \* mutant: the clause is no block
  LET x == EmitExpr(f, c.expr, 0)
  IN  Segment(ClearStack(f) \o INT(c.no) \o Instruction("PUSH_EXCEPT") \o OP("EQ")
                \o JUMPZ(Len(x) + 2) \o x \o Instruction("RET") \o LABEL, << >>)
EmitExcept(f, c, at) ==
  LET x == EmitExpr(f, c.expr, 0)
  IN  Segment(ClearStack(f) \o INT(c.no) \o Instruction("PUSH_EXCEPT") \o OP("EQ")
                \o JUMPZ(Len(x) + 2) \o x \o Instruction("RET") \o LABEL,
              <<Block(at, at + Len(x) + 6)>>)

\* except_all_emit.
EmitExceptAll(f, e, at) ==
  LET x == EmitExpr(f, e, 0)
  IN  Segment(ClearStack(f) \o x \o Instruction("RET") \o LABEL, <<Block(at, at + Len(x) + 2)>>)

\* func_except_emit: the clauses in their order, then the one for any exception.
RECURSIVE EmitExcepts(_, _, _, _)
EmitExcepts(f, cs, all, at) ==
  IF cs # << >>
  THEN LET s == EmitExcept(f, Head(cs), at)
       IN  Then(s, EmitExcepts(f, Tail(cs), all, at + Len(s.code)))
  ELSE IF all # << >> THEN EmitExceptAll(f, all[1], at) ELSE Segment(<< >>, << >>)

\* func_body_emit_native: the bindings and the nested functions, the result,
\* the catch clauses.
EmitLocals(f) ==
  Instruction("FUNC_DEF") \o EmitList(f, ExprsOf(f.binds), 0)
    \o (IF f.funcs = << >> THEN << >> ELSE EmitFuncList(f, f.funcs, Len(f.binds)))
EmitRet(f) == EmitExpr(f, f.ret, Len(f.binds) + Len(f.funcs)) \o Instruction("RET") \o LABEL
WithExcepts(f, body, at) ==
  Then(Segment(body, <<Block(at, at + Len(body) - 1)>>),
       Then(EmitExcepts(f, f.excepts, f.all, at + Len(body)), Segment(Instruction("RETHROW"), << >>)))

\* func_body_emit_ffi: after the call the types of the parameters and of the
\* result, which are instructions too.
EmitForeign(f) ==
  <<[type |-> "FUNC_FFI", count |-> Len(f.params), name |-> f.ret.name, lib |-> f.ret.lib]>>
    \o [i \in DOMAIN f.ret.types |-> [type |-> "FUNC_FFI_TYPE", of |-> f.ret.types[i]]]
    \o Instruction("RET") \o LABEL

\* func_body_emit.
EmitBody(f, at) ==
  WithExcepts(f, IF f.ret.type = "FOREIGN" THEN EmitForeign(f) ELSE EmitLocals(f) \o EmitRet(f), at)

\* func_main_emit: the call of main, its end and the end of what nothing caught.
EmitMain(uid, at) ==
  Segment(MARK(5) \o Instruction("PUSH_PARAM") \o GLOBAL_VEC(0) \o ID_FUNC_FUNC(uid)
            \o Instruction("CALL") \o LABEL \o Instruction("HALT")
            \o LABEL \o Instruction("UNHANDLED_EXCEPTION"),
          <<Block(at, at + 7)>>)

\* The functions emitted in a piece of code, in the order of list_weak.
Emitted(code) ==
  LET made == SelectSeq(code, LAMBDA i : i.type = "FUNC_OBJ")
  IN  [i \in DOMAIN made |-> made[i].func]

\* The bodies, as list_weak gives them, behind the code so far.
Placed(f, at) == [uid |-> f.uid, start |-> at, params |-> Len(f.params), captures |-> Len(f.freevars)]
RECURSIVE EmitBodies(_, _, _), AfterBody(_, _, _, _)
AfterBody(s, b, weak, starts) == EmitBodies(Then(s, b), weak \o Emitted(b.code), starts)
EmitBodies(s, weak, starts) ==
  IF weak = << >> THEN [s |-> s, starts |-> starts]
  ELSE AfterBody(s, EmitBody(Head(weak), Len(s.code)), Tail(weak),
                 Append(starts, Placed(Head(weak), Len(s.code))))

\* The strings of the code, each once, as strtab_add_string numbers them from 1.
StringsOf(i) ==
  CASE i.type = "STRING" -> <<i.value>> [] i.type = "FUNC_FFI" -> <<i.name, i.lib>> [] OTHER -> << >>
StringsIn(code) ==
  FoldLeft(LAMBDA ss, s : IF Contains(ss, s) THEN ss ELSE Append(ss, s),
           << >>, FlattenSeq([i \in DOMAIN code |-> StringsOf(code[i])]))
IndexOfString(s, ss) == CHOOSE n \in DOMAIN ss : ss[n] = s

\* bytecode_func_addr and bytecode_to_array.
Linked(i, a, starts, strings) ==
  CASE i.type = "MARK" -> [type |-> "MARK", addr |-> a + i.offset]
    [] i.type = "ID_FUNC_FUNC" ->
         [type |-> "ID_FUNC_ADDR",
          func_addr |-> (CHOOSE s \in {starts[k] : k \in DOMAIN starts} : s.uid = i.uid).start]
    [] i.type = "STRING" -> [type |-> "STRING", index |-> IndexOfString(i.value, strings)]
    [] i.type = "FUNC_FFI" -> [type |-> "FUNC_FFI", count |-> i.count,
                               fname_index   |-> IndexOfString(i.name, strings),
                               libname_index |-> IndexOfString(i.lib, strings)]
    [] i.type = "FUNC_OBJ" -> [type |-> "FUNC_OBJ"]
    [] OTHER -> i

\* module_close; funcs says where the body of each function starts.
Closed(out, params) ==
  [code   |-> [a \in 0 .. Len(out.s.code) - 1 |->
                 Linked(out.s.code[a + 1], a, out.starts, StringsIn(out.s.code))],
   strings |-> StringsIn(out.s.code),
   exctab |-> out.s.blocks,
   funcs  |-> out.starts,
   params |-> params]

\* never_emit, for a program whose main is its last function.
EmitWithMain(list, main, params) ==
  Closed(EmitBodies(Then(Segment(list, << >>), EmitMain(main.uid, Len(list))), Emitted(list), << >>),
         params)
EmitProgram(fs, params) == EmitWithMain(EmitFuncList(fs[1], fs, 0), fs[Len(fs)], params)

\* nev_compile_prog after the parser: names, constants, tail calls, code.
ReduceAll(fs) == [i \in DOMAIN fs |-> ReduceFunc(fs[i])]
MarkAll(fs)   == [i \in DOMAIN fs |-> MarkFunc(fs[i])]
Accepts(fs)   == \A i \in DOMAIN fs : ~FuncFails(fs[i])
Compile(fs, params) == EmitProgram(MarkAll(ReduceAll(ResolveProgram(fs))), params)
=============================================================================
