--------------------------------- MODULE Vm ---------------------------------
(***************************************************************************)
(* The virtual machine of back/vm.c: a stack machine whose values all live *)
(* in collected memory.  A stack entry is the address of an object, a      *)
(* stack index or an instruction address.  A call lays five entries under  *)
(* its arguments,                                                          *)
(*                                                                         *)
(*    fp-4: pp   fp-3: line   fp-2: gp   fp-1: fp   fp: return address,    *)
(*                                                                         *)
(* when MARK runs, before the arguments are evaluated; CALL makes them the *)
(* frame of an activation by setting pp, the frame of the running one.  A  *)
(* failing instruction goes on at the handler of its block.                *)
(*                                                                         *)
(* One step is one turn of the loop of vm_execute.  Any program can be     *)
(* run: one is a record of what the emitter made and main's arguments.     *)
(***************************************************************************)
EXTENDS Integers, Sequences, FiniteSets, Arrays, Values

CONSTANTS
  Programs,      \* names of programs
  Load(_),       \* the code, strings, exception table and arguments of main of one
  MemSize,       \* cells of memory; cell 0 is nil
  StackSize,     \* entries of the stack
  GcNum, GcDen   \* a collection starts when GcNum/GcDen of the cells are used

ASSUME SizesAssumption == MemSize \in Nat \ {0} /\ StackSize \in Nat

VARIABLES
  prog,          \* the program that runs
  obj,           \* the objects, by address
  stack, sp,     \* the stack, and the index of its top
  fp,            \* the youngest frame, its arguments complete or not
  pp,            \* the frame of the running activation
  gp,            \* the vector of the running closure's captured cells
  ip,            \* the instruction to run next
  running,       \* VM_RUNNING, VM_HALT, VM_ERROR, or "EXIT" after exit(1)
  exception      \* the last one raised

heapVars == <<obj>>
regs     == <<fp, pp, gp>>
mode     == <<prog, running, exception>>
vmVars   == <<obj, stack, sp, regs, ip, mode>>

-----------------------------------------------------------------------------
Nil  == 0
Addr == 1 .. MemSize - 1

NoObj         == [type |-> "NULL"]
Number(t, v)  == [type |-> t, value |-> v]            \* an int, a float or a char
IntObj(n)     == Number("INT", n)
FloatObj(q)   == Number("FLOAT", q)
CharObj(c)    == Number("CHAR", c)
StrRefObj(s)  == [type |-> "STR_REF", str |-> s]
StrObj(t)     == [type |-> "STR", value |-> t]
FuncObj(v, a) == [type |-> "FUNC", vec |-> v, addr |-> a]
VecRefObj(v)  == [type |-> "VEC_REF", vec |-> v]
VecObj(s)     == [type |-> "VEC", elems |-> s]
ArrRefObj(a)  == [type |-> "ARR_REF", arr |-> a]
ArrObj(dv, s) == [type |-> "ARR", dv |-> dv, elems |-> s]

AddrEntry(p)  == [type |-> "ADDR",  val |-> p]
StackEntry(n) == [type |-> "STACK", val |-> n]
IpEntry(a)    == [type |-> "IP",    val |-> a]

Code   == prog.code
ExcTab == prog.exctab
Params == prog.params
bc     == Code[ip]

\* exception_tab_search: the handler of the last block that starts at or
\* before the address.
HandlerIn(exctab, x) ==
  exctab[CHOOSE i \in DOMAIN exctab :
           /\ exctab[i].block <= x
           /\ \A j \in DOMAIN exctab : exctab[j].block <= x => j <= i].handler
HandlerOf(x) == HandlerIn(ExcTab, x)

-----------------------------------------------------------------------------
\* Memory.

Free      == {a \in Addr : obj[a].type = "NULL"}
Allocated == {a \in Addr : obj[a].type # "NULL"}

\* The i-th cell an instruction allocates.
New(i) == CHOOSE a \in Free : Cardinality({b \in Free : b < a}) = i - 1

PtrsOf(o) ==
  CASE o.type \in {"FUNC", "VEC_REF"} -> {o.vec}
    [] o.type = "ARR_REF"           -> {o.arr}
    [] o.type = "STR_REF"           -> {o.str}
    [] o.type \in {"VEC", "ARR"}    -> {o.elems[i] : i \in DOMAIN o.elems}
    [] OTHER          -> {}

\* The cells the pointers of R lead to, found level by level.  Binding S to one
\* value keeps TLC from computing a level more than once.
Reach(h, R) ==
  LET level[n \in 0 .. MemSize] ==
        IF n = 0 THEN R \ {Nil}
        ELSE UNION {S \cup ((UNION {PtrsOf(h[a]) : a \in S}) \ {Nil}) : S \in {level[n - 1]}}
  IN  level[MemSize]

StackRoots(st, top, g) ==                            \* mutant: the captured cells forgotten
  {st[i].val : i \in {j \in 0 .. top : st[j].type = "ADDR"}} \ {Nil}
Roots(st, top, g) == ({st[i].val : i \in {j \in 0 .. top : st[j].type = "ADDR"}} \cup {g}) \ {Nil}

\* gc_run; the module Gc shows that it frees exactly what cannot be reached.
GcRun(st, top, g) ==
  IF Cardinality(Allocated) * GcDen < MemSize * GcNum
  THEN UNCHANGED obj
  ELSE \E live \in {Reach(obj, Roots(st, top, g))} :
         obj' = [a \in Addr |-> IF a \in live THEN obj[a] ELSE NoObj]

-----------------------------------------------------------------------------
\* What lies on the stack, k entries below the top.
Top(k)    == stack[sp - k].val
IntAt(p)  == obj[p].value                             \* or the float or the char

\* What a reference or a function refers to, and what a string holds.
RefAt(k) ==
  LET o == obj[Top(k)]
  IN  CASE o.type = "VEC_REF" -> o.vec [] o.type = "STR_REF" -> o.str
        [] o.type = "ARR_REF" -> o.arr [] o.type = "FUNC"    -> o.addr
StringAt(k) == obj[RefAt(k)].value

\* The array an ARR_REF refers to, nil or not, and k entries below the top.
ArrAt(k)  == obj[obj[Top(k)].arr]
IsNil(k)  == obj[Top(k)].arr = Nil

\* The exceptions raised by the instructions below, as front/except.h numbers
\* them.
EXCEPT_NO_UNKNOWN   == 0
EXCEPT_NO_DIVISION  == 1
EXCEPT_NO_ARR_SIZE  == 2
EXCEPT_NO_INDEX_OOB == 3
EXCEPT_NO_INVALID   == 4
EXCEPT_NIL_POINTER  == 8
EXCEPT_FFI_FAIL     == 9

\* How the instruction at ip fails: with an exception, when it has taken so many
\* operands from the stack.
NoFailure == [exc |-> EXCEPT_NO_UNKNOWN, taken |-> 0]
Failing(exc, n) == [exc |-> exc, taken |-> n]
FailsIf(c, exc) == IF c THEN Failing(exc, 0) ELSE NoFailure

\* Of the n topmost ints, looked at from the top, the first that Bad holds of.
FirstBad(n, Bad(_)) ==
  CHOOSE i \in 1 .. n : Bad(IntAt(Top(i - 1))) /\ \A j \in 1 .. i - 1 : ~Bad(IntAt(Top(j - 1)))
SomeBad(n, Bad(_)) == \E i \in 1 .. n : Bad(IntAt(Top(i - 1)))

\* vm_execute_mk_array_num.
NewArrayFailure(n) ==
  LET bad(i) == i <= 0
  IN  IF SomeBad(n, bad) THEN Failing(EXCEPT_NO_INDEX_OOB, FirstBad(n, bad)) ELSE NoFailure

\* vm_execute_array_deref: an index below 0 is found before the array is looked
\* at.
IndexOf(n) == [i \in 1 .. n |-> IntAt(Top(i - 1))]
DerefFailure(n) ==
  LET bad(i) == i < 0
  IN  CASE SomeBad(n, bad) -> Failing(EXCEPT_NO_INDEX_OOB, FirstBad(n, bad))
        [] ~SomeBad(n, bad) /\ IsNil(n) -> Failing(EXCEPT_NIL_POINTER, n + 1)
        [] ~SomeBad(n, bad) /\ ~IsNil(n) ->
             IF InBounds(ArrAt(n).dv, IndexOf(n)) THEN NoFailure ELSE Failing(EXCEPT_NO_INDEX_OOB, n + 1)

\* vm_execute_op_add_arr_int, ..._sub_arr_int, ..._mul_arr_arr_int: both arrays
\* have to be there before their sizes are compared.
SizesFailure(op) ==
  IF IsNil(0) \/ IsNil(1) THEN Failing(EXCEPT_NIL_POINTER, 0)
  ELSE FailsIf(~ IF op = "MUL_ARR_ARR" THEN CanMult(ArrAt(1).dv, ArrAt(0).dv) ELSE CanAdd(ArrAt(1).dv, ArrAt(0).dv),
               EXCEPT_NO_ARR_SIZE)

\* vm_execute_op_add_string, ..._add_int_string, ...: what is joined, as `on` says.
Joined == [STRING |-> <<"STRING", "STRING">>, INT_STRING |-> <<"INT", "STRING">>, STRING_INT |-> <<"STRING", "INT">>,
           FLOAT_STRING |-> <<"FLOAT", "STRING">>, STRING_FLOAT |-> <<"STRING", "FLOAT">>]
NilString == bc.on \in DOMAIN Joined /\ \E i \in 1 .. 2 : Joined[bc.on][i] = "STRING" /\ RefAt(2 - i) = Nil

\* vm_execute_string_deref: an index below 0 is not found.
CharFailure ==
  IF RefAt(1) = Nil THEN Failing(EXCEPT_NIL_POINTER, 0)
  ELSE FailsIf(IntAt(Top(0)) >= Len(StringAt(1)), EXCEPT_NO_INDEX_OOB)

\* What the FUNC_FFI at ip calls, and the type of its i-th parameter; after the
\* last comes the type of the result.
ForeignName    == prog.strings[bc.fname_index]
ForeignType(i) == Code[ip + i].of

DividesByZero == bc.op \in {"DIV", "MOD"} /\ IntAt(Top(0)) = 0

\* Where an instruction looks `stack_level - index` entries below the top.
Place == sp - (bc.stack_level - bc.index)

Failure ==
  CASE bc.type = "OP"           -> IF NilString THEN Failing(EXCEPT_NIL_POINTER, 0)
                                   ELSE FailsIf(DividesByZero, EXCEPT_NO_DIVISION)
    [] bc.type = "OP_ASS_STRING" -> FailsIf(RefAt(0) = Nil, EXCEPT_NIL_POINTER)
    [] bc.type = "STRING_DEREF" -> CharFailure
    [] bc.type = "BUILD_IN"     -> FailsIf(bc.lib \in {"PRINTS", "LENGTH"} /\ RefAt(0) = Nil, EXCEPT_NIL_POINTER)
    [] bc.type = "FUNC_FFI"     -> FailsIf(~IsThere(prog.strings[bc.libname_index], ForeignName), EXCEPT_FFI_FAIL)
    [] bc.type = "ATTR"         -> FailsIf(obj[Top(0)].vec = Nil, EXCEPT_NIL_POINTER)
    [] bc.type \in {"OP_ASS_FUNC", "CALL"} -> FailsIf(obj[Top(0)].addr = Nil, EXCEPT_NIL_POINTER)
    [] bc.type \in {"OP_ASS_ARRAY", "NEG_ARR", "MUL_ARR"} -> FailsIf(IsNil(0), EXCEPT_NIL_POINTER)
    [] bc.type = "ARRAY_APPEND" -> FailsIf(obj[stack[Place].val].arr = Nil, EXCEPT_NIL_POINTER)
    [] bc.type = "MK_ARRAY"     -> NewArrayFailure(bc.dims)
    [] bc.type = "ARRAY_DEREF"  -> DerefFailure(bc.dims)
    [] bc.type \in {"ADD_ARR", "SUB_ARR", "MUL_ARR_ARR"} -> SizesFailure(bc.type)
    [] OTHER                    -> NoFailure
Fails == Failure # NoFailure

-----------------------------------------------------------------------------
\* libvm_execute_build_in, of x on the top and, with two arguments, y below; the
\* string made of a number is a cell of its own, the one that is printed is not.
Argument(k) == IntAt(Top(k))
ArgumentsOf(i) == IF i.lib \in {"POW", "ASSERTF"} THEN 2 ELSE 1
Arguments   == ArgumentsOf(bc)
Built ==
  CASE bc.lib = "STR"  -> <<StrObj(TextOfInt(Argument(0))), StrRefObj(New(1))>>
    [] bc.lib = "STRF" -> <<StrObj(TextOfFloat(Argument(0))), StrRefObj(New(1))>>
    [] bc.lib = "ORD"  -> <<IntObj(Argument(0))>>
    [] bc.lib = "CHR"  -> <<CharObj(CharOf(Argument(0)))>>
    [] bc.lib \in {"PRINT", "PRINTF", "PRINTC"} -> <<obj[Top(0)]>>
    [] bc.lib = "PRINTS" -> <<StrRefObj(RefAt(0))>>
    [] bc.lib = "LENGTH" -> <<IntObj(Len(StringAt(0)))>>
    [] bc.lib \in {"ASSERT", "ASSERTF"} -> <<IntObj(1)>>
    [] bc.lib = "SQRT" -> <<FloatObj(Root(Argument(0)))>>
    [] bc.lib = "POW"  -> <<FloatObj(Power(Argument(0), Argument(1)))>>

\* An assert that does not hold, and what the C library reports of a function of
\* floats after its result has been stored.
Asserts ==
  CASE bc.lib = "ASSERT"  -> Argument(0) # 0
    [] bc.lib = "ASSERTF" -> -Argument(1) <= Argument(0) /\ Argument(0) <= Argument(1)
    [] OTHER              -> TRUE
MathError ==
  CASE bc.lib = "SQRT" /\ ~HasRoot(Argument(0))               -> EXCEPT_NO_INVALID
    [] bc.lib = "POW"  /\ ~HasPower(Argument(0), Argument(1)) -> EXCEPT_NO_DIVISION
    [] OTHER                                                  -> EXCEPT_NO_UNKNOWN
CellsOfBuildIn ==
  CASE ~Asserts                       -> 0
    [] bc.lib \in {"STR", "STRF"}     -> 2
    [] OTHER                          -> 1

-----------------------------------------------------------------------------
\* What an instruction needs: entries above sp, and free cells.

Literals  == {"INT", "FLOAT", "CHAR"}
OneResult == Literals \cup {"NOT", "NEG", "INT_TO_FLOAT", "FLOAT_TO_INT", "ID_FUNC_ADDR", "GLOBAL_VEC", "PUSH_EXCEPT",
                            "NIL_RECORD_REF", "ID_DIM_LOCAL", "STRING_DEREF"}
Joins(i)  == i.op = "ADD" /\ i.on \in DOMAIN Joined

Pushes(i) ==
  CASE i.type \in Literals \cup {"STRING", "ID_LOCAL", "ID_DIM_LOCAL", "ID_GLOBAL", "COPYGLOB", "PUSH_EXCEPT",
                                 "NIL_RECORD_REF", "FUNC_FFI"} -> 1
    [] i.type \in {"GLOBAL_VEC", "RECORD"} -> 1 - i.count
    [] i.type = "MARK"       -> 5
    [] i.type = "ALLOC"      -> i.n
    [] i.type = "PUSH_PARAM" -> Len(Params)
    [] OTHER                  -> 0

\* An array is two cells, a reference and the array itself, beside those of its
\* elements.
Cells(i) ==
  CASE i.type \in OneResult  -> 1
    [] i.type = "OP"         -> IF Joins(i) THEN 2 ELSE 1
    [] i.type = "BUILD_IN"   -> CellsOfBuildIn
    [] i.type = "FUNC_FFI"   -> IF ForeignType(i.count + 1) = "STRING" THEN 2 ELSE 1
    [] i.type \in {"STRING", "RECORD", "MK_INIT_ARRAY"}       -> 2
    [] i.type = "MK_ARRAY"                                    -> Size(IndexOf(i.dims)) + 2
    [] i.type \in {"NEG_ARR", "ADD_ARR", "SUB_ARR", "MUL_ARR"} -> Len(ArrAt(0).elems) + 2
    [] i.type = "MUL_ARR_ARR"                                 -> Size(ProductDims(ArrAt(1).dv, ArrAt(0).dv)) + 2
    [] i.type = "ALLOC"      -> i.n
    [] i.type = "PUSH_PARAM" -> Len(Params)
    [] OTHER                  -> 0

StackFits  == sp + Pushes(bc) < StackSize
MemoryFits == Cells(bc) <= Cardinality(Free)

Runs     == running = "RUNNING" /\ ~Fails /\ StackFits /\ MemoryFits
Instr(t) == running = "RUNNING" /\ bc.type = t /\ Runs

-----------------------------------------------------------------------------
\* Parts of instructions.

Advance   == ip' = ip + 1

\* Push the address p.
Push(p) ==
  /\ sp' = sp + 1
  /\ stack' = [stack EXCEPT ![sp + 1] = AddrEntry(p)]

\* Replace the n top entries by the address p.
Replace(n, p) ==
  /\ sp' = sp - n + 1
  /\ stack' = [stack EXCEPT ![sp - n + 1] = AddrEntry(p)]

Allocate(o) == obj' = [obj EXCEPT ![New(1)] = o]

\* The objects os, in this order, in the next free cells.
AllocateAll(os) ==
  \E cells \in {[i \in DOMAIN os |-> New(i)]} :
    obj' = [a \in Addr |-> IF \E i \in DOMAIN os : cells[i] = a
                           THEN os[CHOOSE i \in DOMAIN os : cells[i] = a] ELSE obj[a]]

-----------------------------------------------------------------------------
Init ==
  /\ \E p \in Programs : prog = Load(p)
  /\ obj = [a \in Addr |-> NoObj]
  /\ stack = [i \in 0 .. StackSize - 1 |-> AddrEntry(Nil)]
  /\ sp = -1 /\ fp = -1 /\ pp = -1 /\ gp = Nil
  /\ ip = 0
  /\ running = "RUNNING"
  /\ exception = EXCEPT_NO_UNKNOWN

\* vm_execute_int, vm_execute_float and vm_execute_char.
ExecLiteral ==
  /\ \E t \in Literals : Instr(t)
  /\ Allocate(Number(bc.type, bc.value))
  /\ Push(New(1))
  /\ Advance /\ UNCHANGED <<regs, mode>>

\* vm_execute_string: a copy of the string, and a reference to it.
ExecString ==
  /\ Instr("STRING")
  /\ AllocateAll(<<StrObj(prog.strings[bc.index]), StrRefObj(New(1))>>)
  /\ Push(New(2))
  /\ Advance /\ UNCHANGED <<regs, mode>>

\* vm_execute_id_local: the same cell, not a copy.
ExecIdLocal ==
  /\ Instr("ID_LOCAL")
  /\ Push(stack[Place].val)
  /\ Advance /\ UNCHANGED <<obj, regs, mode>>

\* vm_execute_id_dim_local: how many elements the array there has in a
\* dimension; it must have one.
ExecIdDimLocal ==
  /\ Instr("ID_DIM_LOCAL")
  /\ Allocate(IntObj(obj[obj[stack[Place].val].arr].dv[bc.dim_index + 1].elems))
  /\ Push(New(1))
  /\ Advance /\ UNCHANGED <<regs, mode>>

\* vm_execute_id_global.
ExecIdGlobal ==
  /\ Instr("ID_GLOBAL")
  /\ Push(obj[gp].elems[bc.index + 1])
  /\ Advance /\ UNCHANGED <<obj, regs, mode>>

\* vm_execute_copyglob.
ExecCopyGlob ==
  /\ Instr("COPYGLOB")
  /\ Push(gp)
  /\ Advance /\ UNCHANGED <<obj, regs, mode>>

\* vm_execute_global_vec: the count top entries become one vector.
ExecGlobalVec ==
  /\ Instr("GLOBAL_VEC")
  /\ Allocate(VecObj([i \in 1 .. bc.count |-> stack[sp - bc.count + i].val]))
  /\ Replace(bc.count, New(1))
  /\ Advance /\ UNCHANGED <<regs, mode>>

\* vm_execute_id_func_addr: the vector on the top becomes a closure over it.
ExecIdFunc ==
  /\ Instr("ID_FUNC_ADDR")
  /\ Allocate(FuncObj(Top(0), bc.func_addr))
  /\ Replace(1, New(1))
  /\ Advance /\ UNCHANGED <<regs, mode>>

-----------------------------------------------------------------------------
\* C's division rounds toward zero.
Quotient(a, b) ==
  LET q == Unsigned(a) \div Unsigned(b) IN IF (a < 0) = (b < 0) THEN q ELSE -q
Truth(c) == IF c THEN 1 ELSE 0
Comparisons == {"LT", "GT", "LTE", "GTE", "EQ", "NEQ"}

\* What op gives for two ints, floats or chars, as `on` says.
Times(on, a, b) == IF on = "FLOAT" THEN TimesFloat(a, b) ELSE a * b
Apply(op, on, a, b) ==
  CASE op = "ADD" -> a + b
    [] op = "SUB" -> a - b
    [] op = "MUL" -> Times(on, a, b)
    [] op = "DIV" -> IF on = "FLOAT" THEN OverFloat(a, b) ELSE Quotient(a, b)
    [] op = "MOD" -> a - b * Quotient(a, b)
    [] op = "LT"  -> Truth(a < b)
    [] op = "GT"  -> Truth(a > b)
    [] op = "LTE" -> Truth(a <= b)
    [] op = "GTE" -> Truth(a >= b)
    [] op = "EQ"  -> Truth(a = b)
    [] op = "NEQ" -> Truth(a # b)

\* vm_execute_op_add_int ... vm_execute_op_neq_int, those on floats and, of chars,
\* the comparisons.
ExecOp ==
  /\ Instr("OP") /\ bc.on \in Literals
  /\ Allocate(Number(IF bc.op \in Comparisons THEN "INT" ELSE bc.on,
                     Apply(bc.op, bc.on, IntAt(Top(1)), IntAt(Top(0)))))
  /\ Replace(2, New(1))
  /\ Advance /\ UNCHANGED <<regs, mode>>

\* vm_execute_op_add_string and those that write a number before or behind one.
TextAt(k, type) ==
  CASE type = "STRING" -> StringAt(k)
    [] type = "INT"    -> TextOfInt(IntAt(Top(k)))
    [] type = "FLOAT"  -> TextOfFloat(IntAt(Top(k)))
ExecJoin ==
  /\ Instr("OP") /\ Joins(bc)
  /\ AllocateAll(<<StrObj(TextAt(1, Joined[bc.on][1]) \o TextAt(0, Joined[bc.on][2])), StrRefObj(New(1))>>)
  /\ Replace(2, New(2))
  /\ Advance /\ UNCHANGED <<regs, mode>>

\* vm_execute_op_eq_string and ..._neq_string.
ExecEqString ==
  /\ Instr("OP") /\ bc.on = "STRING" /\ bc.op \in {"EQ", "NEQ"}
  /\ Allocate(IntObj(Truth((bc.op = "EQ") = (StringAt(1) = StringAt(0)))))
  /\ Replace(2, New(1))
  /\ Advance /\ UNCHANGED <<regs, mode>>

\* vm_execute_op_eq_nil ... vm_execute_op_neq_nil_func: two nils, or something that
\* may refer to nothing, on the left or on the right of one.
NilOnRight == {"STRING_NIL", "ARRAY_NIL", "RECORD_NIL", "FUNC_NIL"}
NilOnLeft  == {"NIL_STRING", "NIL_ARRAY", "NIL_RECORD", "NIL_FUNC"}
IsNothing ==
  CASE bc.on = "NIL"           -> RefAt(1) = RefAt(0)
    [] bc.on \in NilOnRight    -> RefAt(1) = Nil
    [] bc.on \in NilOnLeft     -> RefAt(0) = Nil
ExecEqNil ==
  /\ Instr("OP") /\ bc.on \in {"NIL"} \cup NilOnRight \cup NilOnLeft
  /\ Allocate(IntObj(Truth((bc.op = "EQ") = IsNothing)))
  /\ Replace(2, New(1))
  /\ Advance /\ UNCHANGED <<regs, mode>>

\* An instruction that fails: on at the handler, with what it has not taken
\* left on the stack.
ExecFailing ==
  /\ running = "RUNNING" /\ Fails
  /\ exception' = Failure.exc
  /\ sp' = sp - Failure.taken
  /\ ip' = HandlerOf(ip)
  /\ UNCHANGED <<prog, obj, stack, regs, running>>

\* vm_execute_op_not_int.
ExecNot ==
  /\ Instr("NOT")
  /\ Allocate(IntObj(Truth(IntAt(Top(0)) = 0)))
  /\ Replace(1, New(1))
  /\ Advance /\ UNCHANGED <<regs, mode>>

\* vm_execute_op_neg_int and ..._neg_float.
ExecNeg ==
  /\ Instr("NEG")
  /\ Allocate(Number(bc.on, -IntAt(Top(0))))
  /\ Replace(1, New(1))
  /\ Advance /\ UNCHANGED <<regs, mode>>

\* vm_execute_int_to_float and vm_execute_float_to_int.
ExecConvert ==
  /\ \E t \in {"INT_TO_FLOAT", "FLOAT_TO_INT"} : Instr(t)
  /\ Allocate(IF bc.type = "INT_TO_FLOAT" THEN FloatObj(Quarters(IntAt(Top(0)))) ELSE IntObj(Whole(IntAt(Top(0)))))
  /\ Replace(1, New(1))
  /\ Advance /\ UNCHANGED <<regs, mode>>

\* vm_execute_op_ass_int ... vm_execute_op_ass_func, unless a string, an array or
\* a function that is assigned is nil: the left cell is written in place and
\* stays on top.
Assignments == {"OP_ASS_INT", "OP_ASS_FLOAT", "OP_ASS_CHAR", "OP_ASS_STRING", "OP_ASS_ARRAY", "OP_ASS_RECORD",
                "OP_ASS_RECORD_NIL", "OP_ASS_FUNC"}
ExecAssign ==
  /\ \E t \in Assignments : Instr(t)
  /\ obj' = [obj EXCEPT ![Top(1)] = obj[Top(0)]]
  /\ sp' = sp - 1
  /\ Advance /\ UNCHANGED <<stack, regs, mode>>

\* vm_execute_record: the first field is on top.
ExecRecord ==
  /\ Instr("RECORD")
  /\ obj' = [obj EXCEPT
               ![New(1)] = VecObj([i \in 1 .. bc.count |-> stack[sp - i + 1].val]),
               ![New(2)] = VecRefObj(New(1))]
  /\ Replace(bc.count, New(2))
  /\ Advance /\ UNCHANGED <<regs, mode>>

\* vm_execute_nil_record_ref.
ExecNilRecordRef ==
  /\ Instr("NIL_RECORD_REF")
  /\ Allocate(VecRefObj(Nil))
  /\ Push(New(1))
  /\ Advance /\ UNCHANGED <<regs, mode>>

\* vm_execute_attr: the field's own cell.
ExecAttr ==
  /\ Instr("ATTR")
  /\ Replace(1, obj[obj[Top(0)].vec].elems[bc.index + 1])
  /\ Advance /\ UNCHANGED <<obj, regs, mode>>

-----------------------------------------------------------------------------
\* Arrays.  An instruction that makes one replaces its n operands by a reference
\* to it; the elements are objects of their own, made after the array or, for
\* PutArray, cells that exist.
MakeArray(n, lens, elems) ==
  /\ AllocateAll(<<ArrObj(DimVec(lens), [i \in DOMAIN elems |-> New(i + 1)])>> \o elems \o <<ArrRefObj(New(1))>>)
  /\ Replace(n, New(Len(elems) + 2))
PutArray(n, lens, cells) ==
  /\ AllocateAll(<<ArrObj(DimVec(lens), cells), ArrRefObj(New(1))>>)
  /\ Replace(n, New(2))

\* What an element of a new array is.
Empty(comb) == CASE comb \in Literals -> Number(comb, 0)
                 [] comb = "STRING" -> StrRefObj(Nil)
                 [] comb = "FUNC"   -> FuncObj(Nil, Nil)
                 [] comb = "RECORD" -> VecRefObj(Nil)
                 [] comb = "ARRAY"  -> ArrRefObj(Nil)

\* vm_execute_mk_array_num; the first dimension is on top.
ExecMkArray ==
  /\ Instr("MK_ARRAY")
  /\ LET lens == IndexOf(bc.dims)
     IN  MakeArray(bc.dims, lens, [i \in 1 .. Size(lens) |-> Empty(bc.comb)])
  /\ Advance /\ UNCHANGED <<regs, mode>>

\* vm_execute_mk_init_array: below the dimensions the elements, the first on top.
ExecMkInitArray ==
  /\ Instr("MK_INIT_ARRAY")
  /\ LET lens == IndexOf(bc.dims)
     IN  PutArray(bc.dims + Size(lens), lens, [i \in 1 .. Size(lens) |-> Top(bc.dims + i - 1)])
  /\ Advance /\ UNCHANGED <<regs, mode>>

\* vm_execute_array_deref: the element's own cell.
ExecArrayDeref ==
  /\ Instr("ARRAY_DEREF")
  /\ LET arr == ArrAt(bc.dims)
     IN  Replace(bc.dims + 1, arr.elems[AddrOf(arr.dv, IndexOf(bc.dims)) + 1])
  /\ Advance /\ UNCHANGED <<obj, regs, mode>>

\* vm_execute_string_deref: a new char; in front of the string there is memory of
\* any content.
CharsAt(text, i) == IF i < 0 THEN -128 .. 127 ELSE {text[i + 1]}
ExecStringDeref ==
  /\ Instr("STRING_DEREF")
  /\ \E c \in CharsAt(StringAt(1), IntAt(Top(0))) : Allocate(CharObj(c))
  /\ Replace(2, New(1))
  /\ Advance /\ UNCHANGED <<regs, mode>>

\* vm_execute_array_append: the cell on top becomes the last element.
ExecArrayAppend ==
  /\ Instr("ARRAY_APPEND")
  /\ LET arr == obj[stack[Place].val].arr
     IN  obj' = [obj EXCEPT ![arr] = ArrObj(Longer(@.dv), Append(@.elems, Top(0)))]
  /\ sp' = sp - 1
  /\ Advance /\ UNCHANGED <<stack, regs, mode>>

\* vm_execute_op_inc_int, in place.
ExecIncInt ==
  /\ Instr("OP_INC_INT")
  /\ obj' = [obj EXCEPT ![stack[Place].val] = IntObj(@.value + 1)]
  /\ Advance /\ UNCHANGED <<stack, sp, regs, mode>>

\* The ints or floats of the array k entries below the top, and objects of such.
Ints(k) == [i \in DOMAIN ArrAt(k).elems |-> IntAt(ArrAt(k).elems[i])]
Numbers(ns) == [i \in DOMAIN ns |-> Number(bc.on, ns[i])]

\* vm_execute_op_neg_arr_int, ..._float.
ExecNegArr ==
  /\ Instr("NEG_ARR")
  /\ MakeArray(1, Lens(ArrAt(0).dv), Numbers([i \in DOMAIN Ints(0) |-> -Ints(0)[i]]))
  /\ Advance /\ UNCHANGED <<regs, mode>>

\* vm_execute_op_mul_arr_int, ..._float.
ExecMulArr ==
  /\ Instr("MUL_ARR")
  /\ MakeArray(2, Lens(ArrAt(0).dv), Numbers([i \in DOMAIN Ints(0) |-> Times(bc.on, IntAt(Top(1)), Ints(0)[i])]))
  /\ Advance /\ UNCHANGED <<regs, mode>>

\* vm_execute_op_add_arr_int, ..._float and vm_execute_op_sub_arr_int, ..._float.
ExecSumArr ==
  /\ \E t \in {"ADD_ARR", "SUB_ARR"} : Instr(t)
  /\ MakeArray(2, Lens(ArrAt(0).dv),
               Numbers([i \in DOMAIN Ints(0) |->
                          IF bc.type = "ADD_ARR" THEN Ints(1)[i] + Ints(0)[i] ELSE Ints(1)[i] - Ints(0)[i]]))
  /\ Advance /\ UNCHANGED <<regs, mode>>

\* vm_execute_op_mul_arr_arr_int, ..._float: sums of products.
SumOf(on, n) == IF on = "FLOAT" THEN Exactly(n, 4) ELSE n
ExecMulArrArr ==
  /\ Instr("MUL_ARR_ARR")
  /\ MakeArray(2, ProductDims(ArrAt(1).dv, ArrAt(0).dv),
               LET p == Product(ArrAt(1).dv, Ints(1), ArrAt(0).dv, Ints(0))
               IN  Numbers([i \in DOMAIN p |-> SumOf(bc.on, p[i])]))
  /\ Advance /\ UNCHANGED <<regs, mode>>

-----------------------------------------------------------------------------
\* vm_execute_build_in: the arguments are replaced by what the function gives ...
ExecBuildIn ==
  /\ Instr("BUILD_IN") /\ Asserts /\ MathError = EXCEPT_NO_UNKNOWN
  /\ AllocateAll(Built)
  /\ Replace(Arguments, New(Len(Built)))
  /\ Advance /\ UNCHANGED <<regs, mode>>

\* ... or it ends the program, whatever clauses there are, ...
ExecAssertFails ==
  /\ Instr("BUILD_IN") /\ ~Asserts
  /\ running' = "ERROR"
  /\ Advance /\ UNCHANGED <<prog, obj, stack, sp, regs, exception>>

\* ... or raises, when what has no value is in memory already, and all arguments
\* but one are off the stack.
ExecMathFails ==
  /\ Instr("BUILD_IN") /\ MathError # EXCEPT_NO_UNKNOWN
  /\ Allocate(FloatObj(0))
  /\ exception' = MathError
  /\ sp' = sp - Arguments + 1
  /\ ip' = HandlerOf(ip)
  /\ UNCHANGED <<prog, stack, regs, running>>

\* vm_execute_func_ffi, of a function that is there: its arguments, the first on
\* top, stay where they are, below its result.
ForeignArguments ==
  [i \in 1 .. bc.count |-> IF ForeignType(i) = "STRING" THEN StringAt(i - 1) ELSE IntAt(Top(i - 1))]
ForeignObjects ==
  LET result == ForeignResult(ForeignName, ForeignArguments)
      type   == ForeignType(bc.count + 1)
  IN  IF type = "STRING" THEN <<StrObj(result), StrRefObj(New(1))>> ELSE <<Number(type, result)>>
ExecFuncFfi ==
  /\ Instr("FUNC_FFI")
  /\ AllocateAll(ForeignObjects)
  /\ Push(New(Cells(bc)))
  /\ Advance /\ UNCHANGED <<regs, mode>>

-----------------------------------------------------------------------------
\* vm_execute_jumpz; offsets count from the instruction after the jump's.
ExecJumpz ==
  /\ Instr("JUMPZ")
  /\ ip' = IF IntAt(Top(0)) = 0 THEN ip + 1 + bc.offset ELSE ip + 1
  /\ sp' = sp - 1
  /\ UNCHANGED <<obj, stack, regs, mode>>

\* vm_execute_jump.
ExecJump ==
  /\ Instr("JUMP")
  /\ ip' = ip + 1 + bc.offset
  /\ UNCHANGED <<obj, stack, sp, regs, mode>>

\* vm_execute_label, vm_execute_func_def, vm_execute_func_obj and, come to after
\* the call that has read them, vm_execute_func_ffi_int ... ..._string.
ExecNothing ==
  /\ \E t \in {"LABEL", "FUNC_DEF", "FUNC_OBJ", "FUNC_FFI_TYPE"} : Instr(t)
  /\ Advance /\ UNCHANGED <<obj, stack, sp, regs, mode>>

-----------------------------------------------------------------------------
\* vm_execute_mark: a frame that returns to addr, its arguments to come.
NoPp(a)  == <<StackEntry(fp), IpEntry(0), AddrEntry(gp), StackEntry(fp), IpEntry(a)>>
Frame(a) == <<StackEntry(pp), IpEntry(0), AddrEntry(gp), StackEntry(fp), IpEntry(a)>>

ExecMark ==
  /\ Instr("MARK")
  /\ stack' = [i \in DOMAIN stack |->
                 IF i \in sp + 1 .. sp + 5 THEN Frame(bc.addr)[i - sp] ELSE stack[i]]
  /\ sp' = sp + 5 /\ fp' = sp + 5
  /\ Advance /\ UNCHANGED <<obj, pp, gp, mode>>

\* vm_execute_call, of a closure: one no one has filled in has no address.
ExecCall ==
  /\ Instr("CALL")
  /\ gp' = obj[Top(0)].vec
  /\ ip' = obj[Top(0)].addr
  /\ pp' = fp
  /\ sp' = sp - 1
  /\ UNCHANGED <<obj, stack, fp, mode>>

\* The stack after SLIDE: of the entries on top, m are kept and the q under
\* them go.
Slid(q, m) ==
  [i \in DOMAIN stack |-> IF i \in sp - q - m + 1 .. sp - q THEN stack[i + q] ELSE stack[i]]

\* vm_execute_slide; nothing is collected when nothing goes.
ExecSlide ==
  /\ Instr("SLIDE")
  /\ IF bc.q = 0
     THEN UNCHANGED <<obj, stack, sp>>
     ELSE /\ stack' = Slid(bc.q, bc.m)
          /\ sp' = sp - bc.q
          /\ GcRun(stack', sp', gp)
  /\ Advance /\ UNCHANGED <<regs, mode>>

\* vm_execute_ret but for the address it goes on at: the result replaces the
\* youngest frame.
PpKept == pp                                        \* mutant: pp is not restored
SavedPp == stack[fp - 4].val
GpKept == gp                                        \* mutant: nor gp
SavedGp == stack[fp - 2].val
LeaveFrame ==
  /\ gp' = SavedGp
  /\ pp' = SavedPp
  /\ stack' = [stack EXCEPT ![fp - 4] = stack[sp]]
  /\ sp' = fp - 4
  /\ fp' = stack[fp - 1].val
  /\ GcRun(stack', sp', gp')

ExecRet ==
  /\ Instr("RET")
  /\ LeaveFrame
  /\ ip' = stack[fp].val
  /\ UNCHANGED mode

\* vm_execute_rethrow: out of the youngest frame, and on at the handler of the
\* block it would have returned into.
ExecRethrow ==
  /\ Instr("RETHROW")
  /\ LeaveFrame
  /\ ip' = HandlerOf(stack[fp].val - 1)
  /\ UNCHANGED mode

\* vm_execute_clear_stack, at the start of a catch clause: back to the running
\* activation's frame and arguments.
ExecClearStack ==
  /\ Instr("CLEAR_STACK")
  /\ fp' = pp
  /\ sp' = pp + bc.count
  /\ Advance /\ UNCHANGED <<obj, stack, pp, gp, mode>>

\* vm_execute_push_except.
ExecPushExcept ==
  /\ Instr("PUSH_EXCEPT")
  /\ Allocate(IntObj(exception))
  /\ Push(New(1))
  /\ Advance /\ UNCHANGED <<regs, mode>>

-----------------------------------------------------------------------------
\* vm_execute_alloc: n closures to be filled in.
ExecAlloc ==
  /\ Instr("ALLOC")
  /\ AllocateAll([i \in 1 .. bc.n |-> FuncObj(Nil, Nil)])
  /\ stack' = [i \in DOMAIN stack |->
                 IF i \in sp + 1 .. sp + bc.n THEN AddrEntry(New(i - sp)) ELSE stack[i]]
  /\ sp' = sp + bc.n
  /\ Advance /\ UNCHANGED <<regs, mode>>

\* vm_execute_rewrite: the closure on top is copied into one of them.
ExecRewrite ==
  /\ Instr("REWRITE")
  /\ obj' = [obj EXCEPT ![Top(bc.j)] = FuncObj(obj[Top(0)].vec, obj[Top(0)].addr)]
  /\ sp' = sp - 1
  /\ Advance /\ UNCHANGED <<stack, regs, mode>>

\* vm_execute_push_param: the arguments of main, the last one first.
ExecPushParam ==
  /\ Instr("PUSH_PARAM")
  /\ LET n == Len(Params) IN
     /\ AllocateAll([i \in 1 .. n |-> Params[n + 1 - i]])
     /\ stack' = [i \in DOMAIN stack |->
                    IF i \in sp + 1 .. sp + n THEN AddrEntry(New(i - sp)) ELSE stack[i]]
     /\ sp' = sp + n
  /\ Advance /\ UNCHANGED <<regs, mode>>

\* vm_execute_unhandled_exception.
ExecUnhandled ==
  /\ Instr("UNHANDLED_EXCEPTION")
  /\ running' = "ERROR"
  /\ Advance /\ UNCHANGED <<prog, obj, stack, sp, regs, exception>>

\* vm_execute_halt; the result is the object on top.
ExecHalt ==
  /\ Instr("HALT")
  /\ running' = "HALT"
  /\ Advance /\ UNCHANGED <<prog, obj, stack, sp, regs, exception>>

\* vm_check_stack and gc_alloc_any: exit(1), whatever was under way.
Exhausted ==
  /\ running = "RUNNING"
  /\ ~Fails
  /\ ~StackFits \/ ~MemoryFits
  /\ running' = "EXIT"
  /\ UNCHANGED <<prog, obj, stack, sp, regs, ip, exception>>

Next ==
  \/ ExecFailing
  \/ ExecLiteral \/ ExecString \/ ExecIdLocal \/ ExecIdDimLocal \/ ExecIdGlobal \/ ExecCopyGlob \/ ExecGlobalVec \/ ExecIdFunc
  \/ ExecOp \/ ExecJoin \/ ExecEqString \/ ExecEqNil \/ ExecNot \/ ExecNeg \/ ExecConvert \/ ExecAssign
  \/ ExecBuildIn \/ ExecAssertFails \/ ExecMathFails \/ ExecStringDeref \/ ExecFuncFfi
  \/ ExecRecord \/ ExecNilRecordRef \/ ExecAttr
  \/ ExecMkArray \/ ExecMkInitArray \/ ExecArrayDeref \/ ExecArrayAppend \/ ExecIncInt
  \/ ExecNegArr \/ ExecMulArr \/ ExecSumArr \/ ExecMulArrArr
  \/ ExecJumpz \/ ExecJump \/ ExecNothing
  \/ ExecMark \/ ExecCall \/ ExecSlide \/ ExecRet
  \/ ExecRethrow \/ ExecClearStack \/ ExecPushExcept \/ ExecUnhandled
  \/ ExecAlloc \/ ExecRewrite \/ ExecPushParam \/ ExecHalt \/ Exhausted

Spec     == Init /\ [][Next]_vmVars
FairSpec == Spec /\ WF_vmVars(Next)
=============================================================================
