------------------------------ MODULE Compiled ------------------------------
(***************************************************************************)
(* The machine of Vm running what the emitter made: what the code relies   *)
(* on while it runs, and what the program means.                           *)
(***************************************************************************)
EXTENDS Shapes

CONSTANT Meaning(_)   \* what a program should give: "HALT" and its number with its
                      \* type, "ERROR" and the exception, or "ASSERT"

-----------------------------------------------------------------------------
Funcs     == prog.funcs
FuncAt(x) == FuncIn(Funcs, x)
Shape     == prog.shape[ip]

\* The frames up to b, the oldest first, by the entry d below each that says which
\* one is next: those that have been begun, and those of activations only.  In
\* front, at -1, is the code that calls main.
LinkedFrom(d) ==
  LET chain[b \in -1 .. StackSize - 1] ==
        IF b < 4 THEN <<-1>>
        ELSE Append(IF stack[b - d].val \in 4 .. b - 1 THEN chain[stack[b - d].val] ELSE <<-1>>, b)
  IN  chain
Chained(chain) == {chain[i] : i \in 2 .. Len(chain)}
Frames         == Chained(LinkedFrom(1)[fp])
Activations    == LinkedFrom(4)[pp]

\* Where the i-th oldest activation is in its code, and its vector of captured
\* cells.
FuncOf(bs, i) == FuncAt(IF i = Len(bs) THEN ip ELSE stack[bs[i + 1]].val)
VecOf(bs, i)  == IF i = Len(bs) THEN gp ELSE stack[bs[i + 1] - 2].val

Captured(v) == IF v \in Allocated /\ obj[v].type = "VEC" THEN obj[v].elems ELSE << >>

CallOf(bs, i) ==
  [func |-> FuncOf(bs, i).uid, back |-> stack[bs[i]].val, captured |-> Captured(VecOf(bs, i)),
   args |-> [k \in 1 .. FuncOf(bs, i).params |-> stack[bs[i] + k].val]]
CallStack == LET bs == Activations IN [i \in 1 .. Len(bs) - 1 |-> CallOf(bs, i + 1)]

Calls == INSTANCE Calls WITH calls <- CallStack

-----------------------------------------------------------------------------
TypeOK ==
  /\ running \in {"RUNNING", "HALT", "ERROR", "EXIT"}
  /\ running = "RUNNING" => ip \in DOMAIN Code
  /\ -1 <= pp /\ pp <= fp /\ fp <= sp /\ sp < StackSize
  /\ gp \in Addr \cup {Nil}

(***************************************************************************)
(* A program that ends gives what it means: the number of its main         *)
(* function, the exception no clause has caught, or the failed assertion   *)
(* none may catch.  Names, captures, tail calls and catch clauses come out *)
(* of the compiler and the machine as they stand in the source.            *)
(***************************************************************************)
Answer == obj[stack[sp].val]
Result ==
  CASE running = "HALT" -> <<"HALT", Answer.type, Answer.value>>
    [] running = "ERROR" /\ Code[ip - 1].type # "BUILD_IN" -> <<"ERROR", exception>>
    [] running = "ERROR" /\ Code[ip - 1].type = "BUILD_IN" -> <<"ASSERT">>
SameResult == running \in {"HALT", "ERROR"} => Result = Meaning(prog.name)

(***************************************************************************)
(* Where the emitter thinks the top of the stack is, it is: whichever      *)
(* branches, exceptions and returns led to an instruction that reads the   *)
(* frame, its stack_level counts from the arguments of the running         *)
(* activation.                                                             *)
(***************************************************************************)
LevelAgrees ==
  running = "RUNNING" /\ bc.type = "ID_LOCAL" /\ bc.of = "frame" =>
    sp - bc.stack_level = pp + FuncAt(ip).params

(***************************************************************************)
(* What the code relies on and no instruction looks at: the emitter's      *)
(* levels fit together from each instruction to the next (Shaped); what is *)
(* called is a function, with all its arguments on the stack, and the      *)
(* running one when there is no frame but its own; an array                *)
(* literal finds the dimensions it was written with; below the cell that   *)
(* the name of a qualifier stands for lie the list and the counter that    *)
(* say which element it is; and instructions find operands of the kinds    *)
(* the type checker has seen there (OperandsFit).                          *)
(***************************************************************************)
IsElementAt(i) ==
  LET list == obj[stack[i - 2].val]
      n    == obj[stack[i - 1].val]
  IN  /\ list.type = "ARR_REF" /\ n.type = "INT"
      /\ obj[list.arr].elems[n.value + 1] = stack[i].val

CallsFunction ==
  LET f == obj[Top(0)]
  IN  /\ f.type = "FUNC" /\ sp - 1 = fp + FuncAt(f.addr).params
      /\ pp = fp => FuncAt(f.addr) = FuncAt(ip) /\ Captured(f.vec) = Captured(gp)

LinkageOf(S)   == UNION {c - 4 .. c : c \in S}
IsValue(i)     == i \in (0 .. sp) \ LinkageOf(Frames)
KindOf(k)      == obj[Top(k)].type
KindThere      == obj[stack[Place].val].type
IsVector(v, n) == v \in Allocated /\ obj[v].type = "VEC" /\ Len(obj[v].elems) = n

OperandsFit ==
  /\ bc.type \in {"ID_LOCAL", "ARRAY_APPEND", "OP_INC_INT"} => IsValue(Place)
  /\ bc.type = "ID_FUNC_ADDR" => IsVector(Top(0), FuncAt(bc.func_addr).captures)
  /\ bc.type \in Assignments => KindOf(1) = KindOf(0) /\ KindOf(0) \in Literals \cup {"STR_REF", "ARR_REF", "VEC_REF", "FUNC"}
  /\ bc.type = "REWRITE" => KindOf(0) = "FUNC" /\ KindOf(bc.j) = "FUNC" /\ IsValue(sp - bc.j)
  /\ bc.type = "ATTR" => KindOf(0) = "VEC_REF" /\ bc.index + 1 \in DOMAIN obj[RefAt(0)].elems
  /\ bc.type \in {"MK_ARRAY", "ARRAY_DEREF"} => IndexOf(bc.dims) \in Seq(Int)
  /\ bc.type = "ARRAY_DEREF" => KindOf(bc.dims) = "ARR_REF" /\ Len(ArrAt(bc.dims).dv) = bc.dims
  /\ bc.type = "ARRAY_APPEND" => KindThere = "ARR_REF" /\ Len(obj[obj[stack[Place].val].arr].dv) = 1
  /\ bc.type = "OP_INC_INT" => KindThere = "INT"
  /\ bc.type \in {"NEG_ARR", "ADD_ARR", "SUB_ARR", "MUL_ARR", "MUL_ARR_ARR"} => KindOf(0) = "ARR_REF"
  /\ bc.type \in {"ADD_ARR", "SUB_ARR", "MUL_ARR_ARR"} => KindOf(1) = "ARR_REF"
  /\ bc.type = "BUILD_IN" =>
       /\ bc.lib \in {"PRINT", "PRINTF", "PRINTC"} => KindOf(0) \in Literals
       /\ bc.lib = "PRINTS" => KindOf(0) = "STR_REF"

Promised ==
  /\ ip = 0 => Shaped(prog)
  /\ running = "RUNNING" /\ ~Fails =>
       /\ OperandsFit
       /\ bc.type = "CALL" => CallsFunction
       /\ bc.type = "MK_INIT_ARRAY" => IndexOf(bc.dims) = Listed(prog, ip)
       /\ bc.type = "ID_LOCAL" /\ bc.of = "qualifier" => IsElementAt(Place)

(***************************************************************************)
(* The frames are what the running code takes them for.  Those it has      *)
(* begun and not yet called go back to itself, and so do, one level down,  *)
(* those its callers had begun; each returns behind a CALL of the function *)
(* that called; a value lies wherever no frame does, but for what an       *)
(* exception that leaves a frame brings along until a handler clears it.   *)
(* And every activation has as many captured cells as its function reads.  *)
(***************************************************************************)
FrameIsLaid(b) ==
  /\ stack[b - 4].type = "STACK" /\ stack[b - 3].type = "IP" /\ stack[b - 2].type = "ADDR"
  /\ stack[b - 1].type = "STACK" /\ stack[b].type = "IP"
  /\ Code[stack[b].val - 1].type = "CALL"

BegunBy(bs, i, c) ==
  /\ stack[c - 4].val = bs[i]
  /\ stack[c - 2].val = VecOf(bs, i)
  /\ FuncAt(stack[c].val) = FuncOf(bs, i)

FramesAre(frames, bs) ==
  /\ pp \in frames \cup {-1}
  /\ \A c \in frames : FrameIsLaid(c)
  /\ \A i \in DOMAIN bs : \A c \in frames :
       bs[i] < c /\ (i < Len(bs) => c <= bs[i + 1]) => BegunBy(bs, i, c)
  /\ \A i \in (0 .. sp) \ LinkageOf(frames) : stack[i].type = "ADDR" \/ (i = sp /\ ~Shape.known)

\* Every activation, running or waiting, has the vector its function was made
\* with: as many cells as the compiler has listed.
VectorsFit(bs) == \A i \in 2 .. Len(bs) : Len(Captured(VecOf(bs, i))) = FuncOf(bs, i).captures

FramesOK == running = "RUNNING" => FramesAre(Frames, Activations) /\ VectorsFit(Activations)

(***************************************************************************)
(* Every array has one element for each index inside its dimensions, and   *)
(* one such index for each of its elements: what is written under one      *)
(* index is never read under another, and no index the dimensions allow    *)
(* leads out of the elements, which no instruction counts.  So two arrays  *)
(* whose dimensions fit can be added or multiplied element by element.     *)
(***************************************************************************)
Indices(dv) == {index \in [DOMAIN dv -> UNION {0 .. dv[d].elems - 1 : d \in DOMAIN dv}] : InBounds(dv, index)}
OneEach(dv, n) ==
  /\ \A i \in Indices(dv) : AddrOf(dv, i) + 1 \in 1 .. n
  /\ \A i, j \in Indices(dv) : AddrOf(dv, i) = AddrOf(dv, j) => i = j
  /\ \A e \in 1 .. n : \E i \in Indices(dv) : AddrOf(dv, i) + 1 = e
PairsThere ==
  LET m1 == ArrAt(1)
      m2 == ArrAt(0)
  IN  /\ bc.type \in {"ADD_ARR", "SUB_ARR"} => Len(m1.elems) = Len(m2.elems)
      /\ bc.type = "MUL_ARR_ARR" =>
           /\ Len(m1.elems) = m1.dv[1].elems * m1.dv[2].elems
           /\ Len(m2.elems) = m1.dv[2].elems * m2.dv[2].elems
ArraysFit ==
  /\ \A a \in Allocated : obj[a].type = "ARR" => OneEach(obj[a].dv, Len(obj[a].elems))
  /\ running = "RUNNING" /\ ~Fails => PairsThere

(***************************************************************************)
(* The collections at SLIDE and RET take nothing the program can still     *)
(* reach, and every value on the stack is an object.                       *)
(***************************************************************************)
NoDangling ==
  /\ Reach(obj, Roots(stack, sp, gp)) \subseteq Allocated
  /\ running = "RUNNING" =>
       \A i \in (0 .. sp) \ LinkageOf(Frames) : stack[i].type = "ADDR" => stack[i].val \in Allocated

(***************************************************************************)
(* An exception is handled where it happens: its handler belongs to the    *)
(* same function and stands behind the code that failed, so that a clause  *)
(* that fails goes on with the next and never with itself.                 *)
(***************************************************************************)
HandledHere ==
  [][ExecFailing \/ ExecMathFails =>
       /\ ip' > ip
       /\ FuncAt(ip').start = FuncAt(ip).start
       /\ pp' = pp]_vmVars

(***************************************************************************)
(* The frames implement the calls of the module Calls.                     *)
(***************************************************************************)
ImplementsCalls == Calls!Spec

(***************************************************************************)
(* The machine ends, whatever is raised on the way; the programs here do.  *)
(***************************************************************************)
Terminates == <>(running # "RUNNING")

-----------------------------------------------------------------------------
(***************************************************************************)
(* docs/index.md:168: functions "defined above or at the same level in the *)
(* structure of a program can be used"; the function around is one.        *)
(***************************************************************************)
FunctionsAboveCanBeUsed == running = "HALT" => Result = Meaning(prog.name)

(***************************************************************************)
(* docs/index.md:950: exceptions "are passed down call stack.  First       *)
(* function which defines exception handler is used."  A call that is a    *)
(* function's last expression is still a call on that stack.               *)
(***************************************************************************)
PassedDownCallStack == running = "ERROR" => Meaning(prog.name)[1] = "ERROR"
=============================================================================
