---------------------------- MODULE FrameProofs ----------------------------
(***************************************************************************)
(* Proofs about the frames of the machine, for every program whose code    *)
(* has the shapes the emitter gives it (Shaped) and whose instructions     *)
(* find what the type checker promises (Promised).  That what is called is *)
(* a function of the program (Callee) is left to MemoryProofs, where the   *)
(* invariants meet and the theorems are.                                   *)
(***************************************************************************)
EXTENDS Compiled, TLAPS, WellFoundedInduction

-----------------------------------------------------------------------------
(***************************************************************************)
(* The inductive invariant.  F are the frames that have been begun, A      *)
(* those of them that have been called; both are chained downwards by what *)
(* MARK has saved.  The return address of a frame says, by its shape, how  *)
(* far the frame lies above the activation that has begun it.              *)
(***************************************************************************)
Basics ==
  /\ stack = [i \in 0 .. StackSize - 1 |-> stack[i]]
  /\ sp \in -1 .. StackSize - 1 /\ fp \in -1 .. sp /\ pp \in -1 .. fp
  /\ gp \in Addr \cup {Nil}
  /\ running \in {"RUNNING", "HALT", "ERROR", "EXIT"}

Base(c) == stack[c - 4].val
Prev(c) == stack[c - 1].val
Back(c) == stack[c].val
Vec(c)  == stack[c - 2].val

GoodReturn(r) ==
  /\ r \in DOMAIN prog.shape /\ prog.shape[r].known
  /\ prog.shape[r].height > ParamsAt(prog, r) /\ prog.shape[r].height > prog.shape[r].mark
  /\ r - 1 \in DOMAIN prog.shape /\ Code[r - 1].type = "CALL"
  /\ FuncAt(r - 1) = FuncAt(r)

\* m is the greatest of S below c, or -1.
IsGreatest(m, S, c) == m \in S \cup {-1} /\ m < c /\ \A d \in S : d < c => d <= m

Linked(F, A, c) ==
  /\ stack[c - 4].type = "STACK" /\ stack[c - 3].type = "IP" /\ stack[c - 2].type = "ADDR"
  /\ stack[c - 1].type = "STACK" /\ stack[c].type = "IP"
  /\ IsGreatest(Base(c), A, c)
  /\ IsGreatest(Prev(c), F, c)
  /\ GoodReturn(Back(c))
  /\ c - 4 = Base(c) + prog.shape[Back(c)].height
  /\ Prev(c) = Base(c) + prog.shape[Back(c)].mark
  /\ Vec(c) \in Addr \cup {Nil}
  /\ Base(c) = -1 <=> ~InFunction(prog, Back(c))

\* The frames an activation has begun save its vector and return into its
\* function.
Owned(F, A) ==
  /\ \A c \in F : c > pp => Vec(c) = gp /\ FuncAt(Back(c)) = FuncAt(ip)
  /\ \A a \in A, c \in F : Base(a) < c /\ c <= a => Vec(c) = Vec(a) /\ FuncAt(Back(c)) = FuncAt(Back(a))

\* The stack is as high as the emitter takes it to be.
Here ==
  /\ ip \in DOMAIN prog.shape
  /\ pp = -1 <=> ~InFunction(prog, ip)
  /\ Shape.known => sp = pp + Shape.height /\ fp = pp + Shape.mark
  /\ ~Shape.known => sp >= pp + ParamsAt(prog, ip)

\* Where no frame is, there is a value.
Outside(F, i) == \A c \in F : i < c - 4 \/ c < i
Values(F) ==
  \A i \in 0 .. sp : Outside(F, i) =>
    stack[i].type = "ADDR" \/ (i = sp /\ ~Shape.known /\ sp > pp + ParamsAt(prog, ip))

FrameInv(F, A) ==
  /\ F \subseteq 4 .. sp /\ A \subseteq F
  /\ IsGreatest(fp, F, sp + 1) /\ IsGreatest(pp, A, sp + 1)
  /\ \A c \in F : Linked(F, A, c)
  /\ Owned(F, A) /\ Here /\ Values(F)

Inv ==
  /\ Basics
  /\ Shaped(prog)
  /\ running = "RUNNING" => \E F, A \in SUBSET Int : FrameInv(F, A)

-----------------------------------------------------------------------------
(***************************************************************************)
(* What the shapes say of the state.                                       *)
(***************************************************************************)

\* What Shaped says of the instruction the machine is at.
LEMMA ShapedHere ==
  ASSUME Inv, running = "RUNNING"
  PROVE  /\ ip \in DOMAIN prog.shape /\ ip \in DOMAIN Code /\ ip \in Nat
         /\ Shape.height \in Nat /\ Shape.mark \in 0 .. Shape.height
         /\ ParamsAt(prog, ip) \in Nat
         /\ ShapedAt(prog, ip) /\ Handled(prog, ip) /\ LevelKnown(prog, ip)
BY DEF Inv, FrameInv, Here, Shaped, Shape, Code

\* And of the one it comes to.
LEMMA Arrives ==
  ASSUME Inv, running = "RUNNING", prog' = prog, pp' = pp,
         NEW sh, sh.known, sh.height \in Int, Leads(prog, ip, ip', sh),
         sp' = pp + sh.height, fp' = pp + sh.mark
  PROVE  Here' /\ FuncAt(ip') = FuncAt(ip)
<1>1. ip' \in DOMAIN prog.shape /\ FuncIn(prog.funcs, ip') = FuncIn(prog.funcs, ip)
  BY DEF Leads
<1>2. FuncAt(ip') = FuncAt(ip) /\ InFunction(prog, ip') = InFunction(prog, ip) /\ ParamsAt(prog, ip') = ParamsAt(prog, ip)
  BY <1>1 DEF FuncAt, Funcs, InFunction, ParamsAt
<1>3. pp = -1 <=> ~InFunction(prog, ip)
  BY DEF Inv, FrameInv, Here
<1>4. pp \in Int /\ ParamsAt(prog, ip') \in Nat /\ prog.shape[ip'].height \in Nat
  BY <1>1 DEF Inv, Basics, Shaped
<1>5. CASE prog.shape[ip'] = sh
  BY <1>1, <1>2, <1>3, <1>5 DEF Here, Shape
<1>6. CASE prog.shape[ip'] = Handling /\ sh.height >= ParamsAt(prog, ip')
  <2>1. ~prog.shape[ip'].known
    BY <1>6 DEF Handling
  <2>2. sp' >= pp + ParamsAt(prog, ip')
    BY <1>4, <1>6, SMT
  <2>3. QED
    BY <1>1, <1>2, <1>3, <2>1, <2>2 DEF Here, Shape
<1>7. QED
  BY <1>5, <1>6 DEF Leads

-----------------------------------------------------------------------------
(***************************************************************************)
(* What a step may do to a frame.                                          *)
(***************************************************************************)

\* A frame stays what it is while its entries and the frames below it do.
LEMMA LinkedKept ==
  ASSUME NEW F, NEW A, NEW F1, NEW A1, NEW c \in Int,
         Linked(F, A, c), prog' = prog,
         \A i \in c - 4 .. c : stack'[i] = stack[i],
         \A d \in Int : d < c => (d \in F <=> d \in F1) /\ (d \in A <=> d \in A1),
         F1 \subseteq Int, A1 \subseteq Int, F \subseteq Int, A \subseteq Int
  PROVE  Linked(F1, A1, c)'
<1>1. \A i \in {c - 4, c - 3, c - 2, c - 1, c} : stack'[i] = stack[i]
  OBVIOUS
<1>2. /\ Base(c)' = Base(c) /\ Prev(c)' = Prev(c) /\ Back(c)' = Back(c) /\ Vec(c)' = Vec(c)
      /\ stack'[c - 4] = stack[c - 4] /\ stack'[c - 3] = stack[c - 3] /\ stack'[c - 2] = stack[c - 2]
      /\ stack'[c - 1] = stack[c - 1] /\ stack'[c] = stack[c]
  BY <1>1 DEF Base, Prev, Back, Vec
<1>3. GoodReturn(Back(c))' <=> GoodReturn(Back(c))
  BY <1>2 DEF GoodReturn, FuncAt, Funcs, Code
<1>4. IsGreatest(Base(c), A1, c)
  BY DEF Linked, IsGreatest
<1>5. IsGreatest(Prev(c), F1, c)
  BY DEF Linked, IsGreatest
<1>6. QED
  BY <1>2, <1>3, <1>4, <1>5 DEF Linked

\* A step that works above the youngest frame keeps all frames.
LEMMA PlainStep ==
  ASSUME Inv, running = "RUNNING",
         UNCHANGED <<fp, pp, gp, prog, running>>,
         NEW low \in Int, fp <= low, low <= sp, low <= sp', sp' \in Int, sp' < StackSize,
         stack' = [i \in 0 .. StackSize - 1 |-> stack'[i]],
         \A i \in 0 .. low : stack'[i] = stack[i],
         \A i \in low + 1 .. sp' : stack'[i].type = "ADDR",
         Here', FuncAt(ip') = FuncAt(ip),
         Shape.known \/ (low = sp /\ sp' = sp /\ ~Shape'.known)
  PROVE  Inv'
<1>1. Basics'
  BY SizesAssumption DEF Inv, Basics
<1>2. PICK F \in SUBSET Int, A \in SUBSET Int : FrameInv(F, A)
  BY DEF Inv
<1>3. /\ fp \in Int /\ sp \in Int /\ pp \in Int /\ -1 <= pp /\ pp <= fp
      /\ F \subseteq 4 .. sp /\ A \subseteq F
      /\ \A c \in F : c <= fp
      /\ \A c \in F : Linked(F, A, c)
  BY <1>2 DEF Inv, Basics, FrameInv, IsGreatest
<1>4. \A c \in F : \A i \in c - 4 .. c : stack'[i] = stack[i]
  BY <1>3
<1>5. \A c \in F : Base(c)' = Base(c) /\ Prev(c)' = Prev(c) /\ Back(c)' = Back(c) /\ Vec(c)' = Vec(c)
  BY <1>3, <1>4 DEF Base, Prev, Back, Vec
<1>6. FrameInv(F, A)'
  <2>1. F \subseteq 4 .. sp'
    BY <1>3
  <2>2. IsGreatest(fp', F, sp' + 1) /\ IsGreatest(pp', A, sp' + 1)
    BY <1>2, <1>3 DEF FrameInv, IsGreatest
  <2>3. \A c \in F : Linked(F, A, c)'
    BY <1>3, <1>4, LinkedKept
  <2>4. Owned(F, A)'
    <3>1. Owned(F, A)
      BY <1>2 DEF FrameInv
    <3>2. \A x : FuncAt(x)' = FuncAt(x)
      BY DEF FuncAt, Funcs
    <3>3. QED
      BY <1>3, <1>5, <3>1, <3>2 DEF Owned
  <2>5. Values(F)'
    <3> SUFFICES ASSUME NEW i \in 0 .. sp', Outside(F, i)
                 PROVE  stack'[i].type = "ADDR" \/ (i = sp' /\ ~Shape'.known /\ sp' > pp' + ParamsAt(prog', ip'))
      BY DEF Values, Outside
    <3>1. CASE i <= low
      <4>1. i \in 0 .. sp /\ stack'[i] = stack[i]
        BY <3>1, <1>3
      <4>2. stack[i].type = "ADDR" \/ (i = sp /\ ~Shape.known /\ sp > pp + ParamsAt(prog, ip))
        BY <4>1, <1>2 DEF FrameInv, Values
      <4>3. ParamsAt(prog, ip') = ParamsAt(prog, ip)
        BY DEF ParamsAt, FuncAt, Funcs
      <4>4. QED
        BY <4>1, <4>2, <4>3
    <3>2. CASE i > low
      BY <3>2
    <3>3. QED
      BY <3>1, <3>2, <1>3
  <2>6. QED
    BY <1>3, <2>1, <2>2, <2>3, <2>4, <2>5 DEF FrameInv
<1>7. Shaped(prog')
  BY DEF Inv
<1>8. QED
  BY <1>1, <1>6, <1>7 DEF Inv

\* An instruction that works above the youngest frame.
LEMMA WorksStep ==
  ASSUME Inv, running = "RUNNING", Works(prog, ip),
         UNCHANGED <<fp, pp, gp, prog, running>>,
         sp' = sp - Takes(prog, ip) + Leaves(prog, ip), sp' < StackSize,
         stack' = [i \in 0 .. StackSize - 1 |-> stack'[i]],
         \A i \in 0 .. sp - Takes(prog, ip) : stack'[i] = stack[i],
         \A i \in sp - Takes(prog, ip) + 1 .. sp' : stack'[i].type = "ADDR",
         ip' = ip + 1 \/ (bc.type = "JUMPZ" /\ ip' = ip + 1 + bc.offset)
  PROVE  Inv'
<1> DEFINE sh  == At(Shape.height - Takes(prog, ip) + Leaves(prog, ip), Shape.mark)
           low == sp - Takes(prog, ip)
<1>1. /\ Shape.known /\ Takes(prog, ip) \in Nat /\ Leaves(prog, ip) \in Nat
      /\ Takes(prog, ip) <= Shape.height - Shape.mark
      /\ Leads(prog, ip, ip', sh)
  BY DEF Works, Shape, bc, Code
<1>2. /\ Shape.height \in Nat /\ Shape.mark \in Nat
  BY ShapedHere
<1>3. sp = pp + Shape.height /\ fp = pp + Shape.mark
  BY <1>1 DEF Inv, FrameInv, Here
<1>4. sp \in Int /\ pp \in Int /\ fp \in Int /\ StackSize \in Nat
  BY SizesAssumption DEF Inv, Basics
<1>5. /\ sh.known /\ sh.height = Shape.height - Takes(prog, ip) + Leaves(prog, ip) /\ sh.mark = Shape.mark
      /\ sh.height \in Int
  BY <1>1, <1>2 DEF At
<1> HIDE DEF sh
<1>6. sp' = pp + sh.height /\ fp' = pp + sh.mark
  BY <1>1, <1>2, <1>3, <1>4, <1>5
<1>7. Here' /\ FuncAt(ip') = FuncAt(ip)
  BY <1>1, <1>5, <1>6, Arrives
<1>8. low \in Int /\ fp <= low /\ low <= sp /\ low <= sp' /\ sp' \in Int
  <2>1. /\ Takes(prog, ip) \in Nat /\ Leaves(prog, ip) \in Nat
        /\ Takes(prog, ip) <= Shape.height - Shape.mark
    BY <1>1
  <2> HIDE <1>1
  <2>2. low \in Int /\ low <= sp /\ sp' = low + Leaves(prog, ip)
    BY <2>1, <1>4
  <2>3. fp <= low
    BY <2>1, <1>2, <1>3, <1>4
  <2>4. QED
    BY <2>1, <2>2, <2>3
<1>9. (\A i \in 0 .. low : stack'[i] = stack[i]) /\ (\A i \in low + 1 .. sp' : stack'[i].type = "ADDR")
  OBVIOUS
<1> HIDE DEF low
<1>10. QED
  BY <1>1, <1>7, <1>8, <1>9, PlainStep

\* An instruction that does not look at the stack.
LEMMA PassesStep ==
  ASSUME Inv, running = "RUNNING",
         UNCHANGED <<stack, sp, fp, pp, gp, prog, running>>,
         Leads(prog, ip, ip', Shape)
  PROVE  Inv'
<1>1. /\ sp \in Int /\ pp \in Int /\ fp \in Int /\ fp <= sp /\ sp < StackSize
      /\ stack = [i \in 0 .. StackSize - 1 |-> stack[i]]
  BY SizesAssumption DEF Inv, Basics
<1>2. Shape.height \in Nat /\ ParamsAt(prog, ip) \in Nat /\ ip' \in DOMAIN prog.shape
  BY ShapedHere DEF Leads
<1>3. FuncAt(ip') = FuncAt(ip) /\ InFunction(prog, ip') = InFunction(prog, ip) /\ ParamsAt(prog, ip') = ParamsAt(prog, ip)
  BY DEF Leads, FuncAt, Funcs, InFunction, ParamsAt
<1>4. CASE Shape.known
  <2>1. Here' /\ FuncAt(ip') = FuncAt(ip)
    <3>1. sp' = pp + Shape.height /\ fp' = pp + Shape.mark
      BY <1>4 DEF Inv, FrameInv, Here
    <3>2. QED
      BY <1>2, <1>4, <3>1, Arrives
  <2>2. QED
    BY <1>1, <1>4, <2>1, PlainStep
<1>5. CASE ~Shape.known
  <2>1. ~Shape'.known
    BY <1>5 DEF Leads, Shape, Handling
  <2>2. Here
    BY DEF Inv, FrameInv
  <2>3. Here'
    BY <1>2, <1>3, <1>5, <2>1, <2>2 DEF Here
  <2>4. QED
    BY <1>1, <1>3, <2>1, <2>3, PlainStep
<1>6. QED
  BY <1>4, <1>5

\* An instruction that fails leaves its frame and the arguments where they are.
LEMMA FailingStep ==
  ASSUME Inv, running = "RUNNING", bc.type \in MayFail,
         UNCHANGED <<stack, fp, pp, gp, prog, running>>,
         NEW taken \in 0 .. Takes(prog, ip), sp' = sp - taken,
         ip' = HandlerOf(ip)
  PROVE  Inv'
<1>1. /\ sp \in Int /\ pp \in Int /\ fp \in Int /\ fp <= sp /\ sp < StackSize
      /\ stack = [i \in 0 .. StackSize - 1 |-> stack[i]]
  BY SizesAssumption DEF Inv, Basics
<1>2. Shape.height \in Nat /\ Shape.mark \in Nat /\ ParamsAt(prog, ip) \in Nat
  BY ShapedHere
<1>3. Leads(prog, ip, ip', Handling)
  BY ShapedHere DEF Handled, HandlerOf, ExcTab, bc, Code
<1>4. /\ Shape.known /\ taken \in Nat
      /\ taken <= Shape.height - Shape.mark /\ taken <= Shape.height - ParamsAt(prog, ip)
  <2>1. CASE bc.type = "CALL"
    <3>1. Calling(prog, ip)
      BY <2>1, ShapedHere DEF ShapedAt, bc, Code
    <3>2. Takes(prog, ip) = 0
      BY <2>1 DEF Takes, bc, Code, Assignments
    <3>3. QED
      BY <1>2, <3>1, <3>2 DEF Calling, Shape
  <2>2. CASE bc.type # "CALL"
    <3>1. bc.type # "SLIDE" /\ Works(prog, ip)
      BY <2>2, ShapedHere DEF ShapedAt, MayFail, bc, Code
    <3>2. QED
      BY <1>2, <3>1, SMTT(30) DEF Works, Shape, bc, Code
  <2>3. QED
    BY <2>1, <2>2
<1>5. sp = pp + Shape.height /\ fp = pp + Shape.mark
  BY <1>4 DEF Inv, FrameInv, Here
<1>6. ip' \in DOMAIN prog.shape /\ ~Shape'.known
  BY <1>3 DEF Leads, Handling, Shape
<1>7. FuncAt(ip') = FuncAt(ip) /\ InFunction(prog, ip') = InFunction(prog, ip) /\ ParamsAt(prog, ip') = ParamsAt(prog, ip)
  BY <1>3 DEF Leads, FuncAt, Funcs, InFunction, ParamsAt
<1>8. sp' \in Int /\ sp' <= sp /\ fp <= sp' /\ sp' >= pp + ParamsAt(prog, ip)
  BY <1>1, <1>2, <1>4, <1>5, SMTT(30)
<1>9. Here'
  <2>1. Here
    BY DEF Inv, FrameInv
  <2>2. QED
    BY <1>6, <1>7, <1>8, <2>1 DEF Here
<1>10. QED
  <2>1. sp' < StackSize /\ \A i \in 0 .. sp' : stack'[i] = stack[i]
    BY <1>1, <1>8, SizesAssumption
  <2>2. \A i \in sp' + 1 .. sp' : stack'[i].type = "ADDR"
    BY <1>8
  <2>3. QED
    BY <1>1, <1>4, <1>7, <1>8, <1>9, <2>1, <2>2, PlainStep

-----------------------------------------------------------------------------
(***************************************************************************)
(* The instructions that begin a frame, make it an activation's, and leave *)
(* it.                                                                     *)
(***************************************************************************)

\* What the frames of an invariant state have in common, to be cited by each step.
LEMMA FrameFacts ==
  ASSUME Inv, running = "RUNNING",
         NEW F \in SUBSET Int, NEW A \in SUBSET Int, FrameInv(F, A)
  PROVE  /\ sp \in Int /\ fp \in Int /\ pp \in Int /\ -1 <= pp /\ pp <= fp /\ fp <= sp /\ sp < StackSize
         /\ StackSize \in Nat
         /\ stack = [i \in 0 .. StackSize - 1 |-> stack[i]]
         /\ F \subseteq 4 .. sp /\ A \subseteq F
         /\ fp \in F \cup {-1} /\ pp \in A \cup {-1}
         /\ \A c \in F : c <= fp
         /\ \A a \in A : a <= pp
         /\ \A c \in F : Linked(F, A, c)
         /\ Owned(F, A) /\ Here /\ Values(F)
BY SizesAssumption DEF Inv, Basics, FrameInv, IsGreatest

\* A frame lies above what its caller had on the stack, and its entries say where
\* the ones below begin.
LEMMA LinkFacts ==
  ASSUME Inv, NEW F \in SUBSET Int, NEW A \in SUBSET Int,
         NEW c \in Int, Linked(F, A, c), A \subseteq F, F \subseteq 4 .. sp
  PROVE  /\ Base(c) \in A \cup {-1} /\ Prev(c) \in F \cup {-1} /\ Base(c) \in Int /\ Prev(c) \in Int
         /\ -1 <= Base(c) /\ Base(c) <= Prev(c) /\ Prev(c) < c - 4
         /\ \A a \in A : a < c => a <= Base(c)
         /\ \A d \in F : d < c => d <= Prev(c)
         /\ c - 4 > Base(c) + ParamsAt(prog, Back(c))
         /\ ParamsAt(prog, Back(c)) \in Nat
<1>1. /\ Base(c) \in A \cup {-1} /\ Prev(c) \in F \cup {-1}
      /\ \A a \in A : a < c => a <= Base(c)
      /\ \A d \in F : d < c => d <= Prev(c)
  BY DEF Linked, IsGreatest
<1>2. Base(c) \in Int /\ Prev(c) \in Int /\ -1 <= Base(c)
  BY <1>1 DEF Inv, Basics
<1>3. /\ prog.shape[Back(c)].height \in Nat /\ prog.shape[Back(c)].mark \in Nat
      /\ prog.shape[Back(c)].height > prog.shape[Back(c)].mark
      /\ prog.shape[Back(c)].height > ParamsAt(prog, Back(c)) /\ ParamsAt(prog, Back(c)) \in Nat
  BY DEF Linked, GoodReturn, Inv, Shaped
<1>4. c - 4 = Base(c) + prog.shape[Back(c)].height /\ Prev(c) = Base(c) + prog.shape[Back(c)].mark
  BY DEF Linked
<1>5. Base(c) <= Prev(c) /\ Prev(c) < c - 4
  BY <1>2, <1>3, <1>4
<1>6. c - 4 > Base(c) + ParamsAt(prog, Back(c))
  BY <1>2, <1>3, <1>4
<1>7. QED
  BY <1>1, <1>2, <1>3, <1>5, <1>6

LEMMA MarkStep ==
  ASSUME Inv, ExecMark
  PROVE  Inv'
<1>1. running = "RUNNING" /\ bc.type = "MARK" /\ sp + 5 < StackSize
  BY DEF ExecMark, Instr, Runs, StackFits, Pushes, Literals
<1>2. PICK F \in SUBSET Int, A \in SUBSET Int : FrameInv(F, A)
  BY <1>1 DEF Inv
<1>3. Marks(prog, ip)
  BY <1>1, ShapedHere DEF ShapedAt, bc, Code
<1>4. /\ Shape.known /\ Shape.height \in Nat /\ Shape.mark \in 0 .. Shape.height
      /\ Shape.height >= ParamsAt(prog, ip) /\ ParamsAt(prog, ip) \in Nat
  BY <1>1, <1>3, ShapedHere DEF Marks, Shape
<1>5. sp = pp + Shape.height /\ fp = pp + Shape.mark
  BY <1>2, <1>4 DEF FrameInv, Here
<1>6. /\ sp \in Int /\ fp \in Int /\ pp \in Int /\ -1 <= pp /\ pp <= fp /\ fp <= sp
      /\ StackSize \in Nat /\ stack = [i \in 0 .. StackSize - 1 |-> stack[i]]
      /\ F \subseteq 4 .. sp /\ A \subseteq F
      /\ fp \in F \cup {-1} /\ pp \in A \cup {-1}
      /\ (\A d \in F : d <= fp) /\ (\A a \in A : a <= pp)
      /\ \A d \in F : Linked(F, A, d)
  BY <1>1, <1>2, FrameFacts
<1>c. PICK c \in Int : c = sp + 5
  BY <1>6
<1>r. PICK r : r = bc.addr
  OBVIOUS
<1> DEFINE G == F \cup {c}
<1>7. /\ sp' = c /\ fp' = c /\ pp' = pp /\ gp' = gp /\ prog' = prog /\ running' = running /\ ip' = ip + 1
      /\ stack' = [i \in 0 .. StackSize - 1 |-> IF i \in sp + 1 .. sp + 5 THEN Frame(r)[i - sp] ELSE stack[i]]
  BY <1>6, <1>c, <1>r DEF ExecMark, Advance, mode
<1>8. /\ stack'[c - 4] = StackEntry(pp) /\ stack'[c - 3] = IpEntry(0) /\ stack'[c - 2] = AddrEntry(gp)
      /\ stack'[c - 1] = StackEntry(fp) /\ stack'[c] = IpEntry(r)
  <2>1. c \in Int /\ 4 <= c /\ c < StackSize
    BY <1>1, <1>6, <1>c
  <2>2. \A k \in 1 .. 5 : stack'[sp + k] = Frame(r)[k]
    <3> SUFFICES ASSUME NEW k \in 1 .. 5
                 PROVE  stack'[sp + k] = Frame(r)[k]
      OBVIOUS
    <3>1. sp + k \in 0 .. StackSize - 1 /\ sp + k \in sp + 1 .. sp + 5 /\ (sp + k) - sp = k
      BY <1>6, <1>c, <2>1
    <3>2. QED
      BY <1>7, <3>1
  <2>3. /\ Frame(r)[1] = StackEntry(pp) /\ Frame(r)[2] = IpEntry(0) /\ Frame(r)[3] = AddrEntry(gp)
        /\ Frame(r)[4] = StackEntry(fp) /\ Frame(r)[5] = IpEntry(r)
    BY DEF Frame
  <2>4. c - 4 = sp + 1 /\ c - 3 = sp + 2 /\ c - 2 = sp + 3 /\ c - 1 = sp + 4
    BY <1>6, <1>c
  <2>5. QED
    BY <2>2, <2>3, <2>4, <1>c
<1>9. \A i \in 0 .. sp : stack'[i] = stack[i]
  BY <1>1, <1>6, <1>7
<1>10. /\ r \in DOMAIN prog.shape /\ prog.shape[r] = At(Shape.height + 1, Shape.mark)
       /\ FuncAt(r) = FuncAt(ip) /\ FuncAt(r - 1) = FuncAt(r)
       /\ r - 1 \in DOMAIN prog.shape /\ Code[r - 1].type = "CALL"
  BY <1>3, <1>r DEF Marks, Leads, Handling, Shape, bc, Code, FuncAt, Funcs
<1>11. /\ prog.shape[r].known /\ prog.shape[r].height = Shape.height + 1 /\ prog.shape[r].mark = Shape.mark
       /\ ParamsAt(prog, r) = ParamsAt(prog, ip) /\ InFunction(prog, r) = InFunction(prog, ip)
  BY <1>10 DEF At, ParamsAt, InFunction, FuncAt, Funcs
<1>12. /\ Base(c)' = pp /\ Prev(c)' = fp /\ Vec(c)' = gp /\ Back(c)' = r
  BY <1>8 DEF Base, Prev, Vec, Back, StackEntry, AddrEntry, IpEntry
<1>13. c \in Int /\ sp < c /\ c < StackSize /\ 4 <= c
  BY <1>1, <1>6, <1>c
<1>14. Linked(G, A, c)'
  <2>1. IsGreatest(pp, A, c) /\ IsGreatest(fp, G, c)
    BY <1>6, <1>13 DEF IsGreatest
  <2>2. GoodReturn(r)'
    <3>1. Shape.height + 1 > ParamsAt(prog, ip) /\ Shape.height + 1 > Shape.mark
      BY <1>4
    <3>2. QED
      BY <1>7, <1>10, <1>11, <3>1 DEF GoodReturn, FuncAt, Funcs, Code
  <2>3. gp \in Addr \cup {Nil} /\ (pp = -1 <=> ~InFunction(prog, ip))
    BY <1>2 DEF Inv, Basics, FrameInv, Here
  <2>4. c - 4 = pp + (Shape.height + 1)
    BY <1>4, <1>5, <1>6, <1>c
  <2>5. /\ stack'[c - 4].type = "STACK" /\ stack'[c - 3].type = "IP" /\ stack'[c - 2].type = "ADDR"
        /\ stack'[c - 1].type = "STACK" /\ stack'[c].type = "IP"
    BY <1>8 DEF StackEntry, AddrEntry, IpEntry
  <2>6. /\ c - 4 = Base(c)' + prog'.shape[Back(c)'].height /\ Prev(c)' = Base(c)' + prog'.shape[Back(c)'].mark
    BY <1>5, <1>7, <1>11, <1>12, <2>4
  <2>7. Base(c)' = -1 <=> ~InFunction(prog', Back(c)')
    BY <1>7, <1>11, <1>12, <2>3
  <2>8. IsGreatest(Base(c)', A, c) /\ IsGreatest(Prev(c)', G, c) /\ GoodReturn(Back(c))' /\ Vec(c)' \in Addr \cup {Nil}
    BY <1>12, <2>1, <2>2, <2>3 DEF GoodReturn, FuncAt
  <2>9. QED
    BY <2>5, <2>6, <2>7, <2>8 DEF Linked
<1>15. \A d \in F : Linked(G, A, d)'
  <2> SUFFICES ASSUME NEW d \in F
               PROVE  Linked(G, A, d)'
    OBVIOUS
  <2>1. \A i \in d - 4 .. d : stack'[i] = stack[i]
    BY <1>6, <1>9
  <2>2. \A e \in Int : e < d => (e \in F <=> e \in G) /\ (e \in A <=> e \in A)
    BY <1>6, <1>13
  <2>3. QED
    BY <1>6, <1>7, <1>13, <2>1, <2>2, LinkedKept
<1>16. \A d \in F : Base(d)' = Base(d) /\ Vec(d)' = Vec(d) /\ Back(d)' = Back(d)
  <2> SUFFICES ASSUME NEW d \in F
               PROVE  Base(d)' = Base(d) /\ Vec(d)' = Vec(d) /\ Back(d)' = Back(d)
    OBVIOUS
  <2>1. \A i \in {d - 4, d - 2, d} : stack'[i] = stack[i]
    <3>1. d \in 4 .. sp /\ sp \in Int
      BY <1>6
    <3>2. d - 4 \in 0 .. sp /\ d - 2 \in 0 .. sp /\ d \in 0 .. sp
      BY <3>1
    <3>3. QED
      BY <1>9, <3>2
  <2>2. QED
    BY <2>1 DEF Base, Vec, Back
<1>17. Here' /\ FuncAt(ip') = FuncAt(ip)
  <2>1. Leads(prog, ip, ip', At(Shape.height + 5, Shape.height + 5))
    BY <1>3, <1>7 DEF Marks, Shape
  <2>2. sp' = pp + (Shape.height + 5) /\ fp' = pp + (Shape.height + 5)
    BY <1>4, <1>5, <1>6, <1>7, <1>c
  <2>3. /\ At(Shape.height + 5, Shape.height + 5).known
        /\ At(Shape.height + 5, Shape.height + 5).height = Shape.height + 5
        /\ At(Shape.height + 5, Shape.height + 5).mark = Shape.height + 5
        /\ Shape.height + 5 \in Int
    BY <1>4 DEF At
  <2>4. QED
    BY <1>1, <1>7, <2>1, <2>2, <2>3, Arrives
<1>18. FrameInv(G, A)'
  <2>1. G \subseteq 4 .. sp' /\ A \subseteq G
    BY <1>6, <1>7, <1>13
  <2>2. IsGreatest(fp', G, sp' + 1) /\ IsGreatest(pp', A, sp' + 1)
    BY <1>6, <1>7, <1>13 DEF IsGreatest
  <2>3. \A d \in G : Linked(G, A, d)'
    BY <1>14, <1>15
  <2>4. Owned(G, A)'
    <3>1. Owned(F, A)
      BY <1>2 DEF FrameInv
    <3>2. \A x : FuncAt(x)' = FuncAt(x)
      BY <1>7 DEF FuncAt, Funcs
    <3>3. \A d \in G : d > pp => Vec(d)' = gp /\ FuncAt(Back(d)') = FuncAt(ip')
      BY <1>10, <1>12, <1>16, <1>17, <3>1 DEF Owned
    <3>4. \A a \in A, d \in G : Base(a)' < d /\ d <= a => Vec(d)' = Vec(a)' /\ FuncAt(Back(d)') = FuncAt(Back(a)')
      <4> SUFFICES ASSUME NEW a \in A, NEW d \in G, Base(a)' < d, d <= a
                   PROVE  Vec(d)' = Vec(a)' /\ FuncAt(Back(d)') = FuncAt(Back(a)')
        OBVIOUS
      <4>1. d \in F /\ a \in F
        BY <1>6, <1>13
      <4>2. QED
        BY <1>16, <3>1, <4>1 DEF Owned
    <3>5. QED
      BY <1>7, <3>2, <3>3, <3>4 DEF Owned
  <2>5. Values(G)'
    <3> SUFFICES ASSUME NEW i \in 0 .. sp', Outside(G, i)
                 PROVE  stack'[i].type = "ADDR"
      BY DEF Values, Outside
    <3>1. i < c - 4 /\ Outside(F, i)
      BY <1>7, <1>13 DEF Outside
    <3>2. i \in 0 .. sp
      BY <1>6, <3>1, <1>c
    <3>3. Values(F)
      BY <1>2 DEF FrameInv
    <3>4. QED
      BY <1>4, <1>9, <3>1, <3>2, <3>3 DEF Values
  <2>6. QED
    BY <1>17, <2>1, <2>2, <2>3, <2>4, <2>5 DEF FrameInv
<1>19. Basics'
  BY <1>6, <1>7, <1>13, <1>1 DEF Inv, Basics
<1>20. QED
  <2>1. G \in SUBSET Int
    BY <1>13
  <2>2. Shaped(prog')
    BY <1>7 DEF Inv
  <2> HIDE DEF G
  <2>3. QED
    BY <1>18, <1>19, <2>1, <2>2 DEF Inv

\* What is called is a function of the program; MemoryProofs shows it of the
\* objects in memory.
Callee ==
  running = "RUNNING" /\ bc.type = "CALL" /\ ~Fails =>
    /\ obj[Top(0)].vec \in Addr \cup {Nil}
    /\ \E i \in DOMAIN Funcs : Funcs[i].start = obj[Top(0)].addr

LEMMA CallStep ==
  ASSUME Inv, ExecCall, Promised, Callee
  PROVE  Inv'
<1>1. running = "RUNNING" /\ bc.type = "CALL" /\ ~Fails
  BY DEF ExecCall, Instr, Runs
<1>2. PICK F \in SUBSET Int, A \in SUBSET Int : FrameInv(F, A)
  BY <1>1 DEF Inv
<1>3. Calling(prog, ip)
  BY <1>1, ShapedHere DEF ShapedAt, bc, Code
<1>4. /\ Shape.known /\ Shape.height \in Nat /\ Shape.mark \in 0 .. Shape.height
      /\ Shape.height > Shape.mark
      /\ Shape.mark = 0 => InFunction(prog, ip)
  BY <1>1, <1>3, ShapedHere DEF Calling, Shape
<1>5. sp = pp + Shape.height /\ fp = pp + Shape.mark /\ (pp = -1 <=> ~InFunction(prog, ip))
  BY <1>2, <1>4 DEF FrameInv, Here
<1>6. /\ sp \in Int /\ fp \in Int /\ pp \in Int /\ -1 <= pp /\ pp <= fp /\ fp <= sp /\ sp < StackSize
      /\ StackSize \in Nat /\ stack = [i \in 0 .. StackSize - 1 |-> stack[i]]
      /\ F \subseteq 4 .. sp /\ A \subseteq F
      /\ fp \in F \cup {-1} /\ pp \in A \cup {-1}
      /\ (\A d \in F : d <= fp) /\ (\A a \in A : a <= pp)
      /\ (\A d \in F : Linked(F, A, d))
      /\ Owned(F, A) /\ Values(F)
  BY <1>1, <1>2, FrameFacts
<1>7. fp \in F /\ fp < sp
  BY <1>4, <1>5, <1>6
<1>8. PICK k \in DOMAIN prog.funcs : prog.funcs[k].start = obj[Top(0)].addr /\ sp - 1 = fp + prog.funcs[k].params
  <2>1. PICK k \in DOMAIN prog.funcs : prog.funcs[k].start = obj[Top(0)].addr
    BY <1>1 DEF Callee, Funcs
  <2>2. FuncAt(obj[Top(0)].addr) = prog.funcs[k]
    BY <2>1 DEF Inv, Shaped, Starts, FuncAt, Funcs
  <2>3. sp - 1 = fp + FuncAt(obj[Top(0)].addr).params
    BY <1>1 DEF Promised, CallsFunction
  <2>4. QED
    BY <2>1, <2>2, <2>3
<1>9. gp' \in Addr \cup {Nil}
  BY <1>1 DEF Callee, ExecCall
<1>10. /\ Starts(prog, prog.funcs[k])
       /\ sp' = sp - 1 /\ fp' = fp /\ pp' = fp /\ prog' = prog /\ running' = running /\ stack' = stack
       /\ ip' = prog.funcs[k].start
  BY <1>8 DEF ExecCall, mode, Inv, Shaped
<1>c. PICK c \in Int : c = fp
  BY <1>6
<1> DEFINE B == A \cup {c}
<1>11. \A d \in F : Linked(F, B, d)'
  <2> SUFFICES ASSUME NEW d \in F
               PROVE  Linked(F, B, d)'
    OBVIOUS
  <2>1. \A i \in d - 4 .. d : stack'[i] = stack[i]
    BY <1>10
  <2>2. \A e \in Int : e < d => (e \in F <=> e \in F) /\ (e \in A <=> e \in B)
    BY <1>6, <1>c
  <2>3. QED
    BY <1>6, <1>10, <2>1, <2>2, LinkedKept
<1>12. Here'
  <2>1. /\ ip' \in DOMAIN prog.shape /\ Shape' = At(prog.funcs[k].params, 0)
        /\ prog.funcs[k].params \in Nat /\ InFunction(prog, ip')
    BY <1>10 DEF Starts, Shape, InFunction
  <2>2. Shape'.known /\ Shape'.height = prog.funcs[k].params /\ Shape'.mark = 0
    BY <2>1 DEF At
  <2>3. pp' # -1
    BY <1>6, <1>7, <1>10
  <2>4. sp' = pp' + prog.funcs[k].params /\ fp' = pp' + 0
    BY <1>6, <1>8, <1>10
  <2>5. QED
    BY <1>10, <2>1, <2>2, <2>3, <2>4 DEF Here
<1>13. Owned(F, B)'
  <2>1. \A d \in F : ~(d > pp')
    BY <1>6, <1>10
  <2>2. \A a \in B, d \in F : Base(a) < d /\ d <= a => Vec(d) = Vec(a) /\ FuncAt(Back(d)) = FuncAt(Back(a))
    <3> SUFFICES ASSUME NEW a \in B, NEW d \in F, Base(a) < d, d <= a
                 PROVE  Vec(d) = Vec(a) /\ FuncAt(Back(d)) = FuncAt(Back(a))
      OBVIOUS
    <3>1. CASE a \in A
      BY <1>6, <3>1 DEF Owned
    <3>2. CASE a \notin A
      <4>1. a = fp /\ a \in F /\ pp < fp
        BY <1>6, <1>7, <1>c, <3>2
      <4>2. Base(a) \in Int /\ -1 <= Base(a) /\ \A e \in A : e < a => e <= Base(a)
        <5>1. Linked(F, A, a) /\ a \in Int
          BY <1>6, <4>1
        <5>2. QED
          BY <1>6, <5>1, LinkFacts
      <4>3. d > pp /\ a > pp
        <5>1. pp <= Base(a)
          BY <1>6, <4>1, <4>2
        <5>2. QED
          BY <1>6, <4>1, <4>2, <5>1
      <4>4. QED
        BY <1>6, <4>1, <4>3 DEF Owned
    <3>3. QED
      BY <3>1, <3>2
  <2>3. QED
    BY <1>10, <2>1, <2>2 DEF Owned, Base, Vec, Back, FuncAt, Funcs
<1>14. Values(F)'
  <2> SUFFICES ASSUME NEW i \in 0 .. sp', Outside(F, i)
               PROVE  stack'[i].type = "ADDR"
    BY DEF Values, Outside
  <2>1. i \in 0 .. sp
    BY <1>6, <1>10
  <2>2. QED
    BY <1>4, <1>6, <1>10, <2>1 DEF Values
<1>15. FrameInv(F, B)'
  <2>1. F \subseteq 4 .. sp' /\ B \subseteq F
    BY <1>6, <1>7, <1>10, <1>c
  <2>2. IsGreatest(fp', F, sp' + 1) /\ IsGreatest(pp', B, sp' + 1)
    BY <1>6, <1>7, <1>10, <1>c DEF IsGreatest
  <2>3. QED
    BY <1>11, <1>12, <1>13, <1>14, <2>1, <2>2 DEF FrameInv
<1>16. Basics'
  BY <1>6, <1>7, <1>9, <1>10 DEF Inv, Basics
<1>17. Shaped(prog') /\ B \in SUBSET Int
  BY <1>10 DEF Inv
<1> HIDE DEF B
<1>18. QED
  BY <1>15, <1>16, <1>17 DEF Inv

\* The youngest frame goes, whether it is the activation's or one it has begun;
\* the machine comes to where it would have returned, or to the handler there.
LEMMA LeaveStep ==
  ASSUME Inv, running = "RUNNING", LeaveFrame, UNCHANGED <<prog, running>>, fp # -1,
         \/ ip' = Back(fp) /\ fp < sp /\ Shape.known
         \/ Leads(prog, Back(fp) - 1, ip', Handling)
  PROVE  Inv'
<1>1. PICK F \in SUBSET Int, A \in SUBSET Int : FrameInv(F, A)
  BY DEF Inv
<1>2. /\ sp \in Int /\ fp \in Int /\ pp \in Int /\ -1 <= pp /\ pp <= fp /\ fp <= sp /\ sp < StackSize
      /\ StackSize \in Nat /\ stack = [i \in 0 .. StackSize - 1 |-> stack[i]]
      /\ F \subseteq 4 .. sp /\ A \subseteq F
      /\ fp \in F \cup {-1} /\ pp \in A \cup {-1}
      /\ (\A d \in F : d <= fp) /\ (\A a \in A : a <= pp)
      /\ (\A d \in F : Linked(F, A, d))
      /\ Owned(F, A) /\ Here /\ Values(F)
  BY <1>1, FrameFacts
<1>c. PICK c \in F : c = fp
  BY <1>2
<1>3. /\ c \in Int /\ 4 <= c /\ c <= sp /\ Linked(F, A, c)
  BY <1>2, <1>c
<1>m. PICK m \in Int : m = c - 4
  BY <1>3
<1>4. /\ Base(c) \in A \cup {-1} /\ Prev(c) \in F \cup {-1} /\ Base(c) \in Int /\ Prev(c) \in Int
      /\ -1 <= Base(c) /\ Base(c) <= Prev(c) /\ Prev(c) < m
      /\ (\A a \in A : a < c => a <= Base(c))
      /\ (\A d \in F : d < c => d <= Prev(c))
      /\ m > Base(c) + ParamsAt(prog, Back(c))
      /\ ParamsAt(prog, Back(c)) \in Nat
  BY <1>2, <1>3, <1>m, LinkFacts
<1>5. /\ sp' = m /\ fp' = Prev(c) /\ pp' = Base(c) /\ gp' = Vec(c) /\ prog' = prog /\ running' = running
      /\ stack' = [stack EXCEPT ![m] = stack[sp]]
  BY <1>c, <1>m DEF LeaveFrame, SavedGp, SavedPp, Base, Prev, Vec
<1>6. /\ m \in 0 .. StackSize - 1 /\ m < c
      /\ stack' = [i \in 0 .. StackSize - 1 |-> stack'[i]]
      /\ stack'[m] = stack[sp]
      /\ \A i \in 0 .. m - 1 : stack'[i] = stack[i]
  <2>1. m \in 0 .. StackSize - 1 /\ m < c
    BY <1>2, <1>3, <1>m
  <2>2. DOMAIN stack = 0 .. StackSize - 1
    BY <1>2
  <2>3. stack' = [i \in 0 .. StackSize - 1 |-> IF i = m THEN stack[sp] ELSE stack[i]]
    BY <1>5, <2>1, <2>2
  <2>4. stack'[m] = stack[sp]
    BY <2>1, <2>3
  <2>5. \A i \in 0 .. m - 1 : stack'[i] = stack[i]
    BY <1>2, <2>1, <2>3
  <2>6. stack' = [i \in 0 .. StackSize - 1 |-> stack'[i]]
    BY <2>3
  <2>7. QED
    BY <2>1, <2>4, <2>5, <2>6
<1> DEFINE G == F \ {c}
           B == A \ {c}
<1>7. \A d \in G : d \in F /\ d < c /\ d <= Prev(c) /\ d < m /\ 4 <= d /\ d \in Int
  BY <1>2, <1>4, <1>c
<1>8. \A d \in G : \A i \in {d - 4, d - 3, d - 2, d - 1, d} : stack'[i] = stack[i]
  <2> SUFFICES ASSUME NEW d \in G
               PROVE  {d - 4, d - 3, d - 2, d - 1, d} \subseteq 0 .. m - 1
    BY <1>6
  <2>1. d < m /\ 4 <= d /\ d \in Int /\ m \in Int
    BY <1>7
  <2>2. QED
    BY <2>1
<1>9. \A d \in G : Linked(G, B, d)'
  <2> SUFFICES ASSUME NEW d \in G
               PROVE  Linked(G, B, d)'
    OBVIOUS
  <2>1. d \in Int /\ d \in F /\ d < c /\ Linked(F, A, d)
    BY <1>2, <1>7
  <2>2. \A i \in d - 4 .. d : stack'[i] = stack[i]
    <3>1. \A i \in d - 4 .. d : i \in {d - 4, d - 3, d - 2, d - 1, d}
      BY <2>1
    <3>2. QED
      BY <1>8, <3>1
  <2>3. \A e \in Int : e < d => (e \in F <=> e \in G) /\ (e \in A <=> e \in B)
    BY <1>3, <2>1
  <2>4. G \subseteq Int /\ B \subseteq Int
    OBVIOUS
  <2> HIDE DEF G, B
  <2>5. QED
    BY <1>5, <2>1, <2>2, <2>3, <2>4, LinkedKept
<1>10. \A d \in G : Base(d)' = Base(d) /\ Vec(d)' = Vec(d) /\ Back(d)' = Back(d)
  BY <1>8 DEF Base, Vec, Back
<1>11. \/ c = pp /\ c \in A
       \/ c > pp /\ c \notin A /\ Base(c) = pp
  <2>1. CASE c = pp
    BY <2>1, <1>2, <1>3
  <2>2. CASE c # pp
    <3>1. c > pp /\ c \notin A
      BY <2>2, <1>2, <1>c
    <3>2. Base(c) = pp
      BY <3>1, <1>2, <1>4
    <3>3. QED
      BY <3>1, <3>2
  <2>3. QED
    BY <2>1, <2>2
<1>12. GoodReturn(Back(c)) /\ (Base(c) = -1 <=> ~InFunction(prog, Back(c))) /\ Vec(c) \in Addr \cup {Nil}
       /\ m = Base(c) + prog.shape[Back(c)].height /\ Prev(c) = Base(c) + prog.shape[Back(c)].mark
  BY <1>3, <1>m DEF Linked
<1>13. FuncAt(ip') = FuncAt(Back(c)) /\ ip' \in DOMAIN prog.shape
       /\ \/ ip' = Back(c) /\ fp < sp /\ Shape.known
          \/ ~prog.shape[ip'].known
  <2>1. CASE ip' = Back(fp) /\ fp < sp /\ Shape.known
    BY <2>1, <1>12, <1>c DEF GoodReturn
  <2>2. CASE Leads(prog, Back(fp) - 1, ip', Handling)
    <3>1. FuncAt(ip') = FuncAt(Back(c) - 1) /\ ip' \in DOMAIN prog.shape /\ prog.shape[ip'] = Handling
      BY <2>2, <1>c DEF Leads, FuncAt, Funcs
    <3>2. QED
      BY <3>1, <1>12 DEF GoodReturn, Handling
  <2>3. QED
    BY <2>1, <2>2
<1>14. InFunction(prog, ip') = InFunction(prog, Back(c)) /\ ParamsAt(prog, ip') = ParamsAt(prog, Back(c))
  BY <1>13 DEF FuncAt, Funcs, InFunction, ParamsAt
<1>15. sp' > pp' + ParamsAt(prog, ip')
  BY <1>4, <1>5, <1>14
<1>16. Here'
  <2>1. pp' = -1 <=> ~InFunction(prog, ip')
    BY <1>5, <1>12, <1>14
  <2>2. Shape'.known => sp' = pp' + Shape'.height /\ fp' = pp' + Shape'.mark
    BY <1>5, <1>12, <1>13 DEF Shape
  <2>3. sp' >= pp' + ParamsAt(prog, ip')
    BY <1>4, <1>5, <1>15, <1>14
  <2>4. QED
    BY <1>5, <1>13, <2>1, <2>2, <2>3 DEF Here
<1>17. Owned(G, B)'
  <2>1. \A d \in G : d > Base(c) => Vec(d) = Vec(c) /\ FuncAt(Back(d)) = FuncAt(Back(c))
    <3> SUFFICES ASSUME NEW d \in G, d > Base(c)
                 PROVE  Vec(d) = Vec(c) /\ FuncAt(Back(d)) = FuncAt(Back(c))
      OBVIOUS
    <3>1. d \in F /\ d < c /\ c \in F
      BY <1>7
    <3>2. CASE c \in A
      <4>1. Base(c) < d /\ d <= c
        BY <1>3, <1>4, <1>7, <3>1
      <4>2. QED
        BY <1>2, <3>1, <3>2, <4>1 DEF Owned
    <3>3. CASE c \notin A
      BY <1>2, <1>11, <3>1, <3>3 DEF Owned
    <3>4. QED
      BY <3>2, <3>3
  <2>2. \A a \in B, d \in G : Base(a) < d /\ d <= a => Vec(d) = Vec(a) /\ FuncAt(Back(d)) = FuncAt(Back(a))
    BY <1>2 DEF Owned
  <2>3. \A x : FuncAt(x)' = FuncAt(x)
    BY <1>5 DEF FuncAt, Funcs
  <2>4. B \subseteq G
    BY <1>2
  <2>5. \A d \in G : d > pp' => Vec(d)' = gp' /\ FuncAt(Back(d)') = FuncAt(ip')
    BY <1>5, <1>10, <1>13, <2>1
  <2>6. \A a \in B, d \in G : Base(a)' < d /\ d <= a => Vec(d)' = Vec(a)' /\ FuncAt(Back(d)') = FuncAt(Back(a)')
    BY <1>10, <2>2, <2>4
  <2> HIDE DEF G, B
  <2>7. QED
    BY <2>3, <2>5, <2>6 DEF Owned
<1>18. Values(G)'
  <2> SUFFICES ASSUME NEW i \in 0 .. sp', Outside(G, i)
               PROVE  stack'[i].type = "ADDR" \/ (i = sp' /\ ~Shape'.known /\ sp' > pp' + ParamsAt(prog', ip'))
    BY DEF Values, Outside
  <2>1. CASE i = m
    <3>1. CASE ip' = Back(c) /\ fp < sp /\ Shape.known
      <4>1. sp \in 0 .. sp /\ Outside(F, sp)
        BY <1>2, <3>1 DEF Outside
      <4>2. QED
        BY <1>2, <1>6, <2>1, <3>1, <4>1 DEF Values
    <3>2. CASE ~prog.shape[ip'].known
      BY <1>5, <1>15, <2>1, <3>2 DEF Shape
    <3>3. QED
      BY <1>13, <3>1, <3>2
  <2>2. CASE i # m
    <3>1. i \in 0 .. m - 1 /\ i \in 0 .. sp /\ i # sp
      BY <1>2, <1>3, <1>5, <1>6, <2>2
    <3>2. Outside(F, i)
      BY <1>m, <3>1, <1>3 DEF Outside
    <3>3. stack[i].type = "ADDR"
      BY <1>2, <3>1, <3>2 DEF Values
    <3>4. QED
      BY <1>6, <3>1, <3>3
  <2>3. QED
    BY <2>1, <2>2
<1>19. FrameInv(G, B)'
  <2>1. G \subseteq 4 .. sp' /\ B \subseteq G
    BY <1>2, <1>5, <1>6, <1>7
  <2>2. IsGreatest(fp', G, sp' + 1)
    BY <1>4, <1>5, <1>6, <1>7, <1>3 DEF IsGreatest
  <2>3. IsGreatest(pp', B, sp' + 1)
    BY <1>2, <1>3, <1>4, <1>5, <1>6, <1>7, <2>1 DEF IsGreatest
  <2>4. QED
    BY <1>9, <1>16, <1>17, <1>18, <2>1, <2>2, <2>3 DEF FrameInv
<1>20. Basics'
  BY <1>2, <1>4, <1>5, <1>6, <1>12, SMTT(30) DEF Inv, Basics
<1>21. Shaped(prog') /\ G \in SUBSET Int /\ B \in SUBSET Int
  BY <1>5 DEF Inv
<1> HIDE DEF G, B
<1>22. QED
  BY <1>19, <1>20, <1>21 DEF Inv

LEMMA RetStep ==
  ASSUME Inv, ExecRet
  PROVE  Inv'
<1>1. running = "RUNNING" /\ bc.type = "RET"
  BY DEF ExecRet, Instr, Runs
<1>2. Returns(prog, ip)
  BY <1>1, ShapedHere DEF ShapedAt, bc, Code
<1>3. Shape.known /\ Shape.mark = 0 /\ Shape.height > 0 /\ Shape.height \in Nat /\ InFunction(prog, ip)
  BY <1>1, <1>2, ShapedHere DEF Returns, Shape
<1>4. sp = pp + Shape.height /\ fp = pp + Shape.mark /\ (pp = -1 <=> ~InFunction(prog, ip)) /\ pp \in Int
  BY <1>1, <1>3 DEF Inv, FrameInv, Here, Basics
<1>5. fp # -1 /\ fp < sp
  BY <1>3, <1>4
<1>6. LeaveFrame /\ ip' = Back(fp) /\ UNCHANGED <<prog, running>>
  BY DEF ExecRet, mode, Back
<1>7. QED
  BY <1>1, <1>3, <1>5, <1>6, LeaveStep

LEMMA RethrowStep ==
  ASSUME Inv, ExecRethrow
  PROVE  Inv'
<1>1. running = "RUNNING" /\ bc.type = "RETHROW"
  BY DEF ExecRethrow, Instr, Runs
<1>2. InFunction(prog, ip)
  BY <1>1, ShapedHere DEF ShapedAt, bc, Code
<1>3. PICK F \in SUBSET Int, A \in SUBSET Int : FrameInv(F, A)
  BY <1>1 DEF Inv
<1>4. pp # -1
  BY <1>2, <1>3 DEF FrameInv, Here
<1>5. fp # -1 /\ fp \in F /\ Linked(F, A, fp)
  BY <1>1, <1>3, <1>4, FrameFacts
<1>6. LeaveFrame /\ ip' = HandlerOf(Back(fp) - 1) /\ UNCHANGED <<prog, running>>
  BY DEF ExecRethrow, mode, Back
<1>7. Back(fp) - 1 \in DOMAIN prog.shape /\ Code[Back(fp) - 1].type = "CALL"
  BY <1>5 DEF Linked, GoodReturn
<1>8. Handled(prog, Back(fp) - 1)
  BY <1>7 DEF Inv, Shaped
<1>9. Leads(prog, Back(fp) - 1, ip', Handling)
  BY <1>6, <1>7, <1>8 DEF Handled, MayFail, HandlerOf, ExcTab, Code
<1>10. QED
  BY <1>1, <1>5, <1>6, <1>9, LeaveStep

LEMMA ClearStackStep ==
  ASSUME Inv, ExecClearStack
  PROVE  Inv'
<1>1. running = "RUNNING" /\ bc.type = "CLEAR_STACK"
  BY DEF ExecClearStack, Instr, Runs
<1>2. PICK F \in SUBSET Int, A \in SUBSET Int : FrameInv(F, A)
  BY <1>1 DEF Inv
<1>3. Clears(prog, ip)
  BY <1>1, ShapedHere DEF ShapedAt, bc, Code
<1>4. /\ sp \in Int /\ fp \in Int /\ pp \in Int /\ -1 <= pp /\ pp <= fp /\ fp <= sp /\ sp < StackSize
      /\ StackSize \in Nat /\ stack = [i \in 0 .. StackSize - 1 |-> stack[i]]
      /\ F \subseteq 4 .. sp /\ A \subseteq F
      /\ fp \in F \cup {-1} /\ pp \in A \cup {-1}
      /\ (\A d \in F : d <= fp) /\ (\A a \in A : a <= pp)
      /\ (\A d \in F : Linked(F, A, d))
      /\ Owned(F, A) /\ Here /\ Values(F)
  BY <1>1, <1>2, FrameFacts
<1>n. PICK n : n = ParamsAt(prog, ip)
  OBVIOUS
<1>5. ~Shape.known /\ n \in Nat /\ bc.count = n /\ Leads(prog, ip, ip + 1, At(n, 0))
  BY <1>1, <1>3, <1>n, ShapedHere DEF Clears, Shape, bc, Code
<1>6. sp >= pp + n
  BY <1>4, <1>5, <1>n DEF Here
<1>7. /\ fp' = pp /\ sp' = pp + n /\ stack' = stack /\ pp' = pp /\ gp' = gp /\ prog' = prog /\ running' = running
      /\ ip' = ip + 1
  BY <1>5 DEF ExecClearStack, Advance, mode
<1>p. PICK p \in Int : p = pp
  BY <1>4
<1> DEFINE G == {d \in F : d <= p}
<1>8. A \subseteq G /\ G \subseteq F /\ G \subseteq Int
  BY <1>4, <1>p
<1>9. \A d \in G : Linked(G, A, d)'
  <2> SUFFICES ASSUME NEW d \in G
               PROVE  Linked(G, A, d)'
    OBVIOUS
  <2>1. d \in Int /\ d \in F /\ d <= p /\ Linked(F, A, d)
    BY <1>4
  <2>2. \A e \in Int : e < d => (e \in F <=> e \in G) /\ (e \in A <=> e \in A)
    BY <1>4, <2>1
  <2>3. \A i \in d - 4 .. d : stack'[i] = stack[i]
    BY <1>7
  <2> HIDE DEF G
  <2>4. QED
    BY <1>7, <1>8, <2>1, <2>2, <2>3, LinkedKept
<1>10. Here' /\ FuncAt(ip') = FuncAt(ip)
  <2>1. At(n, 0).known /\ At(n, 0).height = n /\ At(n, 0).mark = 0
    BY DEF At
  <2>2. sp' = pp + n /\ fp' = pp + 0
    BY <1>4, <1>7
  <2>3. QED
    BY <1>1, <1>5, <1>7, <2>1, <2>2, Arrives
<1>11. Owned(G, A)'
  <2>1. \A d \in G : ~(d > pp')
    BY <1>4, <1>7, <1>p
  <2>2. \A a \in A, d \in G : Base(a) < d /\ d <= a => Vec(d) = Vec(a) /\ FuncAt(Back(d)) = FuncAt(Back(a))
    BY <1>4 DEF Owned
  <2>3. QED
    BY <1>7, <2>1, <2>2 DEF Owned, Base, Vec, Back, FuncAt, Funcs
<1>12. Values(G)'
  <2> SUFFICES ASSUME NEW i \in 0 .. sp', Outside(G, i)
               PROVE  stack[i].type = "ADDR"
    BY <1>7 DEF Values, Outside
  <2>1. i \in 0 .. sp /\ i <= pp + n
    BY <1>4, <1>5, <1>6, <1>7
  <2>2. Outside(F, i)
    <3> SUFFICES ASSUME NEW d \in F, d > p
                 PROVE  i < d - 4
      BY <1>4, <1>p DEF Outside
    <3>1. Vec(d) = gp /\ FuncAt(Back(d)) = FuncAt(ip)
      BY <1>4, <1>p DEF Owned
    <3>2. ParamsAt(prog, Back(d)) = n
      BY <1>n, <3>1 DEF ParamsAt, FuncAt, Funcs
    <3>3. d \in Int /\ Linked(F, A, d)
      BY <1>4
    <3>4. d - 4 > Base(d) + n /\ Base(d) \in Int /\ -1 <= Base(d) /\ \A a \in A : a < d => a <= Base(d)
      BY <1>4, <3>2, <3>3, LinkFacts
    <3>5. pp <= Base(d)
      BY <1>4, <1>p, <3>4
    <3>6. QED
      BY <1>4, <1>5, <2>1, <3>3, <3>4, <3>5
  <2>3. stack[i].type = "ADDR" \/ (i = sp /\ sp > pp + n)
    BY <1>4, <1>n, <2>1, <2>2 DEF Values
  <2>4. ~(i = sp /\ sp > pp + n)
    BY <1>4, <1>5, <2>1
  <2>5. QED
    BY <2>3, <2>4
<1>13. FrameInv(G, A)'
  <2>1. G \subseteq 4 .. sp'
    BY <1>4, <1>5, <1>7, <1>p
  <2>2. IsGreatest(fp', G, sp' + 1) /\ IsGreatest(pp', A, sp' + 1)
    BY <1>4, <1>5, <1>7, <1>8, <1>p DEF IsGreatest
  <2>3. QED
    BY <1>8, <1>9, <1>10, <1>11, <1>12, <2>1, <2>2 DEF FrameInv
<1>14. Basics'
  BY <1>4, <1>5, <1>6, <1>7 DEF Inv, Basics
<1>15. Shaped(prog') /\ G \in SUBSET Int
  BY <1>7, <1>8 DEF Inv
<1> HIDE DEF G
<1>16. QED
  BY <1>13, <1>14, <1>15 DEF Inv

-----------------------------------------------------------------------------
(***************************************************************************)
(* The other instructions.                                                 *)
(***************************************************************************)

\* Those that no other case of ShapedAt is about work above the youngest frame.
LEMMA WorksHere ==
  ASSUME Inv, running = "RUNNING",
         bc.type \notin {"MARK", "CALL", "RET", "RETHROW", "CLEAR_STACK", "JUMP", "LABEL", "FUNC_DEF", "FUNC_OBJ",
                         "FUNC_FFI_TYPE", "HALT", "UNHANDLED_EXCEPTION"}
  PROVE  Works(prog, ip)
BY ShapedHere DEF ShapedAt, bc, Code

\* Above the youngest frame there are values.
LEMMA Operands ==
  ASSUME Inv, running = "RUNNING", Shape.known
  PROVE  \A i \in fp + 1 .. sp : stack[i].type = "ADDR"
<1>1. PICK F \in SUBSET Int, A \in SUBSET Int : FrameInv(F, A)
  BY DEF Inv
<1>2. /\ sp \in Int /\ fp \in Int /\ -1 <= fp
      /\ F \subseteq 4 .. sp /\ (\A d \in F : d <= fp) /\ Values(F)
  BY <1>1, FrameFacts
<1>3. QED
  BY <1>2 DEF Values, Outside

LEMMA PushStep ==
  ASSUME Inv, running = "RUNNING", Works(prog, ip), Takes(prog, ip) = 0, Leaves(prog, ip) = 1,
         NEW p, Push(p), Advance, UNCHANGED <<fp, pp, gp, prog, running>>, sp + 1 < StackSize
  PROVE  Inv'
<1>1. /\ sp \in Int /\ -1 <= sp /\ stack = [i \in 0 .. StackSize - 1 |-> stack[i]] /\ StackSize \in Nat
  BY SizesAssumption DEF Inv, Basics
<1>2. /\ sp' = sp - Takes(prog, ip) + Leaves(prog, ip) /\ sp' = sp + 1
      /\ stack' = [i \in 0 .. StackSize - 1 |-> IF i = sp + 1 THEN AddrEntry(p) ELSE stack[i]]
  BY <1>1, SMTT(30) DEF Push
<1>3. \A i \in 0 .. sp - Takes(prog, ip) : stack'[i] = stack[i]
  BY <1>1, <1>2
<1>4. \A i \in sp - Takes(prog, ip) + 1 .. sp' : stack'[i].type = "ADDR"
  <2>1. \A i \in sp - Takes(prog, ip) + 1 .. sp' : stack'[i] = AddrEntry(p)
    BY <1>1, <1>2
  <2>2. QED
    BY <2>1 DEF AddrEntry
<1>5. stack' = [i \in 0 .. StackSize - 1 |-> stack'[i]]
  BY <1>2
<1>6. ip' = ip + 1 /\ sp' < StackSize
  BY <1>2 DEF Advance
<1>7. QED
  BY <1>2, <1>3, <1>4, <1>5, <1>6, WorksStep

LEMMA ReplaceStep ==
  ASSUME Inv, running = "RUNNING", Works(prog, ip), Leaves(prog, ip) = 1,
         NEW p, Replace(Takes(prog, ip), p), Advance, UNCHANGED <<fp, pp, gp, prog, running>>,
         sp - Takes(prog, ip) + 1 < StackSize
  PROVE  Inv'
<1>1. /\ sp \in Int /\ fp \in Int /\ -1 <= fp /\ stack = [i \in 0 .. StackSize - 1 |-> stack[i]] /\ StackSize \in Nat
  BY SizesAssumption DEF Inv, Basics
<1>t. PICK t : t = Takes(prog, ip)
  OBVIOUS
<1>2. t \in Nat /\ fp <= sp - t
  <2>1. t \in Nat /\ Shape.known /\ t <= Shape.height - Shape.mark
    BY <1>t DEF Works, Shape
  <2>2. sp = pp + Shape.height /\ fp = pp + Shape.mark /\ pp \in Int /\ Shape.height \in Nat /\ Shape.mark \in Nat
    BY <2>1, ShapedHere DEF Inv, FrameInv, Here, Basics
  <2>3. QED
    BY <1>1, <2>1, <2>2
<1>3. /\ sp' = sp - t + Leaves(prog, ip) /\ sp' = sp - t + 1
      /\ stack' = [i \in 0 .. StackSize - 1 |-> IF i = sp - t + 1 THEN AddrEntry(p) ELSE stack[i]]
  BY <1>1, <1>2, <1>t DEF Replace
<1>4. \A i \in 0 .. sp - t : stack'[i] = stack[i]
  BY <1>1, <1>2, <1>3, <1>t
<1>5. \A i \in sp - t + 1 .. sp' : stack'[i].type = "ADDR"
  <2>1. \A i \in sp - t + 1 .. sp' : stack'[i] = AddrEntry(p)
    BY <1>1, <1>2, <1>3, <1>t
  <2>2. QED
    BY <2>1 DEF AddrEntry
<1>6. stack' = [i \in 0 .. StackSize - 1 |-> stack'[i]]
  BY <1>3
<1>7. ip' = ip + 1 /\ sp' < StackSize
  BY <1>3, <1>t DEF Advance
<1>8. QED
  BY <1>t, <1>3, <1>4, <1>5, <1>6, <1>7, WorksStep

\* One that takes its operands, or all but the lowest, and writes nothing.
LEMMA PopStep ==
  ASSUME Inv, running = "RUNNING", Works(prog, ip),
         UNCHANGED <<stack, fp, pp, gp, prog, running>>,
         sp' = sp - Takes(prog, ip) + Leaves(prog, ip), sp' <= sp,
         ip' = ip + 1 \/ (bc.type = "JUMPZ" /\ ip' = ip + 1 + bc.offset)
  PROVE  Inv'
<1>1. /\ sp \in Int /\ fp \in Int /\ -1 <= fp /\ sp < StackSize
      /\ stack = [i \in 0 .. StackSize - 1 |-> stack[i]] /\ StackSize \in Nat
  BY SizesAssumption DEF Inv, Basics
<1>2. Takes(prog, ip) \in Nat /\ Leaves(prog, ip) \in Nat /\ Shape.known /\ fp <= sp - Takes(prog, ip)
  <2>1. /\ Takes(prog, ip) \in Nat /\ Leaves(prog, ip) \in Nat
        /\ Shape.known /\ Takes(prog, ip) <= Shape.height - Shape.mark
    BY DEF Works, Shape
  <2>2. sp = pp + Shape.height /\ fp = pp + Shape.mark /\ pp \in Int /\ Shape.height \in Nat /\ Shape.mark \in Nat
    BY <2>1, ShapedHere, SMTT(30) DEF Inv, FrameInv, Here, Basics
  <2>3. QED
    BY <1>1, <2>1, <2>2, SMTT(30)
<1>3. \A i \in sp - Takes(prog, ip) + 1 .. sp' : i \in fp + 1 .. sp
  BY <1>1, <1>2
<1>4. \A i \in sp - Takes(prog, ip) + 1 .. sp' : stack'[i].type = "ADDR"
  BY <1>2, <1>3, Operands
<1>5. sp' < StackSize /\ stack' = [i \in 0 .. StackSize - 1 |-> stack'[i]]
  BY <1>1, <1>2
<1>6. \A i \in 0 .. sp - Takes(prog, ip) : stack'[i] = stack[i]
  OBVIOUS
<1>7. QED
  BY <1>4, <1>5, <1>6, WorksStep

\* The machine stops.
LEMMA StopStep ==
  ASSUME Inv, UNCHANGED <<stack, sp, fp, pp, gp, prog>>, running' \in {"HALT", "ERROR", "EXIT"}
  PROVE  Inv'
BY DEF Inv, Basics

\* What Failure takes from the stack it finds there, and what may fail is known.
LEMMA FirstBadBounds ==
  ASSUME NEW n \in Nat, NEW S \in SUBSET (1 .. n), S # {}
  PROVE  \E i \in S : \A j \in 1 .. i - 1 : j \notin S
<1>1. PICK i \in S : \A j \in S : i <= j
  <2>1. S \subseteq Nat
    OBVIOUS
  <2>2. PICK i \in S : \A j \in S : ~(<<j, i>> \in OpToRel(<, Nat))
    BY <2>1, WFMin, NatLessThanWellFounded
  <2>3. \A k, j \in Nat : k < j => <<k, j>> \in OpToRel(<, Nat)
    BY DEF OpToRel
  <2>4. ASSUME NEW j \in S PROVE i <= j
    <3>1. i \in Nat /\ j \in Nat
      BY <2>1
    <3>2. ~(j < i)
      BY <2>2, <2>3, <3>1
    <3>3. QED
      BY <3>1, <3>2
  <2>5. QED
    BY <2>4
<1>2. \A j \in 1 .. i - 1 : j \notin S
  BY <1>1
<1>3. QED
  BY <1>2

LEMMA NewArrayFailureTakes ==
  ASSUME NEW n \in Nat
  PROVE  NewArrayFailure(n).taken \in 0 .. n
<1> DEFINE S == {i \in 1 .. n : IntAt(Top(i - 1)) <= 0}
<1>1. CASE S = {}
  BY <1>1 DEF NewArrayFailure, SomeBad, NoFailure
<1>2. CASE S # {}
  <2>1. \E i \in S : \A j \in 1 .. i - 1 : j \notin S
    BY <1>2, FirstBadBounds
  <2>2. \E i \in 1 .. n : IntAt(Top(i - 1)) <= 0 /\ \A j \in 1 .. i - 1 : ~(IntAt(Top(j - 1)) <= 0)
    BY <2>1
  <2>3. (CHOOSE i \in 1 .. n : IntAt(Top(i - 1)) <= 0 /\ \A j \in 1 .. i - 1 : ~(IntAt(Top(j - 1)) <= 0)) \in 1 .. n
    BY <2>2
  <2>4. QED
    BY <2>3, <1>2 DEF NewArrayFailure, SomeBad, FirstBad, Failing
<1>3. QED
  BY <1>1, <1>2

LEMMA DerefFailureTakes ==
  ASSUME NEW n \in Nat
  PROVE  DerefFailure(n).taken \in 0 .. n + 1
<1> DEFINE S == {i \in 1 .. n : IntAt(Top(i - 1)) < 0}
<1>1. CASE S = {}
  BY <1>1 DEF DerefFailure, SomeBad, NoFailure, Failing
<1>2. CASE S # {}
  <2>1. \E i \in S : \A j \in 1 .. i - 1 : j \notin S
    BY <1>2, FirstBadBounds
  <2>2. \E i \in 1 .. n : IntAt(Top(i - 1)) < 0 /\ \A j \in 1 .. i - 1 : ~(IntAt(Top(j - 1)) < 0)
    BY <2>1
  <2>3. (CHOOSE i \in 1 .. n : IntAt(Top(i - 1)) < 0 /\ \A j \in 1 .. i - 1 : ~(IntAt(Top(j - 1)) < 0)) \in 1 .. n
    BY <2>2
  <2>4. QED
    BY <2>3, <1>2 DEF DerefFailure, SomeBad, FirstBad, Failing
<1>3. QED
  BY <1>1, <1>2

LEMMA FailureTakes ==
  ASSUME Inv, running = "RUNNING", Fails
  PROVE  bc.type \in MayFail /\ Failure.taken \in 0 .. Takes(prog, ip)
<1>1. bc.type \in MayFail
  BY DEF Fails, Failure, MayFail
<1>2. Takes(prog, ip) \in Nat
  <2>1. CASE bc.type = "CALL"
    BY <2>1 DEF Takes, bc, Code, Assignments
  <2>2. CASE bc.type # "CALL"
    BY <1>1, <2>2, WorksHere DEF Works, MayFail
  <2>3. QED
    BY <2>1, <2>2
<1>3. CASE bc.type = "MK_ARRAY"
  <2>1. Failure = NewArrayFailure(bc.dims)
    BY <1>3 DEF Failure
  <2>2. Works(prog, ip)
    BY <1>3, WorksHere
  <2>3. Takes(prog, ip) = bc.dims
    BY <1>3 DEF Takes, bc, Code, Assignments
  <2>4. QED
    BY <1>1, <1>2, <2>1, <2>3, NewArrayFailureTakes
<1>4. CASE bc.type = "ARRAY_DEREF"
  <2>1. Failure = DerefFailure(bc.dims)
    BY <1>4 DEF Failure
  <2>2. Works(prog, ip)
    BY <1>4, WorksHere
  <2>3. Takes(prog, ip) = bc.dims + 1 /\ bc.dims \in Nat
    BY <1>4, <2>2 DEF Takes, bc, Code, Assignments, Works
  <2>4. QED
    BY <1>1, <2>1, <2>3, DerefFailureTakes
<1>5. CASE bc.type \notin {"MK_ARRAY", "ARRAY_DEREF"}
  <2>1. Failure.taken = 0
    BY <1>1, <1>5 DEF Failure, MayFail, CharFailure, SizesFailure, FailsIf, Failing, NoFailure
  <2>2. QED
    BY <1>1, <1>2, <2>1
<1>6. QED
  BY <1>3, <1>4, <1>5

\* The instructions that push one value.
Pushing == {"INT", "FLOAT", "CHAR", "STRING", "ID_LOCAL", "ID_DIM_LOCAL", "ID_GLOBAL", "COPYGLOB", "PUSH_EXCEPT",
            "NIL_RECORD_REF", "FUNC_FFI"}
LEMMA PushingStep ==
  ASSUME Inv, running = "RUNNING", bc.type \in Pushing, StackFits,
         NEW p, Push(p), Advance, UNCHANGED <<fp, pp, gp, prog, running>>
  PROVE  Inv'
<1>1. Works(prog, ip)
  BY WorksHere DEF Pushing
<1>2. Takes(prog, ip) = 0
  BY DEF Takes, Pushing, bc, Code, Assignments
<1>3. Leaves(prog, ip) = 1
  BY DEF Leaves, Pushing, bc, Code
<1>4. sp + 1 < StackSize
  BY DEF StackFits, Pushes, Pushing, Literals
<1>5. QED
  BY <1>1, <1>2, <1>3, <1>4, PushStep

\* The instructions that replace their operands by one value.
Replacing == {"GLOBAL_VEC", "RECORD", "ID_FUNC_ADDR", "OP", "NOT", "NEG", "INT_TO_FLOAT", "FLOAT_TO_INT", "BUILD_IN",
              "STRING_DEREF", "ATTR", "MK_ARRAY", "MK_INIT_ARRAY", "ARRAY_DEREF", "NEG_ARR", "ADD_ARR", "SUB_ARR",
              "MUL_ARR", "MUL_ARR_ARR"}
LEMMA ReplacingStep ==
  ASSUME Inv, running = "RUNNING", bc.type \in Replacing, StackFits,
         NEW p, Replace(Takes(prog, ip), p), Advance, UNCHANGED <<fp, pp, gp, prog, running>>
  PROVE  Inv'
<1>1. Works(prog, ip)
  BY WorksHere DEF Replacing
<1>2. Leaves(prog, ip) = 1
  BY DEF Leaves, Replacing, bc, Code
<1>3. Takes(prog, ip) \in Nat /\ sp \in Int /\ sp < StackSize /\ StackSize \in Nat
  BY <1>1, SizesAssumption DEF Works, Inv, Basics
<1>4. sp - Takes(prog, ip) + 1 < StackSize
  <2>1. CASE bc.type \in {"GLOBAL_VEC", "RECORD"}
    <3>1. Takes(prog, ip) = bc.count /\ Pushes(bc) = 1 - bc.count
      BY <2>1 DEF Takes, Pushes, bc, Code, Assignments, Literals
    <3>2. sp + Pushes(bc) < StackSize
      BY DEF StackFits
    <3>3. QED
      BY <1>3, <3>1, <3>2
  <2>2. CASE bc.type \in {"MK_ARRAY", "MK_INIT_ARRAY", "ARRAY_DEREF"}
    <3>1. Takes(prog, ip) > 0
      BY <1>1, <2>2 DEF Works, bc, Code
    <3>2. QED
      BY <1>3, <3>1
  <2>3. CASE bc.type \in Replacing \ {"GLOBAL_VEC", "RECORD", "MK_ARRAY", "MK_INIT_ARRAY", "ARRAY_DEREF"}
    <3>1. Takes(prog, ip) \in {1, 2}
      BY <2>3 DEF Takes, bc, Code, Assignments, Replacing, ArgumentsOf
    <3>2. QED
      BY <1>3, <3>1
  <2>4. QED
    BY <2>1, <2>2, <2>3
<1>5. QED
  BY <1>1, <1>2, <1>4, ReplaceStep

LEMMA SlideStep ==
  ASSUME Inv, ExecSlide
  PROVE  Inv'
<1>1. running = "RUNNING" /\ bc.type = "SLIDE"
  BY DEF ExecSlide, Instr, Runs
<1>2. /\ UNCHANGED <<fp, pp, gp, prog, running>> /\ ip' = ip + 1
  BY DEF ExecSlide, Advance, regs, mode
<1>3. Works(prog, ip)
  BY <1>1, WorksHere
<1>4. PICK q, m : q = bc.q /\ m = bc.m
  OBVIOUS
<1>5. Takes(prog, ip) = q + m /\ Leaves(prog, ip) = m /\ q \in Nat /\ m \in Nat
  <2>1. Takes(prog, ip) = q + m /\ Leaves(prog, ip) = m
    BY <1>1, <1>4 DEF Takes, Leaves, bc, Code, Assignments
  <2>2. QED
    BY <1>1, <1>3, <1>4, <2>1 DEF Works, bc, Code
<1>6. CASE q = 0
  <2>1. UNCHANGED <<stack, sp>>
    BY <1>4, <1>6 DEF ExecSlide
  <2>2. sp' = sp - Takes(prog, ip) + Leaves(prog, ip) /\ sp' <= sp
    BY <1>5, <1>6, <2>1 DEF Inv, Basics
  <2>3. QED
    BY <1>1, <1>2, <1>3, <2>1, <2>2, PopStep
<1>7. CASE q # 0
  <2>1. /\ sp \in Int /\ fp \in Int /\ -1 <= fp /\ sp < StackSize /\ StackSize \in Nat
        /\ stack = [i \in 0 .. StackSize - 1 |-> stack[i]]
    BY SizesAssumption DEF Inv, Basics
  <2>2. /\ sp' = sp - q
        /\ stack' = [i \in 0 .. StackSize - 1 |->
                       IF i \in sp - q - m + 1 .. sp - q THEN stack[i + q] ELSE stack[i]]
    BY <1>4, <1>7, <2>1 DEF ExecSlide, Slid
  <2>3. Shape.known /\ q + m <= Shape.height - Shape.mark
    BY <1>3, <1>5 DEF Works, Shape
  <2>4. fp <= sp - (q + m)
    <3>1. sp = pp + Shape.height /\ fp = pp + Shape.mark /\ pp \in Int /\ Shape.height \in Nat /\ Shape.mark \in Nat
      BY <1>1, <2>3, ShapedHere DEF Inv, FrameInv, Here, Basics
    <3>2. QED
      BY <1>5, <2>3, <3>1
  <2>5. \A i \in 0 .. sp - (q + m) : stack'[i] = stack[i]
    BY <1>5, <2>1, <2>2
  <2>6. \A i \in sp - (q + m) + 1 .. sp' : stack'[i].type = "ADDR"
    <3> SUFFICES ASSUME NEW i \in sp - (q + m) + 1 .. sp'
                 PROVE  stack'[i].type = "ADDR"
      OBVIOUS
    <3>1. i \in 0 .. StackSize - 1 /\ i \in sp - q - m + 1 .. sp - q /\ i + q \in fp + 1 .. sp
      BY <1>5, <2>1, <2>2, <2>4
    <3>2. stack'[i] = stack[i + q]
      BY <2>2, <3>1
    <3>3. QED
      BY <1>1, <2>3, <3>1, <3>2, Operands
  <2>7. sp' = sp - (q + m) + m /\ sp' < StackSize
    BY <1>5, <2>1, <2>2
  <2>8. stack' = [i \in 0 .. StackSize - 1 |-> stack'[i]]
    BY <2>2
  <2>9. QED
    BY <1>1, <1>2, <1>3, <1>5, <2>5, <2>6, <2>7, <2>8, WorksStep
<1>8. QED
  BY <1>6, <1>7

\* The instructions that push several values.
LEMMA PushingMany ==
  ASSUME Inv, running = "RUNNING", bc.type \in {"ALLOC", "PUSH_PARAM"}, StackFits,
         UNCHANGED <<fp, pp, gp, prog, running>>, Advance,
         NEW n, n = Leaves(prog, ip), n = Pushes(bc), sp' = sp + n,
         NEW entry,
         stack' = [i \in DOMAIN stack |-> IF i \in sp + 1 .. sp + n THEN AddrEntry(entry[i - sp]) ELSE stack[i]]
  PROVE  Inv'
<1>1. /\ sp \in Int /\ -1 <= sp /\ stack = [i \in 0 .. StackSize - 1 |-> stack[i]] /\ StackSize \in Nat
  BY SizesAssumption DEF Inv, Basics
<1>2. Works(prog, ip) /\ n \in Nat
  BY WorksHere DEF Works
<1>3. Takes(prog, ip) = 0
  BY DEF Takes, bc, Code, Assignments
<1>4. sp' = sp - 0 + n /\ sp' < StackSize
  BY <1>1, <1>2 DEF StackFits
<1>5. \A i \in 0 .. sp - 0 : stack'[i] = stack[i]
  BY <1>1, <1>2, <1>4
<1>6. \A i \in sp - 0 + 1 .. sp' : stack'[i].type = "ADDR"
  <2> SUFFICES ASSUME NEW i \in sp - 0 + 1 .. sp'
               PROVE  stack'[i].type = "ADDR"
    OBVIOUS
  <2>1. i \in 0 .. StackSize - 1 /\ i \in sp + 1 .. sp + n
    BY <1>1, <1>2, <1>4
  <2>2. stack'[i] = AddrEntry(entry[i - sp])
    BY <1>1, <2>1
  <2>3. QED
    BY <2>2 DEF AddrEntry
<1>7. stack' = [i \in 0 .. StackSize - 1 |-> stack'[i]]
  BY <1>1
<1>8. QED
  BY <1>2, <1>3, <1>4, <1>5, <1>6, <1>7, WorksStep DEF Advance

LEMMA AllocStep ==
  ASSUME Inv, ExecAlloc
  PROVE  Inv'
<1>1. running = "RUNNING" /\ bc.type = "ALLOC" /\ StackFits
  BY DEF ExecAlloc, Instr, Runs
<1>2. UNCHANGED <<fp, pp, gp, prog, running>> /\ Advance
  BY DEF ExecAlloc, regs, mode
<1>3. bc.n = Leaves(prog, ip) /\ bc.n = Pushes(bc)
  BY <1>1 DEF Leaves, Pushes, Literals, bc, Code
<1> DEFINE entry == [k \in 1 .. bc.n |-> New(k)]
<1>4. stack' = [i \in DOMAIN stack |->
                  IF i \in sp + 1 .. sp + bc.n THEN AddrEntry(entry[i - sp]) ELSE stack[i]]
  <2>1. sp \in Int /\ bc.n \in Nat /\ DOMAIN stack \subseteq Int
    <3>1. Works(prog, ip)
      BY <1>1, WorksHere
    <3>2. sp \in Int /\ DOMAIN stack = 0 .. StackSize - 1
      BY DEF Inv, Basics
    <3>3. QED
      BY <1>3, <3>1, <3>2 DEF Works
  <2>2. \A i \in sp + 1 .. sp + bc.n : i - sp \in 1 .. bc.n
    BY <2>1
  <2>3. \A i \in sp + 1 .. sp + bc.n : entry[i - sp] = New(i - sp)
    BY <2>2
  <2>4. stack' = [i \in DOMAIN stack |-> IF i \in sp + 1 .. sp + bc.n THEN AddrEntry(New(i - sp)) ELSE stack[i]]
    BY DEF ExecAlloc
  <2> HIDE DEF entry
  <2>5. QED
    BY <2>3, <2>4
<1>5. sp' = sp + bc.n
  BY DEF ExecAlloc
<1> HIDE DEF entry
<1>6. QED
  BY <1>1, <1>2, <1>3, <1>4, <1>5, PushingMany

LEMMA PushParamStep ==
  ASSUME Inv, ExecPushParam
  PROVE  Inv'
<1>1. running = "RUNNING" /\ bc.type = "PUSH_PARAM" /\ StackFits
  BY DEF ExecPushParam, Instr, Runs
<1>2. UNCHANGED <<fp, pp, gp, prog, running>> /\ Advance
  BY DEF ExecPushParam, regs, mode
<1>n. PICK n : n = Len(Params)
  OBVIOUS
<1>3. n = Leaves(prog, ip) /\ n = Pushes(bc)
  BY <1>1, <1>n DEF Leaves, Pushes, Literals, bc, Code, Params
<1> DEFINE entry == [k \in 1 .. n |-> New(k)]
<1>4. stack' = [i \in DOMAIN stack |->
                  IF i \in sp + 1 .. sp + n THEN AddrEntry(entry[i - sp]) ELSE stack[i]]
  <2>1. sp \in Int /\ n \in Nat /\ DOMAIN stack \subseteq Int
    <3>1. Works(prog, ip)
      BY <1>1, WorksHere
    <3>2. sp \in Int /\ DOMAIN stack = 0 .. StackSize - 1
      BY DEF Inv, Basics
    <3>3. QED
      BY <1>3, <3>1, <3>2 DEF Works
  <2>2. \A i \in sp + 1 .. sp + n : i - sp \in 1 .. n
    BY <2>1
  <2>3. \A i \in sp + 1 .. sp + n : entry[i - sp] = New(i - sp)
    BY <2>2
  <2>4. stack' = [i \in DOMAIN stack |-> IF i \in sp + 1 .. sp + n THEN AddrEntry(New(i - sp)) ELSE stack[i]]
    BY <1>n DEF ExecPushParam
  <2> HIDE DEF entry
  <2>5. QED
    BY <2>3, <2>4
<1>5. sp' = sp + n
  BY <1>n DEF ExecPushParam
<1> HIDE DEF entry
<1>6. QED
  BY <1>1, <1>2, <1>3, <1>4, <1>5, PushingMany

\* All of those that push one value.
LEMMA PushActions ==
  ASSUME Inv,
         \/ ExecLiteral \/ ExecString \/ ExecIdLocal \/ ExecIdDimLocal \/ ExecIdGlobal \/ ExecCopyGlob
         \/ ExecFuncFfi \/ ExecNilRecordRef \/ ExecPushExcept
  PROVE  Inv'
<1>1. running = "RUNNING" /\ bc.type \in Pushing /\ StackFits
  BY DEF Instr, Runs, Pushing, Literals, ExecLiteral, ExecString, ExecIdLocal, ExecIdDimLocal, ExecIdGlobal, ExecCopyGlob, ExecFuncFfi, ExecNilRecordRef, ExecPushExcept
<1>2. UNCHANGED <<fp, pp, gp, prog, running>> /\ Advance
  BY DEF regs, mode, ExecLiteral, ExecString, ExecIdLocal, ExecIdDimLocal, ExecIdGlobal, ExecCopyGlob, ExecFuncFfi, ExecNilRecordRef, ExecPushExcept
<1>3. \E p : Push(p)
  BY DEF ExecLiteral, ExecString, ExecIdLocal, ExecIdDimLocal, ExecIdGlobal, ExecCopyGlob, ExecFuncFfi, ExecNilRecordRef, ExecPushExcept
<1>4. QED
  BY <1>1, <1>2, <1>3, PushingStep

\* All of those that replace their operands.
LEMMA ReplaceActions ==
  ASSUME Inv, Promised,
         \/ ExecGlobalVec \/ ExecRecord \/ ExecIdFunc \/ ExecOp \/ ExecJoin \/ ExecEqString \/ ExecEqNil
         \/ ExecNot \/ ExecNeg \/ ExecStringDeref \/ ExecAttr \/ ExecConvert \/ ExecBuildIn
         \/ ExecMkArray \/ ExecArrayDeref \/ ExecNegArr \/ ExecMulArr \/ ExecSumArr \/ ExecMulArrArr \/ ExecMkInitArray
  PROVE  Inv'
<1>1. running = "RUNNING" /\ bc.type \in Replacing /\ StackFits /\ ~Fails
  BY DEF Instr, Runs, Replacing, ExecGlobalVec, ExecRecord, ExecIdFunc, ExecOp, ExecJoin, ExecEqString, ExecEqNil, ExecNot, ExecNeg, ExecStringDeref, ExecAttr, ExecConvert, ExecBuildIn, ExecMkArray, ExecArrayDeref, ExecNegArr, ExecMulArr, ExecSumArr, ExecMulArrArr, ExecMkInitArray
<1>2. UNCHANGED <<fp, pp, gp, prog, running>> /\ Advance
  BY DEF regs, mode, ExecGlobalVec, ExecRecord, ExecIdFunc, ExecOp, ExecJoin, ExecEqString, ExecEqNil, ExecNot, ExecNeg, ExecStringDeref, ExecAttr, ExecConvert, ExecBuildIn, ExecMkArray, ExecArrayDeref, ExecNegArr, ExecMulArr, ExecSumArr, ExecMulArrArr, ExecMkInitArray
<1>3. \E p : Replace(Takes(prog, ip), p)
  <2>1. CASE ExecGlobalVec \/ ExecRecord
    BY <2>1 DEF Takes, Instr, bc, Code, Assignments, MakeArray, ExecGlobalVec, ExecRecord
  <2>2. CASE ExecIdFunc \/ ExecNot \/ ExecNeg \/ ExecConvert \/ ExecAttr \/ ExecNegArr
    BY <2>2 DEF Takes, Instr, bc, Code, Assignments, MakeArray, ExecIdFunc, ExecNot, ExecNeg, ExecConvert, ExecAttr, ExecNegArr
  <2>3. CASE ExecOp \/ ExecJoin \/ ExecEqString \/ ExecEqNil \/ ExecStringDeref
    BY <2>3 DEF Takes, Instr, bc, Code, Assignments, MakeArray, ExecOp, ExecJoin, ExecEqString, ExecEqNil, ExecStringDeref
  <2>4. CASE ExecMulArr \/ ExecSumArr \/ ExecMulArrArr
    BY <2>4 DEF Takes, Instr, bc, Code, Assignments, MakeArray, ExecMulArr, ExecSumArr, ExecMulArrArr
  <2>5. CASE ExecBuildIn
    BY <2>5 DEF Takes, Instr, bc, Code, Assignments, MakeArray, Arguments, ExecBuildIn
  <2>6. CASE ExecMkArray \/ ExecArrayDeref
    BY <2>6 DEF Takes, Instr, bc, Code, Assignments, MakeArray, ExecMkArray, ExecArrayDeref
  <2>7. CASE ExecMkInitArray
    <3>1. bc.type = "MK_INIT_ARRAY"
      BY <2>7 DEF ExecMkInitArray, Instr
    <3>2. IndexOf(bc.dims) = Listed(prog, ip)
      BY <1>1, <3>1 DEF Promised
    <3>3. Takes(prog, ip) = bc.dims + Size(IndexOf(bc.dims))
      BY <3>1, <3>2 DEF Takes, bc, Code, Assignments
    <3>4. QED
      BY <2>7, <3>3 DEF ExecMkInitArray, PutArray
  <2>8. QED
    BY <2>1, <2>2, <2>3, <2>4, <2>5, <2>6, <2>7
<1>4. QED
  BY <1>1, <1>2, <1>3, ReplacingStep

\* All of those that only take from the stack, or pass over it.
LEMMA PopActions ==
  ASSUME Inv, ExecAssign \/ ExecArrayAppend \/ ExecIncInt \/ ExecJumpz \/ ExecRewrite
  PROVE  Inv'
<1>1. /\ running = "RUNNING" /\ UNCHANGED <<stack, fp, pp, gp, prog, running>>
      /\ bc.type \in Assignments \cup {"ARRAY_APPEND", "OP_INC_INT", "JUMPZ", "REWRITE"}
  BY DEF Instr, Runs, regs, mode, ExecAssign, ExecArrayAppend, ExecIncInt, ExecJumpz, ExecRewrite
<1>2. Works(prog, ip)
  BY <1>1, WorksHere DEF Assignments
<1>3. sp \in Int
  BY DEF Inv, Basics
<1>4. sp' = sp - Takes(prog, ip) + Leaves(prog, ip) /\ sp' <= sp
  <2>1. CASE ExecAssign
    <3>1. Takes(prog, ip) = 2 /\ Leaves(prog, ip) = 1 /\ sp' = sp - 1
      BY <2>1 DEF ExecAssign, Instr, Takes, Leaves, bc, Code, Assignments
    <3>2. QED
      BY <1>3, <3>1
  <2>2. CASE ExecArrayAppend \/ ExecJumpz \/ ExecRewrite
    <3>1. Takes(prog, ip) = 1 /\ Leaves(prog, ip) = 0 /\ sp' = sp - 1
      BY <2>2 DEF ExecArrayAppend, ExecJumpz, ExecRewrite, Instr, Takes, Leaves, bc, Code, Assignments
    <3>2. QED
      BY <1>3, <3>1
  <2>3. CASE ExecIncInt
    <3>1. Takes(prog, ip) = 0 /\ Leaves(prog, ip) = 0 /\ sp' = sp
      BY <2>3 DEF ExecIncInt, Instr, Takes, Leaves, bc, Code, Assignments
    <3>2. QED
      BY <1>3, <3>1
  <2>4. QED
    BY <2>1, <2>2, <2>3
<1>5. ip' = ip + 1 \/ (bc.type = "JUMPZ" /\ ip' = ip + 1 + bc.offset)
  BY DEF ExecAssign, ExecArrayAppend, ExecIncInt, ExecJumpz, ExecRewrite, Instr, Advance
<1>6. QED
  BY <1>1, <1>2, <1>4, <1>5, PopStep
LEMMA PassActions ==
  ASSUME Inv, ExecJump \/ ExecNothing
  PROVE  Inv'
<1>1. /\ running = "RUNNING" /\ UNCHANGED <<stack, sp, fp, pp, gp, prog, running>>
      /\ bc.type \in {"JUMP", "LABEL", "FUNC_DEF", "FUNC_OBJ", "FUNC_FFI_TYPE"}
  BY DEF Instr, Runs, regs, mode, ExecJump, ExecNothing
<1>2. Passes(prog, ip)
  BY <1>1, ShapedHere DEF ShapedAt, bc, Code
<1>3. ip' = IF bc.type = "JUMP" THEN ip + 1 + bc.offset ELSE ip + 1
  BY DEF ExecJump, ExecNothing, Instr, Advance
<1>4. Leads(prog, ip, ip', Shape)
  BY <1>2, <1>3 DEF Passes, Shape, bc, Code
<1>5. QED
  BY <1>1, <1>4, PassesStep

\* All of those that raise an exception.
LEMMA RaiseActions ==
  ASSUME Inv, ExecFailing \/ ExecMathFails
  PROVE  Inv'
<1>1. /\ running = "RUNNING" /\ UNCHANGED <<stack, fp, pp, gp, prog, running>> /\ ip' = HandlerOf(ip)
  BY DEF ExecFailing, ExecMathFails, Instr, Runs, regs
<1>2. bc.type \in MayFail /\ \E taken \in 0 .. Takes(prog, ip) : sp' = sp - taken
  <2>1. CASE ExecFailing
    BY <1>1, <2>1, FailureTakes DEF ExecFailing
  <2>2. CASE ExecMathFails
    <3>1. bc.type = "BUILD_IN" /\ sp' = sp - Arguments + 1
      BY <2>2 DEF ExecMathFails, Instr
    <3>2. Takes(prog, ip) = Arguments /\ Arguments \in {1, 2}
      BY <3>1 DEF Takes, Arguments, ArgumentsOf, bc, Code, Assignments
    <3>3. sp \in Int
      BY DEF Inv, Basics
    <3>4. Arguments - 1 \in 0 .. Takes(prog, ip) /\ sp' = sp - (Arguments - 1)
      BY <3>1, <3>2, <3>3
    <3>5. QED
      BY <3>1, <3>4 DEF MayFail
  <2>3. QED
    BY <2>1, <2>2
<1>3. QED
  BY <1>1, <1>2, FailingStep

LEMMA StopActions ==
  ASSUME Inv, ExecAssertFails \/ ExecUnhandled \/ ExecHalt \/ Exhausted
  PROVE  Inv'
BY StopStep DEF ExecAssertFails, ExecUnhandled, ExecHalt, Exhausted, regs

-----------------------------------------------------------------------------
LEMMA InvInit ==
  ASSUME Init, Promised
  PROVE  Inv
<1>1. Basics
  BY SizesAssumption DEF Init, Basics
<1>2. Shaped(prog)
  BY DEF Init, Promised
<1>3. FrameInv({}, {})
  <2>1. prog.shape[0] = At(0, 0) /\ 0 \in DOMAIN prog.shape /\ ~InFunction(prog, 0)
    BY <1>2 DEF Shaped
  <2>2. Here
    BY <2>1 DEF Here, Init, Shape, At
  <2>3. Values({}) /\ Owned({}, {})
    BY DEF Values, Owned, Init
  <2>4. QED
    BY <2>2, <2>3 DEF FrameInv, IsGreatest, Init
<1>4. QED
  BY <1>1, <1>2, <1>3 DEF Inv

LEMMA InvStep ==
  ASSUME Inv, Promised, Callee, [Next]_vmVars
  PROVE  Inv'
<1>1. CASE UNCHANGED vmVars
  <2>1. /\ stack' = stack /\ sp' = sp /\ fp' = fp /\ pp' = pp /\ gp' = gp /\ ip' = ip /\ prog' = prog
        /\ running' = running
    BY <1>1 DEF vmVars, regs, mode
  <2>2. Basics' /\ Shaped(prog')
    BY <2>1 DEF Inv, Basics
  <2>3. ASSUME NEW F \in SUBSET Int, NEW A \in SUBSET Int, FrameInv(F, A)
        PROVE  FrameInv(F, A)'
    <3>1. Here' <=> Here
      BY <2>1 DEF Here, Shape
    <3>2. Values(F)' <=> Values(F)
      BY <2>1 DEF Values, Shape
    <3>3. Owned(F, A)' <=> Owned(F, A)
      BY <2>1 DEF Owned, Vec, Back, Base, FuncAt, Funcs
    <3>4. ASSUME NEW c \in F PROVE Linked(F, A, c)' <=> Linked(F, A, c)
      BY <2>1 DEF Linked, Vec, Back, Base, Prev, GoodReturn, FuncAt, Funcs, Code
    <3>5. QED
      BY <2>1, <2>3, <3>1, <3>2, <3>3, <3>4 DEF FrameInv
  <2>4. QED
    BY <2>1, <2>2, <2>3 DEF Inv
<1>2. CASE Next
  BY <1>2, PushActions, ReplaceActions, PopActions, PassActions, RaiseActions, StopActions, MarkStep, CallStep,
     SlideStep, RetStep, RethrowStep, ClearStackStep, AllocStep, PushParamStep DEF Next
<1>3. QED
  BY <1>1, <1>2

-----------------------------------------------------------------------------
(***************************************************************************)
(* What the invariant says of the properties of Compiled; that it always   *)
(* holds is in MemoryProofs.                                               *)
(***************************************************************************)
LEMMA RegistersInOrder ==
  ASSUME Inv
  PROVE  TypeOK
<1>1. running = "RUNNING" => ip \in DOMAIN Code
  BY ShapedHere
<1>2. -1 <= pp /\ pp <= fp /\ fp <= sp /\ sp < StackSize
  BY SizesAssumption DEF Inv, Basics
<1>3. QED
  BY <1>1, <1>2 DEF TypeOK, Inv, Basics

LEMMA LevelIsRight ==
  ASSUME Inv
  PROVE  LevelAgrees
<1> SUFFICES ASSUME running = "RUNNING", bc.type = "ID_LOCAL", bc.of = "frame"
             PROVE  sp - bc.stack_level = pp + FuncAt(ip).params
  BY DEF LevelAgrees
<1>1. Shape.known /\ Shape.height \in Nat
  BY WorksHere, ShapedHere DEF Works, Shape
<1>2. sp = pp + Shape.height /\ pp \in Int
  BY <1>1 DEF Inv, FrameInv, Here, Basics
<1>3. bc.stack_level = Shape.height - ParamsAt(prog, ip) /\ ParamsAt(prog, ip) \in Nat
  BY ShapedHere DEF LevelKnown, Shape, bc, Code
<1>4. FuncAt(ip).params = ParamsAt(prog, ip)
  BY DEF FuncAt, Funcs, ParamsAt
<1>5. QED
  BY <1>1, <1>2, <1>3, <1>4

LEMMA HandlerIsBehind ==
  ASSUME Inv, ExecFailing \/ ExecMathFails
  PROVE  ip' > ip /\ FuncAt(ip').start = FuncAt(ip).start /\ pp' = pp
<1>1. running = "RUNNING" /\ ip' = HandlerOf(ip) /\ pp' = pp
  BY DEF ExecFailing, ExecMathFails, Instr, Runs, regs
<1>2. bc.type \in MayFail
  BY <1>1, FailureTakes DEF ExecFailing, ExecMathFails, Instr, MayFail
<1>3. Leads(prog, ip, ip', Handling) /\ ip' > ip
  BY <1>1, <1>2, ShapedHere DEF Handled, HandlerOf, ExcTab, bc, Code
<1>4. QED
  BY <1>1, <1>3 DEF Leads, FuncAt, Funcs

-----------------------------------------------------------------------------
(***************************************************************************)
(* The chains of Compiled, followed from fp and pp, are F and A.           *)
(***************************************************************************)
Below(d, f, b) ==
  IF b < 4 THEN <<-1>>
  ELSE Append(IF stack[b - d].val \in 4 .. b - 1 THEN f[stack[b - d].val] ELSE <<-1>>, b)
IsChain(d, n, f) == f = [b \in -1 .. n - 1 |-> Below(d, f, b)]

LEMMA ChainExists ==
  ASSUME NEW d, NEW n \in Nat
  PROVE  \E f : IsChain(d, n, f)
<1> DEFINE T == {k \in Nat : ~ \E f : IsChain(d, k, f)}
<1> SUFFICES ASSUME T # {}
             PROVE  FALSE
  OBVIOUS
<1>1. PICK k \in T : \A j \in T : ~(<<j, k>> \in OpToRel(<, Nat))
  BY WFMin, NatLessThanWellFounded
<1>2. k \in Nat /\ \A j \in Nat : j < k => \E f : IsChain(d, j, f)
  BY <1>1 DEF OpToRel
<1>3. CASE k <= 4
  <2> DEFINE f == [b \in -1 .. k - 1 |-> <<-1>>]
  <2>1. \A b \in -1 .. k - 1 : b < 4
    BY <1>2, <1>3
  <2>2. f = [b \in -1 .. k - 1 |-> Below(d, f, b)]
    BY <2>1 DEF Below
  <2>3. IsChain(d, k, f)
    BY <2>2 DEF IsChain
  <2> HIDE DEF f
  <2>4. QED
    BY <2>3, <1>1
<1>4. CASE k > 4
  <2>1. PICK g : IsChain(d, k - 1, g)
    BY <1>2, <1>4
  <2> DEFINE f == [b \in -1 .. k - 1 |-> IF b < k - 1 THEN g[b] ELSE Below(d, g, b)]
  <2>2. \A b \in -1 .. k - 1 : f[b] = Below(d, g, b)
    <3>1. \A b \in -1 .. (k - 1) - 1 : g[b] = Below(d, g, b)
      BY <2>1 DEF IsChain
    <3>2. QED
      BY <1>2, <3>1
  <2>3. \A b \in -1 .. (k - 1) - 1 : f[b] = g[b]
    BY <1>2
  <2>4. \A b \in -1 .. k - 1 : Below(d, g, b) = Below(d, f, b)
    <3> SUFFICES ASSUME NEW b \in -1 .. k - 1, stack[b - d].val \in 4 .. b - 1
                 PROVE  f[stack[b - d].val] = g[stack[b - d].val]
      BY DEF Below
    <3>1. stack[b - d].val \in -1 .. (k - 1) - 1
      BY <1>2
    <3>2. QED
      BY <2>3, <3>1
  <2>5. f = [b \in -1 .. k - 1 |-> f[b]]
    OBVIOUS
  <2> HIDE DEF f
  <2>6. f = [b \in -1 .. k - 1 |-> Below(d, f, b)]
    BY <2>2, <2>4, <2>5
  <2>7. IsChain(d, k, f)
    BY <2>6 DEF IsChain
  <2>8. QED
    BY <2>7, <1>1
<1>5. QED
  BY <1>2, <1>3, <1>4

LEMMA LinkedFromIs ==
  ASSUME NEW d
  PROVE  \A b \in -1 .. StackSize - 1 : LinkedFrom(d)[b] = Below(d, LinkedFrom(d), b)
<1>1. \E f : IsChain(d, StackSize, f)
  BY ChainExists, SizesAssumption
<1>2. LinkedFrom(d) = CHOOSE f : IsChain(d, StackSize, f)
  BY DEF LinkedFrom, IsChain, Below
<1>3. IsChain(d, StackSize, LinkedFrom(d))
  BY <1>1, <1>2
<1>4. QED
  BY <1>3 DEF IsChain

\* What is found by following the entries d below from m, when they say which
\* member of S is the next.
IsWalk(d, S, m, q) ==
  /\ q \in Seq(Int) /\ Len(q) >= 1 /\ q[1] = -1 /\ q[Len(q)] = m
  /\ Chained(q) = {c \in S : c <= m}
  /\ \A i \in 1 .. Len(q) - 1 : q[i] = stack[q[i + 1] - d].val

LEMMA Walk ==
  ASSUME NEW d, NEW S \in SUBSET (4 .. StackSize - 1),
         \A c \in S : IsGreatest(stack[c - d].val, S, c),
         NEW m \in S \cup {-1}
  PROVE  IsWalk(d, S, m, LinkedFrom(d)[m])
<1>0. S \subseteq Nat /\ StackSize \in Nat /\ \A c \in S : c \in 4 .. StackSize - 1
  BY SizesAssumption
<1>1. IsWalk(d, S, -1, LinkedFrom(d)[-1])
  <2>1. LinkedFrom(d)[-1] = <<-1>>
    BY LinkedFromIs, SizesAssumption DEF Below
  <2>2. Chained(<<-1>>) = {} /\ {c \in S : c <= -1} = {}
    <3>1. \A i \in 2 .. Len(<<-1>>) : FALSE
      OBVIOUS
    <3>2. \A c \in S : ~(c <= -1)
      BY <1>0
    <3>3. QED
      BY <3>1, <3>2 DEF Chained
  <2>3. QED
    BY <2>1, <2>2 DEF IsWalk
<1> DEFINE T == {c \in S : ~IsWalk(d, S, c, LinkedFrom(d)[c])}
<1> SUFFICES ASSUME T # {}
             PROVE  FALSE
  BY <1>1
<1>2. PICK c \in T : \A j \in T : ~(<<j, c>> \in OpToRel(<, Nat))
  BY <1>0, WFMin, NatLessThanWellFounded
<1>3. c \in S /\ c \in Nat /\ 4 <= c /\ c < StackSize /\ \A j \in S : j < c => IsWalk(d, S, j, LinkedFrom(d)[j])
  <2>1. c \in S /\ c \in 4 .. StackSize - 1
    BY <1>0
  <2>2. ASSUME NEW j \in S, j < c PROVE IsWalk(d, S, j, LinkedFrom(d)[j])
    <3>1. <<j, c>> \in OpToRel(<, Nat)
      BY <1>0, <2>2 DEF OpToRel
    <3>2. j \notin T
      BY <1>2, <3>1
    <3>3. QED
      BY <3>2
  <2>3. QED
    BY <1>0, <2>1, <2>2
<1>p. PICK p : p = stack[c - d].val
  OBVIOUS
<1>4. IsGreatest(p, S, c)
  BY <1>3, <1>p
<1>5. p \in S \cup {-1} /\ p < c /\ p \in Int /\ \A e \in S : e < c => e <= p
  BY <1>0, <1>4 DEF IsGreatest
<1>q. PICK q : q = LinkedFrom(d)[p]
  OBVIOUS
<1>6. IsWalk(d, S, p, q)
  BY <1>1, <1>3, <1>5, <1>q
<1>7. LinkedFrom(d)[c] = Append(q, c)
  <2>1. LinkedFrom(d)[c] = Below(d, LinkedFrom(d), c)
    BY <1>0, <1>3, LinkedFromIs
  <2>2. CASE p = -1
    <3>1. q = <<-1>>
      BY <2>2, <1>q, LinkedFromIs, SizesAssumption DEF Below
    <3>2. QED
      BY <2>1, <2>2, <3>1, <1>3, <1>p DEF Below
  <2>3. CASE p \in S
    <3>1. p \in 4 .. c - 1
      BY <2>3, <1>0, <1>3, <1>5
    <3>2. QED
      BY <2>1, <3>1, <1>3, <1>p, <1>q DEF Below
  <2>4. QED
    BY <1>5, <2>2, <2>3
<1>r. PICK r : r = Append(q, c)
  OBVIOUS
<1>8. /\ q \in Seq(Int) /\ Len(q) \in Nat /\ Len(q) >= 1 /\ q[1] = -1 /\ q[Len(q)] = p
      /\ Chained(q) = {e \in S : e <= p}
      /\ \A i \in 1 .. Len(q) - 1 : q[i] = stack[q[i + 1] - d].val
  BY <1>6 DEF IsWalk
<1>9. /\ r \in Seq(Int) /\ Len(r) = Len(q) + 1 /\ r[Len(q) + 1] = c
      /\ \A i \in 1 .. Len(q) : r[i] = q[i]
  BY <1>3, <1>8, <1>r
<1>10. Chained(r) = {e \in S : e <= c}
  <2>1. Chained(r) = Chained(q) \cup {c}
    <3>1. 2 .. Len(r) = (2 .. Len(q)) \cup {Len(q) + 1}
      BY <1>8, <1>9
    <3>2. \A i \in 2 .. Len(q) : r[i] = q[i]
      BY <1>8, <1>9
    <3>3. Chained(q) = {r[i] : i \in 2 .. Len(q)}
      BY <3>2 DEF Chained
    <3>4. Chained(r) = {r[i] : i \in 2 .. Len(q)} \cup {r[Len(q) + 1]}
      BY <3>1 DEF Chained
    <3>5. QED
      BY <1>9, <3>3, <3>4
  <2>2. {e \in S : e <= c} = {e \in S : e <= p} \cup {c}
    <3>1. \A e \in S : e <= c <=> (e <= p \/ e = c)
      <4> TAKE e \in S
      <4>1. e \in Int /\ c \in Int /\ p \in Int /\ p < c /\ (e < c => e <= p)
        BY <1>0, <1>3, <1>5
      <4>2. QED
        BY <4>1
    <3>2. QED
      BY <1>3, <3>1
  <2>3. QED
    BY <1>8, <2>1, <2>2
<1>11. \A i \in 1 .. Len(r) - 1 : r[i] = stack[r[i + 1] - d].val
  <2> SUFFICES ASSUME NEW i \in 1 .. Len(r) - 1
               PROVE  r[i] = stack[r[i + 1] - d].val
    OBVIOUS
  <2>1. CASE i = Len(q)
    BY <2>1, <1>8, <1>9, <1>p
  <2>2. CASE i # Len(q)
    <3>1. i \in 1 .. Len(q) - 1 /\ i \in 1 .. Len(q) /\ i + 1 \in 1 .. Len(q)
      BY <2>2, <1>8, <1>9
    <3>2. r[i] = q[i] /\ r[i + 1] = q[i + 1]
      BY <3>1, <1>9
    <3>3. QED
      BY <3>1, <3>2, <1>8
  <2>3. QED
    BY <2>1, <2>2
<1>12. IsWalk(d, S, c, r)
  <2>1. Len(r) >= 1 /\ r[1] = -1 /\ r[Len(r)] = c
    BY <1>8, <1>9
  <2>2. QED
    BY <1>9, <1>10, <1>11, <2>1 DEF IsWalk
<1>13. QED
  BY <1>2, <1>7, <1>12, <1>r

\* Each activation's frame is that of A below its callee's.
LEMMA ChainsFound ==
  ASSUME Inv, running = "RUNNING",
         NEW F \in SUBSET Int, NEW A \in SUBSET Int, FrameInv(F, A)
  PROVE  /\ Frames = F
         /\ IsWalk(4, A, pp, Activations) /\ Chained(Activations) = A
<1>1. /\ sp \in Int /\ fp \in Int /\ pp \in Int /\ sp < StackSize /\ StackSize \in Nat
      /\ F \subseteq 4 .. sp /\ A \subseteq F
      /\ fp \in F \cup {-1} /\ pp \in A \cup {-1}
      /\ (\A c \in F : c <= fp) /\ (\A a \in A : a <= pp)
      /\ (\A c \in F : Linked(F, A, c))
  BY FrameFacts
<1>2. F \in SUBSET (4 .. StackSize - 1) /\ A \in SUBSET (4 .. StackSize - 1)
  BY <1>1
<1>3. /\ \A c \in F : IsGreatest(stack[c - 1].val, F, c)
      /\ \A c \in A : IsGreatest(stack[c - 4].val, A, c)
  BY <1>1 DEF Linked, Base, Prev
<1>4. IsWalk(1, F, fp, LinkedFrom(1)[fp]) /\ IsWalk(4, A, pp, LinkedFrom(4)[pp])
  BY <1>1, <1>2, <1>3, Walk
<1>5. {c \in F : c <= fp} = F /\ {a \in A : a <= pp} = A
  BY <1>1
<1>6. QED
  BY <1>4, <1>5 DEF IsWalk, Frames, Activations

LEMMA FramesLaid ==
  ASSUME Inv, running = "RUNNING"
  PROVE  FramesAre(Frames, Activations)
<1>1. PICK F \in SUBSET Int, A \in SUBSET Int : FrameInv(F, A)
  BY DEF Inv
<1>2. /\ sp \in Int /\ fp \in Int /\ pp \in Int /\ -1 <= pp /\ pp <= fp /\ fp <= sp
      /\ F \subseteq 4 .. sp /\ A \subseteq F
      /\ fp \in F \cup {-1} /\ pp \in A \cup {-1}
      /\ (\A c \in F : c <= fp) /\ (\A a \in A : a <= pp)
      /\ (\A c \in F : Linked(F, A, c))
      /\ Owned(F, A) /\ Values(F)
  BY <1>1, FrameFacts
<1>b. PICK bs : bs = Activations
  OBVIOUS
<1>3. Frames = F /\ IsWalk(4, A, pp, bs) /\ Chained(bs) = A
  BY <1>1, <1>b, ChainsFound
<1>4. bs \in Seq(Int) /\ Len(bs) \in Nat /\ Len(bs) >= 1 /\ bs[Len(bs)] = pp /\ DOMAIN bs = 1 .. Len(bs)
  BY <1>3 DEF IsWalk
<1>5. \A c \in F : FrameIsLaid(c)
  BY <1>2 DEF Linked, GoodReturn, FrameIsLaid, Back
<1>6. ASSUME NEW i \in DOMAIN bs, NEW c \in F, bs[i] < c, i < Len(bs) => c <= bs[i + 1]
      PROVE  BegunBy(bs, i, c)
  <2>1. Base(c) \in A \cup {-1} /\ Base(c) \in Int /\ -1 <= Base(c) /\ c \in Int /\ Base(c) < c
        /\ \A a \in A : a < c => a <= Base(c)
    <3>1. c \in Int /\ Linked(F, A, c)
      BY <1>2
    <3>2. QED
      BY <1>2, <3>1, LinkFacts
  <2>2. CASE i = Len(bs)
    <3>1. c > pp /\ Base(c) = pp
      BY <1>2, <1>4, <1>6, <2>1, <2>2
    <3>2. Vec(c) = gp /\ FuncAt(Back(c)) = FuncAt(ip)
      BY <1>2, <3>1 DEF Owned
    <3>3. QED
      BY <1>4, <2>2, <3>1, <3>2 DEF BegunBy, VecOf, FuncOf, Base, Vec, Back
  <2>3. CASE i # Len(bs)
    <3>1. i \in 1 .. Len(bs) - 1 /\ i + 1 \in 2 .. Len(bs)
      BY <1>4, <2>3
    <3>2. PICK a \in A : a = bs[i + 1]
      BY <1>3, <3>1 DEF Chained
    <3>3. bs[i] = Base(a) /\ Base(a) < c /\ c <= a
      BY <1>3, <1>6, <3>1, <3>2, SMTT(30) DEF IsWalk, Base
    <3>4. Base(a) \in A \cup {-1} /\ Base(a) \in Int /\ \A e \in A : e < a => e <= Base(a)
      <4>1. a \in Int /\ Linked(F, A, a)
        BY <1>2, <3>2
      <4>2. QED
        BY <1>2, <4>1, LinkFacts
    <3>5. Base(c) = Base(a)
      BY <1>2, <2>1, <3>3, <3>4
    <3>6. Vec(c) = Vec(a) /\ FuncAt(Back(c)) = FuncAt(Back(a))
      BY <1>2, <3>3 DEF Owned
    <3>7. QED
      BY <2>3, <3>2, <3>3, <3>5, <3>6 DEF BegunBy, VecOf, FuncOf, Base, Vec, Back
  <2>4. QED
    BY <2>2, <2>3
<1>7. \A i \in (0 .. sp) \ LinkageOf(F) : stack[i].type = "ADDR" \/ (i = sp /\ ~Shape.known)
  <2> SUFFICES ASSUME NEW i \in 0 .. sp, i \notin LinkageOf(F)
               PROVE  stack[i].type = "ADDR" \/ (i = sp /\ ~Shape.known)
    OBVIOUS
  <2>1. Outside(F, i)
    BY <1>2 DEF LinkageOf, Outside
  <2>2. QED
    BY <1>2, <2>1 DEF Values
<1>8. QED
  BY <1>b, <1>2, <1>3, <1>5, <1>6, <1>7 DEF FramesAre
=============================================================================
