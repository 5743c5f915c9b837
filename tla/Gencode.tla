------------------------------ MODULE Gencode -------------------------------
(***************************************************************************)
(* Which cell a name means: the scopes the type checker of                 *)
(* front/typecheck.c opens (symbol tables chained from a function to the   *)
(* one around it), and the choice of front/gencode.c between the running   *)
(* function's own frame and its vector of captured cells.                  *)
(*                                                                         *)
(* The code writes its findings into the tree; ResolveFunc returns the     *)
(* tree with them: each identifier with its id_type and table entry, each  *)
(* function with its table `stab` and the list `freevars` of what it       *)
(* captures.  The emitter adds, in `levels`, where the qualifiers of the   *)
(* comprehensions around the code it is at lie on the stack.               *)
(***************************************************************************)
EXTENDS Ast, FiniteSets, SequencesExt

\* A table entry: what is declared, where (the function, and its index there),
\* the index in the frame and the syntactic level.
Entry(type, decl, index, syn_level) ==
  [type |-> type, decl |-> decl, index |-> index, syn_level |-> syn_level]

\* The function's table when its first n bindings and k functions are in it:
\* its own name one level up, parameters from 0 down, bindings and functions
\* from 1 up.  A dimension's name has its array's index.
TableOf(f, syn_level, index, n, k) ==
  LET self   == IF f.id = NoName THEN {}
                ELSE {<<f.id, Entry("FUNC", <<f.uid>>, index, syn_level - 1)>>}
      params == {<<f.params[i], Entry("PARAM", <<f.uid, 1 - i>>, 1 - i, syn_level)>> : i \in DOMAIN f.params}
      dims   == {<<d.id, Entry("DIM", <<f.uid, 1 - d.param, d.dim>>, 1 - d.param, syn_level)>> : d \in ToSet(f.dims)}
      binds  == {<<f.binds[i].id, Entry("BIND", <<f.uid, i>>, i, syn_level)>> : i \in 1 .. n}
      funcs  == {<<f.funcs[i].id, Entry("FUNC", <<f.funcs[i].uid>>, Len(f.binds) + i, syn_level)>> : i \in 1 .. k}
      all    == self \cup params \cup dims \cup binds \cup funcs
  IN  [x \in {p[1] : p \in all} |-> (CHOOSE p \in all : p[1] = x)[2]]

\* The scope of a list comprehension, inside that of the function: the first n
\* qualifiers, but none named like something `local` to the function already.
Qualifiers(e, syn_level, local, n) ==
  [x \in {e.quals[i] : i \in 1 .. n} \ ({NoName} \cup DOMAIN local) |->
     Entry("QUALIFIER", <<e.uid, CHOOSE i \in 1 .. n : e.quals[i] = x /\ \A j \in 1 .. i - 1 : e.quals[j] # x>>,
           0, syn_level)]

\* symtab_lookup with SYMTAB_LOOKUP_GLOBAL: the innermost table that has the name.
LookupGlobal(tables, x) ==
  tables[CHOOSE i \in DOMAIN tables :
           x \in DOMAIN tables[i] /\ \A j \in 1 .. i - 1 : x \notin DOMAIN tables[j]][x]

\* expr_id_gencode.
IdType(f, syn_level, entry) ==
  CASE entry.type = "FUNC" /\ entry.syn_level = 0 -> "FUNC_TOP"
    [] /\ entry.type = "FUNC" /\ entry.syn_level = syn_level - 1
       /\ entry.decl = <<f.uid>>                  -> "FUNC_NEST"
    [] entry.syn_level = syn_level                -> "LOCAL"
    [] OTHER                                      -> "GLOBAL"

ResolveId(f, syn_level, tables, e) ==
  LET entry == LookupGlobal(tables, e.id)
  IN  [type |-> "ID", kids |-> << >>, id |-> e.id,
       id_type |-> IdType(f, syn_level, entry), entry |-> entry]

-----------------------------------------------------------------------------
\* What a resolved expression captures; the functions written in it, each with
\* the scope around it, which may be that of a list comprehension.
InTable(g, stab) == [func |-> g, stab |-> stab]
RECURSIVE CapturedIn(_), LiteralsIn(_, _)
CapturedIn(e) ==
  IF e.type = "ID"
  THEN IF e.id_type = "GLOBAL" THEN <<[id |-> e.id, orig |-> e.entry]>> ELSE << >>
  ELSE FlattenSeq([i \in DOMAIN e.kids |-> CapturedIn(e.kids[i])])
LiteralsIn(e, stab) ==
  IF e.type = "FUNC" THEN <<InTable(e.func_value, stab)>>
  ELSE FlattenSeq([i \in DOMAIN e.kids |->
                     LiteralsIn(e.kids[i], IF e.type = "LISTCOMP" THEN e.stab @@ stab ELSE stab)])

InAll(Op(_), es) == FlattenSeq([i \in DOMAIN es |-> Op(es[i])])
ExprsOf(binds)   == [i \in DOMAIN binds |-> binds[i].expr]

\* freevar_list_add, and the caller's assignment of orig.
AddFreevar(list, fv) ==
  IF \E i \in DOMAIN list : list[i].id = fv.id
  THEN [i \in DOMAIN list |-> IF list[i].id = fv.id THEN fv ELSE list[i]]
  ELSE Append(list, fv)

\* func_gencode_freevars_freevar: a function takes what it captures from the
\* frame of the function around it when that function, or a comprehension in
\* it, declares the very thing; otherwise that function has to capture it too.
FoundIn(stab, fv) ==
  /\ fv.id \in DOMAIN stab
  /\ stab[fv.id].type = fv.orig.type
  /\ stab[fv.id].decl = fv.orig.decl

-----------------------------------------------------------------------------
\* expr_check_type as far as scopes go, and func_native_check_type: the catch
\* clauses see the parameters only, a binding those before it, the nested
\* functions and the result everything.
RECURSIVE ResolveExpr(_, _, _, _), ResolveFunc(_, _, _, _)

\* expr_listcomp_check_type: a qualifier sees those before it, what is yielded
\* all.  Looking a name up in the scope of the function passes through the
\* comprehension's.
ResolveListcomp(f, syn_level, tables, e) ==
  LET seen(n) == Qualifiers(e, syn_level, tables[1], n)
  IN  [type |-> "LISTCOMP", uid |-> e.uid, quals |-> e.quals,
       stab |-> seen(Len(e.quals)),
       kids |-> [i \in DOMAIN e.kids |->
                   ResolveExpr(f, syn_level, <<seen(i - 1) @@ tables[1]>> \o Tail(tables), e.kids[i])]]

ResolveExpr(f, syn_level, tables, e) ==
  CASE e.type = "ID"   -> ResolveId(f, syn_level, tables, e)
    [] e.type = "FUNC" -> FuncLit(ResolveFunc(e.func_value, tables, syn_level + 2, 0))
    [] e.type = "LISTCOMP" -> ResolveListcomp(f, syn_level, tables, e)
    [] OTHER -> [e EXCEPT !.kids = [i \in DOMAIN e.kids |-> ResolveExpr(f, syn_level, tables, e.kids[i])]]

ResolveFunc(f, outer, syn_level, index) ==
  LET nb        == Len(f.binds)
      nf        == Len(f.funcs)
      seen(n, k) == <<TableOf(f, syn_level, index, n, k)>> \o outer
      excepts == [i \in DOMAIN f.excepts |->
                    Catch(f.excepts[i].no, ResolveExpr(f, syn_level, seen(0, 0), f.excepts[i].expr))]
      all     == [i \in DOMAIN f.all |-> ResolveExpr(f, syn_level, seen(0, 0), f.all[i])]
      binds   == [i \in 1 .. nb |->
                    Bind(f.binds[i].id, ResolveExpr(f, syn_level, seen(i - 1, 0), f.binds[i].expr))]
      funcs   == [i \in 1 .. nf |-> ResolveFunc(f.funcs[i], seen(nb, nf), syn_level + 1, nb + i)]
      ret     == ResolveExpr(f, syn_level, seen(nb, nf), f.ret)
      stab    == TableOf(f, syn_level, index, nb, nf)
      \* in the order the checker meets the names ...
      direct  == InAll(CapturedIn, ExprsOf(excepts) \o all \o ExprsOf(binds) \o <<ret>>)
      \* ... and func_gencode_freevars the functions in it
      here(e) == LiteralsIn(e, stab)
      inner   == InAll(here, ExprsOf(binds)) \o [i \in DOMAIN funcs |-> InTable(funcs[i], stab)]
                   \o here(ret) \o InAll(here, ExprsOf(excepts) \o all)
      passed  == FlattenSeq([i \in DOMAIN inner |->
                   SelectSeq(inner[i].func.freevars, LAMBDA fv : ~FoundIn(inner[i].stab, fv))])
  IN  [uid |-> f.uid, id |-> f.id, params |-> f.params, dims |-> f.dims, binds |-> binds, funcs |-> funcs,
       ret |-> ret, excepts |-> excepts, all |-> all,
       stab |-> stab, syn_level |-> syn_level, levels |-> << >>,
       freevars |-> FoldLeft(AddFreevar, << >>, direct \o passed)]

\* never_check_type: the functions of a program see each other at level 0.
ResolveProgram(fs) ==
  LET top == [x \in {fs[i].id : i \in DOMAIN fs} |->
                Entry("FUNC", <<fs[CHOOSE i \in DOMAIN fs : fs[i].id = x].uid>>, 0, 0)]
  IN  [i \in DOMAIN fs |-> ResolveFunc(fs[i], <<top>>, 1, 0)]

\* Where the function `around` finds the captured cell fv of a function in it.
FreevarIndex(f, x) == (CHOOSE i \in DOMAIN f.freevars : f.freevars[i].id = x) - 1
SrcOf(around, fv) ==
  IF FoundIn(around.stab, fv)
  THEN [type |-> "LOCAL",  entry |-> around.stab[fv.id]]
  ELSE [type |-> "GLOBAL", index |-> FreevarIndex(around, fv.id)]
=============================================================================
