------------------------------- MODULE SymTab -------------------------------
(***************************************************************************)
(* The symbol tables of front/symtab.c, as the type checker opens and      *)
(* fills them: a table for the program, one for each function, record and  *)
(* enumeration, and a block table for each list comprehension, every one   *)
(* with the table around it as its parent.                                 *)
(*                                                                         *)
(* A call of the checker first looks a name up, table after table along    *)
(* the parents, then adds it where it was missing; the table it was added  *)
(* to may grow then, entry by entry.  A step is one table searched, one    *)
(* entry added or one moved.  The hash of a name is any number.            *)
(***************************************************************************)
EXTENDS ProbedTable, SequencesExt

CONSTANTS
  Names,
  Hashes,               \* what hash_string may be
  FuncSize, BlockSize,  \* what symtab_new is given: 32, and 8 for a comprehension
  MaxScopes, MaxEntries \* bounds: tables, and entries in all of them

ASSUME SymTabAssumption ==
  /\ NoName \notin Names /\ NoName \notin Nat      \* no declaration is NoName
  /\ Hashes \subseteq [Names -> Nat]
  /\ FuncSize \in Nat \ {0} /\ BlockSize \in Nat \ {0}
  /\ MaxScopes \in Nat /\ MaxEntries \in Nat

VARIABLES
  hash,          \* hash_string
  scopes,        \* the tables: type, parent (0 for none), size, count, entries
  doing,         \* the call under way: "look", "add", "grow"; or "idle"
  request,       \* what it is for: scope, op, name, and whether to add it
  at,            \* the table that is searched
  grown, i,      \* the larger table, and the entry of the old one it is at
  answer         \* of the last call: the declaration found for its request

vars == <<hash, scopes, doing, request, at, grown, i, answer>>

NoRequest == [scope |-> 0, op |-> "LOCAL", name |-> NoName, adds |-> FALSE]
Answer(found) == [scope |-> request.scope, op |-> request.op, name |-> request.name, found |-> found]

Init ==
  /\ hash \in Hashes
  /\ scopes = << >>
  /\ doing = "idle" /\ request = NoRequest /\ at = 0
  /\ grown = << >> /\ i = 0
  /\ answer = NoName

SizeOf(type) == IF type = "FUNC" THEN FuncSize ELSE BlockSize

\* symtab_new: a comprehension's table is inside that of its function.
Open(type, parent) ==
  /\ doing = "idle" /\ Len(scopes) < MaxScopes
  /\ parent = 0 => type = "FUNC"
  /\ scopes' = Append(scopes, [type |-> type, parent |-> parent, size |-> SizeOf(type),
                               count |-> 0, entries |-> NoEntries(SizeOf(type))])
  /\ UNCHANGED <<hash, doing, request, at, grown, i, answer>>

Request(s, op, x, adds) ==
  /\ doing = "idle"
  /\ doing' = "look"
  /\ request' = [scope |-> s, op |-> op, name |-> x, adds |-> adds]
  /\ at' = s
  /\ answer' = NoName
  /\ UNCHANGED <<hash, scopes, grown, i>>

Declared == FoldLeft(LAMBDA n, t : n + t.count, 0, scopes)

\* The symtab_add_..._from_... of typecheck.c look for what is local, the
\* never_add_... that fill the outermost table for anything.
Declare(s, op, x) ==
  /\ Declared < MaxEntries
  /\ op = "GLOBAL" => scopes[s].parent = 0
  /\ Request(s, op, x, TRUE)

\* The lookups of typecheck.c and gencode.c.
Find(s, op, x) == Request(s, op, x, FALSE)

-----------------------------------------------------------------------------
\* The call is over, and gives what was found.
Return(found) ==
  /\ doing' = "idle" /\ request' = NoRequest /\ at' = 0
  /\ answer' = Answer(found)

\* symtab_lookup in table `at`: symtab_entry_lookup_object finds the name ...
Hit ==
  /\ doing = "look"
  /\ \E d \in 0 .. scopes[at].size - 1 :
       /\ StopsAt(scopes[at].entries, scopes[at].size, hash, request.name, d)
       /\ EntryAt(scopes[at].entries, scopes[at].size, hash, request.name, d).name = request.name
       /\ Return(EntryAt(scopes[at].entries, scopes[at].size, hash, request.name, d).value)
  /\ UNCHANGED <<hash, scopes, grown, i>>

\* ... or gives NULL: on to the parent, or to the addition, or back.
OnlyGlobal(t) == request.op = "GLOBAL" /\ t.parent # 0      \* mutant: blocks end the search too
GoesOn(t) == (request.op = "GLOBAL" \/ t.type = "BLOCK") /\ t.parent # 0

Miss ==
  /\ doing = "look"
  /\ NotFound(scopes[at].entries, scopes[at].size, hash, request.name)
  /\ \/ /\ GoesOn(scopes[at])
        /\ at' = scopes[at].parent
        /\ UNCHANGED <<doing, request, answer>>
     \/ /\ ~GoesOn(scopes[at]) /\ request.adds
        /\ doing' = "add" /\ at' = request.scope
        /\ UNCHANGED <<request, answer>>
     \/ /\ ~GoesOn(scopes[at]) /\ ~request.adds
        /\ Return(NoName)
  /\ UNCHANGED <<hash, scopes, grown, i>>

-----------------------------------------------------------------------------
\* The symtab_add_... functions: add, count, and symtab_resize.  What is
\* declared is told by where.
Add ==
  /\ doing = "add"
  /\ \E d \in 0 .. scopes[at].size - 1 :
       /\ FreeAt(scopes[at].entries, scopes[at].size, hash, request.name, d)
       /\ scopes' = [scopes EXCEPT
            ![at].entries = Put(scopes[at].entries, scopes[at].size, hash, request.name, d, at),
            ![at].count = @ + 1]
  /\ answer' = Answer(NoName)
  /\ IF Crowded(scopes[at].count + 1, scopes[at].size)
     THEN /\ doing' = "grow" /\ grown' = NoEntries(2 * scopes[at].size)
          /\ UNCHANGED <<request, at>>
     ELSE /\ doing' = "idle" /\ request' = NoRequest /\ at' = 0
          /\ UNCHANGED grown
  /\ UNCHANGED <<hash, i>>

\* symtab_entry_resize, one entry of the old table.
Skip ==
  /\ doing = "grow" /\ i < scopes[at].size
  /\ scopes[at].entries[i].name = NoName
  /\ i' = i + 1
  /\ UNCHANGED <<hash, scopes, doing, request, at, grown, answer>>

MoveIn(e, n) ==
  \E d \in 0 .. n - 1 :
    /\ FreeAt(grown, n, hash, e.name, d)
    /\ grown' = Put(grown, n, hash, e.name, d, e.value)

NotOn ==                                                    \* mutant: i is not advanced
  /\ doing = "grow" /\ i < scopes[at].size
  /\ scopes[at].entries[i].name # NoName
  /\ MoveIn(scopes[at].entries[i], 2 * scopes[at].size)
  /\ UNCHANGED <<hash, scopes, doing, request, at, i, answer>>
Move ==
  /\ doing = "grow" /\ i < scopes[at].size
  /\ scopes[at].entries[i].name # NoName
  /\ MoveIn(scopes[at].entries[i], 2 * scopes[at].size)
  /\ i' = i + 1
  /\ UNCHANGED <<hash, scopes, doing, request, at, answer>>

Done ==
  /\ doing' = "idle" /\ request' = NoRequest /\ at' = 0
  /\ grown' = << >> /\ i' = 0
  /\ UNCHANGED <<hash, answer>>
Widened(t) ==                                               \* mutant: the entries stay where they were
  [c \in 0 .. 2 * t.size - 1 |-> IF c < t.size THEN t.entries[c] ELSE NoEntry]
Realloc ==                                                  \* mutant
  /\ doing = "grow" /\ i = scopes[at].size
  /\ scopes' = [scopes EXCEPT ![at].entries = Widened(scopes[at]), ![at].size = 2 * @]
  /\ Done
OldSize ==                                                  \* mutant: the size is not the new one
  /\ doing = "grow" /\ i = scopes[at].size
  /\ scopes' = [scopes EXCEPT ![at].entries = grown]
  /\ Done
Grown ==
  /\ doing = "grow" /\ i = scopes[at].size
  /\ scopes' = [scopes EXCEPT ![at].entries = grown, ![at].size = 2 * @]
  /\ Done

Step == Hit \/ Miss \/ Add \/ Skip \/ Move \/ Grown

Next ==
  \/ Step
  \/ \E type \in {"FUNC", "BLOCK"}, parent \in {0} \cup DOMAIN scopes : Open(type, parent)
  \/ \E s \in DOMAIN scopes, op \in {"LOCAL", "GLOBAL"}, x \in Names : Declare(s, op, x) \/ Find(s, op, x)

Spec     == Init /\ [][Next]_vars
FairSpec == Spec /\ WF_vars(Step)

-----------------------------------------------------------------------------
(***************************************************************************)
(* Properties.                                                             *)
(***************************************************************************)
IsTable(t) ==
  /\ t.type \in {"FUNC", "BLOCK"}
  /\ t.size \in Nat \ {0} /\ t.count \in Nat
  /\ t.entries \in Tables(t.size, Names, DOMAIN scopes)

\* Types: a table's parent is an older one, so every search along the parents
\* ends.
TypeOK ==
  /\ hash \in Hashes
  /\ \A s \in DOMAIN scopes : IsTable(scopes[s]) /\ scopes[s].parent \in 0 .. s - 1
  /\ doing \in {"idle", "look", "add", "grow"}
  /\ doing \in {"look", "add", "grow"} => request.name \in Names /\ {request.scope, at} \subseteq DOMAIN scopes
  /\ doing \in {"add", "grow"} => at = request.scope
  /\ doing = "grow" => grown \in Tables(2 * scopes[at].size, Names, DOMAIN scopes) /\ i \in 0 .. scopes[at].size

\* In every table, and in the one that entries are moved to, the search for a
\* name finds it, and there is one entry of that name, although the adders do
\* not look before they add and the move takes the entries in another order
\* than they came in.  An addition, and a move, meets an empty cell: the
\* assert(0) of symtab_entry_add_object is never reached.
TablesOK ==
  /\ \A s \in DOMAIN scopes : TableOK(scopes[s].entries, scopes[s].size, hash)
  /\ doing = "add" => ~Full(scopes[at].entries, scopes[at].size)
  /\ doing = "grow" => TableOK(grown, 2 * scopes[at].size, hash) /\ ~Full(grown, 2 * scopes[at].size)

\* Scopes as the checker and gencode see them: a name means its innermost
\* declaration in reach, before, while and after tables grow, and a second
\* declaration is refused with the first.
Seen == INSTANCE Scopes WITH
  Nothing <- NoName,
  scopes  <- [s \in 1 .. Len(scopes) |->
                [type |-> scopes[s].type, parent |-> scopes[s].parent,
                 names |-> MapOf(scopes[s].entries, scopes[s].size)]]
ImplementsScopes == Seen!Spec

\* Every call returns: no search goes round for ever, and no move.
CallsEnd == doing \in {"look", "add", "grow"} ~> doing = "idle"
=============================================================================
