# Never: a TLA+ verification of the language's compiler and run time

Never is a small typed functional language.  One process, one thread: a program
is compiled by a chain of passes over one tree into byte code, and run by a
stack machine whose values live in a collected memory.  Nothing here is
concurrent; what is hard is the bookkeeping that several passes and the machine
share without ever stating it: where the top of the stack is, which frame is
whose, which vector holds what a function captured, which cells are still
reachable, and which clause handles an exception.

Paths are relative to the repository (`front/`, `back/`, `docs/` ...).

## 1. Inventory

### How the parts fit

    source -> scanner -> parser -> tree
    tree   -> typecheck  (scopes, types; calls gencode: frame index, free variable or own closure)
           -> optimize   (constred: operations on literals)
           -> tailrec    (marks self calls that are a function's result)
           -> emit       (byte code; exception table; string table; list of bodies to come)
           -> module_close (arrays of code and of strings; addresses linked)
    module -> vm_execute (stack, frames, exceptions)  <->  gc  (objects)
                         <-> exctab (handler of an address)
                         <-> dlcache, fficall, libvm   (foreign and build-in functions)

All calls are direct; the only state two components share is the tree (each
pass rewrites what the next reads), the module (written by the emitter, read by
the machine) and the memory (objects written by the machine, marked and freed
by the collector while an instruction SLIDE or RET runs).

| component | state | operations | hard behaviour | what makes it correct |
|---|---|---|---|---|
| garbage collector, `back/gc.c` | cells with object, mark and `next`; head of the free list; two lists and the index of the white one | `gc_alloc_*`, setters, `gc_run` = mark, sweep, exchange | cyclic objects, marks that must not outlive a collection, cells that must be on exactly one list, roots outside the stack | frees nothing reachable, frees all the rest, loses no cell |
| exception table, `back/exctab.c` | sorted entries, capacity, sentinel | insert with growth, binary search | boundary of two blocks, growth one entry ahead, the sentinel rewritten each time | the handler of an address is that of the last block at or before it |
| string table, `back/strtab.c` | open-addressed cells, count | add, look up, grow, turn into an array | wrap-around chains rebuilt at growth, a search that ends only at an empty cell | a string keeps one number, found again, and is at it in the array |
| symbol tables, `front/symtab.c` | chain of scopes, each an open-addressed table | add, look up here, in the function, or in all | filled without a search, counts from 0, rebuilt at growth in the order of cells | a name means its innermost declaration in reach, and is declared once |
| type checker, `front/typecheck.c`, `tcheckarr.c` | scopes under construction, types on the tree | one function per kind of expression | order of declaration, types of unnamed functions, conversions | what it accepts runs without a type confusion in the machine |
| names and captures, `front/gencode.c`, `freevar.c` | per function: list of captured variables with source and index | choice for each identifier, list for each function | the same name on several levels, functions that capture through others, functions that capture each other | an identifier reads the cell its declaration means |
| constant reduction, `front/constred.c` | the tree, a result | one case per operation | a second implementation of the machine's arithmetic; branches deleted | an accepted program means the same |
| tail calls, `front/tailrec.c` | marks on calls | walk over result positions | what is a result position; what `self` is under shadowing; catch clauses | a marked call may replace its caller |
| emitter, `back/emit.c`, `bytecode.c`, `module.c` | code list, compile-time stack level, bodies to come | one function per kind of expression | levels equal on all paths, jump offsets, blocks of clauses in address order | what the tree means is what the code does |
| machine, `back/vm.c` | stack, `sp fp pp gp ip`, running, exception | one function per instruction | half-built frames, failing arguments, rethrow through unfinished calls, tail calls over their own frame | each activation keeps its frame, arguments and captured cells |
| library cache and foreign calls, `back/dlcache.c`, `fficall.c` | table of handles, descriptor of a call | open, look up, call, close | failure at each stage, order of parameters | one handle per library; failure is `ffi_fail` and nothing else |
| build-in functions, `back/libvm.c`, `libmath.c` | none | mathematics, printing, length, assert | a failure after the result is in memory and the arguments are off the stack | documented result or exception |
| program and API, `back/nev.c`, `program.c` | program: module, parameters of main | compile, execute, both | failure of each pass, a program executed more than once | a failed pass leaves nothing executable |
| scanner, parser, command line, string buffers | tokens, parse stack, options, text | - | - | not modelled, see section 7 |

`PROJECT.json` lists every component with what is and is not in a model, and
every place where the code is exposed to such a hazard, by line.

## 2. Modules

| module | models | stands on |
|---|---|---|
| `Heap` | what the machine may expect of memory: objects stay while they can be reached, new ones come in empty cells | - |
| `Gc` | `back/gc.c`: one step per call of `gc_mark`, per swept cell, per stack entry scanned | extends `Heap`, implements `HeapSpec` |
| `ExcTab`, `MCExcTab` | `back/exctab.c`: insertion, one turn of the binary search per step | - |
| `Interning` | what the emitter expects of the string table | - |
| `StrTab` | `back/strtab.c`: one turn of a probe, of the move to a larger table or of the copy per step | implements `Interning` |
| `ProbedTable` | the open-addressed table `symtab.c` and `dlcache.c` each have a copy of | - |
| `Scopes` | what the type checker and `gencode.c` expect of symbol tables | - |
| `SymTab`, `MCSymTab` | `front/symtab.c`: one table searched, one entry added or moved per step | `ProbedTable`; implements `Scopes` |
| `Libraries` | what a foreign call promises about libraries and descriptors | - |
| `DlCache`, `MCDlCache` | `back/dlcache.c`, `back/fficall.c` and `vm_execute_func_ffi` of `back/vm.c`, from one machine's start to its end and on to the next | `ProbedTable`; implements `Libraries` |
| `Ast` | constructors of the trees of `front/expr.c`, `func.c`, `bind.c`, `except.c`, `listcomp.c` and of the build-in functions of `back/libmath.c`; of foreign functions | - |
| `Values` | floats, chars and strings, and their texts | - |
| `Gencode` | scopes of `typecheck.c`, resolution of names by `gencode.c` | `Ast` |
| `Constred` | `front/constred.c` | `Gencode`, `Values` |
| `Tailrec` | `front/tailrec.c` | `Gencode` |
| `Emit` | `back/emit.c` with `bytecode.c`, `module.c`; `Compile` is the chain of passes of `nev_compile_prog` | `Tailrec`, `Constred` |
| `Arrays` | the dimension vectors of `back/object.c` and the loops over them | - |
| `Vm` | `back/vm.c`, `back/libvm.c`: one instruction per step | `Arrays`, `Values` |
| `Calls` | what frames stand for: a stack of calls | - |
| `Shapes` | what the emitter knows of the stack at each address: its height above the frame and the youngest frame begun, as the levels of `back/emit.c` count them | extends `Vm` |
| `Compiled` | the properties of compiled code while it runs, and what the code relies on | extends `Shapes`, implements `Calls` |
| `Eval` | what a tree means, as the documents describe the language: the reference the code is compared with | `Ast`, `Values` |
| `MCPrograms`, `MCCompile` | families of programs; compiler, machine and reference put together | all of the above |
| `MCClaims` | the two programs of findings 1 and 2, against what the documents say of them | as `MCCompile` |
| `Types` | types as written and as given to expressions, their comparisons (`front/param.h`, first part of `typecheck.c`) | - |
| `Typecheck` | `front/typecheck.c`, `tcheckarr.c`: every kind of expression, functions stage by stage, whole programs | `Ast`, `Types` |
| `Kinds` | the instruction `back/emit.c` chooses for an accepted expression, and which objects `back/vm.c` reads and gives when it executes it | `Typecheck` |
| `MCTypecheck` | all small expressions over ten programs | `Kinds` |
| `GcProofs`, `ExcTabProofs`, `StrTabProofs`, `TableProofs`, `SymTabProofs`, `DlCacheProofs`, `FrameProofs`, `MemoryProofs` | theorems; `TableProofs` has the lemmas about `ProbedTable`, `MemoryProofs` extends `FrameProofs` | - |

How state and actions correspond to the code:

- **Gc.** `obj`, `mark`, `next` are the fields of `gc_mem`; `free`, `wb`, `w`
  those of `gc`.  The recursion of `gc_mark` is the sequence `todo` of calls not
  yet made, in the order C makes them.  `stack` and `gp` are the machine's, and
  `Mutate` is what instructions may do to the memory through the setters and
  getters.  Object types are kept only as far as the collector tells them apart:
  none, one or many pointers.
- **ExcTab, StrTab.** The local variables of the loops are variables, a turn of
  a loop is an action, memory fresh from `malloc` or `realloc` is an arbitrary
  (`ExcTab`) or zeroed (`StrTab`, `memset`) value.  The hash is any function of
  the strings to home cells, a variable that never changes.
- **SymTab.** `scopes` are the tables made so far with their parents; `doing`,
  `at`, `grown` and `i` are where the call under way stands.  The declaration of
  a name is a number, so that the answer to a later search can be told from
  another declaration of that name.  `Declare` looks before it adds, as every
  caller in `typecheck.c` does; the adders themselves do not look.
- **DlCache.** `entries`, `size` and `count` are the cache; `opened` counts, per
  library, the uses the system has of it, and `descriptors` the calls prepared
  and not yet deleted.  What `dlopen`, `dlsym` and `ffi_prep_cif` answer is free
  at every call.  A machine starts and ends at any time between calls.
- **Ast ... Emit.** Passes are functions from tree to tree and from tree to code.
  Emission is compositional where the code appends to one list: a piece of code
  is a function of the state before it (`Segment`), the compile-time
  `stack_level` is an argument, as in `back/emit.c`, and absolute addresses
  (`MARK`'s, the blocks of the exception table) are fixed when pieces are joined.
  The bodies of functions come in the order of `func_list_weak`.
- **Types, Typecheck.** The code writes types and conversions into the tree and
  reports through one flag.  `Check` gives the tree with types (`comb`) and
  conversions in it; a failure anywhere makes the type `Err`, as the flag makes
  the program fail.  Scopes are sequences of tables; a table stays with the node
  it was made for (`stab`), as in the code, so that checking twice can be told
  from checking once; `MCTypecheck` keeps the expression as the parser builds it
  (`expr`) and as it is when checked (`node`).  `Own`, `Signature`, `Params`, `Handled`, `Binds`, `Funcs`
  and `Returned` are the parts of `func_native_check_type` in their order.
  The constructors of `front/expr.c` leave most of a node's type as `malloc` gave
  it, and the checker reads two such fields: the enumeration of an assignment
  (`front/typecheck.c:1177` sets only that it is one) and the dimensions and
  elements of the second branch of a condition whose first is an array
  (`front/typecheck.c:1314`).  A node's `memory` is what was left there (`Memory`);
  `MCTypecheck` chooses it when it builds the node, from the values of the family:
  in `types` nothing, or for the enumeration the very one that would fit.
  So `paint(e = E.A)` is refused with the one and accepted with the other, as by the
  code, and the properties hold of both.
- **Kinds.** An object is its kind and what else a fault depends on (nil or not,
  number of dimensions, elements, fields, code); numbers have no value, so every
  branch is followed, and an operation that may fail may also succeed.
- **Vm.** The registers, the stack and the memory are those of `vm`; each
  `Exec...` is the function of that name.  The allocator is `gc_alloc_any` with
  the free list replaced by "the least free cell", and `gc_run` frees exactly
  what cannot be reached: what `Gc` and its theorems show of the real one.
  `exit(1)` at a full stack or memory is the state `"EXIT"`.  An instruction that
  fails leaves on the stack what its C function has not popped by then
  (`Failing` has how many entries are gone), so the clause that runs next starts
  from the stack the code really leaves.
- **Values.** A float is its number of quarters.  The programs that compute with
  floats are chosen so that every sum, product, quotient, root and power is whole
  quarters, which C's float and its `%.2f` keep exactly; conversion to int is
  toward zero.  A string is the sequence of its chars' codes, so concatenation
  with numbers, length and indexing are computed and not assumed.
- **Build-in functions.** The compiler puts all of `libmath_add_funcs` in front
  of the program's functions, at level 0; a program of `MCPrograms` has only those
  it uses there, which leaves out closures nobody reads.

## 3. What is checked

States and times are for two workers.

| run | question | distinct states, time |
|---|---|---|
| `gc_graphs` | on every graph of three cells with boxes of two pointers, built and cut in any order: are the lists exact, is nothing reachable ever freed, and does every collection end, on cyclic graphs too? | 2,949,996, 3 min |
| `gc_cells` | with a threshold of half the memory and stack entries that only look like pointers: free list, marks, out-of-memory, completeness of a collection, refinement of `Heap` | 2,319,780, 83 s |
| `exctab` | every table of up to four blocks from the smallest capacity through two growths, every address looked up | 7,464, 1 s |
| `strtab` | every sequence of calls with four strings, two growths, every choice of colliding and wrapping homes | 337,746, 22 s |
| `symtab` | every sequence of declarations and searches of four names in two scopes, through the growth of both | 325,479, 2 min |
| `dlcache` | every sequence of foreign calls to four libraries, every failure of each, through the growth of the cache and the lives of several machines | 97,456, 5 s |
| `compile` | about 1000 programs through all passes and the machine: is the result what the source means, and do frames, levels, captured cells, handlers and memory agree on the way? | 67,722, 3 min |
| `types` | every expression of up to two operations over 24 leaves of all types: does what the type checker accepts have code, and does the code never read an object of another kind? | 441,088, 55 s |
| `enclosing`, `tail_handler` | findings 1 and 2 | violation |
| `function_order`, `function_types` | findings 3 and 4 | violation |

The properties of `compile`:

- `SameResult`: a program that ends gives the int, or the unhandled exception,
  that `Eval` computes from the unreduced, unresolved tree.  It is what checks
  constant reduction too: the machine runs the reduced tree, and the families
  `Folding` and `FoldingFloats` put every operation between literals and between
  a literal and a variable.
- `Promised`: what the code relies on and the machine never looks at.  The
  emitter's levels fit together from each instruction to the next, into functions
  and back, into handlers too (`Shapes!Shaped`, of the code alone); a CALL finds
  a function with all its arguments, and one without a frame of its
  own (a tail call) the running function, with the same captured cells in a vector
  made anew; an array literal finds the
  dimensions it was written with; below the cell of a qualifier's name lie its
  list and its counter; instructions find operands of the kinds the type checker
  has seen (`OperandsFit`), an array with as many dimensions as there are indices.
  The theorems about the machine start from it.
- `LevelAgrees`: the `stack_level` of every `ID_LOCAL` that reads the frame, fixed
  at compile time, is the distance to the running activation's arguments,
  whichever branches, exceptions and returns led there.
- `FramesOK`: frames that have been begun by MARK and not called lie between
  activations; each goes back to the right one, with the vector and in the
  function of the one that began it; outside the frames' five entries the stack
  holds addresses of objects.  An exception that leaves a frame may bring an entry
  of its linkage along, on top, until CLEAR_STACK drops it.  And every activation,
  running or waiting, will find as many captured cells as its function has free
  variables (`VectorsFit`).
- `ArraysFit`: ARRAY_DEREF compares an index with the dimensions and nothing with
  the number of elements.  So an array must have exactly one element for each
  index its dimensions allow, after it was made, appended to, added or multiplied;
  and the loops over two arrays, which count the elements or the dimensions of
  one, must stay in the other (`PairsThere`).
- `NoDangling`: the collections inside SLIDE and RET take nothing reachable, and
  every value on the stack is an object.
- `TypeOK`: the registers stay within code and stack, `pp` below `fp` below `sp`.
- `HandledHere` (action property): an exception goes on in the same function and
  activation, behind the code that failed, so a failing clause never runs itself
  again.
- `ImplementsCalls` (refinement): the frames implement the stack of calls of
  `Calls`.  Arguments, captured cells and return addresses of a call never
  change while it lasts, whatever happens above it; a tail call changes only the
  arguments of the last one; an exception ends calls one by one.
- `Terminates`: the machine stops.  The programs do, so a wrong jump or a handler
  that is its own handler shows here, and so does a machine stuck in front of an
  instruction it cannot execute.

The properties of `symtab` and `dlcache`:

- `TablesOK` (both): a search in a table finds what was put in, once, while it is
  moved to a larger one as well, and an addition or a move always meets a free
  cell, so that the `assert(0)` behind the adders' loops is never reached.
- `ImplementsScopes`: the tables implement maps inside maps; whichever table has
  grown in between, a name means its innermost declaration in reach, what is
  local stops at the function, and a second declaration is refused with the
  first.
- `CallsEnd`: no search and no move goes round for ever.
- `ImplementsLibraries`: in the life of a machine a library is opened when it is
  first called, never a second time unless the first failed, and closed once;
  whatever fails, in whichever order, no descriptor outlives its call.

The properties of `types`, of each expression that is accepted:

- `AcceptedHasCode`: the emitter has an instruction for every node, where the
  code says `assert(0)` otherwise.
- `NoConfusion`: followed through the machine's instructions, with parameters
  nil or not, through calls, clauses and comprehensions, nothing reads an object
  of another kind, an array with the wrong number of indices or a missing field,
  and the result is of the type the checker gave.
- `NumbersIndex`: a number can be an index.

They hold for the expressions of `types`.  That family has no nested function
types with different results, arrays in function types, enumeration names as
values, functions with names inside indices, rows mixed with arrays, dimensions
of fields or of nil arrays, no call of a later function with a record in its
signature, and no memory in which `malloc` left dimensions that an array has: each of these breaks a property, and has a family of its own in
`MCTypecheck` (section 5).

Each property has a mutant in `PROJECT.json`: a plausible slip in one of the
definitions that model code, under which the same run fails.  Mutants stand
next to the definition they replace, marked `\* mutant:`.

### Bounds, and why they are enough

- **Memory of three cells** (`MemSize = 4`; cell 0 is nil).  A box, the reference
  to it and one more cell give a cycle with garbage beside it; with two pointers
  per box (`gc_graphs`) marking branches, and shares.  The real threshold, 4/5 of
  the memory, is only reached with all cells used in so small a memory, hence
  `GcNum/GcDen`: 3/4, and 1/2 so that collections also start with cells free.
  The theorems hold for every size, number of pointers and threshold.
- **Exception table**: capacity 2, the least that works, four blocks, so that it
  grows twice; addresses 0 to 8 allow every arrangement of touching and of
  spaced blocks.
- **String table**: two cells, four strings, so that it grows after the first
  and the third; homes 0, 3 and 7 are equal, different and wrapping modulo 2, 4
  and 8.
- **Symbol tables**: a function's table of 5 entries, which grows once, and a
  comprehension's of 1, which grows three times, from sizes of which three quarters
  are whole and are not; 4 names whose hashes are equal, or
  different but equal modulo some of the sizes (4 and 8); 2 scopes, 4 entries.
- **Library cache**: 5 cells, so that the fourth library makes it grow;
  hashes 0, 3, 4, 8 give equal, neighbouring and wrapping homes; the program
  itself and three libraries.  The table sizes in the code are 32, 8 and 16; the
  theorems hold for every size.
- **Programs**: the twenty families of `MCPrograms` combine, each in every way,
  where an exception is raised (six places, among them deep in half-built argument
  lists), which clauses the function has (seven, with failing clauses and
  `catch` without a name) and what the caller has; names declared on several
  levels and read, assigned and captured from each; closures that outlive their
  maker; functions that capture each other; self calls in and out of result
  positions; loops in loops; literals that decide branches; shared and nil
  records; arrays of every element type, of one and two dimensions, nil and not,
  aliased, captured, with every index in and out of bounds, their sums and
  products with sizes that fit or do not; dimensions as names in functions that
  capture them; comprehensions with several generators and filters, in closures,
  in each other and left by an exception; operations and conversions on floats and
  strings; strings indexed inside and outside; comparisons with nil of every kind;
  build-in functions as callees and as values, with failing mathematics and
  assertions; foreign functions as callees and as values, on several levels, and
  functions and libraries that are not there, called inside the arguments of other
  calls, of comprehensions and of captured functions, with clauses that fail
  again; and two programs that exhaust the stack (96 entries) and the memory
  (112 cells).  No other program comes near these limits.  `GcNum = 0` makes
  every SLIDE and RET collect, the worst case for forgotten roots.
- **Expressions for the type checker**: two operations make every operation meet
  every type as left and right operand, plain and as the result of another
  operation, a call, an index, an attribute, a comprehension or a function.
  Programs are as small as the question allows; those of the violation runs have
  only what it takes.
- Ints are unbounded in the models; no program goes near 32 bits, except that a
  char is its lowest 8 with sign.

### Fairness, deadlock

One thread runs everything, and every loop modelled runs to its end inside one
call; so weak fairness of the collector's steps, of a search's turns, of the
string table's turns, of a symbol table's and of the machine's next instruction is
what the code gives.  The program that *uses* the heap or a table is never assumed to move.
`CHECK_DEADLOCK FALSE` is set where the system may stop: the heap after exit(1)
or with nothing left to do within the bounds, a table after the last call, the
machine after HALT, an error or exit(1).  A machine stopped anywhere else
violates `Terminates`; a table stopped in a call violates `CallsEnd`, a
collection `CollectionEnds`.  `symtab` and `dlcache` check deadlock: there is
always a further call.

## 4. What is proved

TLAPS proves these for every value of the constants.

- **GcProofs**, `HeapSafe`: in `HeapSpec` no reachable pointer ever leads to an
  empty cell.  `Reach` is the least closed set (an intersection, no recursion),
  so most lemmas say what an action does to closed sets: a new object adds its
  own cell only, a dropped entry shrinks reach, a pointer copied from what is
  reachable adds nothing.
- **GcProofs**, the collector itself: `GcInv` is inductive (`GcCorrect`).  It is `TypeOK`, `NoDangling`,
  the exactness of the free list and of the two lists, clean marks between
  collections, and the two parts that make it inductive: while marking, whatever
  a marked cell or a scanned root points to is marked or pending, and nothing
  out of reach is either (`MarkInv`); while sweeping, the cells still marked and
  those already moved are exactly the reachable ones (`SweepInv`).  From it:
  `GcNoDangling`, `GcLists`, `GcFreeList`, `GcClean`, `GcOomOnlyWhenFull`,
  `GcPendingLive`, `GcCollectsAllGarbage`, and
  `GcImplementsHeap`: every step of the collector is a step of `Heap` or none.
- **ExcTabProofs**: `ExcTabSearchCorrect`, `ExcTabRoom`, `ExcTabSorted` and
  `ExcTabTypes`, from the loop
  invariant that the block looked for lies between `from` and `to`, and from
  sortedness with the sentinel; for every capacity of two or more and every
  address width.
- **StrTabProofs**: `StrTabInv` is inductive (`StrTabAlways`): the path from each
  string's home to its cell has no empty cell, strings and numbers are distinct,
  an empty cell is always left (by counting, with the pigeonhole principle), and
  during growth what was moved is found in the new table.  From it
  `StrTabNeverAborts`, `StrTabTables`, `StrTabTypes` and `StrTabInterns`, the
  refinement of `Interning`; for any hash function, any initial size and any set of strings.

- **TableProofs**: lemmas about one table, for any hash and size.  If no empty cell
  lies between a name's home and its cell (`Chained`), a search finds the name and
  stops in time; an addition keeps that; and a table in which at most three
  quarters are counted has a free cell, by counting the cells in use.
- **SymTabProofs**: `SymInv` is inductive: every table is chained, with its count
  the number of names in it (`SymTabTables`); while a table is moved, the larger
  one has exactly the entries already passed; parents are older than their scopes
  (`SymTabTypes`).  `Meant` makes the refinement inductive: in the middle of a
  search, what the name means from the table the search is at is what it means
  from where it started; so the answer is the innermost declaration
  (`SymTabRefines`).  For any names, hash function, sizes and number of tables.
- **DlCacheProofs**: `DlInv` is inductive: the cache counts the cells in use, the
  larger table has what was passed, and a library is open exactly when the cache
  has it or it was opened in this call and is about to be put in.  From it
  `DlCacheTypes`, `DlCacheTables` and `DlCacheRefines`; whatever the system
  answers, for any libraries, hash function and size.

- **FrameProofs**: the part of the machine's invariant that speaks of registers and
  frames, for any program, stack and memory.  Every step keeps `Inv`, once what is
  called is a function of the program (`Callee`, which `MemoryProofs` shows): there are a set F of frames
  begun and a set A of those called, each frame saves in `pp` the greatest of A
  and in `fp` the greatest of F below it, and the shape at its return address
  says how far it lies above that `pp`.  This last part carries the proof: it is
  the only place where what the emitter knows of a waiting function is kept, and
  RET and RETHROW need it to find the stack as high as the code behind the call
  expects it.  `LinkedFrom`, a recursive function along the saved registers, is
  shown to exist by the least place where it could not, and then to give F and A.
  `RegistersInOrder`, `LevelIsRight`, `HandlerIsBehind` and `FramesLaid` say what
  `Inv` means for the properties of the run.
- **MemoryProofs**: `TypeCorrect`, `LevelsAgree`, `FramesAreLaid`,
  `RaisedIsHandledHere`, `NothingDangles`, `ArraysAlwaysFit` and `CallsImplemented`
  (`TypeOK`, `LevelAgrees`, `FramesOK`, `HandledHere`, `NoDangling`, `ArraysFit`,
  `ImplementsCalls`).  `MemInv` is inductive (`MemInvariance`).  It is `Inv`
  and: every object is whole (`WellFormed`: what it points to is there and of the
  kind its readers take for granted, the address in a function value is where a
  function starts, and an array's dimensions are those of as many elements as it
  has), every entry on the stack that could be
  followed is there, so is every value outside the frames, and `gp` and the
  vector each frame saves have the cells the function it belongs to captures.
  Each instruction keeps this by what it makes (`Added`, objects that point to
  what is there or to each other) or writes.  A collection keeps it because
  `Reach` is closed: its levels only grow, and there are more levels than cells,
  so two are equal (by counting); and all of it is allocated.
  `CallsImplemented` is the refinement: every step of the machine is one of `Calls`
  or leaves the calls as they are.  `CallsIn` writes the calls as a function of
  the chain of frames and of what they are read from; `KeepsCalls` shows that a
  step which keeps the stack up to `pp`, the running function, its captured cells
  and what the frames of activations refer to changes at most the arguments of
  the last call, and all actions but CALL, RET and RETHROW are instances of it.  `BeginsCall`
  is CALL on a frame of its own, whose shape (`Owned`) says that it has saved the
  vector and an address of the running function; `EndsCall` is RET, or a RETHROW
  that leaves the running function; the RETHROW of a call that was only being
  prepared is an instance of `KeepsCalls` again.  That the cells a waiting call has
  captured are still the same needs `MemInv`: its vector must have been reached by
  every collection in between, and no assignment writes a vector.
- **The arithmetic of arrays**, also in `MemoryProofs`: the run has arrays of one
  and two dimensions, the theorems any number.  The strides of
  `object_arr_dim_mult` are the products of the later dimensions (`MultIs`), so an
  index inside the dimensions leads to an element (`AddressInside`), two indices to
  two (`AddressesDiffer`), and every element has its index (`AddressesCover`, by
  division with remainder, dimension by dimension).  With `WellFormed` this is
  `ArraysAlwaysFit`.  The dimensions of the operands are compared before a sum or a
  product (`CanAdd`, `CanMult`); that the elements then suffice is `PairsAreThere`.
  The functions are recursive, so these lemmas first show that they exist and then
  argue by the least dimension that could fail (`UpTo`).

The theorems about the machine have the form `Spec /\ []Promised => []P`.
`Promised` is what the machine itself never tests: it comes from the emitter and
the type checker, and neither can be reasoned about here, being recursions over
trees.  What the machine makes itself is not part of it but proved: that a closure
leads to the start of a function and to as many cells as that function reads, and
that an array has the elements its dimensions say.  It is not empty: `compile` checks it in every state of every program, so
each of these satisfies it; and it says of a single instruction what that one
needs, nothing of frames below or of what a collection leaves, which is what the
theorems are about.  The operands of an instruction that fails are left out of it:
index out of bounds, division by zero, nil are the machine's own tests.

What these proofs have shown about the machine and the model:

- An exception that leaves a frame with nothing on its stack takes an entry of the
  frame's own linkage for its value (`vm_execute_rethrow` copies `stack[sp]`
  without looking what it is).  It does no harm, because collections look at
  addresses only and every handler starts with CLEAR_STACK; `FramesOK` as first
  written was false, and TLC found the program once one with a missing foreign
  function alone in its body was added (`Nothing`).
- A call comes back higher than both its arguments and the youngest frame; only
  with that (`GoodReturn`) is the invariant inductive.
- A tail call does not keep its vector: the value of the function is made anew,
  with a new vector (`GLOBAL_VEC`), and `gp` changes while the activation lasts.
  That the frame can be reused rests on the new vector having the same cells,
  which TLC refuted in the form "the same vector"; the promise says the former.
- HALT and UNHANDLED_EXCEPTION stand in no function's code, which the shapes did not
  say: without it the last call could be read as one of a function that is not
  running when the machine stops.
- A write through a reference is safe only because both sides have the same kind
  (`OperandsFit`): an assignment copies the object, pointers and all.

Assumptions: only those on constants in `Heap`, `Gc`, `ExcTab`, `StrTab`,
`SymTab`, `DlCache` and `Vm` (`SizesAssumption`); the runs evaluate them.

Only model-checked: liveness (`CollectionEnds`, `SearchEnds`, `CallsEnd`,
`Terminates`: outside TLAPS); `Promised`, `SameResult`, `AcceptedHasCode`,
`NoConfusion` and `NumbersIndex`, which speak of the compiler or the type checker:
trees are recursive data, and what a recursive function computes for all trees is
beyond the prover.

## 5. Findings

1. **A function that names the nested function it is written in gets another
   function's cell** (`front/gencode.c:253`; run `enclosing`).  A nested function
   stands both in the table of its level and in its own, one level up; the
   lookup finds the latter, takes it for a local of the function itself, and its
   index selects another entry of the frame.  `docs/index.md:168-172` allows such
   calls.  Compiled and run, the program of the counterexample gives 7 instead
   of 100.
2. **A self call that is the result drops the function's clauses**
   (`front/tailrec.c:112`; run `tail_handler`).  The frame is reused, so an
   exception raised in a clause goes to the caller of the first activation
   though the caller in the source has a clause for it (`docs/index.md:950-952`).

3. **Signatures are looked up too late** (`front/typecheck.c:2235`; run
   `function_order`).  Calls in functions above are compared with a record that
   is not known yet: `t() -> R { h() }` is refused above `h() -> R` and accepted
   below it, against `docs/index.md:170-172`.
4. **Nested function types with different results are equal**
   (`front/typecheck.c:234`; run `function_types`): `param_cmp` compares the first
   function's result with itself, and the machine reads a float as an int
   (`back/gc.c:345`, an assertion).

5. **A qualifier of a comprehension named like a variable of its own function**
   (`front/typecheck.c:615-629`) is reported as already defined, but the flag is not
   set and the program is accepted; the name then means the variable.
   `let x = 5; let a = [1, 2, 3] : int; [ x | x in a ] : int` holds 5 where the
   qualifier's values were meant.  The programs of `Lists` have no such names;
   no run is spent on it.

The families of `MCTypecheck` show more.  Put one in place of `Types` as `Source`
in `types.cfg` and the property named here fails:

| family | property | what the code does |
|---|---|---|
| `Later` | `AcceptedHasCode` | of a record whose name is not looked up yet every attribute is accepted (`front/typecheck.c:1620`): `h().x; 1` above `h` reaches `assert(index != -1)`, `back/emit.c:1952` |
| `ArrayTypes` | `NoConfusion` | arrays of different dimensions are equal inside function types (`front/typecheck.c:218`): results that are 0 for success are joined with `&&`; `back/vm.c:2068` fails |
| `EnumName` | `AcceptedHasCode` | the name of an enumeration is a value until `assert(0)`, `back/emit.c:350` |
| `Indices` | `NumbersIndex` | functions with names in them are refused in an index, for indices are checked twice (`front/typecheck.c:1409`); `docs/index.md:202` has functions as expressions |
| `Mixture` | `NoConfusion` | rows and arrays may be mixed in a literal (`front/tcheckarr.c:60`): `[ [ [1] ], [ [2]:int ] ] : int` takes more values from the stack than were put there |
| `DimField` | `NoConfusion` | the dimension of an array in a record can be selected and is the array (`front/typecheck.c:2480`) |
| `NilDims` | `NoConfusion` | the dimensions of a nil array are read from nothing (`back/vm.c:298`) |
| `Leftover` | `NoConfusion` | if the first branch of a condition is an array the second is not asked whether it is one (`front/typecheck.c:1314`): a function is accepted there, as an array, when its result is what the elements are and `malloc` left their dimensions in its node; `back/gc.c:505` fails |

All of these were reproduced with the C code on programs like those of the
counterexamples: a refusal, a failed assertion or a crash; that of `Leftover` with
a `malloc` that fills nodes with ones, without which its program is refused.

The models of the passes and of the machine were also compared with the real
ones: programs of `MCPrograms`, samples of every family, compiled and run by the
C code, all but the two of the findings end as `Eval` says, and those two as the
models of the code do.

## 6. Plan

Done, in this order: memory and collector; exception table; compiler and machine
for ints, records, functions and exceptions; string table; constant reduction;
proofs of the three components of the run time; type checker; arrays and their
dimensions; list comprehensions; library cache and foreign calls; symbol tables;
proofs of these two; floats, strings, comparisons with nil and build-in functions
in the compiler and the machine; foreign functions in all of these and in the type
checker; proofs of the frame discipline, of the memory of the machine, of the
calls its frames implement and of its arrays.

Next, most important first:

1. **Program and API**: the passes as steps that may fail, a program compiled into
   or executed more than once, parameters of main.
2. **Operands beyond the quarters**: fractions that C's float rounds, ints at 32
   bits, as pure operators.

## 7. Not modelled, and why

- **Scanner and parser**: generated, no state that later phases see; **`dltab.c`**:
  never called; the **command line**, printing of code and tables, messages and the
  scanner's growing buffer; line numbers (kept in frames only for messages); what
  is freed at exit (`gc_delete` and others).
- **Program and API** (`nev.c`, `program.c`): straight-line code around the passes,
  whose order is `Emit!Compile`.  A compilation that fails leaves no code, and
  `nev_execute` then does nothing; each execution makes a machine and a cache of
  its own, which `DlCache` has.  Planned, not done.
- **`read`** (`back/libvm.c:147`): its string comes from outside.
- **sin, cos, tan, exp, log**, and powers and roots that are no whole quarters, in the
  machine and in constant reduction: they are the C library's; how they fail is
  modelled (`ExecMathFails`).
- **Machine arithmetic**: ints that pass 32 bits, the smallest int divided by -1
  (`back/vm.c:423`), the element count of an array at 2^32 (`back/object.c:245`),
  floats that C rounds.
- **Indices into strings below zero** (`back/vm.c:2015`): the model gives any char;
  no program has one, because no one result could be asked for.
- **Nil arrays whose dimensions are named**: reading them fails in the C code
  (section 5, `NilDims`); no program of `MCPrograms` does it.
- The recursion depth of `gc_mark`; the entries MARK and ALLOC write before the
  stack's limit is tested.
- **What foreign functions compute** is the libraries' own: `Values` has the three of
  `back/fficall.c` that are there for tests, and `powf`.  A foreign function with a
  parameter or result that is no number, char or string, which the type checker
  accepts and the emitter refuses (`back/emit.c:2147`), is in no program.
- **Strings that are nil given to a foreign function**: `vm_execute_func_ffi` takes
  the characters behind the reference without a test for nil (`back/vm.c:2227`),
  which fails in `gc_get_string_ptr`.  `Kinds` has this as a fault (`ForeignCall`);
  the foreign functions of `types` take numbers and chars only and no program of
  `MCPrograms` does it.
- Not in `Typecheck`: the names of exceptions, the `use` of modules.
