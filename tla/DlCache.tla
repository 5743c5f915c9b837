------------------------------ MODULE DlCache -------------------------------
(***************************************************************************)
(* Foreign calls: vm_execute_func_ffi of back/vm.c with the descriptors of *)
(* back/fficall.c and the cache of open libraries of back/dlcache.c, over  *)
(* the lives of machines, one after another, in one process.               *)
(*                                                                         *)
(* dlopen, dlsym and ffi_prep_cif are the system's: each may fail at any   *)
(* time.  dlopen of a library that is open counts one more use of it, and  *)
(* dlclose one less; the handle of a library stands for it.                *)
(***************************************************************************)
EXTENDS ProbedTable

CONSTANTS
  Libs,          \* names of libraries
  Host,          \* "host", the name of the program itself
  Hashes,        \* what hash_string may be
  CacheSize      \* DEFAULT_DLCACHE_SIZE

ASSUME DlCacheAssumption ==
  /\ NoName \notin Libs /\ Host \in Libs
  /\ Hashes \subseteq [Libs -> Nat]
  /\ CacheSize \in Nat \ {0}

VARIABLES
  hash,              \* hash_string
  entries, size, count,
  doing,             \* "none" without a machine, "idle", or what is next
  lib, handle,       \* the library the call is for, and its handle
  grown, i,          \* the larger table, and the entry of the old one it is at
  opened,            \* the process' uses of each library
  descriptors,       \* ffi_decl_new less ffi_decl_delete
  outcome            \* of the last call: "failed", or the library it was in

table == <<entries, size, count>>
growth == <<grown, i>>
vars == <<hash, table, doing, lib, handle, growth, opened, descriptors, outcome>>

Init ==
  /\ hash \in Hashes
  /\ entries = << >> /\ size = 0 /\ count = 0
  /\ doing = "none"
  /\ lib = NoName /\ handle = NoName
  /\ grown = << >> /\ i = 0
  /\ opened = [l \in Libs |-> 0]
  /\ descriptors = 0
  /\ outcome = "none"

\* ffi_decl_get_handle: dlopen, which may give NULL.
Dlopen(l) ==
  \/ handle' = l /\ opened' = [opened EXCEPT ![l] = @ + 1]
  \/ handle' = NoName /\ UNCHANGED opened

\* dlcache_new, of vm_new: the handle of the program itself is put in even
\* when it is NULL.
VmNew ==
  /\ doing = "none"
  /\ entries' = NoEntries(CacheSize) /\ size' = CacheSize /\ count' = 0
  /\ lib' = Host /\ Dlopen(Host)
  /\ doing' = "add"
  /\ outcome' = "none"
  /\ UNCHANGED <<hash, growth, descriptors>>

\* dlcache_delete, of vm_delete: every entry with a handle is closed.
Uses(l) == {c \in 0 .. size - 1 : entries[c].value = l}
VmDelete ==
  /\ doing = "idle"
  /\ opened' = [l \in Libs |-> opened[l] - Cardinality(Uses(l))]
  /\ entries' = << >> /\ size' = 0 /\ count' = 0
  /\ doing' = "none"
  /\ outcome' = "none"
  /\ UNCHANGED <<hash, lib, handle, growth, descriptors>>

-----------------------------------------------------------------------------
\* vm_execute_func_ffi: the descriptor of a call of a function in library l.
FuncFfi(l) ==
  /\ doing = "idle"
  /\ descriptors' = descriptors + 1
  /\ doing' = "prepare" /\ lib' = l
  /\ outcome' = "none"
  /\ UNCHANGED <<hash, table, handle, growth, opened>>

\* Each failure takes the descriptor away before the exception is raised.
Finish(out) ==
  /\ descriptors' = descriptors - 1
  /\ doing' = "idle" /\ lib' = NoName /\ handle' = NoName
  /\ outcome' = out

PrepareKept ==                                    \* mutant: a failure leaves its descriptor
  /\ doing = "prepare"
  /\ \/ doing' = "find" /\ UNCHANGED <<lib, handle, descriptors, outcome>>
     \/ doing' = "idle" /\ lib' = NoName /\ outcome' = "failed" /\ UNCHANGED <<handle, descriptors>>
  /\ UNCHANGED <<hash, table, growth, opened>>
Prepare ==
  /\ doing = "prepare"
  /\ \/ doing' = "find" /\ UNCHANGED <<lib, handle, descriptors, outcome>>
     \/ Finish("failed")
  /\ UNCHANGED <<hash, table, growth, opened>>

\* dlcache_get_handle: the handle in the cache, NULL if it is the program's
\* own that was never opened ...
CacheHit ==
  /\ doing = "find"
  /\ \E d \in 0 .. size - 1 :
       /\ StopsAt(entries, size, hash, lib, d)
       /\ EntryAt(entries, size, hash, lib, d).name = lib
       /\ IF EntryAt(entries, size, hash, lib, d).value = NoName
          THEN Finish("failed")
          ELSE /\ handle' = EntryAt(entries, size, hash, lib, d).value
               /\ doing' = "call"
               /\ UNCHANGED <<lib, descriptors, outcome>>
  /\ UNCHANGED <<hash, table, growth, opened>>

\* ... or a new one, which is put in; a library that cannot be opened is not.
Uncached ==                                       \* mutant: what was opened is not put in
  /\ doing = "find"
  /\ NotFound(entries, size, hash, lib)
  /\ handle' = lib /\ opened' = [opened EXCEPT ![lib] = @ + 1]
  /\ doing' = "call"
  /\ UNCHANGED <<lib, descriptors, outcome>>
  /\ UNCHANGED <<hash, table, growth>>
CacheMiss ==
  /\ doing = "find"
  /\ NotFound(entries, size, hash, lib)
  /\ \/ /\ handle' = lib /\ opened' = [opened EXCEPT ![lib] = @ + 1]
        /\ doing' = "add"
        /\ UNCHANGED <<lib, descriptors, outcome>>
     \/ Finish("failed") /\ UNCHANGED opened
  /\ UNCHANGED <<hash, table, growth>>

\* dlcache_add_dl, and dlcache_resize; then back to the call, or to vm_new.
Added ==
  IF descriptors = 0
  THEN doing' = "idle" /\ lib' = NoName /\ handle' = NoName
  ELSE doing' = "call" /\ UNCHANGED <<lib, handle>>

AddDl ==
  /\ doing = "add"
  /\ \E d \in 0 .. size - 1 :
       /\ FreeAt(entries, size, hash, lib, d)
       /\ entries' = Put(entries, size, hash, lib, d, handle)
  /\ count' = count + 1
  /\ IF Crowded(count + 1, size)
     THEN doing' = "grow" /\ grown' = NoEntries(2 * size) /\ UNCHANGED <<lib, handle>>
     ELSE Added /\ UNCHANGED grown
  /\ UNCHANGED <<hash, size, i, opened, descriptors, outcome>>

\* dlcache_entry_resize, one entry of the old table.
Skip ==
  /\ doing = "grow" /\ i < size
  /\ entries[i].name = NoName
  /\ i' = i + 1
  /\ UNCHANGED <<hash, table, doing, lib, handle, grown, opened, descriptors, outcome>>

Move ==
  /\ doing = "grow" /\ i < size
  /\ entries[i].name # NoName
  /\ \E d \in 0 .. 2 * size - 1 :
       /\ FreeAt(grown, 2 * size, hash, entries[i].name, d)
       /\ grown' = Put(grown, 2 * size, hash, entries[i].name, d, entries[i].value)
  /\ i' = i + 1
  /\ UNCHANGED <<hash, table, doing, lib, handle, opened, descriptors, outcome>>

Realloc ==                                        \* mutant: the entries stay where they were
  /\ doing = "grow" /\ i = size
  /\ entries' = [c \in 0 .. 2 * size - 1 |-> IF c < size THEN entries[c] ELSE NoEntry]
  /\ size' = 2 * size
  /\ grown' = << >> /\ i' = 0
  /\ Added
  /\ UNCHANGED <<hash, count, opened, descriptors, outcome>>
Grown ==
  /\ doing = "grow" /\ i = size
  /\ entries' = grown /\ size' = 2 * size
  /\ grown' = << >> /\ i' = 0
  /\ Added
  /\ UNCHANGED <<hash, count, opened, descriptors, outcome>>

\* ffi_decl_call, where dlsym finds the function or not; the result is taken
\* from the descriptor before it goes.
Call ==
  /\ doing = "call"
  /\ \E out \in {"failed", handle} : Finish(out)
  /\ UNCHANGED <<hash, table, growth, opened>>

Next ==
  \/ VmNew \/ VmDelete \/ Prepare \/ CacheHit \/ CacheMiss
  \/ AddDl \/ Skip \/ Move \/ Grown \/ Call
  \/ \E l \in Libs : FuncFfi(l)

Spec == Init /\ [][Next]_vars

-----------------------------------------------------------------------------
(***************************************************************************)
(* Properties.                                                             *)
(***************************************************************************)

\* Types.
TypeOK ==
  /\ hash \in Hashes
  /\ size \in Nat /\ count \in Nat /\ (size = 0 <=> doing = "none")
  /\ entries \in Tables(size, Libs, Libs)
  /\ doing \in {"none", "idle", "prepare", "find", "add", "grow", "call"}
  /\ doing \in {"prepare", "find", "add", "grow", "call"} => lib \in Libs
  /\ handle \in Libs \cup {NoName}
  /\ doing = "grow" => grown \in Tables(2 * size, Libs, Libs)
  /\ i \in 0 .. size
  /\ opened \in [Libs -> Nat]
  /\ descriptors \in {0, 1}
  /\ outcome \in Libs \cup {"none", "failed"}

\* The cache, and the table its entries are moved to, find what was put in,
\* once, and have room for what is put in next: the assert(0) of
\* dlcache_entry_add_dl is never reached.
TablesOK ==
  /\ TableOK(entries, size, hash)
  /\ doing = "add" => ~Full(entries, size)
  /\ doing = "grow" => TableOK(grown, 2 * size, hash) /\ ~Full(grown, 2 * size)

\* A library is opened when it is first called, once in a machine's life, and
\* closed once, with the machine, wherever in between the table grew or a call
\* failed: after its descriptor was made, before or after the library was
\* opened, or for want of the function.  No descriptor outlives its call.
Foreign == INSTANCE Libraries WITH alive <- doing # "none"
ImplementsLibraries == Foreign!Spec
=============================================================================
