--------------------------- MODULE ModuleLoader ---------------------------
(***************************************************************************)
(* The module loader (src/src/loader.rs): load_module, a depth-first walk  *)
(* of the imports with a cache and a stack of the files being loaded, and  *)
(* load_module_tree, which walks the same imports again to build the       *)
(* registry.                                                               *)
(*                                                                         *)
(* One step is one file opened or one call returned from, because the      *)
(* files may be edited meanwhile.  Resolving an import and opening the     *)
(* file it names fail with the same error and are one step.  Of a file the *)
(* model keeps the files it imports, in order, and a version.              *)
(***************************************************************************)
EXTENDS Naturals, Sequences, FiniteSets, SequencesExt, Functions

CONSTANTS
  Files,    \* canonical paths
  Missing,  \* content of a path where there is no readable file
  Bad       \* content that does not parse

VARIABLES
  disk,      \* content of each path: Missing, Bad or a program
  cache,     \* programs loaded, by path
  loading,   \* loading_stack
  calls,     \* frames of load_module and load_recursive
  registry,  \* paths load_module_tree has registered
  outcome    \* "busy", "ok", "notfound", "parse" or "circular"

loader == <<cache, loading, calls, registry, outcome>>

NoPrograms == [f \in {} |-> Missing]
IsProgram(c) == c \notin {Missing, Bad}
Frame(fn, f, prog) == [fn |-> fn, file |-> f, prog |-> prog, next |-> 1]
Top == Last(calls)
\* The stack with the top frame moved to its next import.
Advanced == [calls EXCEPT ![Len(calls)].next = @ + 1]

\* What load_module_tree hands out: the programs of the registered paths.
Tree == Restrict(cache, registry)

---------------------------------------------------------------------------
\* ModuleLoader::new, and the call it is made for.
NewLoader ==
  /\ cache' = NoPrograms /\ loading' = <<>> /\ calls' = <<>>
  /\ registry' = {} /\ outcome' = "ok"

NewTreeLoader(root) ==
  /\ cache' = NoPrograms /\ loading' = <<>> /\ registry' = {}
  /\ calls' = <<Frame("tree", root, Missing)>> /\ outcome' = "busy"

\* The frames are kept: they are what the error message is made from.
Fail(why) == outcome' = why /\ UNCHANGED <<cache, calls, registry>>

Return(stack) ==
  /\ calls' = stack
  /\ outcome' = IF stack = <<>> THEN "ok" ELSE "busy"

\* load_module(f), called with the frames `stack' below it.  A file that
\* cannot be read or parsed stays on the loading stack.
OpenModule(f, stack) ==
  \/ /\ disk[f] = Missing
     /\ Fail("notfound") /\ UNCHANGED loading
  \/ /\ disk[f] # Missing /\ f \in DOMAIN cache
     /\ Return(stack) /\ UNCHANGED <<cache, loading, registry>>
  \/ /\ disk[f] # Missing /\ f \notin DOMAIN cache /\ f \in ToSet(loading)
     /\ Fail("circular") /\ UNCHANGED loading
  \/ /\ disk[f] = Bad /\ f \notin DOMAIN cache \cup ToSet(loading)
     /\ loading' = Append(loading, f)
     /\ Fail("parse")
  \/ /\ IsProgram(disk[f]) /\ f \notin DOMAIN cache \cup ToSet(loading)
     /\ loading' = Append(loading, f)
     /\ calls' = Append(stack, Frame("module", f, disk[f]))
     /\ outcome' = "busy"
     /\ UNCHANGED <<cache, registry>>

\* The loop of load_module over the imports of its program.
ModuleImports ==
  /\ Top.fn = "module" /\ Top.next <= Len(Top.prog.imports)
  /\ OpenModule(Top.prog.imports[Top.next], Advanced)

ModuleReturns ==
  /\ Top.fn = "module" /\ Top.next > Len(Top.prog.imports)
  /\ loading' = Front(loading)
  /\ cache' = [f \in DOMAIN cache \cup {Top.file} |->
                 IF f = Top.file THEN Top.prog ELSE cache[f]]
  /\ Return(Front(calls))
  /\ UNCHANGED registry

\* load_recursive calls load_module for its own path first.
TreeLoads ==
  /\ Top.fn = "tree" /\ Top.file \notin DOMAIN cache
  /\ OpenModule(Top.file, calls)

\* Mutant: only the imports of the root are followed.
TreeImportsOnce ==
  /\ Top.fn = "tree" /\ Top.file \in DOMAIN cache
  /\ Top.next <= Len(cache[Top.file].imports)
  /\ LET f == cache[Top.file].imports[Top.next] IN
       \/ /\ disk[f] = Missing
          /\ Fail("notfound") /\ UNCHANGED loading
       \/ /\ disk[f] # Missing
          /\ calls' = IF f \in registry \/ Len(calls) > 1
                        THEN Advanced
                        ELSE Append(Advanced, Frame("tree", f, Missing))
          /\ UNCHANGED <<cache, loading, registry, outcome>>

\* Then it resolves each import and, unless registered, walks into it.
TreeImports ==
  /\ Top.fn = "tree" /\ Top.file \in DOMAIN cache
  /\ Top.next <= Len(cache[Top.file].imports)
  /\ LET f == cache[Top.file].imports[Top.next] IN
       \/ /\ disk[f] = Missing
          /\ Fail("notfound") /\ UNCHANGED loading
       \/ /\ disk[f] # Missing
          /\ calls' = IF f \in registry
                        THEN Advanced
                        ELSE Append(Advanced, Frame("tree", f, Missing))
          /\ UNCHANGED <<cache, loading, registry, outcome>>

TreeReturns ==
  /\ Top.fn = "tree" /\ Top.file \in DOMAIN cache
  /\ Top.next > Len(cache[Top.file].imports)
  /\ registry' = registry \cup {Top.file}
  /\ Return(Front(calls))
  /\ UNCHANGED <<cache, loading>>

LoaderStep ==
  /\ outcome = "busy"
  /\ \/ ModuleImports \/ ModuleReturns
     \/ TreeLoads \/ TreeImports \/ TreeReturns

---------------------------------------------------------------------------
\* The error of load_module names the files from the first occurrence of the
\* file to the top of the stack, and the file again (format_import_cycle).
Cycle(f) ==
  LET first == CHOOSE i \in DOMAIN loading :
                 loading[i] = f /\ \A j \in 1..(i - 1) : loading[j] # f
  IN  Append(SubSeq(loading, first, Len(loading)), f)

\* The file whose loading reported the cycle.
Reported ==
  IF Top.fn = "module" THEN Top.prog.imports[Top.next] ELSE Top.file

\* S has, with each file, what that file imports according to `progs'.
Closed(S, progs) == \A g \in S \cap DOMAIN progs : ToSet(progs[g].imports) \subseteq S

\* The files that can be reached from f through the imports of `progs': the
\* least set with f that is closed.
Reachable(f, progs) ==
  {g \in Files : \A S \in SUBSET Files : f \in S /\ Closed(S, progs) => g \in S}
===========================================================================
