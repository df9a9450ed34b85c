------------------------------ MODULE MCPrograms ------------------------------
(***************************************************************************)
(* PackageInstall, ModuleLoader and AbortSignal for the model checker:     *)
(* what happens before, at and after the start of a program.  A behaviour  *)
(* is one of any of them, told by `part'; a variable that is not the       *)
(* part's own keeps the value Unused, and `stack' serves two parts.        *)
(***************************************************************************)
EXTENDS Naturals, TLC

CONSTANTS
  Unused,
  MaxRuns, MaxCrashes,                              \* PackageInstall
  Module, MaxImports,                               \* ModuleLoader
  Signal, Callback, MaxListeners, MaxRemovals       \* AbortSignal

VARIABLES
  part, stack,
  cache, db, nm, marker, lock, run, last, exact, runs, crashes, copying,
  imports, is_loaded, is_loading, has_tla, ret, depth, asked,
  made, armed, reason, listeners, followers, sources, added, called, removed,
  shifted

packages == <<cache, db, nm, marker, lock, run, last, exact, runs, crashes, copying>>
modules  == <<imports, is_loaded, is_loading, has_tla, ret, depth, asked>>
signals  == <<made, armed, reason, listeners, followers, sources, added, called,
              removed, shifted>>
vars     == <<part, stack, packages, modules, signals>>

(* Two versions, the second with a file less. *)
Version == {1, 2}
Archive == << <<"package.json", "a", "b">>, <<"package.json", "b">> >>

P == INSTANCE PackageInstall
M == INSTANCE ModuleLoader
A == INSTANCE AbortSignal

NoPackages ==
  /\ cache = Unused /\ db = Unused /\ nm = Unused /\ marker = Unused
  /\ lock = Unused /\ run = Unused /\ last = Unused /\ exact = Unused
  /\ runs = Unused /\ crashes = Unused /\ copying = Unused
NoModules ==
  /\ imports = Unused /\ is_loaded = Unused /\ is_loading = Unused
  /\ has_tla = Unused /\ ret = Unused /\ depth = Unused /\ asked = Unused
NoSignals ==
  /\ made = Unused /\ armed = Unused /\ reason = Unused /\ listeners = Unused
  /\ followers = Unused /\ sources = Unused /\ added = Unused /\ called = Unused
  /\ removed = Unused /\ shifted = Unused

Init ==
  \/ part = "packages" /\ P!Init /\ NoModules /\ NoSignals /\ stack = Unused
  \/ part = "modules" /\ M!Init /\ NoPackages /\ NoSignals
  \/ part = "signals" /\ A!Init /\ NoPackages /\ NoModules

Next ==
  \/ /\ part = "packages" /\ P!Next
     /\ UNCHANGED <<part, stack, modules, signals>>
  \/ /\ part = "modules" /\ M!Next
     /\ UNCHANGED <<part, packages, signals>>
  \/ /\ part = "signals" /\ A!Next
     /\ UNCHANGED <<part, packages, modules>>

Spec == Init /\ [][Next]_vars

(* The files are alike, and so are the signals. *)
Symmetry == Permutations(Module) \cup Permutations(Signal)

-----------------------------------------------------------------------------
(* A package the index names is in the store with all its files, whatever   *)
(* was killed in an extraction or a prune (insertInTxn, prune, isComplete). *)
CacheEntryIsWhole == part = "packages" => P!CacheEntryIsWhole

(* An install that reports success has left every file of the package in    *)
(* node_modules, or one of the two things that deceive the count of files   *)
(* has happened (linkPackage, installedFileCountMatches and the marker).    *)
InstalledComplete == part = "packages" => P!InstalledComplete

(* A module is marked as loading exactly while one activation of            *)
(* esm_load_module works on it, also after errors.                          *)
LoadingIsActive == part = "modules" => M!LoadingIsActive

(* A body runs after its static dependencies, those that wait for this very *)
(* module aside (esm_instantiate_static_dependencies).                      *)
DependenciesFirst == part = "modules" => M!DependenciesFirst

(* No event loop is run inside import(), also after imports that failed     *)
(* (dynamic_import_depth, esm_handle_module_promise).                       *)
ImportNeverBlocks == part = "modules" => M!ImportNeverBlocks

(* A dependent signal is aborted with its sources, before any handler runs  *)
(* (signal_do_abort, abort_signal_static_any).                              *)
DependentFollows == part = "signals" => A!DependentFollows

(* No listener is called twice, and none is left out but by the removal of  *)
(* one that was called (signal_do_abort).                                   *)
HeardExactlyOnce == part = "signals" => A!HeardExactlyOnce
=============================================================================
