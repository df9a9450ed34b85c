---------------------------- MODULE PackageInstall ----------------------------
(***************************************************************************)
(* `ant install` for one package of the dependency graph, with the process *)
(* killed at any point: the shared package store (src/pkg/extractor.zig    *)
(* writes a package's directory, src/pkg/cache.zig records it), the link   *)
(* of the package into node_modules (src/pkg/linker.zig), and the          *)
(* install-state marker that lets a later install trust what it finds      *)
(* (PkgContext.install and pkg_resolve_and_install, src/pkg/root.zig).     *)
(* The package is one that is not symlinked as a whole (it has             *)
(* dependencies) and has no binaries.  One process uses the store at a     *)
(* time, --force is not given, and a crash loses the process, not what it  *)
(* has written.                                                            *)
(***************************************************************************)
EXTENDS Naturals, Sequences, FiniteSets, Functions

CONSTANTS
    Version,      \* the versions of the package, a set of positive numbers
    Archive,      \* v's files in archive order, the first is package.json
    MaxRuns,      \* bound: commands given
    MaxCrashes    \* bound: kills

VARIABLES
    cache,        \* [Version -> [file -> "torn" | "whole"]]: the store
    db,           \* [Version -> file_count], 0: no entry in index.lmdb
    nm,           \* [file -> the version it is of, or 0 when torn]
    marker,       \* the version install-state was written for, or 0
    lock,         \* the version the project asks for
    run,          \* the running command: its step and what it holds
    last,         \* how the last command ended
    exact,        \* ghost: every count recorded was the archive's
    runs, crashes, copying

vars == <<cache, db, nm, marker, lock, run, last, exact, runs, crashes, copying>>
disk == <<cache, db, nm, marker>>

Torn == 0
Manifest == "package.json"
Files(v) == Range(Archive[v])
Without(d, f) == Restrict(d, DOMAIN d \ {f})
With(d, f, x) == [g \in DOMAIN d \cup {f} |-> IF g = f THEN x ELSE d[g]]
Empty == [f \in {} |-> Torn]
Idle == [pc |-> "idle"]
At(pc) == run.pc = pc

(* Nothing is installed and the store is empty. *)
Init ==
    /\ db = [v \in Version |-> 0]
    /\ cache = [v \in Version |-> Empty]
    /\ nm = Empty /\ marker = 0 /\ lock \in Version
    /\ run = Idle /\ last = "none" /\ exact = TRUE
    /\ runs = 0 /\ crashes = 0
    /\ copying \in BOOLEAN

Context == UNCHANGED <<lock, runs, crashes, copying>>
Goto(pc) == run' = [run EXCEPT !.pc = pc]

-----------------------------------------------------------------------------
(* package.json asks for another version. *)
Edit(v) ==
    /\ At("idle") /\ v # lock
    /\ lock' = v /\ last' = "none"
    /\ UNCHANGED <<disk, run, exact, runs, crashes, copying>>

Begin(flow, trust) ==
    run' = [pc |-> "lookup", flow |-> flow, trust |-> trust, count |-> 0]

(* A clean lockfile is installed as it is, and what the marker vouches for *)
(* is trusted; otherwise the graph is resolved.  Both take the marker away *)
(* first.                                                                  *)
Start(flow) ==
    /\ At("idle") /\ runs < MaxRuns
    /\ Begin(flow, flow = "lockfile" /\ marker = lock)
    /\ marker' = 0 /\ runs' = runs + 1 /\ last' = "none"
    /\ UNCHANGED <<cache, db, nm, lock, exact, crashes, copying>>

(* An attempt that fails: a failed lockfile install is followed by a       *)
(* resolution, which starts over without trust.                            *)
Fail ==
    /\ IF run.flow = "lockfile"
       THEN Begin("resolve", FALSE) /\ marker' = 0 /\ last' = last
       ELSE run' = Idle /\ marker' = marker /\ last' = "error"
    /\ Context

Lookup ==
    /\ At("lookup")
    /\ run' = IF db[lock] # 0
              THEN [run EXCEPT !.pc = "link", !.count = db[lock]]
              ELSE [pc |-> "extract", flow |-> run.flow, trust |-> run.trust,
                    count |-> 0, done |-> 0, open |-> FALSE]
    /\ UNCHANGED <<disk, last, exact>> /\ Context

-----------------------------------------------------------------------------
(* Extraction streams the archive into the package's place in the store.   *)
NextFile == Archive[lock][run.done + 1]

createFile ==
    /\ At("extract") /\ ~run.open /\ run.done < Len(Archive[lock])
    /\ cache' = [cache EXCEPT ![lock] = With(@, NextFile, "torn")]
    /\ run' = [run EXCEPT !.open = TRUE,
                          !.count = @ + (IF NextFile \in DOMAIN cache[lock]
                                         THEN 0 ELSE 1)]
    /\ UNCHANGED <<db, nm, marker, last, exact>> /\ Context

writeFileData ==
    /\ At("extract") /\ run.open
    /\ cache' = [cache EXCEPT ![lock] = With(@, NextFile, "whole")]
    /\ run' = [run EXCEPT !.open = FALSE, !.done = @ + 1]
    /\ UNCHANGED <<db, nm, marker, last, exact>> /\ Context

(* The connection fails, or the archive is cut short or damaged: what was  *)
(* extracted stays.                                                        *)
FetchError ==
    /\ At("extract")
    /\ Fail /\ UNCHANGED <<cache, db, nm, exact>>

isComplete == run.done = Len(Archive[lock]) /\ ~run.open /\ run.count > 0

Insert ==
    /\ db' = [db EXCEPT ![lock] = run.count]
    /\ exact' = (exact /\ run.count = Len(Archive[lock]))
    /\ run' = [pc |-> "link", flow |-> run.flow, trust |-> run.trust,
               count |-> run.count]
    /\ UNCHANGED <<cache, nm, marker, last>> /\ Context

(* The package is recorded once its archive has been read to the end. *)
Extracted == At("extract") /\ isComplete /\ Insert

(* Every file was there already, so none was counted: not complete. *)
NothingExtracted ==
    /\ At("extract") /\ run.done = Len(Archive[lock]) /\ ~run.open
    /\ ~isComplete
    /\ Fail /\ UNCHANGED <<cache, db, nm, exact>>

-----------------------------------------------------------------------------
(* linkPackage *)
readPackageVersion(d) ==
    IF Manifest \in DOMAIN d /\ d[Manifest] # Torn THEN d[Manifest] ELSE 0

installedFileCountMatches == Cardinality(DOMAIN nm) >= run.count

(* The install found in place counts when its version is right. *)
SkipOnVersion == readPackageVersion(nm) = lock

Skips ==
    /\ readPackageVersion(nm) = lock
    /\ run.trust \/ installedFileCountMatches

linkPackage ==
    /\ At("link")
    /\ run' = IF Skips THEN [run EXCEPT !.pc = "finish"]
              ELSE [pc |-> IF readPackageVersion(nm) # 0 THEN "delete"
                           ELSE "files",
                    flow |-> run.flow, trust |-> run.trust,
                    count |-> run.count, left |-> DOMAIN cache[lock]]
    /\ UNCHANGED <<disk, last, exact>> /\ Context

(* deleteTree takes one entry at a time, in directory order. *)
deleteInstalledPath ==
    /\ At("delete")
    /\ \/ /\ \E f \in DOMAIN nm : nm' = Without(nm, f)
          /\ UNCHANGED run
       \/ /\ DOMAIN nm = {} /\ Goto("files")
          /\ UNCHANGED nm
    /\ UNCHANGED <<cache, db, marker, last, exact>> /\ Context

(* A hard link appears whole, a copy is created first and filled after; an *)
(* old file of the name is deleted before.                                 *)
linkFile ==
    /\ At("files")
    /\ \E f \in run.left :
          /\ nm' = With(nm, f, IF copying /\ ~(f \in DOMAIN nm /\ nm[f] = Torn)
                               THEN Torn ELSE lock)
          /\ run' = IF nm'[f] = Torn THEN run
                    ELSE [run EXCEPT !.left = @ \ {f}]
    /\ UNCHANGED <<cache, db, marker, last, exact>> /\ Context

(* A file that cannot be linked ends the sequential walk; the threads of   *)
(* the parallel one, which never copies, go on.                            *)
LinkError ==
    /\ At("files")
    /\ \E f \in run.left :
          /\ nm' = IF f \in DOMAIN nm /\ nm[f] = Torn THEN nm ELSE Without(nm, f)
          /\ \/ Fail
             \/ /\ ~copying
                /\ run' = [run EXCEPT !.left = @ \ {f}]
                /\ UNCHANGED <<marker, last>> /\ Context
    /\ UNCHANGED <<cache, db, exact>>

(* The directory cannot be opened, deleted or created. *)
DirectoryError ==
    /\ run.pc \in {"link", "delete"}
    /\ Fail /\ UNCHANGED <<cache, db, nm, exact>>

Verify ==
    /\ At("files") /\ run.left = {}
    /\ IF installedFileCountMatches
       THEN /\ Goto("finish") /\ UNCHANGED <<marker, last>> /\ Context
       ELSE Fail
    /\ UNCHANGED <<cache, db, nm, exact>>

(* The lockfile and the marker are written, and the command succeeds. *)
Finish ==
    /\ At("finish")
    /\ marker' = lock /\ run' = Idle /\ last' = "ok"
    /\ UNCHANGED <<cache, db, nm, exact>> /\ Context

-----------------------------------------------------------------------------
(* Expired files deleted first, their entry after them. *)
prune_files_first ==
    /\ \/ \E v \in Version :
             /\ At("idle") /\ runs < MaxRuns /\ db[v] # 0
             /\ run' = [pc |-> "prune", of |-> v]
             /\ runs' = runs + 1 /\ last' = "none"
             /\ UNCHANGED <<cache, db>>
       \/ /\ At("prune")
          /\ \/ \E f \in DOMAIN cache[run.of] :
                   /\ cache' = [cache EXCEPT ![run.of] = Without(@, f)]
                   /\ UNCHANGED <<db, run>>
             \/ /\ DOMAIN cache[run.of] = {}
                /\ db' = [db EXCEPT ![run.of] = 0] /\ run' = Idle
                /\ UNCHANGED cache
          /\ UNCHANGED <<runs, last>>
    /\ UNCHANGED <<nm, marker, lock, exact, crashes, copying>>

(* An expired entry leaves the index in one transaction, then its files go. *)
prune ==
    /\ \/ \E v \in Version :
             /\ At("idle") /\ runs < MaxRuns /\ db[v] # 0
             /\ db' = [db EXCEPT ![v] = 0]
             /\ run' = [pc |-> "prune", of |-> v]
             /\ runs' = runs + 1 /\ last' = "none"
             /\ UNCHANGED cache
       \/ /\ At("prune")
          /\ \/ \E f \in DOMAIN cache[run.of] :
                   /\ cache' = [cache EXCEPT ![run.of] = Without(@, f)]
                   /\ UNCHANGED run
             \/ /\ DOMAIN cache[run.of] = {} /\ run' = Idle
                /\ UNCHANGED cache
          /\ UNCHANGED <<db, runs, last>>
    /\ UNCHANGED <<nm, marker, lock, exact, crashes, copying>>

Crash ==
    /\ ~At("idle") /\ crashes < MaxCrashes
    /\ run' = Idle /\ last' = "none" /\ crashes' = crashes + 1
    /\ UNCHANGED <<disk, lock, exact, runs, copying>>

Next ==
    \/ \E v \in Version : Edit(v)
    \/ \E flow \in {"lockfile", "resolve"} : Start(flow)
    \/ Lookup \/ createFile \/ writeFileData \/ FetchError \/ Extracted
    \/ NothingExtracted \/ linkPackage \/ deleteInstalledPath \/ linkFile
    \/ LinkError \/ DirectoryError \/ Verify \/ Finish \/ prune \/ Crash

Spec == Init /\ [][Next]_vars

-----------------------------------------------------------------------------
Leftovers == \E f \in DOMAIN nm : f \notin Files(lock) \/ nm[f] \notin {lock, Torn}

(* A package the index names is in the store with every file of its        *)
(* archive, written to the end: whatever was killed between extraction,    *)
(* the index transaction and a prune, an install never links from a        *)
(* half-written package.                                                   *)
CacheEntryIsWhole ==
    \A v \in Version : db[v] # 0 =>
        /\ DOMAIN cache[v] = Files(v)
        /\ \A f \in Files(v) : cache[v][f] = "whole"

(* An install that reports success has left every file of the version      *)
(* asked for in node_modules, whatever earlier installs and kills left     *)
(* there: skipping on the version, the file count or the marker never      *)
(* takes a partial install for a finished one.  Two things can deceive the *)
(* count, and are named: an extraction over the leavings of an interrupted *)
(* one records fewer files than the archive has (`exact` is then false),   *)
(* and files of another version that an interrupted delete left are still  *)
(* there to be counted (`Leftovers`).                                      *)
InstalledComplete ==
    last = "ok" /\ exact => Files(lock) \subseteq DOMAIN nm \/ Leftovers
=============================================================================
