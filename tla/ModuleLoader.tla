----------------------------- MODULE ModuleLoader -----------------------------
(***************************************************************************)
(* Loading of modules (src/esm/loader.c): a module's static dependencies   *)
(* are loaded depth first before its body runs, a module that is loaded or *)
(* being loaded answers with its namespace, and a body that waits at top   *)
(* level either runs the event loop on the spot or, inside import(), leaves *)
(* its promise for the importer.  A body, and a callback of an event loop  *)
(* that a body is waiting in, may call import() or require() again.  Every *)
(* module is an ES module in a file; the loader's C stack is `stack`.      *)
(***************************************************************************)
EXTENDS Naturals, Sequences, FiniteSets, SequencesExt

CONSTANTS
    Module,       \* the files
    MaxImports    \* bound: imports that the program asks for

VARIABLES
    imports,      \* [Module -> Seq(Module)]: the static dependencies
    is_loaded, is_loading, has_tla,    \* [Module -> BOOLEAN]
    stack,        \* frames of esm_load_module ("load") and import()
                  \* ("dynamic"), innermost last
    ret,          \* what the last call returned to the frame on top
    depth,        \* dynamic_import_depth
    asked

vars == <<imports, is_loaded, is_loading, has_tla, stack, ret, depth, asked>>
flags == <<is_loaded, is_loading, has_tla>>

Lists == {s \in UNION {[1 .. n -> Module] : n \in 0 .. 2} :
             Len(s) = 2 => s[1] # s[2]}

Init ==
    /\ imports \in [Module -> Lists]
    /\ is_loaded = [m \in Module |-> FALSE]
    /\ is_loading = is_loaded /\ has_tla = is_loaded
    /\ stack = <<>> /\ ret = "none" /\ depth = 0 /\ asked = 0

Top == stack[Len(stack)]
At(step) == stack # <<>> /\ Top.step = step
Frame(m, step) == [module |-> m, step |-> step, next |-> 1]
SetTop(s, f) == [s EXCEPT ![Len(s)] = f]

-----------------------------------------------------------------------------
(* A load that does not see that it had begun, and keeps its mark when the *)
(* file cannot be read.                                                    *)
enter_again(m, s) ==
    IF is_loaded[m]
    THEN /\ ret' = "ok" /\ stack' = s /\ UNCHANGED is_loading
    ELSE /\ is_loading' = [is_loading EXCEPT ![m] = TRUE]
         /\ \/ stack' = Append(s, Frame(m, "dependencies")) /\ ret' = "none"
            \/ stack' = s /\ ret' = "error"

(* esm_load_module up to its dependencies, called over the frames s: a     *)
(* file that cannot be read or parsed is an error at once.                 *)
esm_load_module(m, s) ==
    IF is_loaded[m] \/ is_loading[m]
    THEN /\ ret' = "ok" /\ stack' = s /\ UNCHANGED is_loading
    ELSE \/ /\ is_loading' = [is_loading EXCEPT ![m] = TRUE]
            /\ stack' = Append(s, Frame(m, "dependencies")) /\ ret' = "none"
         \/ /\ UNCHANGED is_loading
            /\ stack' = s /\ ret' = "error"

(* The program's own calls come from the main script, from a body, or from *)
(* a callback of the event loop that a body waits in.                      *)
MayCall == asked < MaxImports /\ (stack = <<>> \/ At("body") \/ At("loop"))

Require(m) ==
    /\ MayCall /\ asked' = asked + 1
    /\ esm_load_module(m, stack)
    /\ UNCHANGED <<imports, is_loaded, has_tla, depth>>

ImportDynamic(m) ==
    /\ MayCall /\ asked' = asked + 1
    /\ depth' = depth + 1
    /\ esm_load_module(m, Append(stack, Frame(m, "dynamic")))
    /\ UNCHANGED <<imports, is_loaded, has_tla>>

(* import() that returns an error before it counts down. *)
ImportReturnsEarly ==
    /\ At("dynamic") /\ ret # "none"
    /\ stack' = Front(stack) /\ ret' = "none"
    /\ depth' = IF ret = "ok" THEN depth - 1 ELSE depth
    /\ has_tla' = IF ret = "ok" THEN [has_tla EXCEPT ![Top.module] = FALSE]
                  ELSE has_tla
    /\ UNCHANGED <<imports, is_loaded, is_loading, asked>>

(* import() takes over the promise of the module it asked for. *)
ImportReturns ==
    /\ At("dynamic") /\ ret # "none"
    /\ stack' = Front(stack) /\ ret' = "none"
    /\ depth' = depth - 1
    /\ has_tla' = IF ret = "ok" THEN [has_tla EXCEPT ![Top.module] = FALSE]
                  ELSE has_tla
    /\ UNCHANGED <<imports, is_loaded, is_loading, asked>>

-----------------------------------------------------------------------------
Leave(m, result) ==
    /\ stack' = Front(stack) /\ ret' = result
    /\ is_loading' = [is_loading EXCEPT ![m] = FALSE]

(* esm_instantiate_static_dependencies, one dependency at a time. *)
NextDependency ==
    /\ At("dependencies") /\ ret # "error"
    /\ Top.next <= Len(imports[Top.module])
    /\ esm_load_module(imports[Top.module][Top.next],
                       SetTop(stack, [Top EXCEPT !.next = @ + 1]))
    /\ UNCHANGED <<imports, is_loaded, has_tla, depth, asked>>

(* The same, going on with the next dependency. *)
DependencyIgnored ==
    /\ At("dependencies") /\ ret = "error"
    /\ ret' = "none"
    /\ UNCHANGED <<imports, flags, stack, depth, asked>>

DependencyFails ==
    /\ At("dependencies") /\ ret = "error"
    /\ Leave(Top.module, "error")
    /\ UNCHANGED <<imports, is_loaded, has_tla, depth, asked>>

DependenciesLoaded ==
    /\ At("dependencies") /\ ret # "error"
    /\ Top.next > Len(imports[Top.module])
    /\ stack' = SetTop(stack, [Top EXCEPT !.step = "body"]) /\ ret' = "none"
    /\ UNCHANGED <<imports, flags, depth, asked>>

BodyThrows ==
    /\ At("body") /\ Leave(Top.module, "error")
    /\ UNCHANGED <<imports, is_loaded, has_tla, depth, asked>>

(* esm_complete_namespace_module *)
Complete(m) == is_loaded' = [is_loaded EXCEPT ![m] = TRUE] /\ Leave(m, "ok")

BodyEnds ==
    /\ At("body") /\ Complete(Top.module)
    /\ UNCHANGED <<imports, has_tla, depth, asked>>

(* esm_handle_module_promise *)
BodyAwaits ==
    /\ At("body")
    /\ \/ /\ depth = 0
          /\ stack' = SetTop(stack, [Top EXCEPT !.step = "loop"])
          /\ UNCHANGED <<flags, ret>>
       \/ /\ depth > 0
          /\ has_tla' = [has_tla EXCEPT ![Top.module] = TRUE]
          /\ Complete(Top.module)
    /\ UNCHANGED <<imports, depth, asked>>

(* The event loop has nothing left to do. *)
LoopEnds ==
    /\ At("loop") /\ Complete(Top.module)
    /\ UNCHANGED <<imports, has_tla, depth, asked>>

Next ==
    \/ \E m \in Module : Require(m) \/ ImportDynamic(m)
    \/ ImportReturns \/ NextDependency \/ DependencyFails
    \/ DependenciesLoaded \/ BodyThrows \/ BodyEnds \/ BodyAwaits \/ LoopEnds

Spec == Init /\ [][Next]_vars

-----------------------------------------------------------------------------
Loads == {i \in 1 .. Len(stack) : stack[i].step # "dynamic"}

(* A module is marked as loading exactly while one activation of           *)
(* esm_load_module works on it: every error return takes the mark back, so *)
(* a failed import can be asked for again, and a module that imports       *)
(* itself through others is never entered twice.                           *)
LoadingIsActive ==
    \A m \in Module :
        Cardinality({i \in Loads : stack[i].module = m})
            = (IF is_loading[m] THEN 1 ELSE 0)

(* When a body runs, or waits in the event loop, each of its static        *)
(* dependencies has been evaluated, or is itself waiting for this module   *)
(* further down the stack (a cycle).                                       *)
DependenciesFirst ==
    \A i \in Loads : stack[i].step \in {"body", "loop"} =>
        \A d \in ToSet(imports[stack[i].module]) :
            is_loaded[d] \/ \E j \in Loads : j <= i /\ stack[j].module = d

(* dynamic_import_depth counts the calls of import() on the stack, failed  *)
(* ones included, so a module that waits at top level runs the event loop  *)
(* only when no import() below it would be kept from returning, and leaves *)
(* its promise only for a module that has been loaded.                     *)
ImportNeverBlocks ==
    LET Dynamic == {i \in 1 .. Len(stack) : stack[i].step = "dynamic"}
    IN  /\ depth = Cardinality(Dynamic)
        /\ \A i \in Loads, j \in Dynamic : stack[i].step = "loop" => i < j
        /\ \A m \in Module : has_tla[m] => is_loaded[m]
=============================================================================
