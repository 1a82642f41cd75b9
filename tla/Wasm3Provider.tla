---------------------------- MODULE Wasm3Provider ----------------------------
(***************************************************************************)
(* The wasm3 engine: crates/wasm3-provider/src/lib.rs.  init links the     *)
(* imports of the guest one after the other, looks for __guest_call and    *)
(* runs the starters; call needs the runtime that init has left behind.    *)
(* The crate is written against an earlier form of the engine trait (init  *)
(* takes the module state, a call has no id), so it has its own types.     *)
(*                                                                         *)
(* link_closure (wasm3, external) fails both for an import that the guest  *)
(* does not have and for one that it declares with another type; a guest   *)
(* that calls an import which has not been linked traps.                   *)
(***************************************************************************)
EXTENDS WapcFunctions

VARIABLES
    w3pc,       \* where the provider is
    step,       \* how many imports have been tried, starters been run
    linked,     \* the imports that have been linked
    w3result    \* what the last call returned

wasm3Vars == <<w3pc, step, linked, w3result>>

\* The closures of init in their order, with their types.
Closures ==
    << <<"__host_call", <<8, 1>> >>,       <<"__guest_request", <<2, 0>> >>,
       <<"__console_log", <<2, 0>> >>,     <<"__host_response", <<1, 0>> >>,
       <<"__host_response_len", <<0, 1>> >>, <<"__guest_response", <<2, 0>> >>,
       <<"__guest_error", <<2, 0>> >>,     <<"__host_error", <<1, 0>> >>,
       <<"__host_error_len", <<0, 1>> >>,  <<"fd_write", <<4, 1>> >> >>

\* Forgetting to leave init for one of them.
RequiredButError == {"__guest_request", "__guest_response"}

\* Those whose failure ends init; the others only log a warning.
Required == {"__guest_request", "__guest_response", "__guest_error"}

Wasm3PCs == {"new", "link", "start", "failed", "panicked", "ready"}

Wasm3TypeOK ==
    /\ w3pc \in Wasm3PCs
    /\ step \in 0..Len(Closures)
    /\ linked \subseteq DOMAIN guest.imports
    /\ w3result \in {"none", "ok", "trap", "no_module"}

\* Wasm3EngineProvider::new: inner is None.
Wasm3Init ==
    /\ w3pc = "new"
    /\ step = 0
    /\ linked = {}
    /\ w3result = "none"

-----------------------------------------------------------------------------
(* init.                                                                   *)

\* Environment::new fails: init panics, and the provider is lost with it.
EnvironmentFails ==
    /\ w3pc = "new"
    /\ w3pc' = "panicked"
    /\ UNCHANGED <<step, linked, w3result>>

\* The runtime is created and the module parsed and loaded, or one of them
\* returns an error.
Load(ok) ==
    /\ w3pc = "new"
    /\ w3pc' = IF ok THEN "link" ELSE "failed"
    /\ UNCHANGED <<step, linked, w3result>>

\* Looking for every import in the namespace of waPC.
LinksWapcOnly(closure) ==
    /\ closure[1] \in HostNames
    /\ closure[1] \in DOMAIN guest.imports
    /\ guest.imports[closure[1]] = closure[2]

Links(closure) ==
    /\ closure[1] \in DOMAIN guest.imports
    /\ guest.imports[closure[1]] = closure[2]

link_closure ==
    /\ w3pc = "link"
    /\ step < Len(Closures)
    /\ LET closure == Closures[step + 1]
       IN  IF Links(closure)
           THEN linked' = linked \cup {closure[1]} /\ UNCHANGED w3pc
           ELSE /\ w3pc' = IF closure[1] \in Required THEN "failed" ELSE w3pc
                /\ UNCHANGED linked
    /\ step' = step + 1
    /\ UNCHANGED w3result

\* find_function(GUEST_CALL): without it there is nothing to call.
FindGuestCall ==
    /\ w3pc = "link"
    /\ step = Len(Closures)
    /\ w3pc' = IF "__guest_call" \in guest.exports THEN "start" ELSE "failed"
    /\ step' = 0
    /\ UNCHANGED <<linked, w3result>>

\* The starters, those that exist, in the order of REQUIRED_STARTS.
Starter(ok) ==
    /\ w3pc = "start"
    /\ step < Len(REQUIRED_STARTS)
    /\ ok \/ REQUIRED_STARTS[step + 1] \in guest.exports
    /\ w3pc' = IF ok THEN w3pc ELSE "failed"
    /\ step' = step + 1
    /\ UNCHANGED <<linked, w3result>>

\* inner = Some(..)
InitDone ==
    /\ w3pc = "start"
    /\ step = Len(REQUIRED_STARTS)
    /\ w3pc' = "ready"
    /\ UNCHANGED <<step, linked, w3result>>

-----------------------------------------------------------------------------
\* call: an error unless init has succeeded; the guest uses some imports.
Wasm3Call(used) ==
    /\ w3pc \in {"new", "failed", "ready"}
    /\ w3result' = IF w3pc # "ready" THEN "no_module"
                   ELSE IF used \subseteq linked THEN "ok" ELSE "trap"
    /\ UNCHANGED <<w3pc, step, linked>>

Wasm3Next ==
    \/ \E ok \in BOOLEAN : Load(ok) \/ Starter(ok)
    \/ EnvironmentFails \/ link_closure \/ FindGuestCall \/ InitDone
    \/ \E used \in SUBSET DOMAIN guest.imports : Wasm3Call(used)

-----------------------------------------------------------------------------
\* A provider that calls a guest has linked every import for which the guest
\* and the engine agree on the type, and all that a guest needs to take a
\* request and to answer it; no failure on the way there was passed over.
Wasm3Ready ==
    w3pc = "ready" =>
        /\ {"__guest_request", "__guest_response", "__guest_error"} \subseteq linked
        /\ \A i \in 1..Len(Closures) :
               Closures[i][1] \in linked <=> Links(Closures[i])
        /\ "__guest_call" \in guest.exports

\* A call of a guest traps on an import only if that guest has declared it
\* with a type, or under a name, that the engine does not have: for a guest
\* that follows the engine's table, init leaves no import unlinked.
TrapsOnlyOnForeignImports ==
    w3result = "trap" =>
        \E n \in DOMAIN guest.imports : \A i \in 1..Len(Closures) :
            Closures[i] # <<n, guest.imports[n]>>
=============================================================================
