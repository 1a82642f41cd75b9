------------------------------ MODULE Loading -------------------------------
(***************************************************************************)
(* A guest and the engine that loads it: the Wasmtime provider (Hosts) or  *)
(* the wasm3 provider (Wasm3Provider), chosen by the user of WapcHost.     *)
(***************************************************************************)
EXTENDS Hosts, Wasm3Provider

CONSTANT Guests     \* the guests that each engine may be given

ASSUME GuestsAssumption == DOMAIN Guests = {"wasmtime", "wasm3"}

VARIABLE engine

vars == <<engine, guest, hostVars, wasm3Vars>>

TypeOK == HostsTypeOK /\ Wasm3TypeOK

Init ==
    /\ engine \in DOMAIN Guests
    /\ guest \in Guests[engine]
    /\ HostsInit
    /\ Wasm3Init

Next ==
    \/ engine = "wasmtime" /\ HostsNext /\ UNCHANGED <<engine, guest, wasm3Vars>>
    \/ engine = "wasm3" /\ Wasm3Next /\ UNCHANGED <<engine, guest, hostVars>>

Spec == Init /\ [][Next]_vars
=============================================================================
