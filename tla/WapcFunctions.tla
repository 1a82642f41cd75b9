---------------------------- MODULE WapcFunctions ----------------------------
(***************************************************************************)
(* The functions that host and guest offer to each other: their names      *)
(* (crates/wapc/src/wapc_functions.rs), and the types with which each side *)
(* declares them.  A type is the number of i32 parameters and of results;  *)
(* a pointer or a usize of a guest is an i32 of Wasm.                      *)
(***************************************************************************)
EXTENDS Naturals, Sequences

\* The guest that the engine has been given: imports, a function from names to
\* types, and exports, a set of names.
VARIABLE guest

\* The variants of HostExports and impl AsRef<str>.
HostExports ==
    {"ConsoleLog", "HostCall", "AsyncHostCall", "GuestRequest",
     "HostResponse", "HostResponseLen", "GuestResponse", "GuestError",
     "HostError", "HostErrorLen", "GuestResponseReady"}

AsRef(v) ==
    CASE v = "ConsoleLog" -> "__console_log"
      [] v = "HostCall" -> "__host_call"
      [] v = "AsyncHostCall" -> "__async_host_call"
      [] v = "GuestRequest" -> "__guest_request"
      [] v = "HostResponse" -> "__host_response"
      [] v = "HostResponseLen" -> "__host_response_len"
      [] v = "GuestResponse" -> "__guest_response"
      [] v = "GuestError" -> "__guest_error"
      [] v = "HostError" -> "__host_error"
      [] v = "HostErrorLen" -> "__host_error_len"
      [] v = "GuestResponseReady" -> "__guest_call_response_ready"

HostNames == {AsRef(v) : v \in HostExports}

\* impl FromStr for a name that is in the table.
FromStr(n) == CHOOSE v \in HostExports : AsRef(v) = n

GuestExports ==
    {"__guest_call", "__async_guest_call", "__host_call_response_ready",
     "wapc_init", "_start"}

\* "order is important"
REQUIRED_STARTS == <<"_start", "wapc_init">>

-----------------------------------------------------------------------------
\* The types under which the Wasmtime provider defines the imports.
WasmtimeType(v) ==
    CASE v \in {"HostCall", "AsyncHostCall"} -> <<8, 1>>
      [] v \in {"GuestRequest", "GuestResponse", "GuestError"} -> <<3, 0>>
      [] v \in {"ConsoleLog", "HostResponse", "HostError",
                "GuestResponseReady"} -> <<2, 0>>
      [] v \in {"HostResponseLen", "HostErrorLen"} -> <<1, 1>>

\* Those that a guest built with wapc-guest declares.
LibraryType(v) ==
    CASE v \in {"HostCall", "AsyncHostCall"} -> <<9, 1>>
      [] v \in {"GuestRequest", "GuestResponse", "GuestError"} -> <<3, 0>>
      [] v \in {"ConsoleLog", "HostResponse", "HostError",
                "GuestResponseReady"} -> <<2, 0>>
      [] v \in {"HostResponseLen", "HostErrorLen"} -> <<1, 1>>
=============================================================================
