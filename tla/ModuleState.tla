---------------------------- MODULE ModuleState ----------------------------
(***************************************************************************)
(* The call table of one waPC conversation: crates/wapc/src/wapchost/      *)
(* modulestate.rs.  A ModuleState is created for every WapcHost::call and  *)
(* WapcHost::call_async and is shared by the caller, the engine's import   *)
(* functions and the tasks that run asynchronous host calls.               *)
(*                                                                         *)
(* calls is the Mutex<HashMap<i32, CallState>>, call_index the AtomicI32   *)
(* from which both guest invocations and host calls draw their ids.  Every *)
(* method locks the map for one lookup or one update, so each is an        *)
(* operator from a table to a table (or to a value) and the modules that   *)
(* use them decide which ones happen in one atomic step.                   *)
(*                                                                         *)
(* Data abstraction.  A guest payload is a member of Payload, the text of  *)
(* a guest error is "guest" or "trap", and a reply of the host callback is *)
(* represented by the id of the host call that it answers (0 is None).     *)
(***************************************************************************)
EXTENDS Integers

CONSTANTS
    Payload,    \* the payloads a guest may answer with
    Empty,      \* the empty Vec<u8>, one of them
    None        \* Option::None for a payload

ASSUME PayloadAssumption ==
    /\ Empty \in Payload
    /\ None \notin Payload

VARIABLES
    calls,      \* calls: HashMap<i32, CallState>, a function on the ids in use
    call_index  \* call_index: the next id to hand out

stateVars == <<calls, call_index>>

GuestErrors == {"none", "guest", "trap"}

CallState ==
    [guest_request  : BOOLEAN,
     guest_response : Payload \cup {None},
     host_response  : Nat,
     guest_error    : GuestErrors,
     host_error     : Nat,
     channel        : BOOLEAN]

\* CallState::default()
DefaultCallState ==
    [guest_request  |-> FALSE,
     guest_response |-> None,
     host_response  |-> 0,
     guest_error    |-> "none",
     host_error     |-> 0,
     channel        |-> FALSE]

\* The entry of an invocation: the request and the sender of its oneshot.
InvocationState ==
    [DefaultCallState EXCEPT !.guest_request = TRUE, !.channel = TRUE]

-----------------------------------------------------------------------------
Insert(t, id, s) ==
    [i \in DOMAIN t \cup {id} |-> IF i = id THEN s ELSE t[i]]

\* clear() in place of remove().
RemoveAll(t, id) == [i \in {} |-> t[i]]

Remove(t, id) ==
    [i \in DOMAIN t \ {id} |-> t[i]]

init_host_call(t, id) == Insert(t, id, DefaultCallState)

\* Taking the entry out to write to it.
SetErrorTaking(t, id, e) == Remove(t, id)

\* The setters do nothing for an id that is no longer in the table.
set_guest_error(t, id, e) ==
    IF id \in DOMAIN t THEN [t EXCEPT ![id].guest_error = e] ELSE t

set_guest_response(t, id, r) ==
    IF id \in DOMAIN t THEN [t EXCEPT ![id].guest_response = r] ELSE t

\* What the host callback's result leaves in the table.
SetHostReply(t, id, ok) ==
    IF id \notin DOMAIN t THEN t
    ELSE IF ok THEN [t EXCEPT ![id].host_response = id]
         ELSE [t EXCEPT ![id].host_error = id]

\* The id whether or not the call has succeeded.
HostCallCodeAlways(id, ok) == id

\* The code handed to the guest: the id of a successful host call, else 0.
HostCallCode(id, ok) == IF ok THEN id ELSE 0

-----------------------------------------------------------------------------
(* CallStatus, what the oneshot of an invocation carries.                  *)

NoStatus == [tag |-> "None", state |-> DefaultCallState]

CallStatus == [tag : {"None", "Complete", "Error"}, state : CallState]

\* The codes read by the names of the variants.
FinishStatusByName(t, id, code, s) ==
    IF id \in DOMAIN t
    THEN [tag   |-> IF code = 0 THEN "Error" ELSE "Complete",
          state |-> [t[id] EXCEPT !.channel = FALSE]]
    ELSE s

\* finish_guest_invocation sends only when the entry is still there; code 0
\* is sent as Complete, any other code as Error, with the sender taken out.
FinishStatus(t, id, code, s) ==
    IF id \in DOMAIN t
    THEN [tag   |-> IF code = 0 THEN "Complete" ELSE "Error",
          state |-> [t[id] EXCEPT !.channel = FALSE]]
    ELSE s

-----------------------------------------------------------------------------
(* The getters the import functions use.                                   *)

get_guest_request(t, id) == id \in DOMAIN t /\ t[id].guest_request

get_host_response(t, id) == IF id \in DOMAIN t THEN t[id].host_response ELSE 0

get_host_error(t, id) == IF id \in DOMAIN t THEN t[id].host_error ELSE 0

-----------------------------------------------------------------------------
ModuleStateInit ==
    /\ calls = [i \in {} |-> DefaultCallState]
    /\ call_index = 1

\* Both fetch_add call_index and insert the entry of the id they drew.
NewInvocation ==
    /\ calls' = Insert(calls, call_index, InvocationState)
    /\ call_index' = call_index + 1

NewHostCall ==
    /\ calls' = init_host_call(calls, call_index)
    /\ call_index' = call_index + 1
=============================================================================
