---------------------------- MODULE GuestProtocol ----------------------------
(***************************************************************************)
(* The conversation between a waPC host and one instance of a guest, as    *)
(* either side may rely on it.  WapcCall is the host's side with any guest *)
(* that follows the protocol, WapcGuest the guest's side with a host that  *)
(* follows it; each implements this specification, so what one assumes of  *)
(* the other is what the other does.                                       *)
(***************************************************************************)
EXTENDS FiniteSets, Naturals

CONSTANTS
    Invocations,    \* the ids of guest invocations
    HostCalls       \* the ids of asynchronous host calls

VARIABLES
    running,    \* whether a frame of the guest is on some stack
    open,       \* the invocations that the guest has to answer
    answered,   \* those that it has answered
    made,       \* the asynchronous host calls that it has made
    owed        \* those for which it has not been called back

vars == <<running, open, answered, made, owed>>

New(i) == i \notin open \cup answered

\* A frame may end only if every open invocation has a host call to wait for:
\* nobody else will run the guest again.
Parked(S) == Cardinality(S) =< Cardinality(owed)

Init ==
    /\ running \in BOOLEAN
    /\ open = {}
    /\ answered = {}
    /\ made = {}
    /\ owed = {}

\* A starter, before the first invocation.
Start ==
    /\ ~running
    /\ open \cup answered = {}
    /\ running' = TRUE
    /\ UNCHANGED <<open, answered, made, owed>>

\* An invocation is handed to the guest ...
Enter(i) ==
    /\ ~running
    /\ New(i)
    /\ running' = TRUE
    /\ open' = open \cup {i}
    /\ UNCHANGED <<answered, made, owed>>

\* ... which answers it in some frame,
Answer(i) ==
    /\ running
    /\ i \in open
    /\ open' = open \ {i}
    /\ answered' = answered \cup {i}
    /\ UNCHANGED <<running, made, owed>>

\* ... or by the end of one, with a return value or a trap,
Return(i) ==
    /\ running
    /\ i \in open
    /\ open' = open \ {i}
    /\ answered' = answered \cup {i}
    /\ Parked(open')
    /\ running' = FALSE
    /\ UNCHANGED <<made, owed>>

\* ... or at once.
Refuse(i) ==
    /\ ~running
    /\ New(i)
    /\ answered' = answered \cup {i}
    /\ UNCHANGED <<running, open, made, owed>>

Leave ==
    /\ running
    /\ Parked(open)
    /\ running' = FALSE
    /\ UNCHANGED <<open, answered, made, owed>>

\* An asynchronous host call, under an id of its own.
CallHost(x) ==
    /\ running
    /\ x \notin made
    /\ made' = made \cup {x}
    /\ owed' = owed \cup {x}
    /\ UNCHANGED <<running, open, answered>>

\* The host calls back, once for every host call and never into a frame.
CallBack(x) ==
    /\ ~running
    /\ x \in owed
    /\ running' = TRUE
    /\ owed' = owed \ {x}
    /\ UNCHANGED <<open, answered, made>>

Next ==
    \/ Start \/ Leave
    \/ \E i \in Invocations : Enter(i) \/ Answer(i) \/ Return(i) \/ Refuse(i)
    \/ \E x \in HostCalls : CallHost(x) \/ CallBack(x)

Spec == Init /\ [][Next]_vars
=============================================================================
