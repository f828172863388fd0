------------------------------ MODULE Exchange ------------------------------
(***************************************************************************)
(* What an inverting proxy promises its clients, without saying how: each  *)
(* request is run by the backend once at most, and a client that is given  *)
(* a backend's response is given one to a request of its own that ran.     *)
(***************************************************************************)
EXTENDS Naturals

CONSTANT Clients

VARIABLES
    phase,  \* how far each client's exchange has come
    runs    \* how often the backend ran its request

Phases == {"new", "waiting", "answered", "refused", "left"}

Init ==
    /\ phase = [c \in Clients |-> "new"]
    /\ runs = [c \in Clients |-> 0]

\* The client's request reaches the proxy.
Submit(c) ==
    /\ phase[c] = "new"
    /\ phase' = [phase EXCEPT ![c] = "waiting"]
    /\ UNCHANGED runs

\* The backend runs it, perhaps after its client has left.
Run(c) ==
    /\ phase[c] # "new"
    /\ runs[c] = 0
    /\ runs' = [runs EXCEPT ![c] = 1]
    /\ UNCHANGED phase

\* The client is given the backend's response, ...
Answer(c) ==
    /\ phase[c] = "waiting"
    /\ runs[c] = 1
    /\ phase' = [phase EXCEPT ![c] = "answered"]
    /\ UNCHANGED runs

\* ... or an error in its place, ...
Refuse(c) ==
    /\ phase[c] = "waiting"
    /\ phase' = [phase EXCEPT ![c] = "refused"]
    /\ UNCHANGED runs

\* ... or does not wait for either.
Leave(c) ==
    /\ phase[c] = "waiting"
    /\ phase' = [phase EXCEPT ![c] = "left"]
    /\ UNCHANGED runs

Next == \E c \in Clients : Submit(c) \/ Run(c) \/ Answer(c) \/ Refuse(c) \/ Leave(c)

Spec == Init /\ [][Next]_<<phase, runs>>
=============================================================================
