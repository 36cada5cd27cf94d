-------------------------------- MODULE Views --------------------------------
(***************************************************************************)
(* What a web client may rely on, without sockets, locks or tasks: the     *)
(* state the server tells it is always the state the server is in.  A      *)
(* client may miss states, it is never told one that has been replaced.    *)
(***************************************************************************)
CONSTANTS Clients, States, None

VARIABLES
    state,  \* the server's state
    view    \* the last state each client was told, None before the first

Init ==
    /\ state \in States
    /\ view = [c \in Clients |-> None]

Changes == state' \in States /\ UNCHANGED view

Told(c) == view' = [view EXCEPT ![c] = state] /\ UNCHANGED state

Next == Changes \/ \E c \in Clients : Told(c)

Spec == Init /\ [][Next]_<<state, view>>
=============================================================================
