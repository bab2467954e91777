---------------------------- MODULE DeliveryQueue ----------------------------
(***************************************************************************)
(* What the credit queue promises the ledger that writes into it, without  *)
(* publishers, claims, leases and retries: an event waits until it is      *)
(* either confirmed or withdrawn, the receiver may get it any number of    *)
(* times in between and afterwards, it is confirmed only once the receiver *)
(* has it, and both ends are final.                                        *)
(***************************************************************************)

CONSTANT Ids

VARIABLES
    state,      \* id -> "none", "waiting", "confirmed", "withdrawn"
    received    \* ids the receiver has been given

queueVars == <<state, received>>

Init ==
    /\ state = [e \in Ids |-> "none"]
    /\ received = {}

Enqueue(e) ==
    /\ state[e] = "none"
    /\ state' = [state EXCEPT ![e] = "waiting"]
    /\ UNCHANGED received

Receive(e) ==
    /\ state[e] # "none"
    /\ received' = received \cup {e}
    /\ UNCHANGED state

Confirm(e) ==
    /\ state[e] = "waiting" /\ e \in received
    /\ state' = [state EXCEPT ![e] = "confirmed"]
    /\ UNCHANGED received

Withdraw(e) ==
    /\ state[e] = "waiting"
    /\ state' = [state EXCEPT ![e] = "withdrawn"]
    /\ UNCHANGED received

Next == \E e \in Ids : Enqueue(e) \/ Receive(e) \/ Confirm(e) \/ Withdraw(e)

Spec == Init /\ [][Next]_queueVars
=============================================================================
