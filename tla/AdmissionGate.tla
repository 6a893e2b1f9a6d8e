--------------------------- MODULE AdmissionGate ---------------------------
(***************************************************************************)
(* What the model scheduler promises: at most ConcurrencyLimit requests    *)
(* hold a slot, at most QueueLimit wait for one, and a request that did    *)
(* not wait never takes a slot while another waits.                        *)
(***************************************************************************)
EXTENDS Naturals, FiniteSets

CONSTANTS Requests, ConcurrencyLimit, QueueLimit

VARIABLES
    holders,    \* the requests that hold a slot
    waiting     \* the requests that wait for one

vars == <<holders, waiting>>

Init == holders = {} /\ waiting = {}

SlotFree == Cardinality(holders) < ConcurrencyLimit

Enter(r) ==
    /\ r \notin holders \cup waiting
    /\ SlotFree /\ waiting = {}
    /\ holders' = holders \cup {r}
    /\ UNCHANGED waiting

Wait(r) ==
    /\ r \notin holders \cup waiting
    /\ Cardinality(waiting) < QueueLimit
    /\ waiting' = waiting \cup {r}
    /\ UNCHANGED holders

Grant(r) ==
    /\ r \in waiting /\ SlotFree
    /\ waiting' = waiting \ {r}
    /\ holders' = holders \cup {r}

\* A request leaves the waiting room without a slot: cancelled or timed out.
GiveUp(r) ==
    /\ r \in waiting
    /\ waiting' = waiting \ {r}
    /\ UNCHANGED holders

Leave(r) ==
    /\ r \in holders
    /\ holders' = holders \ {r}
    /\ UNCHANGED waiting

Next == \E r \in Requests : Enter(r) \/ Wait(r) \/ Grant(r) \/ GiveUp(r) \/ Leave(r)

Spec == Init /\ [][Next]_vars
=============================================================================
