----------------------------- MODULE Dispatcher -----------------------------
(***************************************************************************)
(* What the dispatch scheduler of Elevator.h promises, with its queues,    *)
(* threads and car motion hidden: clients submit requests (CALL with a     *)
(* direction, GO with one chosen for them), each with a fresh correlation  *)
(* id; the car serves a pending request by stopping at its floor, once.    *)
(* The car's location changes only by such a stop.                         *)
(*                                                                         *)
(* Only safety is stated: the detailed scheduler does not serve every      *)
(* request (see DeferredRequestServed in ElevatorCtrl).                    *)
(***************************************************************************)
EXTENDS Naturals

CONSTANTS
    RequestFloors,  \* floors clients may ask for
    MaxRequests     \* bound on the number of submitted requests

Dirs == {"UP", "DOWN"}
Ids == 1..MaxRequests

VARIABLES
    pending,   \* requests submitted and not yet served
    served,    \* ids of the requests served so far
    location,  \* the floor the car last stopped at
    nextId     \* the id the next submitted request gets

vars == <<pending, served, location, nextId>>

Init ==
    /\ pending = {}
    /\ served = {}
    /\ location = 0
    /\ nextId = 1

\* A client submits a request for floor f travelling d.
Submit(f, d) ==
    /\ nextId <= MaxRequests
    /\ pending' = pending \cup {[id |-> nextId, floor |-> f, dir |-> d]}
    /\ nextId' = nextId + 1
    /\ UNCHANGED <<served, location>>

\* The car stops at the floor of the pending request q.
Serve(q) ==
    /\ q \in pending
    /\ pending' = pending \ {q}
    /\ served' = served \cup {q.id}
    /\ location' = q.floor
    /\ UNCHANGED nextId

Next ==
    \/ \E f \in RequestFloors, d \in Dirs : Submit(f, d)
    \/ \E q \in pending : Serve(q)

Spec == Init /\ [][Next]_vars
=============================================================================
