---------------------------- MODULE ElevatorCtrl ----------------------------
(***************************************************************************)
(* The dispatch scheduler of src/src/controller/cpp/main/Elevator.h: class *)
(* ElevatorCtrl, its process thread (Process::run -> process ->            *)
(* goToFloor) and the calls the network thread makes into it through      *)
(* input_data_consumer (call / go).  Both threads share the three request  *)
(* queues under inputQueueMutex_; the car state is written by the process  *)
(* thread only, but location_ and direction_ are read by the network       *)
(* thread.                                                                 *)
(*                                                                         *)
(* Request timestamps are left out: the only code reading them is          *)
(* getLowestTime{Up,Down}Queue, whose loop never returns for a non-empty   *)
(* queue (see ScanOutcome), so no reachable computation depends on them.   *)
(***************************************************************************)
EXTENDS Naturals, Sequences, FiniteSets

CONSTANTS
    FloorBits,      \* width of location_ / floor_ (uint8_t: 8)
    RequestFloors,  \* floors the clients ask for in this model
    MaxRequests     \* bound on the number of submitted requests

\* location_ and the goToFloor loop counter are uint8_t: arithmetic wraps.
FloorCount == 2^FloorBits
Floors == 0..(FloorCount - 1)

ASSUME FloorAssumption ==
    /\ FloorBits \in Nat \ {0}
    /\ FloorCount \in Nat \ {0}
    /\ RequestFloors \subseteq Floors
    /\ RequestFloors # {}

ASSUME RequestBoundAssumption == MaxRequests \in Nat \ {0}

Dirs == {"UP", "DOWN"}

\* Request(node_addr, msg_id, time, cmd, floor, direction): the id stands
\* for the (node_addr, msg_id) correlation pair.
Ids == 1..MaxRequests
Request == [id : Ids, floor : Floors, dir : Dirs]

\* The default Request r(0,0,0,0,0,0) that process() starts with.
DefaultRequest == [id |-> 0, floor |-> 0, dir |-> "UP"]

\* A status tuple (node, msg_id, 3, floor, State) published by goToFloor;
\* output_items_ starts as (0,0,0,0,0).
Status == [id : Ids \cup {0}, floor : Floors, motion : {"MOVING", "STOPPED", "NONE"}]

\* How the build compiles the loops of getLowestTime{Up,Down}Queue, which
\* never pop and have no side effect: either they spin forever on a
\* non-empty queue, or the compiler assumes they terminate and the function
\* returns its initial LONG_MAX.
ScanOutcome == {"spins", "elided"}

VARIABLES
    location,      \* location_
    direction,     \* direction_
    state,         \* state_  (MOVING / STOPPED)
    door,          \* door_   (OPEN / CLOSED)
    currentQueue,  \* currentQueue_ (std::queue, FIFO)
    upQueue,       \* upQueue_   (priority queue: a set of distinct requests)
    downQueue,     \* downQueue_
    ctrlPc,        \* where the process thread is
    r,             \* the Request r of process(), passed to goToFloor
    i,             \* the uint8_t loop counter of goToFloor
    lastStatus,    \* output_items_: the last status tuple emitted
    netPc,         \* where the network thread is inside go()
    netReq,        \* floor and the direction go() read before locking
    nextId,        \* next correlation id a client uses
    served,        \* ids of requests whose floor was reached (history)
    stopReq,       \* the Stoppable exit signal of the process task
    scan           \* how this build runs getLowestTime*Queue

vars == <<location, direction, state, door, currentQueue, upQueue,
          downQueue, ctrlPc, r, i, lastStatus, netPc, netReq, nextId,
          served, stopReq, scan>>

CarIds(q) == {q[k].id : k \in DOMAIN q}
SetIds(S) == {x.id : x \in S}

\* No two entries of queue q carry the same id.
DistinctIds(q) == \A j, k \in DOMAIN q : j # k => q[j].id # q[k].id

\* No two elements of set S carry the same id.
KeyedById(S) == \A x, y \in S : x.id = y.id => x = y

-----------------------------------------------------------------------------
Init ==
    /\ location = 0
    /\ direction = "UP"
    /\ state = "STOPPED"
    /\ door = "CLOSED"
    /\ currentQueue = <<>>
    /\ upQueue = {}
    /\ downQueue = {}
    /\ ctrlPc = "top"
    /\ r = DefaultRequest
    /\ i = 0
    /\ lastStatus = [id |-> 0, floor |-> 0, motion |-> "NONE"]
    /\ netPc = "idle"
    /\ netReq = [floor |-> 0, dir |-> "UP"]
    /\ nextId = 1
    /\ served = {}
    /\ stopReq = FALSE
    /\ scan \in ScanOutcome

\* The process thread holds inputQueueMutex_ for ever once it spins in a
\* scan; otherwise the mutex is free whenever the network thread wants it.
MutexFree == ctrlPc # "spin"

\* call(): classify req against location_ and push it, under the mutex.
Classify(req) ==
    IF req.dir = "UP"
    THEN IF req.floor >= location
         THEN /\ currentQueue' = Append(currentQueue, req)
              /\ UNCHANGED <<upQueue, downQueue>>
         ELSE /\ upQueue' = upQueue \cup {req}
              /\ UNCHANGED <<currentQueue, downQueue>>
    ELSE IF req.floor <= location
         THEN /\ currentQueue' = Append(currentQueue, req)
              /\ UNCHANGED <<upQueue, downQueue>>
         ELSE /\ downQueue' = downQueue \cup {req}
              /\ UNCHANGED <<currentQueue, upQueue>>

CarVars == <<location, direction, state, door>>
CtrlVars == <<ctrlPc, r, i, lastStatus, served, scan>>

\* input_data_consumer, command 1: call(node, msg_id, floor, direction).
call(f, d) ==
    /\ netPc = "idle"
    /\ MutexFree
    /\ nextId <= MaxRequests
    /\ Classify([id |-> nextId, floor |-> f, dir |-> d])
    /\ nextId' = nextId + 1
    /\ UNCHANGED <<CarVars, CtrlVars, netPc, netReq, stopReq>>

\* input_data_consumer, command 2: go() reads direction_ without the mutex ...
goRead(f) ==
    /\ netPc = "idle"
    /\ nextId <= MaxRequests
    /\ netPc' = "go"
    /\ netReq' = [floor |-> f, dir |-> direction]
    /\ UNCHANGED <<CarVars, currentQueue, upQueue, downQueue, CtrlVars,
                   nextId, stopReq>>

\* ... and then calls call() with the direction it read.
goCall ==
    /\ netPc = "go"
    /\ MutexFree
    /\ Classify([id |-> nextId, floor |-> netReq.floor, dir |-> netReq.dir])
    /\ nextId' = nextId + 1
    /\ netPc' = "idle"
    /\ UNCHANGED <<CarVars, CtrlVars, netReq, stopReq>>

-----------------------------------------------------------------------------
\* Process::run: while (stopRequested() == false) process();
checkStop ==
    /\ ctrlPc = "top"
    /\ ctrlPc' = IF stopReq THEN "done" ELSE "wait"
    /\ UNCHANGED <<CarVars, currentQueue, upQueue, downQueue, r, i,
                   lastStatus, netPc, netReq, nextId, served, stopReq, scan>>

\* The orders in which the drain loop pops a priority queue ordered by
\* downComparator (p1.floor_ >= p2.floor_): every element once, lowest
\* floor first.
DownDrainOrders(Q) ==
    {s \in [1..Cardinality(Q) -> Q] :
        /\ {s[k] : k \in 1..Cardinality(Q)} = Q
        /\ \A j, k \in 1..Cardinality(Q) :
              j < k => s[j] # s[k] /\ s[j].floor <= s[k].floor}

\* Mutant of dispatch: process() copies currentQueue_.front() but forgets
\* the pop().
dispatchNoPop ==
    /\ ctrlPc = "wait"
    /\ currentQueue # <<>>
    /\ r' = Head(currentQueue)
    /\ UNCHANGED currentQueue
    /\ state' = "MOVING"
    /\ i' = location
    /\ ctrlPc' = "move"
    /\ UNCHANGED <<location, direction, door, upQueue, downQueue, lastStatus,
                   netPc, netReq, nextId, served, stopReq, scan>>

\* process() with currentQueue_ non-empty: pop its front under the mutex,
\* unlock and enter goToFloor (state_ = MOVING; i = location_).
dispatch ==
    /\ ctrlPc = "wait"
    /\ currentQueue # <<>>
    /\ r' = Head(currentQueue)
    /\ currentQueue' = Tail(currentQueue)
    /\ state' = "MOVING"
    /\ i' = location
    /\ ctrlPc' = "move"
    /\ UNCHANGED <<location, direction, door, upQueue, downQueue, lastStatus,
                   netPc, netReq, nextId, served, stopReq, scan>>

\* Mutant of preProcessNextQueue: gotToken set after the if/else, so
\* goToFloor also runs with the r process() started from.
preProcessThenGo ==
    /\ ctrlPc = "wait"
    /\ currentQueue = <<>>
    /\ IF scan = "spins" /\ (upQueue # {} \/ downQueue # {})
       THEN /\ ctrlPc' = "spin"
            /\ UNCHANGED <<direction, currentQueue, downQueue>>
       ELSE /\ direction' = "DOWN"
            /\ \E s \in DownDrainOrders(downQueue) : currentQueue' = s
            /\ downQueue' = {}
            /\ ctrlPc' = "move"
    /\ UNCHANGED <<location, state, door, upQueue, r, i, lastStatus,
                   netPc, netReq, nextId, served, stopReq, scan>>

\* Mutant of preProcessNextQueue: process() consults the deferred queues
\* before currentQueue_ (the two branches of its if swapped).
preProcessBeforeCurrent ==
    /\ ctrlPc = "wait"
    /\ upQueue \cup downQueue # {} \/ currentQueue = <<>>
    /\ IF scan = "spins" /\ (upQueue # {} \/ downQueue # {})
       THEN /\ ctrlPc' = "spin"
            /\ UNCHANGED <<direction, currentQueue, downQueue>>
       ELSE /\ direction' = "DOWN"
            /\ \E s \in DownDrainOrders(downQueue) : currentQueue' = currentQueue \o s
            /\ downQueue' = {}
            /\ ctrlPc' = "top"
    /\ UNCHANGED <<location, state, door, upQueue, r, i, lastStatus,
                   netPc, netReq, nextId, served, stopReq, scan>>

\* process() with currentQueue_ empty (after wait_for returned because a
\* deferred queue is non-empty or the 2 s timed out): preProcessNextQueue.
\* getLowestTimeUpQueue() > getLowestTimeDownQueue() either spins, holding
\* the mutex, or compares LONG_MAX > LONG_MAX, which is false: direction_
\* becomes DOWN and downQueue_ is drained into currentQueue_.
preProcessNextQueue ==
    /\ ctrlPc = "wait"
    /\ currentQueue = <<>>
    /\ IF scan = "spins" /\ (upQueue # {} \/ downQueue # {})
       THEN /\ ctrlPc' = "spin"
            /\ UNCHANGED <<direction, currentQueue, downQueue>>
       ELSE /\ direction' = "DOWN"
            /\ \E s \in DownDrainOrders(downQueue) : currentQueue' = s
            /\ downQueue' = {}
            /\ ctrlPc' = "top"
    /\ UNCHANGED <<location, state, door, upQueue, r, i, lastStatus,
                   netPc, netReq, nextId, served, stopReq, scan>>

\* Mutant of moveStep: the counter is incremented before it is published.
moveStepIncrementFirst ==
    /\ ctrlPc = "move"
    /\ i <= r.floor
    /\ lastStatus' = [id |-> r.id, floor |-> (i + 1) % FloorCount, motion |-> "MOVING"]
    /\ i' = (i + 1) % FloorCount
    /\ UNCHANGED <<CarVars, currentQueue, upQueue, downQueue, ctrlPc, r,
                   netPc, netReq, nextId, served, stopReq, scan>>

\* goToFloor: for (uint8_t i = location_; i <= floor; i++) publish
\* (node, msg_id, 3, i, MOVING).
moveStep ==
    /\ ctrlPc = "move"
    /\ i <= r.floor
    /\ lastStatus' = [id |-> r.id, floor |-> i, motion |-> "MOVING"]
    /\ i' = (i + 1) % FloorCount
    /\ UNCHANGED <<CarVars, currentQueue, upQueue, downQueue, ctrlPc, r,
                   netPc, netReq, nextId, served, stopReq, scan>>

\* Mutant of arrive: location_ is set from the loop counter i instead of
\* the target floor.
arriveAtCounter ==
    /\ ctrlPc = "move"
    /\ i > r.floor
    /\ location' = i
    /\ door' = "OPEN"
    /\ state' = "STOPPED"
    /\ lastStatus' = [id |-> r.id, floor |-> r.floor, motion |-> "STOPPED"]
    /\ served' = served \cup {r.id}
    /\ ctrlPc' = "hold"
    /\ UNCHANGED <<direction, currentQueue, upQueue, downQueue, r, i,
                   netPc, netReq, nextId, stopReq, scan>>

\* goToFloor after the loop: location_ = floor, door_ OPEN, state_ STOPPED,
\* publish (node, msg_id, 3, floor, STOPPED).
arrive ==
    /\ ctrlPc = "move"
    /\ i > r.floor
    /\ location' = r.floor
    /\ door' = "OPEN"
    /\ state' = "STOPPED"
    /\ lastStatus' = [id |-> r.id, floor |-> r.floor, motion |-> "STOPPED"]
    /\ served' = served \cup {r.id}
    /\ ctrlPc' = "hold"
    /\ UNCHANGED <<direction, currentQueue, upQueue, downQueue, r, i,
                   netPc, netReq, nextId, stopReq, scan>>

\* goToFloor: after holding the door open for 3 s, door_ = CLOSED.
closeDoor ==
    /\ ctrlPc = "hold"
    /\ door' = "CLOSED"
    /\ ctrlPc' = "top"
    /\ UNCHANGED <<location, direction, state, currentQueue, upQueue,
                   downQueue, r, i, lastStatus, netPc, netReq, nextId,
                   served, stopReq, scan>>

\* The scan loop of getLowestTime*Queue going round: nothing changes.
spin ==
    /\ ctrlPc = "spin"
    /\ UNCHANGED vars

\* Elevator::stop -> stop_process_thread -> Stoppable::stop.
stop ==
    /\ stopReq = FALSE
    /\ stopReq' = TRUE
    /\ UNCHANGED <<CarVars, currentQueue, upQueue, downQueue, CtrlVars,
                   netPc, netReq, nextId>>

\* The process thread has left its loop; the system may stop here.
Terminated ==
    /\ ctrlPc = "done"
    /\ UNCHANGED vars

CtrlStep == checkStop \/ dispatch \/ preProcessNextQueue \/ moveStep
            \/ arrive \/ closeDoor \/ spin

NetStep == (\E f \in RequestFloors, d \in Dirs : call(f, d))
           \/ (\E f \in RequestFloors : goRead(f))
           \/ goCall

Next == CtrlStep \/ NetStep \/ stop \/ Terminated

\* The process thread is an OS thread whose sleeps and timed waits return:
\* it keeps being scheduled.
Spec == Init /\ [][Next]_vars /\ WF_vars(CtrlStep)

-----------------------------------------------------------------------------
(***************************************************************************)
(* Refinement: the scheduler implements the Dispatcher specification.     *)
(* A request is pending while it sits in one of the three queues or is     *)
(* the request goToFloor is carrying.                                      *)
(***************************************************************************)
QueuedRequests ==
    {currentQueue[k] : k \in DOMAIN currentQueue} \cup upQueue \cup downQueue

Pending == QueuedRequests \cup (IF ctrlPc = "move" THEN {r} ELSE {})

Abstract == INSTANCE Dispatcher WITH pending <- Pending

-----------------------------------------------------------------------------
(***************************************************************************)
(* Properties.                                                             *)
(***************************************************************************)

\* Every variable has the type the code's declarations give it; the request
\* handed to goToFloor is a submitted one (never the default r of process()).
TypeOK ==
    /\ location \in Floors
    /\ direction \in Dirs
    /\ state \in {"MOVING", "STOPPED"}
    /\ door \in {"OPEN", "CLOSED"}
    /\ currentQueue \in Seq(Request)
    /\ upQueue \subseteq Request
    /\ downQueue \subseteq Request
    /\ ctrlPc \in {"top", "wait", "move", "hold", "spin", "done"}
    /\ r \in Request \cup {DefaultRequest}
    /\ (ctrlPc = "move" => r \in Request)
    /\ i \in Floors
    /\ lastStatus \in Status
    /\ netPc \in {"idle", "go"}
    /\ netReq \in [floor : Floors, dir : Dirs]
    /\ nextId \in 1..(MaxRequests + 1)
    /\ served \subseteq Ids
    /\ stopReq \in BOOLEAN
    /\ scan \in ScanOutcome

\* The ids that have been handed to call() so far.
Submitted == 1..(nextId - 1)

\* The request goToFloor is carrying, if it has not arrived yet.
InService == IF ctrlPc = "move" THEN {r.id} ELSE {}

\* No request is lost or duplicated by call(), process() or
\* preProcessNextQueue(): every submitted request is in exactly one of
\* currentQueue_ (once), upQueue_, downQueue_, in goToFloor, or served.
RequestConservation ==
    /\ DistinctIds(currentQueue)
    /\ KeyedById(upQueue)
    /\ KeyedById(downQueue)
    /\ CarIds(currentQueue) \cup SetIds(upQueue) \cup SetIds(downQueue)
          \cup InService \cup served = Submitted
    /\ CarIds(currentQueue) \cap (SetIds(upQueue) \cup SetIds(downQueue) \cup InService \cup served) = {}
    /\ SetIds(upQueue) \cap (SetIds(downQueue) \cup InService \cup served) = {}
    /\ SetIds(downQueue) \cap (InService \cup served) = {}
    /\ InService \cap served = {}

\* goToFloor publishes MOVING position updates only for the floors between
\* the car's location_ and the target floor (spec 4.1: "for each floor
\* between current location and target").
PositionUpdatesInRange ==
    (ctrlPc = "move" /\ lastStatus.id = r.id /\ lastStatus.motion = "MOVING")
        => lastStatus.floor \in location..r.floor

\* A request that call() put into currentQueue_ ("reachable in this sweep")
\* is eventually reached by goToFloor, unless the process task is stopped.
CurrentQueueServed ==
    \A id \in Ids : (id \in CarIds(currentQueue)) ~> (id \in served \/ stopReq)

\* A request that call() deferred into upQueue_ or downQueue_ is eventually
\* promoted by preProcessNextQueue and reached, unless the task is stopped.
DeferredRequestServed ==
    \A id \in Ids : (id \in SetIds(upQueue) \cup SetIds(downQueue))
                        ~> (id \in served \/ stopReq)

\* process() changes direction_ only by promoting a pending sweep; with
\* all queues empty it re-waits (spec 4.1 and 8: "If both queues are empty,
\* re-wait rather than act").
DirectionChangesOnlyOnSweep ==
    [][direction' # direction => upQueue \cup downQueue # {}]_vars

\* The scheduler's behaviours are Dispatcher behaviours under Pending: every
\* call()/go() submits one fresh request, dispatch and sweep promotion only
\* move requests between queues, and goToFloor's arrival serves the carried
\* request, once, setting location_ to its floor.
ImplementsDispatcher == Abstract!Spec

\* The floor the car has physically reached: while goToFloor runs, the last
\* floor it published for the request in hand; otherwise location_.
CarFloor ==
    IF ctrlPc = "move" /\ lastStatus.id = r.id /\ lastStatus.motion = "MOVING"
    THEN lastStatus.floor
    ELSE location

\* A GO request is classified with the direction the scheduler has when
\* call() takes the mutex (spec 3: "GO inherits the scheduler's current
\* direction at submission time"); go() reads direction_ before locking.
GoInheritsCurrentDirection ==
    [][netPc = "go" /\ netPc' = "idle" => netReq.dir = direction]_vars

\* A request call() puts into currentQueue_ while the car is moving up is
\* ahead of the car (spec 3/4.1: currentQueue_ holds the requests
\* "reachable in this sweep"); call() compares with location_, which
\* goToFloor only updates on arrival.
SweepRequestAhead ==
    [][(ctrlPc = "move" /\ Len(currentQueue') > Len(currentQueue))
          => LET q == currentQueue'[Len(currentQueue')]
             IN  q.dir = "UP" => q.floor >= CarFloor]_vars

\* Sweep promotion hands currentQueue_ the drained downQueue_ in floor
\* order, highest first, so the car visits the floors monotonically
\* (spec 3/4.1); the drain pops a priority queue built on downComparator.
DrainDescending ==
    [][currentQueue = <<>> =>
         \A j, k \in DOMAIN currentQueue' :
             j < k => currentQueue'[j].floor >= currentQueue'[k].floor]_vars

=============================================================================
