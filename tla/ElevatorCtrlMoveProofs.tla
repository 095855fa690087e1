----------------------- MODULE ElevatorCtrlMoveProofs -----------------------
(***************************************************************************)
(* goToFloor's MOVING updates, for every floor width, request bound and    *)
(* set of requested floors, the top floor included.  The uint8_t counter   *)
(* wraps only when the target is the top floor (run ctrl_top_floor_wrap);  *)
(* for every other target the updates stay between location_ and it.       *)
(***************************************************************************)
EXTENDS ElevatorCtrlProofs

\* goToFloor is carrying a request for the highest floor FloorCount - 1
\* (255 for uint8_t), whose loop condition i <= floor never fails.
CarriesTopFloor == ctrlPc = "move" /\ r.floor = FloorCount - 1

\* PositionUpdatesInRange is not inductive: it needs that the loop counter
\* never drops below location_ (no wrap below the top floor), and that a
\* MOVING update outside goToFloor is impossible, since arrive always
\* overwrites it with STOPPED.
MoveInv ==
    /\ TypeInv
    /\ ctrlPc # "move" => lastStatus.motion # "MOVING"
    /\ (ctrlPc = "move" /\ ~CarriesTopFloor) => location <= i
    /\ (ctrlPc = "move" /\ ~CarriesTopFloor /\ lastStatus.motion = "MOVING")
          => lastStatus.floor \in location..r.floor

-----------------------------------------------------------------------------
\* A step that leaves the car and goToFloor's state alone keeps MoveInv
\* once it keeps the types.
LEMMA MoveFrame ==
    ASSUME MoveInv, TypeInv',
           UNCHANGED <<ctrlPc, r, i, location, lastStatus>>
    PROVE  MoveInv'
BY DEF MoveInv, CarriesTopFloor

THEOREM InitMoveInv == Init => MoveInv
<1> SUFFICES ASSUME Init PROVE MoveInv
    OBVIOUS
<1>. QED
    BY InitTypeInv DEF Init, MoveInv

THEOREM NextMoveInv == MoveInv /\ [Next]_vars => MoveInv'
<1> SUFFICES ASSUME MoveInv, [Next]_vars PROVE MoveInv'
    OBVIOUS
<1> USE FloorAssumption
<1>0. TypeInv'
    BY NextTypeInv DEF MoveInv
\* The network thread and stop() touch neither the car nor goToFloor.
<1>1. CASE NetStep \/ stop \/ spin \/ Terminated \/ UNCHANGED vars
    <2>1. UNCHANGED <<ctrlPc, r, i, location, lastStatus>>
        BY <1>1 DEF NetStep, call, goRead, goCall, stop, spin, Terminated, vars,
                    CarVars, CtrlVars
    <2>. QED
        BY <1>0, <2>1, MoveFrame
\* Steps outside goToFloor leave the last update as it was, not MOVING.
<1>2. CASE checkStop \/ preProcessNextQueue \/ closeDoor
    <2>1. ctrlPc # "move" /\ ctrlPc' # "move" /\ lastStatus' = lastStatus
        BY <1>2 DEF checkStop, preProcessNextQueue, closeDoor
    <2>. QED
        BY <1>0, <2>1 DEF MoveInv
\* Entering goToFloor: the counter starts at location_, and the last
\* update, published outside goToFloor, is not a MOVING one.
<1>3. CASE dispatch
    <2>1. ctrlPc' = "move" /\ i' = location' /\ lastStatus'.motion # "MOVING"
        BY <1>3 DEF dispatch, MoveInv
    <2>2. location' \in Nat
        BY <1>0 DEF TypeInv, TypeOK, Floors
    <2>. QED
        BY <1>0, <2>1, <2>2 DEF MoveInv
\* One round of the loop: below the top floor the counter does not wrap,
\* so the published floor is at least location_ and at most the target.
<1>4. CASE moveStep
    <2>1. /\ ctrlPc' = "move" /\ r' = r /\ location' = location
          /\ lastStatus' = [id |-> r.id, floor |-> i, motion |-> "MOVING"]
          /\ i' = (i + 1) % FloorCount
          /\ ctrlPc = "move" /\ i <= r.floor
        BY <1>4 DEF moveStep, CarVars
    <2>2. CASE CarriesTopFloor
        BY <1>0, <2>1, <2>2 DEF MoveInv, CarriesTopFloor
    <2>3. CASE ~CarriesTopFloor
        <3>1. /\ r.floor \in Floors /\ i \in Floors /\ location \in Floors
              /\ location <= i
            BY <2>1, <2>3 DEF MoveInv, TypeInv, TypeOK, Request
        <3>2. r.floor <= FloorCount - 2
            <4>1. r.floor # FloorCount - 1
                BY <2>1, <2>3 DEF CarriesTopFloor
            <4>. QED
                BY <3>1, <4>1 DEF Floors
        <3>3. (i + 1) % FloorCount = i + 1
            BY <2>1, <3>1, <3>2 DEF Floors
        <3>4. location' <= i' /\ lastStatus'.floor \in location'..r'.floor
            BY <2>1, <3>1, <3>3 DEF Floors
        <3>. QED
            BY <1>0, <2>1, <3>4 DEF MoveInv
    <2>. QED
        BY <2>2, <2>3
\* Arrival leaves goToFloor's loop with a STOPPED update.
<1>5. CASE arrive
    BY <1>0, <1>5 DEF arrive, MoveInv
<1>. QED
    BY <1>1, <1>2, <1>3, <1>4, <1>5 DEF Next, CtrlStep

\* For every floor width, request bound and set of requested floors, each
\* MOVING update goToFloor publishes for the request it carries lies
\* between the floor the car left (location_) and the request's floor
\* (PositionUpdatesInRange), except while it carries a request for the top
\* floor, where the uint8_t counter wraps: the wrap is the only way the
\* property fails.
THEOREM PositionsInRange == Spec => [](PositionUpdatesInRange \/ CarriesTopFloor)
<1>1. MoveInv => PositionUpdatesInRange \/ CarriesTopFloor
    BY DEF MoveInv, PositionUpdatesInRange
<1>. QED
    BY InitMoveInv, NextMoveInv, <1>1, PTL DEF Spec

=============================================================================
