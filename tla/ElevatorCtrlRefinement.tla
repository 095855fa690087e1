------------------------ MODULE ElevatorCtrlRefinement ------------------------
(***************************************************************************)
(* Proof that the dispatch scheduler implements the Dispatcher            *)
(* specification under the refinement mapping pending <- Pending, for     *)
(* every value of the constants allowed by FloorAssumption and            *)
(* RequestBoundAssumption.                                                 *)
(***************************************************************************)
EXTENDS ElevatorCtrlProofs

\* The elements of a queue.
Elems(q) == {q[k] : k \in DOMAIN q}

\* The invariant the step mapping needs: conservation (so that the request
\* goToFloor carries is in no queue) and that a go() between its read and
\* its call() holds a floor a client may ask for.
RefInv ==
    /\ ConsInv
    /\ netPc = "go" => netReq.floor \in RequestFloors

-----------------------------------------------------------------------------
LEMMA ElemsAppend ==
    ASSUME NEW q \in Seq(Request), NEW x
    PROVE  Elems(Append(q, x)) = Elems(q) \cup {x}
<1>1. /\ DOMAIN Append(q, x) = 1..(Len(q) + 1)
      /\ Append(q, x)[Len(q) + 1] = x
      /\ \A k \in 1..Len(q) : Append(q, x)[k] = q[k]
      /\ DOMAIN q = 1..Len(q)
    OBVIOUS
<1>. QED
    BY <1>1 DEF Elems

LEMMA ElemsTail ==
    ASSUME NEW q \in Seq(Request), q # <<>>
    PROVE  Elems(Tail(q)) \cup {Head(q)} = Elems(q)
<1>1. /\ DOMAIN Tail(q) = 1..(Len(q) - 1)
      /\ \A k \in DOMAIN Tail(q) : Tail(q)[k] = q[k + 1]
      /\ Len(q) \in Nat \ {0}
      /\ DOMAIN q = 1..Len(q)
      /\ Head(q) = q[1]
    OBVIOUS
<1>2. ASSUME NEW m \in DOMAIN q, m # 1
      PROVE  q[m] \in Elems(Tail(q))
    <2>0. m \in 2..Len(q)
        BY <1>1, <1>2
    <2>1. m - 1 \in DOMAIN Tail(q)
        BY <1>1, <2>0
    <2>. QED
        BY <1>1, <2>1 DEF Elems
<1>. QED
    BY <1>1, <1>2 DEF Elems

\* call() adds exactly the new request to the pending ones.
LEMMA ClassifyPending ==
    ASSUME TypeInv, NEW req \in Request, Classify(req), UNCHANGED <<ctrlPc, r>>
    PROVE  Pending' = Pending \cup {req}
<1>1. Elems(Append(currentQueue, req)) = Elems(currentQueue) \cup {req}
    BY ElemsAppend DEF TypeInv, TypeOK
<1>. QED
    BY <1>1 DEF Classify, Pending, QueuedRequests, Elems

\* A step that moves no request leaves Pending as it is.
LEMMA PendingFrame ==
    ASSUME UNCHANGED <<currentQueue, upQueue, downQueue, r>>,
           (ctrlPc' = "move") <=> (ctrlPc = "move")
    PROVE  Pending' = Pending
BY DEF Pending, QueuedRequests

-----------------------------------------------------------------------------
THEOREM InitRefInv == Init => RefInv
BY InitConsInv DEF Init, RefInv

THEOREM NextRefInv == RefInv /\ [Next]_vars => RefInv'
<1> SUFFICES ASSUME RefInv, [Next]_vars PROVE RefInv'
    OBVIOUS
<1>1. ConsInv'
    BY NextConsInv DEF RefInv
<1>2. (netPc = "go" => netReq.floor \in RequestFloors)'
    <2>1. CASE \E f \in RequestFloors : goRead(f)
        BY <2>1 DEF goRead
    <2>2. CASE ~\E f \in RequestFloors : goRead(f)
        BY <2>2 DEF RefInv, Next, CtrlStep, NetStep, call, goCall, checkStop,
               dispatch, preProcessNextQueue, moveStep, arrive, closeDoor,
               spin, stop, Terminated, vars, CtrlVars
    <2>. QED
        BY <2>1, <2>2
<1>. QED
    BY <1>1, <1>2 DEF RefInv

-----------------------------------------------------------------------------
\* Every step of the scheduler is a Dispatcher step under the mapping or
\* leaves the mapped state unchanged.
THEOREM StepRefines == RefInv /\ [Next]_vars => [Abstract!Next]_Abstract!vars
<1> SUFFICES ASSUME RefInv, [Next]_vars
             PROVE  [Abstract!Next]_Abstract!vars
    OBVIOUS
<1> USE DEF RefInv, ConsInv, TypeInv
<1>0. TypeOK
    OBVIOUS
\* A step that keeps the mapped state is a stutter of the Dispatcher.
<1>s. ASSUME Pending' = Pending, UNCHANGED <<served, location, nextId>>
      PROVE  [Abstract!Next]_Abstract!vars
    BY <1>s DEF Abstract!vars
<1>1. ASSUME NEW f \in RequestFloors, NEW d \in Dirs, call(f, d)
      PROVE  [Abstract!Next]_Abstract!vars
    <2> DEFINE req == [id |-> nextId, floor |-> f, dir |-> d]
    <2>1. req \in Request
        BY <1>0, <1>1, FloorAssumption DEF call, TypeOK, Request, Ids
    <2>2. Pending' = Pending \cup {req}
        BY <1>1, <2>1, ClassifyPending DEF call, CtrlVars
    <2>3. Abstract!Submit(f, d)
        BY <1>1, <2>2 DEF call, CarVars, CtrlVars, Abstract!Submit
    <2>. QED
        BY <2>3 DEF Abstract!Next, Abstract!Dirs, Dirs
<1>2. CASE goCall
    <2> DEFINE req == [id |-> nextId, floor |-> netReq.floor, dir |-> netReq.dir]
    <2>1. req \in Request /\ netReq.floor \in RequestFloors /\ netReq.dir \in Dirs
        BY <1>0, <1>2 DEF goCall, TypeOK, Request
    <2>2. Pending' = Pending \cup {req}
        BY <1>2, <2>1, ClassifyPending DEF goCall, CtrlVars
    <2>3. nextId <= MaxRequests
        BY <1>2 DEF goCall, Ids
    <2>4. Abstract!Submit(netReq.floor, netReq.dir)
        BY <1>2, <2>2, <2>3 DEF goCall, CarVars, CtrlVars, Abstract!Submit
    <2>. QED
        BY <2>1, <2>4 DEF Abstract!Next, Abstract!Dirs, Dirs
<1>3. ASSUME NEW f \in RequestFloors, goRead(f)
      PROVE  [Abstract!Next]_Abstract!vars
    BY <1>3, <1>s, PendingFrame DEF goRead, CarVars, CtrlVars
<1>4. CASE checkStop
    BY <1>4, <1>s, PendingFrame DEF checkStop, CarVars
<1>5. CASE dispatch
    <2>1. currentQueue \in Seq(Request) /\ currentQueue # <<>>
        BY <1>0, <1>5 DEF dispatch, TypeOK
    <2>2. Elems(Tail(currentQueue)) \cup {Head(currentQueue)} = Elems(currentQueue)
        BY <2>1, ElemsTail
    <2>3. Pending' = Pending
        BY <1>5, <2>2 DEF dispatch, Pending, QueuedRequests, Elems
    <2>. QED
        BY <1>5, <1>s, <2>3 DEF dispatch
<1>6. CASE preProcessNextQueue
    <2>1. CASE scan = "spins" /\ (upQueue # {} \/ downQueue # {})
        BY <1>6, <2>1, <1>s, PendingFrame DEF preProcessNextQueue
    <2>2. CASE ~(scan = "spins" /\ (upQueue # {} \/ downQueue # {}))
        <3>1. PICK s \in DownDrainOrders(downQueue) : currentQueue' = s
            BY <1>6, <2>2 DEF preProcessNextQueue
        <3>2. Elems(s) = downQueue
            BY FS_CardinalityType DEF DownDrainOrders, Elems
        <3>3. /\ currentQueue = <<>> /\ downQueue' = {}
              /\ ctrlPc = "wait" /\ ctrlPc' = "top"
              /\ UNCHANGED <<upQueue, r, served, location, nextId>>
            BY <1>6, <2>2 DEF preProcessNextQueue
        <3>4. Pending' = Pending
            BY <3>1, <3>2, <3>3 DEF Pending, QueuedRequests, Elems
        <3>. QED
            BY <1>s, <3>3, <3>4
    <2>. QED
        BY <2>1, <2>2
<1>7. CASE moveStep
    BY <1>7, <1>s, PendingFrame DEF moveStep, CarVars
<1>8. CASE arrive
    <2>1. ctrlPc = "move" /\ ctrlPc' = "hold" /\ r \in Request
        BY <1>0, <1>8 DEF arrive, TypeOK
    <2>2. r \notin QueuedRequests
        <3>1. r.id \in InService
            BY <2>1 DEF InService
        <3>2. r.id \notin CarIds(currentQueue) \cup SetIds(upQueue) \cup SetIds(downQueue)
            BY <3>1 DEF RequestConservation
        <3>. QED
            BY <3>2 DEF QueuedRequests, CarIds, SetIds
    <2>3. /\ r \in Pending
          /\ Pending' = Pending \ {r}
        BY <1>8, <2>1, <2>2 DEF arrive, Pending, QueuedRequests
    <2>4. Abstract!Serve(r)
        BY <1>8, <2>3 DEF arrive, Abstract!Serve
    <2>. QED
        BY <2>3, <2>4 DEF Abstract!Next
<1>9. CASE closeDoor
    BY <1>9, <1>s, PendingFrame DEF closeDoor
<1>10. CASE spin \/ Terminated \/ UNCHANGED vars
    BY <1>10, <1>s, PendingFrame DEF spin, Terminated, vars
<1>11. CASE stop
    BY <1>11, <1>s, PendingFrame DEF stop, CarVars, CtrlVars
<1>. QED
    BY <1>1, <1>2, <1>3, <1>4, <1>5, <1>6, <1>7, <1>8, <1>9, <1>10, <1>11
       DEF Next, CtrlStep, NetStep

\* The scheduler implements the Dispatcher: requests are submitted with
\* fresh ids, each is served at most once and only while pending, and the
\* car's location changes only to the floor of the request it serves.
THEOREM Refinement == Spec => ImplementsDispatcher
<1>1. Init => Abstract!Init
    BY DEF Init, Abstract!Init, Pending, QueuedRequests
<1>2. Spec => []RefInv
    BY InitRefInv, NextRefInv, PTL DEF Spec
<1>. QED
    BY <1>1, <1>2, StepRefines, PTL DEF Spec, ImplementsDispatcher, Abstract!Spec
=============================================================================
