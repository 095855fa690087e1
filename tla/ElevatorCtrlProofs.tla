------------------------- MODULE ElevatorCtrlProofs -------------------------
(***************************************************************************)
(* Proofs about the dispatch scheduler model, for every value of the       *)
(* constants allowed by FloorAssumption and RequestBoundAssumption.        *)
(***************************************************************************)
EXTENDS ElevatorCtrl, FiniteSetTheorems, TLAPS

\* TypeOK is not inductive by itself: goCall pushes a request with id
\* nextId without checking the bound again, which is safe because goRead
\* checked it and no other step increments nextId while go() is between
\* its read of direction_ and its call().  The deferred queues must also be
\* finite for the drain in preProcessNextQueue to be a sequence.
TypeInv ==
    /\ TypeOK
    /\ netPc = "go" => nextId \in Ids
    /\ IsFiniteSet(downQueue)

-----------------------------------------------------------------------------
\* Every ascending drain order of a finite set of requests is a sequence of
\* requests.
LEMMA DrainIsSeq ==
    ASSUME NEW Q, Q \subseteq Request, IsFiniteSet(Q),
           NEW s \in DownDrainOrders(Q)
    PROVE  s \in Seq(Request)
<1>1. Cardinality(Q) \in Nat
    BY FS_CardinalityType
<1>2. s \in [1..Cardinality(Q) -> Request]
    BY DEF DownDrainOrders
<1>. QED
    BY <1>1, <1>2

\* call() and go() keep the queues typed and the deferred ones finite.
LEMMA ClassifyTyped ==
    ASSUME TypeInv, NEW req \in Request, Classify(req)
    PROVE  /\ currentQueue' \in Seq(Request)
           /\ upQueue' \subseteq Request
           /\ downQueue' \subseteq Request
           /\ IsFiniteSet(downQueue')
<1>1. IsFiniteSet(downQueue \cup {req})
    BY FS_AddElement DEF TypeInv
<1>2. Append(currentQueue, req) \in Seq(Request)
    BY DEF TypeInv, TypeOK
<1>. QED
    BY <1>1, <1>2 DEF Classify, TypeInv, TypeOK

-----------------------------------------------------------------------------
THEOREM InitTypeInv == Init => TypeInv
<1> SUFFICES ASSUME Init PROVE TypeInv
    OBVIOUS
<1>1. IsFiniteSet(downQueue)
    BY FS_EmptySet DEF Init
<1>2. location \in Floors /\ i \in Floors
    BY FloorAssumption DEF Init, Floors
<1>3. lastStatus \in Status /\ netReq \in [floor : Floors, dir : Dirs]
    BY FloorAssumption DEF Init, Status, Floors, Ids, Dirs
<1>4. nextId \in 1..(MaxRequests + 1) /\ served \subseteq Ids
    BY RequestBoundAssumption DEF Init
<1>5. r \in Request \cup {DefaultRequest} /\ (ctrlPc = "move" => r \in Request)
    BY DEF Init
<1>6. /\ direction \in Dirs /\ scan \in ScanOutcome
      /\ stopReq \in BOOLEAN /\ netPc \in {"idle", "go"}
    BY DEF Init, Dirs
<1>7. /\ upQueue \subseteq Request /\ downQueue \subseteq Request
      /\ currentQueue \in Seq(Request)
      /\ state \in {"MOVING", "STOPPED"} /\ door \in {"OPEN", "CLOSED"}
      /\ ctrlPc \in {"top", "wait", "move", "hold", "spin", "done"}
    BY DEF Init
<1>8. TypeOK
    BY <1>2, <1>3, <1>4, <1>5, <1>6, <1>7 DEF TypeOK
<1>. QED
    BY <1>1, <1>8 DEF TypeInv, Init

THEOREM NextTypeInv == TypeInv /\ [Next]_vars => TypeInv'
<1> SUFFICES ASSUME TypeInv, [Next]_vars PROVE TypeInv'
    OBVIOUS
<1> USE FloorAssumption, RequestBoundAssumption
<1>1. ASSUME NEW f \in RequestFloors, NEW d \in Dirs, call(f, d)
      PROVE  TypeInv'
    <2>1. [id |-> nextId, floor |-> f, dir |-> d] \in Request
        BY <1>1 DEF call, TypeInv, TypeOK, Request, Ids
    <2>2. /\ currentQueue' \in Seq(Request)
          /\ upQueue' \subseteq Request
          /\ downQueue' \subseteq Request
          /\ IsFiniteSet(downQueue')
        BY <1>1, <2>1, ClassifyTyped DEF call
    <2>. QED
        BY <1>1, <2>2 DEF call, TypeInv, TypeOK, CarVars, CtrlVars, Ids
<1>2. ASSUME NEW f \in RequestFloors, goRead(f)
      PROVE  TypeInv'
    BY <1>2 DEF goRead, TypeInv, TypeOK, CarVars, CtrlVars, Ids
<1>3. CASE goCall
    <2>1. [id |-> nextId, floor |-> netReq.floor, dir |-> netReq.dir] \in Request
        BY <1>3 DEF goCall, TypeInv, TypeOK, Request
    <2>2. /\ currentQueue' \in Seq(Request)
          /\ upQueue' \subseteq Request
          /\ downQueue' \subseteq Request
          /\ IsFiniteSet(downQueue')
        BY <1>3, <2>1, ClassifyTyped DEF goCall
    <2>. QED
        BY <1>3, <2>2 DEF goCall, TypeInv, TypeOK, CarVars, CtrlVars, Ids
<1>4. CASE checkStop
    BY <1>4 DEF checkStop, TypeInv, TypeOK, CarVars
<1>5. CASE dispatch
    BY <1>5 DEF dispatch, TypeInv, TypeOK
<1>6. CASE preProcessNextQueue
    <2>1. CASE scan = "spins" /\ (upQueue # {} \/ downQueue # {})
        BY <1>6, <2>1 DEF preProcessNextQueue, TypeInv, TypeOK
    <2>2. CASE ~(scan = "spins" /\ (upQueue # {} \/ downQueue # {}))
        <3>1. currentQueue' \in Seq(Request)
            BY <1>6, <2>2, DrainIsSeq DEF preProcessNextQueue, TypeInv, TypeOK
        <3>2. IsFiniteSet(downQueue')
            BY <1>6, <2>2, FS_EmptySet DEF preProcessNextQueue
        <3>. QED
            BY <1>6, <2>2, <3>1, <3>2 DEF preProcessNextQueue, TypeInv, TypeOK, Dirs
    <2>. QED
        BY <2>1, <2>2
<1>7. CASE moveStep
    <2>1. (i + 1) % FloorCount \in Floors
        BY <1>7 DEF TypeInv, TypeOK, Floors
    <2>. QED
        BY <1>7, <2>1 DEF moveStep, TypeInv, TypeOK, Status, Request, Ids,
                          CarVars
<1>8. CASE arrive
    BY <1>8 DEF arrive, TypeInv, TypeOK, Status, Request, Ids
<1>9. CASE closeDoor
    BY <1>9 DEF closeDoor, TypeInv, TypeOK, CarVars
<1>10. CASE spin
    BY <1>10 DEF spin, vars, TypeInv, TypeOK
<1>11. CASE stop
    BY <1>11 DEF stop, TypeInv, TypeOK, CarVars, CtrlVars
<1>12. CASE Terminated
    BY <1>12 DEF Terminated, vars, TypeInv, TypeOK
<1>13. CASE UNCHANGED vars
    BY <1>13 DEF vars, TypeInv, TypeOK
<1>. QED
    BY <1>1, <1>2, <1>3, <1>4, <1>5, <1>6, <1>7, <1>8, <1>9, <1>10, <1>11,
       <1>12, <1>13 DEF Next, CtrlStep, NetStep

\* The scheduler's variables always have the types of the code's
\* declarations, and goToFloor never runs with the default request of
\* process().
THEOREM TypeCorrect == Spec => []TypeOK
<1>1. TypeInv => TypeOK
    BY DEF TypeInv
<1>. QED
    BY InitTypeInv, NextTypeInv, <1>1, PTL DEF Spec

-----------------------------------------------------------------------------
(***************************************************************************)
(* No request is lost or duplicated.                                       *)
(***************************************************************************)

\* The typing facts the conservation argument needs come with it.
ConsInv == TypeInv /\ RequestConservation

LEMMA AppendIds ==
    ASSUME NEW q \in Seq(Request), NEW req \in Request
    PROVE  /\ CarIds(Append(q, req)) = CarIds(q) \cup {req.id}
           /\ (DistinctIds(q) /\ req.id \notin CarIds(q)) => DistinctIds(Append(q, req))
<1>1. CarIds(Append(q, req)) = CarIds(q) \cup {req.id}
    BY DEF CarIds
<1>2. ASSUME DistinctIds(q), req.id \notin CarIds(q)
      PROVE  DistinctIds(Append(q, req))
    BY <1>2 DEF DistinctIds, CarIds
<1>. QED
    BY <1>1, <1>2

LEMMA TailIds ==
    ASSUME NEW q \in Seq(Request), q # <<>>, DistinctIds(q)
    PROVE  /\ Head(q) \in Request
           /\ CarIds(Tail(q)) = CarIds(q) \ {Head(q).id}
           /\ Head(q).id \in CarIds(q)
           /\ DistinctIds(Tail(q))
<1>1. Head(q) \in Request /\ Head(q).id \in CarIds(q)
    BY DEF CarIds
<1>2. CarIds(Tail(q)) = CarIds(q) \ {Head(q).id}
    <2>1. /\ DOMAIN Tail(q) = 1..(Len(q) - 1)
          /\ \A k \in DOMAIN Tail(q) : Tail(q)[k] = q[k + 1]
        OBVIOUS
    <2>2. ASSUME NEW k \in DOMAIN Tail(q)
          PROVE  Tail(q)[k].id \in CarIds(q) \ {Head(q).id}
        BY <2>1 DEF CarIds, DistinctIds
    <2>3. ASSUME NEW m \in DOMAIN q, q[m].id # Head(q).id
          PROVE  q[m].id \in CarIds(Tail(q))
        <3>1. m # 1 /\ m - 1 \in DOMAIN Tail(q)
            BY <2>1, <2>3
        <3>. QED
            BY <2>1, <3>1 DEF CarIds
    <2>. QED
        BY <2>2, <2>3 DEF CarIds
<1>3. DistinctIds(Tail(q))
    BY DEF DistinctIds
<1>. QED
    BY <1>1, <1>2, <1>3

LEMMA AddIds ==
    ASSUME NEW S \in SUBSET Request, NEW x \in Request, KeyedById(S),
           x.id \notin SetIds(S)
    PROVE  /\ SetIds(S \cup {x}) = SetIds(S) \cup {x.id}
           /\ KeyedById(S \cup {x})
BY DEF SetIds, KeyedById

\* Draining a priority queue moves exactly its ids, once each.
LEMMA DrainIds ==
    ASSUME NEW Q, Q \subseteq Request, IsFiniteSet(Q), KeyedById(Q),
           NEW s \in DownDrainOrders(Q)
    PROVE  /\ CarIds(s) = SetIds(Q)
           /\ DistinctIds(s)
<1> DEFINE n == Cardinality(Q)
<1>1. n \in Nat
    BY FS_CardinalityType
<1>2. /\ s \in [1..n -> Q]
      /\ {s[k] : k \in 1..n} = Q
      /\ \A j, k \in 1..n : j < k => s[j] # s[k]
    BY DEF DownDrainOrders
<1>3. DOMAIN s = 1..n
    BY <1>2
<1>4. CarIds(s) = SetIds(Q)
    BY <1>2, <1>3 DEF CarIds, SetIds
<1>5. \A j, k \in 1..n : j # k => s[j] # s[k]
    BY <1>1, <1>2
<1>6. DistinctIds(s)
    BY <1>2, <1>3, <1>5 DEF DistinctIds, KeyedById
<1>. QED
    BY <1>4, <1>6

THEOREM InitConsInv == Init => ConsInv
<1> SUFFICES ASSUME Init PROVE ConsInv
    OBVIOUS
<1>1. RequestConservation
    BY DEF Init, RequestConservation, DistinctIds, KeyedById, CarIds,
           SetIds, InService, Submitted
<1>. QED
    BY <1>1, InitTypeInv DEF ConsInv

\* A step that touches none of the places a request can be in conserves them.
LEMMA ConservationFrame ==
    ASSUME RequestConservation,
           UNCHANGED <<currentQueue, upQueue, downQueue, ctrlPc, r, served, nextId>>
    PROVE  RequestConservation'
<1>1. /\ CarIds(currentQueue') = CarIds(currentQueue)
      /\ SetIds(upQueue') = SetIds(upQueue)
      /\ SetIds(downQueue') = SetIds(downQueue)
      /\ DistinctIds(currentQueue') = DistinctIds(currentQueue)
      /\ KeyedById(upQueue') = KeyedById(upQueue)
      /\ KeyedById(downQueue') = KeyedById(downQueue)
      /\ InService' = InService
      /\ Submitted' = Submitted
    BY DEF InService, Submitted
<1>. QED
    BY <1>1 DEF RequestConservation

\* call() with a fresh id keeps every submitted request in exactly one place.
LEMMA ClassifyConserves ==
    ASSUME ConsInv, NEW req \in Request, req.id = nextId, Classify(req),
           nextId' = nextId + 1, UNCHANGED <<ctrlPc, r, served>>
    PROVE  RequestConservation'
<1> USE DEF ConsInv, TypeInv, TypeOK
<1>1. req.id \notin CarIds(currentQueue) \cup SetIds(upQueue)
                    \cup SetIds(downQueue) \cup InService \cup served
    BY DEF RequestConservation, Submitted
<1>2. /\ Submitted' = Submitted \cup {req.id}
      /\ InService' = InService
    BY DEF Submitted, InService
<1>3. CASE /\ currentQueue' = Append(currentQueue, req)
           /\ UNCHANGED <<upQueue, downQueue>>
    <2>1. /\ CarIds(currentQueue') = CarIds(currentQueue) \cup {req.id}
          /\ DistinctIds(currentQueue')
        BY <1>1, <1>3, AppendIds DEF RequestConservation
    <2>2. /\ SetIds(upQueue') = SetIds(upQueue)
          /\ SetIds(downQueue') = SetIds(downQueue)
          /\ KeyedById(upQueue') = KeyedById(upQueue)
          /\ KeyedById(downQueue') = KeyedById(downQueue)
        BY <1>3
    <2>. QED
        BY <1>1, <1>2, <2>1, <2>2 DEF RequestConservation
<1>4. CASE /\ upQueue' = upQueue \cup {req}
           /\ UNCHANGED <<currentQueue, downQueue>>
    <2>1. /\ SetIds(upQueue') = SetIds(upQueue) \cup {req.id}
          /\ KeyedById(upQueue')
        BY <1>1, <1>4, AddIds DEF RequestConservation
    <2>2. /\ CarIds(currentQueue') = CarIds(currentQueue)
          /\ SetIds(downQueue') = SetIds(downQueue)
          /\ DistinctIds(currentQueue') = DistinctIds(currentQueue)
          /\ KeyedById(downQueue') = KeyedById(downQueue)
        BY <1>4
    <2>. QED
        BY <1>1, <1>2, <2>1, <2>2 DEF RequestConservation
<1>5. CASE /\ downQueue' = downQueue \cup {req}
           /\ UNCHANGED <<currentQueue, upQueue>>
    <2>1. /\ SetIds(downQueue') = SetIds(downQueue) \cup {req.id}
          /\ KeyedById(downQueue')
        BY <1>1, <1>5, AddIds DEF RequestConservation
    <2>2. /\ CarIds(currentQueue') = CarIds(currentQueue)
          /\ SetIds(upQueue') = SetIds(upQueue)
          /\ DistinctIds(currentQueue') = DistinctIds(currentQueue)
          /\ KeyedById(upQueue') = KeyedById(upQueue)
        BY <1>5
    <2>. QED
        BY <1>1, <1>2, <2>1, <2>2 DEF RequestConservation
<1>. QED
    BY <1>3, <1>4, <1>5 DEF Classify

THEOREM NextConsInv == ConsInv /\ [Next]_vars => ConsInv'
<1> SUFFICES ASSUME ConsInv, [Next]_vars PROVE ConsInv'
    OBVIOUS
<1>0. TypeInv'
    BY NextTypeInv DEF ConsInv
<1> SUFFICES RequestConservation'
    BY <1>0 DEF ConsInv
<1> USE FloorAssumption, RequestBoundAssumption
<1>a. RequestConservation
    BY DEF ConsInv
<1>1. ASSUME NEW f \in RequestFloors, NEW d \in Dirs, call(f, d)
      PROVE  RequestConservation'
    <2>1. [id |-> nextId, floor |-> f, dir |-> d] \in Request
        BY <1>1 DEF call, ConsInv, TypeInv, TypeOK, Request, Ids
    <2>. QED
        BY <1>1, <2>1, ClassifyConserves DEF call, CtrlVars
<1>2. ASSUME NEW f \in RequestFloors, goRead(f)
      PROVE  RequestConservation'
    BY <1>a, <1>2, ConservationFrame DEF goRead, CtrlVars
<1>3. CASE goCall
    <2>1. [id |-> nextId, floor |-> netReq.floor, dir |-> netReq.dir] \in Request
        BY <1>3 DEF goCall, ConsInv, TypeInv, TypeOK, Request
    <2>. QED
        BY <1>3, <2>1, ClassifyConserves DEF goCall, CtrlVars
<1>4. CASE checkStop
    <2>1. InService' = InService
        BY <1>4 DEF checkStop, InService
    <2>2. /\ CarIds(currentQueue') = CarIds(currentQueue)
          /\ SetIds(upQueue') = SetIds(upQueue)
          /\ SetIds(downQueue') = SetIds(downQueue)
          /\ DistinctIds(currentQueue') = DistinctIds(currentQueue)
          /\ KeyedById(upQueue') = KeyedById(upQueue)
          /\ KeyedById(downQueue') = KeyedById(downQueue)
          /\ Submitted' = Submitted /\ served' = served
        BY <1>4 DEF checkStop, Submitted
    <2>. QED
        BY <1>a, <2>1, <2>2 DEF RequestConservation
<1>5. CASE dispatch
    <2> DEFINE h == Head(currentQueue)
    <2>1. /\ h \in Request
          /\ CarIds(Tail(currentQueue)) = CarIds(currentQueue) \ {h.id}
          /\ h.id \in CarIds(currentQueue)
          /\ DistinctIds(Tail(currentQueue))
        BY <1>5, TailIds DEF dispatch, ConsInv, TypeInv, TypeOK, RequestConservation
    <2>2. InService = {} /\ InService' = {h.id}
        BY <1>5 DEF dispatch, InService
    <2>3. /\ CarIds(currentQueue') = CarIds(currentQueue) \ {h.id}
          /\ DistinctIds(currentQueue')
          /\ SetIds(upQueue') = SetIds(upQueue)
          /\ SetIds(downQueue') = SetIds(downQueue)
          /\ KeyedById(upQueue') = KeyedById(upQueue)
          /\ KeyedById(downQueue') = KeyedById(downQueue)
          /\ Submitted' = Submitted /\ served' = served
        BY <1>5, <2>1 DEF dispatch, Submitted
    <2>. QED
        BY <1>a, <2>1, <2>2, <2>3 DEF RequestConservation
<1>6. CASE preProcessNextQueue
    <2>1. InService = {} /\ InService' = {}
        BY <1>6 DEF preProcessNextQueue, InService
    <2>2. CASE scan = "spins" /\ (upQueue # {} \/ downQueue # {})
        <3>1. UNCHANGED <<currentQueue, upQueue, downQueue, served, nextId>>
            BY <1>6, <2>2 DEF preProcessNextQueue
        <3>2. /\ CarIds(currentQueue') = CarIds(currentQueue)
              /\ SetIds(upQueue') = SetIds(upQueue)
              /\ SetIds(downQueue') = SetIds(downQueue)
              /\ DistinctIds(currentQueue') = DistinctIds(currentQueue)
              /\ KeyedById(upQueue') = KeyedById(upQueue)
              /\ KeyedById(downQueue') = KeyedById(downQueue)
              /\ Submitted' = Submitted
            BY <3>1 DEF Submitted
        <3>. QED
            BY <1>a, <2>1, <3>1, <3>2 DEF RequestConservation
    <2>3. CASE ~(scan = "spins" /\ (upQueue # {} \/ downQueue # {}))
        <3>1. PICK s \in DownDrainOrders(downQueue) : currentQueue' = s
            BY <1>6, <2>3 DEF preProcessNextQueue
        <3>2. CarIds(s) = SetIds(downQueue) /\ DistinctIds(s)
            BY DrainIds, <1>a DEF ConsInv, TypeInv, TypeOK, RequestConservation
        <3>3. /\ currentQueue = <<>> /\ downQueue' = {}
              /\ UNCHANGED <<upQueue, served, nextId>>
            BY <1>6, <2>3 DEF preProcessNextQueue
        <3>4. /\ CarIds(currentQueue) = {}
              /\ SetIds(downQueue') = {}
              /\ KeyedById(downQueue')
              /\ SetIds(upQueue') = SetIds(upQueue)
              /\ KeyedById(upQueue') = KeyedById(upQueue)
              /\ Submitted' = Submitted
            BY <3>3 DEF CarIds, SetIds, KeyedById, Submitted
        <3>. QED
            BY <1>a, <2>1, <3>1, <3>2, <3>3, <3>4 DEF RequestConservation
    <2>. QED
        BY <2>2, <2>3
<1>7. CASE moveStep
    BY <1>a, <1>7, ConservationFrame DEF moveStep
<1>8. CASE arrive
    <2>1. InService = {r.id} /\ InService' = {}
        BY <1>8 DEF arrive, InService
    <2>2. /\ served' = served \cup {r.id}
          /\ CarIds(currentQueue') = CarIds(currentQueue)
          /\ SetIds(upQueue') = SetIds(upQueue)
          /\ SetIds(downQueue') = SetIds(downQueue)
          /\ DistinctIds(currentQueue') = DistinctIds(currentQueue)
          /\ KeyedById(upQueue') = KeyedById(upQueue)
          /\ KeyedById(downQueue') = KeyedById(downQueue)
          /\ Submitted' = Submitted
        BY <1>8 DEF arrive, Submitted
    <2>. QED
        BY <1>a, <2>1, <2>2 DEF RequestConservation
<1>9. CASE closeDoor
    <2>1. InService' = InService
        BY <1>9 DEF closeDoor, InService
    <2>2. /\ CarIds(currentQueue') = CarIds(currentQueue)
          /\ SetIds(upQueue') = SetIds(upQueue)
          /\ SetIds(downQueue') = SetIds(downQueue)
          /\ DistinctIds(currentQueue') = DistinctIds(currentQueue)
          /\ KeyedById(upQueue') = KeyedById(upQueue)
          /\ KeyedById(downQueue') = KeyedById(downQueue)
          /\ Submitted' = Submitted /\ served' = served
        BY <1>9 DEF closeDoor, Submitted
    <2>. QED
        BY <1>a, <2>1, <2>2 DEF RequestConservation
<1>10. CASE spin
    BY <1>a, <1>10, ConservationFrame DEF spin, vars
<1>11. CASE stop
    BY <1>a, <1>11, ConservationFrame DEF stop, CtrlVars
<1>12. CASE Terminated
    BY <1>a, <1>12, ConservationFrame DEF Terminated, vars
<1>13. CASE UNCHANGED vars
    BY <1>a, <1>13, ConservationFrame DEF vars
<1>. QED
    BY <1>1, <1>2, <1>3, <1>4, <1>5, <1>6, <1>7, <1>8, <1>9, <1>10, <1>11,
       <1>12, <1>13 DEF Next, CtrlStep, NetStep

\* No request is lost or duplicated: every request handed to call() is, at
\* every moment, in exactly one of currentQueue_ (once), upQueue_,
\* downQueue_, goToFloor, or among the served ones.
THEOREM NoRequestLost == Spec => []RequestConservation
<1>1. ConsInv => RequestConservation
    BY DEF ConsInv
<1>. QED
    BY InitConsInv, NextConsInv, <1>1, PTL DEF Spec

=============================================================================
