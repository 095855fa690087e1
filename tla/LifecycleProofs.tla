--------------------------- MODULE LifecycleProofs ---------------------------
(***************************************************************************)
(* Proofs about the start-up and shutdown model, for every set of Faults   *)
(* allowed by FaultsAssumption.                                            *)
(***************************************************************************)
EXTENDS Lifecycle, TLAPS

\* Control points of the main thread after run() has joined the process
\* thread and the listener, and those inside ~Elevator.
AfterJoins == {"joinStopper", "stopNet", "stopProc", "dropNet", "dropCtrl", "end"}
InDtor == AfterJoins \ {"joinStopper"}

\* NoDoubleSetValue is not inductive: it needs why neither stop() reaches a
\* set signal.  The stopper calls stop() once and is the only one to set a
\* signal: ~Elevator's stop() runs after the joins, when neither thread is
\* joinable, and after t1 has finished.
IInv ==
    /\ TypeOK
    /\ NoDoubleSetValue
    /\ pc["stopper"] \in {"none", "stopNet", "stopProc", "done"}
    /\ pc["main"] \in {"connect", "spawnStopper"} => pc["stopper"] = "none"
    /\ pc["main"] = "joinNet" => ~joinable["proc"]
    /\ pc["main"] \in AfterJoins => ~joinable["net"] /\ ~joinable["proc"]
    /\ pc["main"] \in InDtor => pc["stopper"] = "done"
    /\ signal["net"] => pc["stopper"] \in {"stopProc", "done"}
    /\ signal["proc"] => pc["stopper"] = "done"

-----------------------------------------------------------------------------
LEMMA InitIInv == Init => IInv
BY DEF Init, IInv, TypeOK, NoDoubleSetValue, Threads, Tasks, Objs, Holders,
       AfterJoins, InDtor

\* The first half of Elevator::stop, on either thread that calls it.
LEMMA StopNetIInv ==
    ASSUME IInv, NEW t \in {"main", "stopper"}, StopNet(t, "stopProc")
    PROVE  IInv'
<1>1. CASE t = "stopper"
    <2>1. /\ pc["stopper"] = "stopNet" /\ ~signal["net"] /\ ~signal["proc"]
          /\ pc' = [pc EXCEPT !["stopper"] = "stopProc"]
          /\ UNCHANGED <<joinable, owners>> /\ Running
        BY <1>1 DEF StopNet, Goto, IInv
    <2>2. pc["main"] \notin InDtor \cup {"connect", "spawnStopper"}
        BY <2>1 DEF IInv
    <2>3. CASE joinable["net"]
        <3>1. signal' = [signal EXCEPT !["net"] = TRUE] /\ abort' = abort
            BY <1>1, <2>1, <2>3 DEF StopNet, SetValue
        <3>. QED
            BY <2>1, <2>2, <3>1 DEF IInv, TypeOK, NoDoubleSetValue, Running,
                   AfterJoins, InDtor, Threads, Tasks
    <2>4. CASE ~joinable["net"]
        <3>1. UNCHANGED <<signal, abort>>
            BY <1>1, <2>4 DEF StopNet
        <3>. QED
            BY <2>1, <2>2, <3>1 DEF IInv, TypeOK, NoDoubleSetValue, Running,
                   AfterJoins, InDtor, Threads
    <2>. QED
        BY <2>3, <2>4
<1>2. CASE t = "main"
    <2>1. ~joinable["net"] /\ pc["stopper"] = "done"
        BY <1>2 DEF StopNet, Goto, IInv, AfterJoins, InDtor
    <2>. QED
        BY <1>2, <2>1 DEF StopNet, Goto, IInv, TypeOK, NoDoubleSetValue,
               AfterJoins, InDtor, Threads
<1>. QED
    BY <1>1, <1>2

\* The second half of Elevator::stop.
LEMMA StopProcIIInv ==
    ASSUME IInv, NEW t \in {"main", "stopper"},
           NEW next \in {"dropNet", "done"},
           t = "main" <=> next = "dropNet",
           StopProc(t, next)
    PROVE  IInv'
<1>1. CASE t = "stopper"
    <2>1. ~signal["proc"] /\ next = "done"
        BY <1>1 DEF StopProc, Goto, IInv
    <2>. QED
        BY <1>1, <2>1 DEF StopProc, Goto, SetValue, IInv, TypeOK,
               NoDoubleSetValue, AfterJoins, InDtor, Threads
<1>2. CASE t = "main"
    <2>1. ~joinable["proc"] /\ pc["stopper"] = "done" /\ next = "dropNet"
        BY <1>2 DEF StopProc, Goto, IInv, AfterJoins, InDtor
    <2>. QED
        BY <1>2, <2>1 DEF StopProc, Goto, IInv, TypeOK, NoDoubleSetValue,
               AfterJoins, InDtor, Threads
<1>. QED
    BY <1>1, <1>2

\* Releasing a reference keeps the owners typed.
LEMMA ReleaseTyped ==
    ASSUME NEW own \in [Objs -> SUBSET Holders], NEW o \in Objs
    PROVE  Collect([own EXCEPT ![o] = @ \ {"elevator"}]) \in [Objs -> SUBSET Holders]
BY DEF Collect, Collect1

LEMMA NextIInv == IInv /\ [Next]_vars => IInv'
<1> SUFFICES ASSUME IInv, [Next]_vars PROVE IInv'
    OBVIOUS
<1> DEFINE Labels == {"none", "connect", "spawnStopper", "makeProc",
                      "spawnNet", "joinProc", "joinNet", "joinStopper",
                      "stopNet", "stopProc", "dropNet", "dropCtrl", "end",
                      "done", "check", "process", "hung", "setup",
                      "round", "blocked", "exited"}
\* A step of thread t that only moves it to a control point that is not
\* the main thread's and changes nothing else.
<1>g. ASSUME NEW t \in {"proc", "net"}, NEW from \in Labels,
             NEW to \in {"check", "process", "hung", "round", "blocked", "exited"},
             Goto(t, from, to), UNCHANGED <<joinable, signal, owners, abort>>
      PROVE  IInv'
    BY <1>g DEF Goto, IInv, TypeOK, NoDoubleSetValue, Threads
<1>1. CASE connect_signal_slot
    BY <1>1 DEF connect_signal_slot, Goto, IInv, TypeOK, NoDoubleSetValue,
           Threads, Objs, Holders, AfterJoins, InDtor
<1>2. CASE spawnStopper
    BY <1>2 DEF spawnStopper, IInv, TypeOK, NoDoubleSetValue, Threads,
           AfterJoins, InDtor
<1>3. CASE make_process_thread
    BY <1>3 DEF make_process_thread, IInv, TypeOK, NoDoubleSetValue, Threads,
           AfterJoins, InDtor
<1>4. CASE spawnNet
    BY <1>4 DEF spawnNet, IInv, TypeOK, NoDoubleSetValue, Threads,
           AfterJoins, InDtor
<1>5a. CASE join_process_thread
    BY <1>5a DEF join_process_thread, Join, Goto, IInv,
           TypeOK, NoDoubleSetValue, Threads, AfterJoins, InDtor
<1>5b. CASE joinNet
    BY <1>5b DEF joinNet, Join, Goto, IInv,
           TypeOK, NoDoubleSetValue, Threads, AfterJoins, InDtor
<1>5c. CASE joinStopper
    BY <1>5c DEF joinStopper, Join, Goto, IInv,
           TypeOK, NoDoubleSetValue, Threads, AfterJoins, InDtor
<1>6. CASE dtorStop
    BY <1>6, StopNetIInv, StopProcIIInv DEF dtorStop
<1>7. CASE dropNet \/ dropCtrl
    <2>0. PICK o \in Objs : Release(o)
        BY <1>7 DEF dropNet, dropCtrl, Objs
    <2>1. owners' \in [Objs -> SUBSET Holders]
        <3>1. owners \in [Objs -> SUBSET Holders]
            BY DEF IInv, TypeOK
        <3>. QED
            BY <2>0, <3>1, ReleaseTyped DEF Release
    <2>. QED
        BY <1>7, <2>1 DEF dropNet, dropCtrl, Goto, IInv, TypeOK,
               NoDoubleSetValue, Threads, AfterJoins, InDtor
<1>8. CASE stopperStop
    BY <1>8, StopNetIInv, StopProcIIInv DEF stopperStop
<1>9. CASE procCheck \/ netCheck
    BY <1>9 DEF procCheck, netCheck, IInv, TypeOK, NoDoubleSetValue, Threads
<1>10. CASE procProcess \/ procHang \/ netSetup \/ netRound \/ netBlock
    BY <1>10, <1>g DEF procProcess, procHang, netSetup, netRound, netBlock
<1>11. CASE netSetupFails
    BY <1>11 DEF netSetupFails, IInv, TypeOK, NoDoubleSetValue
<1>12. CASE procSpin \/ Finished \/ UNCHANGED vars
    BY <1>12 DEF procSpin, Finished, vars, IInv, TypeOK, NoDoubleSetValue
<1>. QED
    BY <1>1, <1>2, <1>3, <1>4, <1>5a, <1>5b, <1>5c, <1>6, <1>7, <1>8, <1>9, <1>10, <1>11,
       <1>12 DEF Next, MainStep, ProcStep, NetStep

-----------------------------------------------------------------------------
\* Every variable keeps its type: control points, joinable flags, signals,
\* owners and the reason for a termination.
THEOREM TypeCorrect == Spec => []TypeOK
BY InitIInv, NextIInv, PTL DEF Spec, IInv

\* No exit signal is set twice, whatever the faults and wherever the
\* stopper's delay ends: Elevator::stop's joinable() guards keep
\* ~Elevator's second stop() from calling set_value again.
THEOREM SignalSetOnce == Spec => []NoDoubleSetValue
BY InitIInv, NextIInv, PTL DEF Spec, IInv
=============================================================================
