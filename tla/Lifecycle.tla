------------------------------ MODULE Lifecycle ------------------------------
(***************************************************************************)
(* Start-up, shutdown and teardown of the elevator system: class Elevator  *)
(* of src/src/controller/cpp/main/Elevator.h driven as testSafeExiting     *)
(* (src/src/controller/cpp/test/ElevatorTest.cpp) drives it, the two       *)
(* Stoppable exit signals (StoppableTask.h), the loops that poll them      *)
(* (Process::run and TransportSocket::listen) and the shared_ptr owners of *)
(* ElevatorCtrl and NetProtocol, including the ones the signal_slot        *)
(* lambdas of connect_member capture.                                       *)
(*                                                                         *)
(* Threads: "main" (the test body, run(), ~Elevator), "stopper" (t1, which *)
(* calls Elevator::stop after its delay; the delay is abstracted, so it    *)
(* may wake at any point), "proc" (Process::run) and "net"                 *)
(* (NetProtocol::run -> TransportSocket::listen).  What process() and a    *)
(* listener round do is modelled in ElevatorCtrl and NetLink; here they    *)
(* are single steps, except for the faults in Faults.                      *)
(***************************************************************************)
EXTENDS Naturals

CONSTANT Faults  \* what may go wrong in this build and environment:
                 \*   "hang": process() never returns, holding
                 \*     inputQueueMutex_ (the scan spin of ElevatorCtrl);
                 \*   "setupThrows": WSAStartup, getaddrinfo, socket, bind
                 \*     or listen fails and listen() throws.

ASSUME FaultsAssumption == Faults \subseteq {"hang", "setupThrows"}

Threads == {"main", "stopper", "proc", "net"}
Tasks == {"proc", "net"}      \* the two Stoppable tasks
Objs == {"ctrl", "net"}       \* the ElevatorCtrl and NetProtocol objects

\* The holders of a shared_ptr to an object: Elevator's member, or the
\* slot map of the other object's onNewData_ signal.
Holders == {"elevator", "ctrlSignal", "netSignal"}
SignalOf == [ctrl |-> "ctrlSignal", net |-> "netSignal"]

VARIABLES
    pc,        \* where each thread is
    joinable,  \* std::thread::joinable() of processingThread, netProtocolThread, t1
    signal,    \* whether the exit promise of each task has been set
    owners,    \* the holders of a shared_ptr to each object
    abort      \* why std::terminate ended the process, or "none"

vars == <<pc, joinable, signal, owners, abort>>

Init ==
    /\ pc = [t \in Threads |-> IF t = "main" THEN "connect" ELSE "none"]
    /\ joinable = [t \in {"proc", "net", "stopper"} |-> FALSE]
    /\ signal = [k \in Tasks |-> FALSE]
    /\ owners = [o \in Objs |-> {"elevator"}]
    /\ abort = "none"

Running == abort = "none"

\* Thread t moves from control point from to control point to.
Goto(t, from, to) ==
    /\ pc[t] = from
    /\ pc' = [pc EXCEPT ![t] = to]

-----------------------------------------------------------------------------
(* Shared pointers: an object whose last holder lets go is destroyed, and  *)
(* its destructor (onNewData_ = nullptr) destroys its signal and the slots *)
(* in it, which let go of the other object in turn.                        *)

\* One round of destruction: every object nobody holds releases what its
\* signal's slots hold.
Collect1(own) ==
    [o \in Objs |-> own[o] \ {SignalOf[p] : p \in {q \in Objs : own[q] = {}}}]

\* With two objects, two rounds reach the fixed point.
Collect(own) == Collect1(Collect1(own))

\* `if (x) x = nullptr;` in ~Elevator: Elevator's reference goes.
Release(o) ==
    owners' = Collect([owners EXCEPT ![o] = @ \ {"elevator"}])

-----------------------------------------------------------------------------
(* Stoppable::stop is exitSignal.set_value(): a second call throws         *)
(* std::future_error, which nobody catches.                                 *)
SetValue(k) ==
    IF signal[k]
    THEN /\ abort' = "future_error"
         /\ UNCHANGED signal
    ELSE /\ signal' = [signal EXCEPT ![k] = TRUE]
         /\ UNCHANGED abort

\* Mutant of StopNet: the joinable() guard dropped.
StopNetNoCheck(t, next) ==
    /\ Running
    /\ Goto(t, "stopNet", next)
    /\ SetValue("net")
    /\ UNCHANGED <<joinable, owners>>

\* Elevator::stop, first line: if (netProtocolThread.joinable())
\* taskNetProtocol->stop();  (run by the stopper, and by ~Elevator).
StopNet(t, next) ==
    /\ Running
    /\ Goto(t, "stopNet", next)
    /\ IF joinable["net"] THEN SetValue("net") ELSE UNCHANGED <<signal, abort>>
    /\ UNCHANGED <<joinable, owners>>

\* Mutant of StopProc: stop_process_thread without its joinable() guard.
StopProcNoCheck(t, next) ==
    /\ Running
    /\ Goto(t, "stopProc", next)
    /\ SetValue("proc")
    /\ UNCHANGED <<joinable, owners>>

\* Elevator::stop, second line: elevatorCtrl->stop_process_thread(), which
\* stops the task only if processingThread.joinable().
StopProc(t, next) ==
    /\ Running
    /\ Goto(t, "stopProc", next)
    /\ IF joinable["proc"] THEN SetValue("proc") ELSE UNCHANGED <<signal, abort>>
    /\ UNCHANGED <<joinable, owners>>

-----------------------------------------------------------------------------
(* The test body and Elevator::run on the main thread.                     *)

\* elevator->connect_signal_slot(): each side's signal gets a slot whose
\* lambda captures a shared_ptr to the other side.
connect_signal_slot ==
    /\ Running
    /\ Goto("main", "connect", "spawnStopper")
    /\ owners' = [owners EXCEPT !["ctrl"] = @ \cup {"netSignal"},
                                !["net"] = @ \cup {"ctrlSignal"}]
    /\ UNCHANGED <<joinable, signal, abort>>

\* std::thread t1(Fctor(function), 20000).
spawnStopper ==
    /\ Running
    /\ pc["main"] = "spawnStopper"
    /\ pc' = [pc EXCEPT !["main"] = "makeProc", !["stopper"] = "stopNet"]
    /\ joinable' = [joinable EXCEPT !["stopper"] = TRUE]
    /\ UNCHANGED <<signal, owners, abort>>

\* run(): elevatorCtrl->make_process_thread().
make_process_thread ==
    /\ Running
    /\ pc["main"] = "makeProc"
    /\ pc' = [pc EXCEPT !["main"] = "spawnNet", !["proc"] = "check"]
    /\ joinable' = [joinable EXCEPT !["proc"] = TRUE]
    /\ UNCHANGED <<signal, owners, abort>>

\* run(): netProtocolThread = std::thread(... taskNetProtocol->run() ...).
spawnNet ==
    /\ Running
    /\ pc["main"] = "spawnNet"
    /\ pc' = [pc EXCEPT !["main"] = "joinProc", !["net"] = "setup"]
    /\ joinable' = [joinable EXCEPT !["net"] = TRUE]
    /\ UNCHANGED <<signal, owners, abort>>

\* A ThreadJoiner going out of scope: join() blocks until thread k has
\* returned; afterwards the std::thread is no longer joinable.
Join(k, from, to) ==
    /\ Running
    /\ Goto("main", from, to)
    /\ pc[k] \in {"exited", "done"}
    /\ joinable' = [joinable EXCEPT ![k] = FALSE]
    /\ UNCHANGED <<signal, owners, abort>>

join_process_thread == Join("proc", "joinProc", "joinNet")
joinNet == Join("net", "joinNet", "joinStopper")
joinStopper == Join("stopper", "joinStopper", "stopNet")

\* ~ElevatorTest: elevator = nullptr runs ~Elevator: stop(), then
\* taskNetProtocol = nullptr, then elevatorCtrl = nullptr.
dtorStop == StopNet("main", "stopProc") \/ StopProc("main", "dropNet")

dropNet ==
    /\ Running
    /\ Goto("main", "dropNet", "dropCtrl")
    /\ Release("net")
    /\ UNCHANGED <<joinable, signal, abort>>

dropCtrl ==
    /\ Running
    /\ Goto("main", "dropCtrl", "end")
    /\ Release("ctrl")
    /\ UNCHANGED <<joinable, signal, abort>>

\* Fctor: after its delay, t1 calls elevator->stop().
stopperStop == StopNet("stopper", "stopProc") \/ StopProc("stopper", "done")

-----------------------------------------------------------------------------
(* Process::run on the processing thread.                                  *)

\* while (stopRequested() == false): the future is polled with wait_for(0).
procCheck ==
    /\ Running
    /\ pc["proc"] = "check"
    /\ pc' = [pc EXCEPT !["proc"] = IF signal["proc"] THEN "exited" ELSE "process"]
    /\ UNCHANGED <<joinable, signal, owners, abort>>

\* parent_->process() returns; sleep_for(1 ms).
procProcess ==
    /\ Running
    /\ Goto("proc", "process", "check")
    /\ UNCHANGED <<joinable, signal, owners, abort>>

\* process() never returns: getLowestTime*Queue spins holding the mutex.
procHang ==
    /\ Running
    /\ "hang" \in Faults
    /\ Goto("proc", "process", "hung")
    /\ UNCHANGED <<joinable, signal, owners, abort>>

\* The scan loop going round: nothing changes.
procSpin ==
    /\ Running
    /\ pc["proc"] = "hung"
    /\ UNCHANGED vars

-----------------------------------------------------------------------------
(* NetProtocol::run -> TransportSocket::listen on the network thread.      *)

\* The setup before the loop succeeds: the listening socket is ready.
netSetup ==
    /\ Running
    /\ Goto("net", "setup", "check")
    /\ UNCHANGED <<joinable, signal, owners, abort>>

\* A setup call fails and listen() throws std::runtime_error out of the
\* thread function: std::terminate.
netSetupFails ==
    /\ Running
    /\ "setupThrows" \in Faults
    /\ pc["net"] = "setup"
    /\ abort' = "setup"
    /\ UNCHANGED <<pc, joinable, signal, owners>>

\* while (stopRequested() == false).
netCheck ==
    /\ Running
    /\ pc["net"] = "check"
    /\ pc' = [pc EXCEPT !["net"] = IF signal["net"] THEN "exited" ELSE "round"]
    /\ UNCHANGED <<joinable, signal, owners, abort>>

\* One select() round: a 1 s timeout, or accepts and reads whose callbacks
\* run to completion.
netRound ==
    /\ Running
    /\ Goto("net", "round", "check")
    /\ UNCHANGED <<joinable, signal, owners, abort>>

\* A request arrives while process() hangs: onRead -> call() blocks on
\* inputQueueMutex_ for ever.
netBlock ==
    /\ Running
    /\ pc["proc"] = "hung"
    /\ Goto("net", "round", "blocked")
    /\ UNCHANGED <<joinable, signal, owners, abort>>

-----------------------------------------------------------------------------
\* The test has finished, or the process was terminated.
Finished ==
    /\ pc["main"] = "end" \/ ~Running
    /\ UNCHANGED vars

MainStep == connect_signal_slot \/ spawnStopper \/ make_process_thread
            \/ spawnNet \/ join_process_thread \/ joinNet \/ joinStopper
            \/ dtorStop \/ dropNet \/ dropCtrl
ProcStep == procCheck \/ procProcess \/ procHang \/ procSpin
NetStep == netSetup \/ netSetupFails \/ netCheck \/ netRound \/ netBlock

Next == MainStep \/ stopperStop \/ ProcStep \/ NetStep \/ Finished

\* All four are OS threads: each keeps being scheduled while it can run.
Spec == Init /\ [][Next]_vars
        /\ WF_vars(MainStep) /\ WF_vars(stopperStop)
        /\ WF_vars(ProcStep) /\ WF_vars(NetStep)

-----------------------------------------------------------------------------
(***************************************************************************)
(* Properties.                                                             *)
(***************************************************************************)

TypeOK ==
    /\ pc \in [Threads -> {"none", "connect", "spawnStopper", "makeProc",
                           "spawnNet", "joinProc", "joinNet", "joinStopper",
                           "stopNet", "stopProc", "dropNet", "dropCtrl", "end",
                           "done", "check", "process", "hung", "setup",
                           "round", "blocked", "exited"}]
    /\ joinable \in [{"proc", "net", "stopper"} -> BOOLEAN]
    /\ signal \in [Tasks -> BOOLEAN]
    /\ owners \in [Objs -> SUBSET Holders]
    /\ abort \in {"none", "future_error", "setup"}

\* No exit signal is set twice (spec 4.5: "settable exactly once"): the
\* stopper's Elevator::stop and the one ~Elevator runs after run() has
\* returned never both reach exitSignal.set_value() on the same task, so
\* std::future_error never terminates the process.
NoDoubleSetValue == abort # "future_error"

\* Once the stopper has set both exit signals, both loops observe them,
\* run() returns, t1 is joined and ~Elevator completes, without a second
\* set_value (spec 5: "process shutdown must allow both loops to observe
\* the stop signal"), unless process() never returns or the listener's
\* setup already terminated the process.
ShutdownCompletes ==
    (pc["stopper"] = "done" /\ signal["net"] /\ signal["proc"])
        ~> (pc["main"] = "end" \/ abort = "setup" \/ pc["proc"] = "hung")

\* The listener loop observes its exit signal once it is set (spec 4.5:
\* both loops check the stop signal once per iteration; shutdown latency
\* is bounded by each loop's own poll timeout).
ListenerObservesStop ==
    signal["net"] ~> (pc["net"] = "exited" \/ abort # "none")

\* Elevator::stop, whenever the stopper calls it, makes run() return and the
\* test end (spec 4.5/5: a one-shot stop observed by both loops).
StopTerminatesRun ==
    (pc["stopper"] = "done") ~> (pc["main"] = "end")

\* When ~Elevator has finished, nothing holds the ElevatorCtrl or the
\* NetProtocol object any more, so both are destroyed (and with NetProtocol
\* its TransportSocket, whose destructor closes the socket).
SubsystemsReleased ==
    pc["main"] = "end" => \A o \in Objs : owners[o] = {}
=============================================================================
