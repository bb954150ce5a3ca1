---------------------------- MODULE GuardProofs -----------------------------
(***************************************************************************)
(* Proofs about ProcessGuard.tla, for any number of instances of the       *)
(* service, of threads and of faults, with and without Process.pid().      *)
(*                                                                         *)
(* With it, a monitor does not end while its instance lives (Ended), since *)
(* it leaves its loop only without shouldRun or after an interrupt.  So    *)
(* tryBegin never finds a dead one, and an instance has one monitor in its *)
(* whole life (Monitors).  Without it, every monitor that has registered   *)
(* a process dies (PidNeeded), and a start may replace it.  What a monitor *)
(* has started is followed to its end by Registered, Accounted and         *)
(* Destroyed.                                                              *)
(***************************************************************************)
EXTENDS ProcessGuard, TLAPS

Stopped(s) == service[s] \in {"interrupt", "destroy", "gone"}

\* There is one instance at a time.
Sequential ==
    \A r, s \in Services : r < s /\ service[s] # "new" => service[r] = "gone"

\* A thread is the monitor of its instance, from its start on and for ever or,
\* without pid(), until it is dead.
Monitors ==
    /\ \A t \in Threads : owner[t] # None =>
          /\ pc[t] # "none" /\ service[owner[t]] # "new"
          /\ monitor[owner[t]] = t \/ (~hasPid /\ pc[t] = "dead")
    /\ \A s \in Services : monitor[s] # None =>
          owner[monitor[s]] = s /\ (service[s] = "live" => shouldRun[s])

\* No monitor gets beyond the call of pid() where there is no such method.
PidNeeded ==
    \A t \in Threads : pc[t] \in {"read", "wait", "unregister", "leave"} => hasPid

\* A monitor ends, and is interrupted, only after its instance, pid() apart.
Ended ==
    \A t \in Threads :
        /\ pc[t] \in {"refused", "leave"} => Stopped(owner[t])
        /\ pc[t] = "dead" => Stopped(owner[t]) \/ ~hasPid
        /\ interrupted[t] => owner[t] # None /\ Stopped(owner[t])

\* What is registered is the process of a monitor of the instance.
Registered ==
    \A s \in Services : current[s] # None =>
        /\ owner[current[s]] = s
        /\ \/ pc[current[s]] \in {"log", "read", "wait", "unregister", "leave"}
           \/ pc[current[s]] = "dead" /\ ~hasPid

\* stop's copies stay true until it has used them.
Copied ==
    \A s \in Services : service[s] \in {"interrupt", "destroy"} =>
        /\ held.m # None => owner[held.m] = s
        /\ held.p # None => owner[held.p] = s
        /\ current[s] \in {None, held.p}

\* A running process is about to be registered or refused, is registered and
\* logged or its output read, or has been told to end; or its monitor died of
\* pid(), and it is registered still or another monitor has come.
Accounted ==
    \A t \in Threads : Live(t) =>
        /\ pc[t] \notin {"none", "start"}
        /\ \/ pc[t] \in {"register", "refused"}
           \/ pc[t] \in {"log", "read"} /\ current[owner[t]] = t
           \/ t \in signalled
           \/ pc[t] = "dead" /\ ~hasPid /\ (current[owner[t]] = t \/ Forgotten(t))

\* Only a stopped instance tells its process to end, and once it is gone it has.
Destroyed ==
    /\ \A t \in signalled : Live(t) => Stopped(owner[t])
    /\ \A s \in Services : service[s] = "gone" /\ current[s] # None => current[s] \in signalled

IInv == /\ TypeOK /\ Sequential /\ Monitors /\ PidNeeded /\ Ended
        /\ Registered /\ Copied /\ Accounted /\ Destroyed
-----------------------------------------------------------------------------
LEMMA NoneApart == Services \subseteq Nat /\ None \notin Services /\ None \notin Threads
BY GuardAssumption DEF Services

LEMMA InitInv == Init => IInv
<1> SUFFICES ASSUME Init PROVE IInv
    OBVIOUS
<1>1. TypeOK
    BY GuardAssumption DEF Init, TypeOK, MaybeThread, Nobody
<1>2. Sequential /\ Monitors /\ PidNeeded /\ Ended /\ Registered
    BY DEF Init, Sequential, Monitors, PidNeeded, Ended, Registered
<1>3. Copied /\ Accounted /\ Destroyed
    BY DEF Init, Copied, Accounted, Destroyed, Live
<1> QED
    BY <1>1, <1>2, <1>3 DEF IInv

\* Types are preserved by every step.
LEMMA TypeStep == IInv /\ [Next]_vars => TypeOK'
<1> SUFFICES ASSUME IInv, [Next]_vars PROVE TypeOK'
    OBVIOUS
<1> USE GuardAssumption, NoneApart DEF IInv, TypeOK, MaybeThread, mainVars, guardVars, threadVars, procVars
<1>1. ASSUME NEW s \in Services, Create(s) PROVE TypeOK'
    BY <1>1 DEF Create
<1>2. ASSUME NEW s \in Services, NEW t \in Threads, StartCommand(s, t) PROVE TypeOK'
    <2>1. CASE Begin(s, t)
        <3>1. service[s] = "live" /\ UNCHANGED <<mainVars, current, interrupted, procVars>>
            BY <1>2 DEF StartCommand
        <3>2. shouldRun' \in [Services -> BOOLEAN] /\ monitor' \in [Services -> MaybeThread]
            BY <2>1 DEF Begin
        <3>3. owner' \in [Threads -> Services \cup {None}] /\ owner'[t] # None
            BY <2>1 DEF Begin
        <3> QED
            BY <2>1, <3>1, <3>2, <3>3 DEF Begin
    <2>2. CASE UNCHANGED <<shouldRun, monitor, owner, pc>>
        BY <1>2, <2>2 DEF StartCommand
    <2> QED
        BY <1>2, <2>1, <2>2 DEF StartCommand
<1>3. ASSUME NEW s \in Services, BeginStop(s) PROVE TypeOK'
    BY <1>3 DEF BeginStop
<1>4. ASSUME NEW s \in Services, InterruptMonitor(s) PROVE TypeOK'
    BY <1>4 DEF InterruptMonitor
<1>5. ASSUME NEW s \in Services, DestroyProcess(s) PROVE TypeOK'
    BY <1>5 DEF DestroyProcess, Nobody
<1>6. ASSUME NEW t \in Threads, Monitor(t) PROVE TypeOK'
    <2> USE DEF Goto
    <2>1. CASE Loop(t)
        BY <2>1 DEF Loop
    <2>2. CASE Launch(t)
        BY <2>2 DEF Launch
    <2>3. CASE LaunchFails(t)
        BY <2>3 DEF LaunchFails
    <2>4. CASE Register(t) \/ LogPid(t)
        BY <2>4 DEF Register, LogPid
    <2>5. CASE Refused(t)
        BY <2>5 DEF Refused
    <2>6. CASE Read(t)
        BY <2>6 DEF Read
    <2>7. CASE WaitFor(t)
        <3>1. interrupted' \in [Threads -> BOOLEAN]
            BY <2>7 DEF WaitFor
        <3>2. pc[t] # "none" /\ \E label \in {"unregister", "leave"} : pc' = [pc EXCEPT ![t] = label]
            BY <2>7 DEF WaitFor
        <3> QED
            BY <2>7, <3>1, <3>2 DEF WaitFor
    <2>8. CASE Unregister(t)
        <3>1. current' \in [Services -> MaybeThread] /\ pc' = [pc EXCEPT ![t] = pc'[t]]
            BY <2>8 DEF Unregister
        <3>2. pc[t] # "none" /\ pc'[t] \in {"dead", "rest"}
            BY <2>8 DEF Unregister
        <3> QED
            BY <2>8, <3>1, <3>2 DEF Unregister
    <2>9. CASE Rest(t)
        BY <2>9 DEF Rest
    <2>10. CASE Sleep(t)
        BY <2>10 DEF Sleep
    <2> QED
        BY <1>6, <2>1, <2>2, <2>3, <2>4, <2>5, <2>6, <2>7, <2>8, <2>9, <2>10 DEF Monitor
<1>7. ASSUME NEW t \in Threads, Process(t) \/ Crash(t) PROVE TypeOK'
    BY <1>7 DEF Process, Listen, Exit, Crash
<1>8. CASE UNCHANGED vars
    BY <1>8 DEF vars
<1> QED
    BY <1>1, <1>2, <1>3, <1>4, <1>5, <1>6, <1>7, <1>8 DEF Next, Main

\* The parts of the invariant that follow the threads and their processes
Inner == Sequential /\ Monitors /\ PidNeeded /\ Ended /\ Registered /\ Copied /\ Accounted /\ Destroyed

LEMMA Fresh ==
    ASSUME IInv, NEW s \in Services
    PROVE  /\ service[s] = "new" => monitor[s] = None /\ current[s] = None
           /\ service[s] = "live" /\ monitor[s] # None =>
                  Alive(monitor[s]) \/ (pc[monitor[s]] = "dead" /\ ~hasPid)
BY NoneApart DEF IInv, TypeOK, MaybeThread, Monitors, Registered, Ended, Stopped, Alive

LEMMA MainStep == ASSUME IInv, Main PROVE Inner'
<1> USE GuardAssumption, NoneApart DEF IInv, TypeOK, MaybeThread, mainVars, guardVars, threadVars, procVars,
        Stopped, Live, Alive, Inner,
        Sequential, Monitors, PidNeeded, Ended, Registered, Copied, Accounted, Destroyed, Forgotten
<1>1. ASSUME NEW s \in Services, Create(s) PROVE Inner'
    <2>1. Sequential'
        <3>1. SUFFICES ASSUME NEW q \in Services, NEW r \in Services, q < r, service'[r] # "new"
                       PROVE  service'[q] = "gone"
            BY DEF Sequential
        <3>2. q \in 1..(s - 1) \/ r # s
            BY <3>1 DEF Services
        <3>3. service' = [service EXCEPT ![s] = "live"] /\ service[s] = "new"
            BY <1>1 DEF Create
        <3> QED
            BY <1>1, <3>1, <3>2, <3>3 DEF Create
    <2>2. monitor[s] = None /\ current[s] = None
        BY <1>1, Fresh DEF Create
    <2>3. Monitors' /\ PidNeeded' /\ Ended' /\ Registered'
        BY <1>1, <2>2 DEF Create
    <2>4. Copied'
        BY <1>1 DEF Create
    <2>5. Accounted' /\ Destroyed'
        BY <1>1, <2>2 DEF Create
    <2> QED
        BY <2>1, <2>3, <2>4, <2>5
<1>2. ASSUME NEW s \in Services, NEW t \in Threads, StartCommand(s, t) PROVE Inner'
    <2>1. CASE monitor[s] # None /\ Alive(monitor[s])
        BY <1>2, <2>1 DEF StartCommand
    <2>2. CASE ~(monitor[s] # None /\ Alive(monitor[s]))
        <3>1. /\ service[s] = "live" /\ owner[t] = None /\ s # None
              /\ monitor[s] = None \/ (pc[monitor[s]] = "dead" /\ ~hasPid)
            BY <1>2, <2>2, Fresh DEF StartCommand, Begin
        <3> HIDE DEF Inner
        <3>2. Sequential' /\ PidNeeded' /\ Ended' /\ Copied'
            BY <1>2, <2>2, <3>1 DEF StartCommand, Begin
        <3>3. Monitors'
            <4>1. /\ monitor' = [monitor EXCEPT ![s] = t] /\ owner' = [owner EXCEPT ![t] = s]
                  /\ pc' = [pc EXCEPT ![t] = "loop"] /\ shouldRun' = [shouldRun EXCEPT ![s] = TRUE]
                  /\ service' = service /\ hasPid' = hasPid
                BY <1>2, <2>2 DEF StartCommand, Begin
            <4>2. ASSUME NEW u \in Threads, owner'[u] # None
                  PROVE  /\ pc'[u] # "none" /\ service'[owner'[u]] # "new"
                         /\ monitor'[owner'[u]] = u \/ (~hasPid' /\ pc'[u] = "dead")
                BY <3>1, <4>1, <4>2
            <4>3. ASSUME NEW r \in Services, monitor'[r] # None
                  PROVE  owner'[monitor'[r]] = r /\ (service'[r] = "live" => shouldRun'[r])
                BY <3>1, <4>1, <4>3
            <4> QED
                BY <4>2, <4>3
        <3>4. Registered' /\ Destroyed'
            BY <1>2, <2>2, <3>1 DEF StartCommand, Begin
        <3>5. Accounted'
            <4>1. SUFFICES ASSUME NEW u \in Threads, Live(u)'
                           PROVE  /\ pc'[u] \notin {"none", "start"}
                                  /\ \/ pc'[u] \in {"register", "refused"}
                                     \/ pc'[u] \in {"log", "read"} /\ current'[owner'[u]] = u
                                     \/ u \in signalled'
                                     \/ /\ pc'[u] = "dead" /\ ~hasPid'
                                        /\ current'[owner'[u]] = u \/ Forgotten(u)'
                BY DEF Accounted
            <4>2. /\ monitor' = [monitor EXCEPT ![s] = t] /\ owner' = [owner EXCEPT ![t] = s]
                  /\ pc' = [pc EXCEPT ![t] = "loop"] /\ pc[t] = "none"
                  /\ UNCHANGED <<hasPid, current, proc, signalled>>
                BY <1>2, <2>2 DEF StartCommand, Begin
            <4>3. Live(u) /\ u # t
                BY <4>1, <4>2 DEF Accounted, Live
            <4>4. owner'[u] = owner[u] /\ pc'[u] = pc[u] /\ owner[u] \in Services
                BY <4>2, <4>3
            <4>5. Forgotten(u) => Forgotten(u)'
                BY <4>2, <4>3, <4>4 DEF Forgotten
            <4> QED
                BY <4>2, <4>3, <4>4, <4>5 DEF Accounted
        <3> QED
            BY <3>2, <3>3, <3>4, <3>5 DEF Inner
    <2> QED
        BY <1>2, <2>1, <2>2 DEF StartCommand
<1>3. ASSUME NEW s \in Services, BeginStop(s) PROVE Inner'
    BY <1>3 DEF BeginStop
<1>4. ASSUME NEW s \in Services, InterruptMonitor(s) PROVE Inner'
    BY <1>4 DEF InterruptMonitor
<1>5. ASSUME NEW s \in Services, DestroyProcess(s) PROVE Inner'
    BY <1>5 DEF DestroyProcess, Nobody
<1> QED
    BY <1>1, <1>2, <1>3, <1>4, <1>5 DEF Main

LEMMA MonitorStep == ASSUME IInv, NEW t \in Threads, Monitor(t) PROVE Inner'
<1> USE GuardAssumption DEF IInv, TypeOK, MaybeThread, mainVars, guardVars, threadVars, procVars, Goto,
        Stopped, Live, Alive, Inner,
        Sequential, Monitors, PidNeeded, Ended, Registered, Copied, Accounted, Destroyed, Forgotten
<1>1. CASE Loop(t)
    BY <1>1 DEF Loop
<1>2. CASE Launch(t)
    BY <1>2 DEF Launch
<1>3. CASE LaunchFails(t)
    BY <1>3 DEF LaunchFails
<1>4. CASE Register(t)
    BY <1>4 DEF Register
<1>5. CASE LogPid(t) \/ Refused(t)
    BY <1>5 DEF LogPid, Refused
<1>6. CASE Read(t)
    BY <1>6 DEF Read
<1>7. CASE WaitFor(t)
    BY <1>7 DEF WaitFor
<1>8. CASE Unregister(t)
    BY <1>8 DEF Unregister
<1>9. CASE Rest(t)
    BY <1>9 DEF Rest
<1>10. CASE Sleep(t)
    BY <1>10 DEF Sleep
<1> QED
    BY <1>1, <1>2, <1>3, <1>4, <1>5, <1>6, <1>7, <1>8, <1>9, <1>10 DEF Monitor

LEMMA ProcessStep == ASSUME IInv, NEW t \in Threads, Process(t) \/ Crash(t) PROVE Inner'
BY DEF IInv, TypeOK, mainVars, guardVars, threadVars, procVars, Process, Listen, Exit, Crash,
       Stopped, Live, Inner,
       Sequential, Monitors, PidNeeded, Ended, Registered, Copied, Accounted, Destroyed, Forgotten

LEMMA StutterStep == ASSUME IInv, UNCHANGED vars PROVE Inner'
BY DEF IInv, TypeOK, vars, mainVars, guardVars, threadVars, procVars, Stopped, Live, Inner,
       Sequential, Monitors, PidNeeded, Ended, Registered, Copied, Accounted, Destroyed, Forgotten

LEMMA StepInv == IInv /\ [Next]_vars => IInv'
<1> SUFFICES ASSUME IInv, [Next]_vars PROVE IInv'
    OBVIOUS
<1>1. TypeOK'
    BY TypeStep
<1>2. Inner'
    <2>1. CASE Main
        BY <2>1, MainStep
    <2>2. CASE \E t \in Threads : Monitor(t)
        BY <2>2, MonitorStep
    <2>3. CASE \E t \in Threads : Process(t) \/ Crash(t)
        BY <2>3, ProcessStep
    <2>4. CASE UNCHANGED vars
        BY <2>4, StutterStep
    <2> QED
        BY <2>1, <2>2, <2>3, <2>4 DEF Next
<1> QED
    BY <1>1, <1>2 DEF IInv, Inner
-----------------------------------------------------------------------------
\* The inductive invariant holds throughout.
THEOREM Invariance == Spec => []IInv
BY InitInv, StepInv, PTL DEF Spec

\* The service's state is of the right shape; it is never meant to run before
\* its instance lives or after it has begun to stop.
THEOREM TypeCorrect == Spec => []TypeOK
<1>1. IInv => TypeOK
    BY DEF IInv
<1> QED
    BY <1>1, Invariance, PTL

\* However often it is started, an instance has one monitor, on any platform.
THEOREM MonitorUnique == Spec => []OneMonitor
<1>1. IInv => OneMonitor
    BY DEF IInv, TypeOK, Monitors, OneMonitor, Alive
<1> QED
    BY <1>1, Invariance, PTL

\* When onDestroy is through, every process of the instance has been told to end
\* or is about to be; without Process.pid(), that of the latest monitor.
THEOREM NothingEscapes == Spec => []NoEscape
<1>1. IInv => NoEscape
    <2> SUFFICES ASSUME IInv, NEW t \in Threads, Live(t), service[owner[t]] = "gone"
                 PROVE  t \in signalled \/ pc[t] \in {"register", "refused"} \/ Forgotten(t)
        BY DEF NoEscape
    <2>1. owner[t] \in Services
        BY DEF IInv, TypeOK, Accounted
    <2>2. current[owner[t]] = t => t \in signalled
        BY <2>1, NoneApart DEF IInv, Destroyed
    <2> QED
        BY <2>2 DEF IInv, Accounted
<1> QED
    BY <1>1, Invariance, PTL

\* Where there is Process.pid(), an instance never has two processes.
THEOREM NeverTwo == Spec => StartsAlone
<1>1. IInv => \A t, u \in Threads :
                  Launch(t) /\ owner[u] = owner[t] => ~Live(u) \/ ~hasPid
    <2> SUFFICES ASSUME IInv, NEW t \in Threads, NEW u \in Threads,
                        Launch(t), owner[u] = owner[t], hasPid
                 PROVE  ~Live(u)
        OBVIOUS
    <2>1. pc[t] = "start" /\ owner[t] # None
        BY DEF Launch, IInv, TypeOK
    <2>2. u = t
        BY <2>1 DEF IInv, Monitors
    <2> QED
        BY <2>1, <2>2 DEF IInv, Accounted
<1> QED
    BY <1>1, Invariance, PTL DEF StartsAlone
=============================================================================
