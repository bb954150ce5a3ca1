---------------------------- MODULE ProcessGuard -----------------------------
(***************************************************************************)
(* The Android service (android/src/SyncService.java): it keeps one Go     *)
(* process running from its start to its destruction.                      *)
(*                                                                         *)
(* Android creates and destroys instances of the service one after the     *)
(* other, on the main thread.  Each has a ProcessGuard of its own and a    *)
(* monitor thread, which starts the process, waits for its end and starts  *)
(* it again; the monitor and the process may outlive the instance, and     *)
(* overlap with those of the next one.  A step is one synchronized method  *)
(* of the guard or one call of a thread or a process.                      *)
(*                                                                         *)
(* Every process listens on the same port.  What it does besides, and the  *)
(* notifications, are left out.                                            *)
(*                                                                         *)
(* The service supports API 29 and up, but monitorLoop calls Process.pid() *)
(* which only API 33 has (docs/TECHNICAL.md:245).  Below, the call throws  *)
(* an Error that nothing catches, and the monitor thread ends there.       *)
(***************************************************************************)
EXTENDS Naturals

CONSTANTS MaxServices,  \* bound: instances of the service
          Threads,      \* monitor threads; each has one process at a time
          MaxFaults,    \* bound: failed starts and crashes of processes
          None

ASSUME GuardAssumption ==
    MaxServices \in Nat /\ MaxFaults \in Nat /\ None \notin Threads /\ None \notin Nat

VARIABLES
    hasPid,       \* the platform has Process.pid(): API 33 or later
    service,      \* each instance: where the main thread is with it
    shouldRun,    \* ProcessGuard.shouldRun
    monitor,      \* ProcessGuard.monitor
    current,      \* ProcessGuard.current: the thread whose process it is
    held,         \* stop's m and p
    owner,        \* the instance each thread belongs to
    pc,           \* where each thread is
    interrupted,  \* the interrupt flag of each thread
    proc,         \* each thread's process
    signalled,    \* the threads whose process has been told to end
    faults        \* failed starts and crashes so far

guardVars == <<shouldRun, monitor, current>>
mainVars == <<hasPid, service, held>>
threadVars == <<owner, pc, interrupted>>
procVars == <<proc, signalled, faults>>
vars == <<mainVars, guardVars, threadVars, procVars>>

Services == 1..MaxServices
Nobody == [m |-> None, p |-> None]

Init ==
    /\ hasPid \in BOOLEAN
    /\ service = [s \in Services |-> "new"]
    /\ shouldRun = [s \in Services |-> FALSE]
    /\ monitor = [s \in Services |-> None]
    /\ current = [s \in Services |-> None]
    /\ held = Nobody
    /\ owner = [t \in Threads |-> None]
    /\ pc = [t \in Threads |-> "none"]
    /\ interrupted = [t \in Threads |-> FALSE]
    /\ proc = [t \in Threads |-> "none"]
    /\ signalled = {}
    /\ faults = 0

Alive(t) == pc[t] \notin {"none", "dead"}
Live(t) == proc[t] \in {"starting", "serving"}
-----------------------------------------------------------------------------
\* The main thread: onCreate, when the previous instance is through onDestroy.
Create(s) ==
    /\ service[s] = "new"
    /\ \A r \in 1..(s - 1) : service[r] = "gone"
    /\ service' = [service EXCEPT ![s] = "live"]
    /\ UNCHANGED <<hasPid, held, guardVars, threadVars, procVars>>

Begin(s, t) ==
    /\ pc[t] = "none"
    /\ shouldRun' = [shouldRun EXCEPT ![s] = TRUE]
    /\ monitor' = [monitor EXCEPT ![s] = t]
    /\ owner' = [owner EXCEPT ![t] = s]
    /\ pc' = [pc EXCEPT ![t] = "loop"]

\* Faulty: begins whether or not there is a monitor.
StartCommandUnchecked(s, t) ==
    /\ service[s] = "live"
    /\ Begin(s, t)
    /\ UNCHANGED <<mainVars, current, interrupted, procVars>>

\* onStartCommand: tryBegin does nothing while the monitor is alive.
StartCommand(s, t) ==
    /\ service[s] = "live"
    /\ IF monitor[s] # None /\ Alive(monitor[s])
       THEN UNCHANGED <<shouldRun, monitor, owner, pc>>
       ELSE Begin(s, t)
    /\ UNCHANGED <<mainVars, current, interrupted, procVars>>

\* Faulty: leaves shouldRun as it is.
BeginStopRunning(s) ==
    /\ service[s] = "live"
    /\ service' = [service EXCEPT ![s] = "interrupt"]
    /\ held' = [m |-> monitor[s], p |-> current[s]]
    /\ UNCHANGED <<hasPid, guardVars, threadVars, procVars>>

\* onDestroy: stop notes under the lock that it is over, and what there is to
\* end, ...
BeginStop(s) ==
    /\ service[s] = "live"
    /\ service' = [service EXCEPT ![s] = "interrupt"]
    /\ shouldRun' = [shouldRun EXCEPT ![s] = FALSE]
    /\ held' = [m |-> monitor[s], p |-> current[s]]
    /\ UNCHANGED <<hasPid, monitor, current, threadVars, procVars>>

\* ... then interrupts the monitor ...
InterruptMonitor(s) ==
    /\ service[s] = "interrupt"
    /\ service' = [service EXCEPT ![s] = "destroy"]
    /\ interrupted' = [t \in Threads |-> interrupted[t] \/ (t = held.m /\ Alive(t))]
    /\ UNCHANGED <<hasPid, held, guardVars, owner, pc, procVars>>

\* ... and destroys the process.
DestroyProcess(s) ==
    /\ service[s] = "destroy"
    /\ service' = [service EXCEPT ![s] = "gone"]
    /\ signalled' = signalled \cup ({held.p} \ {None})
    /\ held' = Nobody
    /\ UNCHANGED <<hasPid, guardVars, threadVars, proc, faults>>

Main ==
    \E s \in Services :
        \/ Create(s) \/ (\E t \in Threads : StartCommand(s, t))
        \/ BeginStop(s) \/ InterruptMonitor(s) \/ DestroyProcess(s)
-----------------------------------------------------------------------------
\* The monitor thread: monitorLoop.

Goto(t, label) == pc' = [pc EXCEPT ![t] = label]

\* The condition of the loop
Loop(t) ==
    /\ pc[t] = "loop"
    /\ Goto(t, IF shouldRun[owner[t]] THEN "start" ELSE "dead")
    /\ UNCHANGED <<mainVars, guardVars, owner, interrupted, procVars>>

\* pb.start()
Launch(t) ==
    /\ pc[t] = "start"
    /\ proc' = [proc EXCEPT ![t] = "starting"]
    /\ signalled' = signalled \ {t}
    /\ Goto(t, "register")
    /\ UNCHANGED <<mainVars, guardVars, owner, interrupted, faults>>

\* pb.start() throws an IOException.
LaunchFails(t) ==
    /\ pc[t] = "start"
    /\ faults < MaxFaults
    /\ faults' = faults + 1
    /\ Goto(t, "rest")
    /\ UNCHANGED <<mainVars, guardVars, owner, interrupted, proc, signalled>>

\* Faulty: registers whatever has happened.
RegisterAlways(t) ==
    /\ pc[t] = "register"
    /\ current' = [current EXCEPT ![owner[t]] = t]
    /\ Goto(t, "log")
    /\ UNCHANGED <<mainVars, shouldRun, monitor, owner, interrupted, procVars>>

\* register refuses the process once stop has begun.
Register(t) ==
    /\ pc[t] = "register"
    /\ IF shouldRun[owner[t]]
       THEN current' = [current EXCEPT ![owner[t]] = t] /\ Goto(t, "log")
       ELSE UNCHANGED current /\ Goto(t, "refused")
    /\ UNCHANGED <<mainVars, shouldRun, monitor, owner, interrupted, procVars>>

\* The log line with p.pid().  Where there is no such method the thread ends
\* outside the try and finally that would unregister the process, which runs on.
LogPid(t) ==
    /\ pc[t] = "log"
    /\ Goto(t, IF hasPid THEN "read" ELSE "dead")
    /\ UNCHANGED <<mainVars, guardVars, owner, interrupted, procVars>>

\* Faulty: leaves the loop, and the process alone.
RefusedLeaves(t) ==
    /\ pc[t] = "refused"
    /\ Goto(t, "dead")
    /\ UNCHANGED <<mainVars, guardVars, owner, interrupted, procVars>>

\* p.destroy(); break
Refused(t) ==
    /\ pc[t] = "refused"
    /\ signalled' = signalled \cup {t}
    /\ Goto(t, "dead")
    /\ UNCHANGED <<mainVars, guardVars, owner, interrupted, proc, faults>>

\* Faulty: any trouble with the output is taken for the end of the process.
ReadGivesUp(t) ==
    /\ pc[t] = "read"
    /\ Goto(t, "unregister")
    /\ UNCHANGED <<mainVars, guardVars, owner, interrupted, procVars>>

\* Reading the output ends with the process, or, since destroy closes the
\* stream, with an IOException.  An interrupt does not end it.
Read(t) ==
    /\ pc[t] = "read"
    /\ \/ proc[t] = "dead" /\ Goto(t, "wait")
       \/ t \in signalled /\ Goto(t, "unregister")
    /\ UNCHANGED <<mainVars, guardVars, owner, interrupted, procVars>>

\* p.waitFor() returns the exit code, or finds the thread interrupted.
WaitFor(t) ==
    /\ pc[t] = "wait"
    /\ \/ Goto(t, "unregister") /\ UNCHANGED interrupted
       \/ /\ interrupted[t]
          /\ interrupted' = [interrupted EXCEPT ![t] = FALSE]
          /\ Goto(t, "leave")
    /\ UNCHANGED <<mainVars, guardVars, owner, procVars>>

\* The finally block; after an InterruptedException the loop is left.
Unregister(t) ==
    /\ pc[t] \in {"unregister", "leave"}
    /\ current' = [current EXCEPT ![owner[t]] = IF @ = t THEN None ELSE @]
    /\ Goto(t, IF pc[t] = "leave" THEN "dead" ELSE "rest")
    /\ UNCHANGED <<mainVars, shouldRun, monitor, owner, interrupted, procVars>>

\* Faulty: gives up after a failure.
RestOnce(t) ==
    /\ pc[t] = "rest"
    /\ Goto(t, IF shouldRun[owner[t]] /\ faults = 0 THEN "sleep" ELSE "dead")
    /\ UNCHANGED <<mainVars, guardVars, owner, interrupted, procVars>>

\* The second look at shouldRun
Rest(t) ==
    /\ pc[t] = "rest"
    /\ Goto(t, IF shouldRun[owner[t]] THEN "sleep" ELSE "loop")
    /\ UNCHANGED <<mainVars, guardVars, owner, interrupted, procVars>>

\* Thread.sleep(5000) passes, or finds the thread interrupted.
Sleep(t) ==
    /\ pc[t] = "sleep"
    /\ Goto(t, IF interrupted[t] THEN "dead" ELSE "loop")
    /\ interrupted' = [interrupted EXCEPT ![t] = FALSE]
    /\ UNCHANGED <<mainVars, guardVars, owner, procVars>>

Monitor(t) ==
    \/ Loop(t) \/ Launch(t) \/ LaunchFails(t) \/ Register(t) \/ LogPid(t) \/ Refused(t)
    \/ Read(t) \/ WaitFor(t) \/ Unregister(t) \/ Rest(t) \/ Sleep(t)
-----------------------------------------------------------------------------
\* External: the Go process (see Lifecycle.tla), which exits if it does not get
\* its port, ...
Listen(t) ==
    /\ proc[t] = "starting"
    /\ proc' = [proc EXCEPT ![t] =
                   IF \E u \in Threads : proc[u] = "serving" THEN "dead" ELSE "serving"]
    /\ UNCHANGED <<mainVars, guardVars, threadVars, signalled, faults>>

\* ... ends some time after it has been told to, ...
Exit(t) ==
    /\ Live(t) /\ t \in signalled
    /\ proc' = [proc EXCEPT ![t] = "dead"]
    /\ UNCHANGED <<mainVars, guardVars, threadVars, signalled, faults>>

\* ... and may crash.
Crash(t) ==
    /\ Live(t)
    /\ faults < MaxFaults
    /\ proc' = [proc EXCEPT ![t] = "dead"]
    /\ faults' = faults + 1
    /\ UNCHANGED <<mainVars, guardVars, threadVars, signalled>>

Process(t) == Listen(t) \/ Exit(t)

Next == Main \/ \E t \in Threads : Monitor(t) \/ Process(t) \/ Crash(t)

Spec == Init /\ [][Next]_vars

\* Threads run, a process that is told to end does, and onDestroy, once called,
\* goes on.  Nobody has to start or to stop the service.
FairSpec ==
    /\ Spec
    /\ \A t \in Threads : WF_vars(Monitor(t)) /\ WF_vars(Listen(t)) /\ WF_vars(Exit(t))
    /\ \A s \in Services : WF_vars(InterruptMonitor(s) \/ DestroyProcess(s))
-----------------------------------------------------------------------------
MaybeThread == Threads \cup {None}

TypeOK ==
    /\ hasPid \in BOOLEAN
    /\ service \in [Services -> {"new", "live", "interrupt", "destroy", "gone"}]
    /\ shouldRun \in [Services -> BOOLEAN]
    /\ monitor \in [Services -> MaybeThread]
    /\ current \in [Services -> MaybeThread]
    /\ held \in [m : MaybeThread, p : MaybeThread]
    /\ owner \in [Threads -> Services \cup {None}]
    /\ pc \in [Threads -> {"none", "loop", "start", "register", "log", "refused", "read",
                           "wait", "unregister", "leave", "rest", "sleep", "dead"}]
    /\ interrupted \in [Threads -> BOOLEAN]
    /\ proc \in [Threads -> {"none", "starting", "serving", "dead"}]
    /\ signalled \in SUBSET Threads
    /\ faults \in 0..MaxFaults
    /\ \A t \in Threads : pc[t] # "none" => owner[t] # None
    /\ \A s \in Services : shouldRun[s] => service[s] = "live"

\* An instance has at most one monitor alive, however often it is started, also
\* when the call of pid() ends each one and the next start replaces it (tryBegin).
OneMonitor ==
    \A t, u \in Threads :
        Alive(t) /\ Alive(u) /\ owner[t] = owner[u] => t = u

\* Without Process.pid() a start replaces a monitor whose process may still run,
\* and the guard knows only the latest process.
Forgotten(t) == ~hasPid /\ monitor[owner[t]] # t

\* Once onDestroy is through, no process of the instance is left that nobody
\* ends: each has been told to, or its monitor is about to do so (register).  This
\* holds of a process whose monitor has died of pid() as well, until a start
\* replaces that monitor.
NoEscape ==
    \A t \in Threads :
        Live(t) /\ service[owner[t]] = "gone" =>
            t \in signalled \/ pc[t] \in {"register", "refused"} \/ Forgotten(t)

\* On API 33 and later an instance starts a process only when its previous one has
\* ended: neither a second start, nor a stop that ends the reading of the output
\* before the process, makes it two (monitorLoop).
StartsAlone ==
    [][\A t, u \in Threads :
           Launch(t) /\ owner[u] = owner[t] => ~Live(u) \/ ~hasPid]_vars

\* What belongs to a destroyed instance comes to an end (stop, monitorLoop), but
\* for forgotten processes.
StopEnds ==
    \A t \in Threads :
        owner[t] # None /\ service[owner[t]] = "gone"
            ~> ~Alive(t) /\ (~Live(t) \/ Forgotten(t))

\* On API 33 and later, an instance that is started and not destroyed ends up with
\* its process serving, whatever crashes, fails to start, or still holds the port
\* (monitorLoop's restarts).
StaysUp ==
    \A s \in Services :
        <>[](hasPid /\ service[s] = "live" /\ monitor[s] # None)
            => <>[](current[s] # None /\ proc[current[s]] = "serving")
=============================================================================
