-------------------------- MODULE LifecycleProofs --------------------------
(***************************************************************************)
(* Proofs about Lifecycle.tla, for every number of requests to restart.    *)
(*                                                                         *)
(* A generation gets its context in Arm, and that must find every earlier  *)
(* one cancelled: Restart's own Stop cancelled what Manager.cancel held    *)
(* when it began, and from then until Arm nobody else can make a           *)
(* generation, for restartMu.  This is what Cleared says.                  *)
(*                                                                         *)
(* That no service is orphaned by the first Restart rests on Orderly: the  *)
(* request for it finds generation 0 with everything published.            *)
(***************************************************************************)
EXTENDS Lifecycle, TLAPS

\* A Restart whose Stop has got past its first step finds no live generation.
Cleared ==
    (rpc = "arm" \/ (rpc = "stop" /\ spc[Restarter] # "begin"))
        => \A g \in Gens \ {0} : ctx[g] # "live"

\* A generation that has not been made has not started.
Unmade == \A g \in Gens : g > gen => gpc[g] = "none"

\* No generation without a request, and the latest one has the settings as they
\* are unless another is due.
Latest == gen <= asked /\ NewestSettings

IInv == TypeOK /\ OneCancellable /\ Cleared /\ Unmade /\ Latest
-----------------------------------------------------------------------------
LEMMA RestarterApart == Gens \subseteq Nat /\ Restarter \notin Gens /\ Restarter \in Procs /\ Gens \subseteq Procs
BY LifecycleAssumption DEF Gens, Restarter, Procs

LEMMA InitInv == Init => IInv
<1> SUFFICES ASSUME Init PROVE IInv
    OBVIOUS
<1>1. TypeOK
    BY LifecycleAssumption, RestarterApart
    DEF Init, TypeOK, Gens, Procs, MaybeGen, Service, Nothing
<1>2. OneCancellable /\ Cleared /\ Unmade
    BY RestarterApart DEF Init, OneCancellable, Cleared, Unmade
<1>3. Latest
    BY LifecycleAssumption DEF Init, Latest, NewestSettings, Gens
<1> QED
    BY <1>1, <1>2, <1>3 DEF IInv

LEMMA StartingInv == ASSUME IInv, NEW g \in Gens, Starting(g) PROVE IInv'
<1> USE LifecycleAssumption, RestarterApart DEF IInv, TypeOK, MaybeGen, Service, mgrVars, serviceVars, confVars
<1>1. CASE Listen(g)
    BY <1>1 DEF Listen, OneCancellable, Cleared, Unmade, Latest, NewestSettings
<1>2. CASE PublishServer(g)
    BY <1>2 DEF PublishServer, OneCancellable, Cleared, Unmade, Latest, NewestSettings
<1>3. CASE Probe(g)
    BY <1>3 DEF Probe, OneCancellable, Cleared, Unmade, Latest, NewestSettings
<1>4. CASE StartTunnel(g)
    BY <1>4 DEF StartTunnel, OneCancellable, Cleared, Unmade, Latest, NewestSettings
<1>5. CASE PublishTunnel(g)
    BY <1>5 DEF PublishTunnel, OneCancellable, Cleared, Unmade, Latest, NewestSettings
<1>6. CASE PublishWeb(g)
    BY <1>6 DEF PublishWeb, OneCancellable, Cleared, Unmade, Latest, NewestSettings
<1>7. CASE Wake(g)
    BY <1>7 DEF Wake, OneCancellable, Cleared, Unmade, Latest, NewestSettings
<1>8. CASE StartReturns(g)
    BY <1>8 DEF StartReturns, OneCancellable, Cleared, Unmade, Latest, NewestSettings
<1>9. CASE ReadConfig(g)
    BY <1>9 DEF ReadConfig, OneCancellable, Cleared, Unmade, Latest, NewestSettings
<1> QED
    BY <1>1, <1>2, <1>3, <1>4, <1>5, <1>6, <1>7, <1>8, <1>9 DEF Starting

LEMMA StopInv == ASSUME IInv, NEW p \in Procs, Stop(p) PROVE IInv'
<1> USE LifecycleAssumption, RestarterApart DEF IInv, TypeOK, MaybeGen, Service, mgrVars, serviceVars, confVars
<1>1. CASE BeginStop(p)
    BY <1>1 DEF BeginStop, OneCancellable, Cleared, Unmade, Latest, NewestSettings
<1>2. CASE StopTunnel(p)
    BY <1>2 DEF StopTunnel, Closed, OneCancellable, Cleared, Unmade, Latest, NewestSettings
<1>3. CASE StopServer(p)
    BY <1>3 DEF StopServer, Closed, OneCancellable, Cleared, Unmade, Latest, NewestSettings
<1>4. CASE StopWeb(p)
    BY <1>4 DEF StopWeb, Closed, Nothing, OneCancellable, Cleared, Unmade, Latest, NewestSettings
<1> QED
    BY <1>1, <1>2, <1>3, <1>4 DEF Stop

LEMMA RestartInv == ASSUME IInv, Restart PROVE IInv'
<1> USE LifecycleAssumption, RestarterApart DEF IInv, TypeOK, MaybeGen, Service, mgrVars, serviceVars, confVars
<1>1. CASE StartRestart
    BY <1>1 DEF StartRestart, OneCancellable, Cleared, Unmade, Latest, NewestSettings
<1>2. CASE Reset
    BY <1>2 DEF Reset, OneCancellable, Cleared, Unmade, Latest, NewestSettings
<1>3. CASE Arm
    <2>1. gen + 1 \in Gens \ {0}
        BY <1>3 DEF Arm, Gens
    <2>2. Latest'
        BY <1>3, <2>1 DEF Arm, Latest, NewestSettings, Gens
    <2>3. gpc[gen + 1] = "none" /\ spc[gen + 1] \in {"none", "done"}
        BY <2>1 DEF Unmade, Gens
    <2>4. TypeOK'
        BY <1>3, <2>1, <2>3 DEF Arm
    <2>5. OneCancellable' /\ Cleared'
        BY <1>3, <2>1 DEF Arm, OneCancellable, Cleared
    <2>6. Unmade'
        BY <1>3, <2>1 DEF Arm, Unmade, Gens
    <2> QED
        BY <2>2, <2>4, <2>5, <2>6
<1> QED
    BY <1>1, <1>2, <1>3 DEF Restart

LEMMA OtherInv ==
    ASSUME IInv, (\E g \in Gens : ServeWeb(g)) \/ Request \/ Signal \/ UNCHANGED vars
    PROVE  IInv'
<1> USE LifecycleAssumption, RestarterApart DEF IInv, TypeOK, MaybeGen, Service, mgrVars, serviceVars, confVars
<1>1. CASE \E g \in Gens : ServeWeb(g)
    BY <1>1 DEF ServeWeb, OneCancellable, Cleared, Unmade, Latest, NewestSettings
<1>2. CASE Request
    <2>1. asked' \in Gens /\ asked < asked' /\ cfg' \in Gens
        BY <1>2 DEF Request, Gens
    <2>2. gen < asked' /\ gen' = gen
        BY <1>2, <2>1 DEF Request, Latest, Gens
    <2>3. TypeOK'
        BY <1>2, <2>1, <2>2 DEF Request
    <2>4. Latest'
        BY <2>1, <2>2 DEF Latest, NewestSettings, Gens
    <2> QED
        BY <1>2, <2>3, <2>4 DEF Request, OneCancellable, Cleared, Unmade
<1>3. CASE Signal
    BY <1>3 DEF Signal, OneCancellable, Cleared, Unmade, Latest, NewestSettings, Gens
<1>4. CASE UNCHANGED vars
    BY <1>4 DEF vars, OneCancellable, Cleared, Unmade, Latest, NewestSettings
<1> QED
    BY <1>1, <1>2, <1>3, <1>4

LEMMA StepInv == IInv /\ [Next]_vars => IInv'
<1> SUFFICES ASSUME IInv, [Next]_vars PROVE IInv'
    OBVIOUS
<1>1. CASE \E g \in Gens : Starting(g)
    BY <1>1, StartingInv
<1>2. CASE \E p \in Procs : Stop(p)
    BY <1>2, StopInv
<1>3. CASE Restart
    BY <1>3, RestartInv
<1>4. CASE (\E g \in Gens : ServeWeb(g)) \/ Request \/ Signal \/ UNCHANGED vars
    BY <1>4, OtherInv
<1> QED
    BY <1>1, <1>2, <1>3, <1>4 DEF Next, Idle
-----------------------------------------------------------------------------
\* The inductive invariant holds throughout.
THEOREM Invariance == Spec => []IInv
BY InitInv, StepInv, PTL DEF Spec

\* Whatever the number of restarts, the manager's state is of the right shape.
THEOREM TypeCorrect == Spec => []TypeOK
<1>1. IInv => TypeOK
    BY DEF IInv
<1> QED
    BY <1>1, Invariance, PTL

\* Whatever the number of restarts, no generation gets out of reach: one that
\* has not been cancelled is the one that the next Stop cancels.
THEOREM EveryGenerationCancellable == Spec => []OneCancellable
<1>1. IInv => OneCancellable
    BY DEF IInv
<1> QED
    BY <1>1, Invariance, PTL

\* Whatever the number of saves and restarts, the generation of the last one
\* runs with the settings that were saved last.
THEOREM SettingsNewest == Spec => []NewestSettings
<1>1. IInv => NewestSettings
    BY DEF IInv, Latest
<1> QED
    BY <1>1, Invariance, PTL
-----------------------------------------------------------------------------
\* g has no service that is up.
Gone(g) == server[g] # "open" /\ tunnel[g] # "open" /\ site[g] \notin {"starting", "open"}

\* The services of g that are up are the manager's, or will be.
Known(g) ==
    /\ server[g] = "open" => srv = g \/ gpc[g] = "publish"
    /\ tunnel[g] = "open" => tun = g \/ gpc[g] = "activate"
    /\ site[g] \in {"starting", "open"} => web = g

\* The Start of g publishes nothing more.
Settled(g) == gpc[g] \in {"block", "stop", "returned"}

\* The Stop of a Restart has got hold of what the manager has, and what it has
\* passed is down.
Stopping ==
    /\ spc[Restarter] \in {"tunnel", "server", "web"} =>
          held[Restarter] = [tun |-> tun, srv |-> srv, web |-> web]
    /\ spc[Restarter] \in {"server", "web", "done"} => tunnel[gen] # "open"
    /\ spc[Restarter] \in {"web", "done"} => server[gen] # "open"
    /\ spc[Restarter] = "done" => site[gen] \notin {"starting", "open"}

\* With a single request, which a web server must be up to take, only the latest
\* generation has services, and no other Start is under way.
Orderly ==
    /\ \A g \in Gens \ {gen} : Gone(g)
    /\ rpc # "arm" => Known(gen)
    /\ rpc = "arm" => Gone(gen)
    /\ rpc = "stop" => Stopping
    /\ asked > 0 => Settled(0)
    /\ site[gen] \in {"starting", "open"} => Settled(gen)

OInv == IInv /\ (asked <= 1 => Orderly)

\* Under a single request the generations are 0 and 1, and a Restart is about 0.
LEMMA OneRequest ==
    ASSUME OInv, asked <= 1
    PROVE  /\ Orderly
           /\ gen \in Gens /\ gen \in {0, 1} /\ asked \in {0, 1}
           /\ 0 \in Gens /\ Restarter \in Procs
           /\ gen = 1 => asked = 1
           /\ rpc # "idle" => gen = 0 /\ asked = 1
           /\ \A g \in Gens \ {gen} : Settled(g) \/ gpc[g] = "none"
<1> USE LifecycleAssumption, RestarterApart
<1>1. Orderly /\ gen \in Gens /\ asked \in Gens /\ gen <= asked /\ (rpc # "idle" => gen < asked)
    BY DEF OInv, IInv, TypeOK, Latest
<1>2. gen \in {0, 1} /\ asked \in {0, 1}
    BY <1>1 DEF Gens
<1>3. ASSUME NEW g \in Gens \ {gen} PROVE Settled(g) \/ gpc[g] = "none"
    <2>1. CASE g > gen
        BY <2>1 DEF OInv, IInv, Unmade
    <2>2. CASE g = 0 /\ asked = 1
        BY <1>1, <2>2 DEF Orderly
    <2> QED
        BY <1>1, <1>2, <2>1, <2>2 DEF Gens
<1> QED
    BY <1>1, <1>2, <1>3 DEF Gens

LEMMA StartingOrderly ==
    ASSUME OInv, asked <= 1, NEW g \in Gens, Starting(g)
    PROVE  Orderly'
<1> USE OneRequest DEF OInv, IInv, TypeOK, Orderly, Gone, Known, Settled, Stopping,
        mgrVars, serviceVars, confVars
<1>1. CASE Listen(g)
    BY <1>1 DEF Listen
<1>2. CASE PublishServer(g)
    BY <1>2 DEF PublishServer
<1>3. CASE Probe(g)
    BY <1>3 DEF Probe
<1>4. CASE StartTunnel(g)
    BY <1>4 DEF StartTunnel
<1>5. CASE PublishTunnel(g)
    BY <1>5 DEF PublishTunnel
<1>6. CASE PublishWeb(g)
    BY <1>6 DEF PublishWeb
<1>7. CASE Wake(g)
    BY <1>7, RestarterApart DEF Wake
<1>8. CASE StartReturns(g)
    BY <1>8 DEF StartReturns
<1>9. CASE ReadConfig(g)
    BY <1>9 DEF ReadConfig
<1> QED
    BY <1>1, <1>2, <1>3, <1>4, <1>5, <1>6, <1>7, <1>8, <1>9 DEF Starting

LEMMA StopOrderly ==
    ASSUME OInv, asked <= 1, NEW p \in Procs, Stop(p)
    PROVE  Orderly'
<1> USE OneRequest DEF OInv, IInv, TypeOK, Orderly, Gone, Known, Settled, Stopping,
        MaybeGen, mgrVars, serviceVars, confVars
<1>1. CASE BeginStop(p)
    BY <1>1 DEF BeginStop
<1>2. CASE StopTunnel(p)
    <2>1. \A g \in Gens : tunnel'[g] \in {tunnel[g], "closed"}
        BY <1>2 DEF StopTunnel, Closed
    <2>2. rpc = "stop" /\ p = Restarter /\ tunnel[gen] = "open" => held[p].tun = gen
        BY <1>2 DEF StopTunnel
    <2>3. rpc = "stop" /\ p = Restarter => tunnel'[gen] # "open"
        <3>1. held[p].tun = gen => tunnel' = [tunnel EXCEPT ![gen] = "closed"]
            BY <1>2, RestarterApart, LifecycleAssumption DEF StopTunnel, Closed
        <3>2. held[p].tun = gen => tunnel'[gen] = "closed"
            BY <3>1
        <3> QED
            BY <2>1, <2>2, <3>2
    <2> QED
        BY <1>2, <2>1, <2>3 DEF StopTunnel
<1>3. CASE StopServer(p)
    <2>1. \A g \in Gens : server'[g] \in {server[g], "closed"}
        BY <1>3 DEF StopServer, Closed
    <2>2. rpc = "stop" /\ p = Restarter /\ server[gen] = "open" => held[p].srv = gen
        BY <1>3 DEF StopServer
    <2>3. rpc = "stop" /\ p = Restarter => server'[gen] # "open"
        <3>1. held[p].srv = gen => server' = [server EXCEPT ![gen] = "closed"]
            BY <1>3, RestarterApart, LifecycleAssumption DEF StopServer, Closed
        <3>2. held[p].srv = gen => server'[gen] = "closed"
            BY <3>1
        <3> QED
            BY <2>1, <2>2, <3>2
    <2> QED
        BY <1>3, <2>1, <2>3 DEF StopServer
<1>4. CASE StopWeb(p)
    <2>1. \A g \in Gens : site'[g] \in {site[g], "closed"}
        BY <1>4 DEF StopWeb, Closed
    <2>2. rpc = "stop" /\ p = Restarter /\ site[gen] \in {"starting", "open"} => held[p].web = gen
        BY <1>4 DEF StopWeb
    <2>3. rpc = "stop" /\ p = Restarter => site'[gen] \notin {"starting", "open"}
        <3>1. held[p].web = gen => site' = [site EXCEPT ![gen] = "closed"]
            BY <1>4, RestarterApart, LifecycleAssumption DEF StopWeb, Closed
        <3>2. held[p].web = gen => site'[gen] = "closed"
            BY <3>1
        <3> QED
            BY <2>1, <2>2, <3>2
    <2> QED
        BY <1>4, <2>1, <2>3 DEF StopWeb
<1> QED
    BY <1>1, <1>2, <1>3, <1>4 DEF Stop

LEMMA RestartOrderly ==
    ASSUME OInv, asked <= 1, Restart
    PROVE  Orderly'
<1> USE OneRequest DEF OInv, IInv, TypeOK, Orderly, Gone, Known, Settled, Stopping,
        mgrVars, serviceVars, confVars
<1>1. CASE StartRestart
    BY <1>1 DEF StartRestart
<1>2. CASE Reset
    BY <1>2 DEF Reset
<1>3. CASE Arm
    <2>1. gen + 1 \in Gens \ {0}
        BY <1>3 DEF Arm, Gens
    <2>2. gen' = gen + 1 /\ gen = 0 /\ asked = 1 /\ rpc' = "idle"
        BY <1>3 DEF Arm
    <2> QED
        BY <1>3, <2>1, <2>2 DEF Arm
<1> QED
    BY <1>1, <1>2, <1>3 DEF Restart

LEMMA OtherOrderly ==
    ASSUME OInv, asked <= 1, asked' <= 1,
           (\E g \in Gens : ServeWeb(g)) \/ Request \/ Signal \/ UNCHANGED vars
    PROVE  Orderly'
<1> USE OneRequest DEF OInv, IInv, TypeOK, Orderly, Gone, Known, Settled, Stopping,
        mgrVars, serviceVars, confVars
<1>1. CASE \E g \in Gens : ServeWeb(g)
    BY <1>1 DEF ServeWeb
<1>2. CASE Request
    <2>1. asked = 0 /\ gen = 0
        BY <1>2 DEF Request
    <2>2. PICK g \in Gens : site[g] = "open"
        BY <1>2 DEF Request, InUse
    <2>3. Settled(0)
        BY <2>1, <2>2
    <2> QED
        BY <1>2, <2>3 DEF Request
<1>3. CASE Signal
    BY <1>3 DEF Signal
<1>4. CASE UNCHANGED vars
    BY <1>4 DEF vars
<1> QED
    BY <1>1, <1>2, <1>3, <1>4

LEMMA OrderlyInit == Init => OInv
<1> SUFFICES ASSUME Init PROVE Orderly
    BY InitInv DEF OInv
<1> QED
    BY RestarterApart, LifecycleAssumption
    DEF Init, Gens, Orderly, Gone, Known, Settled, Stopping

LEMMA OrderlyNext == OInv /\ [Next]_vars => OInv'
<1> SUFFICES ASSUME OInv, [Next]_vars, asked' <= 1 PROVE Orderly'
    BY StepInv DEF OInv
<1>1. asked <= 1
    <2>1. asked \in Nat /\ asked' \in Nat
        BY StepInv, RestarterApart DEF OInv, IInv, TypeOK
    <2>2. asked' = asked \/ asked' = asked + 1
        <3>1. CASE \E g \in Gens : Starting(g)
            BY <3>1 DEF Starting, ReadConfig, Listen, PublishServer, Probe, StartTunnel,
                        PublishTunnel, PublishWeb, Wake, StartReturns
        <3>2. CASE \E p \in Procs : Stop(p)
            BY <3>2 DEF Stop, BeginStop, StopTunnel, StopServer, StopWeb
        <3>3. CASE Restart
            BY <3>3 DEF Restart, StartRestart, Reset, Arm
        <3>4. CASE (\E g \in Gens : ServeWeb(g)) \/ Request \/ Signal \/ UNCHANGED vars
            BY <3>4 DEF ServeWeb, Request, Signal, vars
        <3> QED
            BY <3>1, <3>2, <3>3, <3>4 DEF Next, Idle
    <2> QED
        BY <2>1, <2>2
<1>2. CASE \E g \in Gens : Starting(g)
    BY <1>1, <1>2, StartingOrderly
<1>3. CASE \E p \in Procs : Stop(p)
    BY <1>1, <1>3, StopOrderly
<1>4. CASE Restart
    BY <1>1, <1>4, RestartOrderly
<1>5. CASE (\E g \in Gens : ServeWeb(g)) \/ Request \/ Signal \/ UNCHANGED vars
    BY <1>1, <1>5, OtherOrderly
<1> QED
    BY <1>2, <1>3, <1>4, <1>5 DEF Next, Idle

\* Whatever the moment of the first request to restart, and of the signals that
\* fall together with it, no service that is up gets out of the Stop's reach.
THEOREM NothingOrphaned == Spec => []NoOrphans
<1>1. OInv => NoOrphans
    <2> SUFFICES ASSUME OInv, asked <= 1, NEW g \in Gens PROVE Reachable(g)
        BY DEF NoOrphans
    <2>1. CASE Gone(g)
        BY <2>1 DEF Gone, Reachable
    <2>2. CASE g = gen /\ Known(gen)
        BY <2>2 DEF Known, Reachable
    <2> QED
        BY <2>1, <2>2, OneRequest DEF Orderly
<1>2. Spec => []OInv
    BY OrderlyInit, OrderlyNext, PTL DEF Spec
<1> QED
    BY <1>1, <1>2, PTL
=============================================================================
