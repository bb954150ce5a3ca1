----------------------------- MODULE Lifecycle ------------------------------
(***************************************************************************)
(* The application's life (internal/manager/manager.go, web.go, cmd/       *)
(* syncmedia/main.go): Start, Stop and Restart, and the generations of     *)
(* services they start and stop.                                           *)
(*                                                                         *)
(* Generation 0 is main's Start; every Restart begins the next one in a    *)
(* goroutine.  Stop is called by a Restart and by every Start whose        *)
(* context has been cancelled, all of them on the same Manager.  A step is *)
(* one critical section of Manager.mu or one call of a service.            *)
(*                                                                         *)
(* Of the settings it only matters how recent they are.  All generations   *)
(* use the same two ports, whatever the settings say: they cannot change   *)
(* them.                                                                   *)
(***************************************************************************)
EXTENDS Naturals

CONSTANTS MaxRestarts,  \* bound: requests to restart
          Signals,      \* bound: how many such requests a life may have seen
                        \* that SIGINT or SIGTERM ends
          None

ASSUME LifecycleAssumption ==
    MaxRestarts \in Nat /\ Signals \subseteq 0..MaxRestarts /\ None \notin Nat

VARIABLES
    srv,     \* Manager.srv, a generation
    tun,     \* Manager.tunnelMgr
    web,     \* Manager.webSrv
    cancel,  \* Manager.cancel: the generation whose context it cancels
    ctx,     \* each generation's context
    server,  \* each generation's syncplay server
    tunnel,  \* each generation's tunnel manager
    site,    \* each generation's web server
    gpc,     \* where each generation's Start is
    gen,     \* the latest generation
    asked,   \* requests to restart so far: each is a goroutine in Restart
    cfg,     \* Manager.cfg: the request that last changed the settings
    conf,    \* each Start's copy of it
    rpc,     \* where the Restart that holds restartMu is
    spc,     \* where each goroutine is in Stop
    held     \* the services each goroutine in Stop is stopping

mgrVars == <<srv, tun, web>>
serviceVars == <<server, tunnel, site>>
confVars == <<cfg, conf>>
vars == <<mgrVars, cancel, ctx, serviceVars, gpc, gen, asked, confVars, rpc, spc, held>>

Gens == 0..MaxRestarts
\* Who calls Stop: each generation's Start, and the Restart that holds restartMu.
Restarter == MaxRestarts + 1
Procs == Gens \cup {Restarter}
Nothing == [tun |-> None, srv |-> None, web |-> None]

Init ==
    /\ srv = None /\ tun = None /\ web = None /\ cancel = None
    /\ ctx = [g \in Gens |-> IF g = 0 THEN "live" ELSE "none"]
    /\ server = [g \in Gens |-> "none"]
    /\ tunnel = [g \in Gens |-> "none"]
    /\ site = [g \in Gens |-> "none"]
    /\ gpc = [g \in Gens |-> IF g = 0 THEN "config" ELSE "none"]
    /\ gen = 0
    /\ asked = 0
    /\ cfg = 0
    /\ conf = [g \in Gens |-> 0]
    /\ rpc = "idle"
    /\ spc = [p \in Procs |-> "none"]
    /\ held = [p \in Procs |-> Nothing]

\* main has returned, and the process with it.
Exited == gpc[0] = "returned"

InUse(service) == \E g \in Gens : service[g] = "open"
-----------------------------------------------------------------------------
\* Start, up to the point where it waits for its context.

\* Faulty: takes the settings that the Manager was made with.
ReadConfigFirst(g) ==
    /\ gpc[g] = "config"
    /\ conf' = [conf EXCEPT ![g] = 0]
    /\ gpc' = [gpc EXCEPT ![g] = "listen"]
    /\ UNCHANGED <<mgrVars, cancel, ctx, serviceVars, gen, asked, cfg, rpc, spc, held>>

\* A copy of the settings, for the whole life of the generation
ReadConfig(g) ==
    /\ gpc[g] = "config"
    /\ conf' = [conf EXCEPT ![g] = cfg]
    /\ gpc' = [gpc EXCEPT ![g] = "listen"]
    /\ UNCHANGED <<mgrVars, cancel, ctx, serviceVars, gen, asked, cfg, rpc, spc, held>>

\* srv.Listen, which fails while another server has the port
Listen(g) ==
    /\ gpc[g] = "listen"
    /\ IF InUse(server)
       THEN gpc' = [gpc EXCEPT ![g] = "returned"] /\ UNCHANGED server
       ELSE /\ gpc' = [gpc EXCEPT ![g] = "publish"]
            /\ server' = [server EXCEPT ![g] = "open"]
    /\ UNCHANGED <<mgrVars, cancel, ctx, tunnel, site, gen, asked, confVars, rpc, spc, held>>

PublishServer(g) ==
    /\ gpc[g] = "publish"
    /\ srv' = g
    /\ gpc' = [gpc EXCEPT ![g] = "probe"]
    /\ UNCHANGED <<tun, web, cancel, ctx, serviceVars, gen, asked, confVars, rpc, spc, held>>

\* Faulty: waits for the port without a deadline.
ProbeForever(g) ==
    /\ gpc[g] = "probe"
    /\ InUse(server)
    /\ gpc' = [gpc EXCEPT ![g] = "tunnel"]
    /\ UNCHANGED <<mgrVars, cancel, ctx, serviceVars, gen, asked, confVars, rpc, spc, held>>

\* waitForPort is content with any server at the port, and gives up without.
Probe(g) ==
    /\ gpc[g] = "probe"
    /\ gpc' = [gpc EXCEPT ![g] = IF InUse(server) THEN "tunnel" ELSE "returned"]
    /\ UNCHANGED <<mgrVars, cancel, ctx, serviceVars, gen, asked, confVars, rpc, spc, held>>

\* tunnelMgr.Start: the tunnel becomes ready within its 30 seconds, or it is
\* stopped again (also when there is none to start) and Start goes on without.
StartTunnel(g) ==
    /\ gpc[g] = "tunnel"
    /\ \/ /\ tunnel' = [tunnel EXCEPT ![g] = "open"]
          /\ gpc' = [gpc EXCEPT ![g] = "activate"]
       \/ /\ gpc' = [gpc EXCEPT ![g] = "web"]
          /\ UNCHANGED tunnel
    /\ UNCHANGED <<mgrVars, cancel, ctx, server, site, gen, asked, confVars, rpc, spc, held>>

PublishTunnel(g) ==
    /\ gpc[g] = "activate"
    /\ tun' = g
    /\ gpc' = [gpc EXCEPT ![g] = "web"]
    /\ UNCHANGED <<srv, web, cancel, ctx, serviceVars, gen, asked, confVars, rpc, spc, held>>

\* The web server is published, and started in a goroutine of its own, ...
PublishWeb(g) ==
    /\ gpc[g] = "web"
    /\ web' = g
    /\ site' = [site EXCEPT ![g] = "starting"]
    /\ gpc' = [gpc EXCEPT ![g] = "block"]
    /\ UNCHANGED <<srv, tun, cancel, ctx, server, tunnel, gen, asked, confVars, rpc, spc, held>>

\* ... where it fails if its port is taken.
ServeWeb(g) ==
    /\ site[g] = "starting"
    /\ site' = [site EXCEPT ![g] = IF InUse(site) THEN "closed" ELSE "open"]
    /\ UNCHANGED <<mgrVars, cancel, ctx, server, tunnel, gpc, gen, asked, confVars, rpc, spc, held>>

\* <-ctx.Done(), then Stop
Wake(g) ==
    /\ gpc[g] = "block"
    /\ ctx[g] = "cancelled"
    /\ gpc' = [gpc EXCEPT ![g] = "stop"]
    /\ spc' = [spc EXCEPT ![g] = "begin"]
    /\ UNCHANGED <<mgrVars, cancel, ctx, serviceVars, gen, asked, confVars, rpc, held>>

\* Faulty: does not wait for Stop.
StartReturnsEarly(g) ==
    /\ gpc[g] = "stop"
    /\ gpc' = [gpc EXCEPT ![g] = "returned"]
    /\ UNCHANGED <<mgrVars, cancel, ctx, serviceVars, gen, asked, confVars, rpc, spc, held>>

StartReturns(g) ==
    /\ gpc[g] = "stop" /\ spc[g] = "done"
    /\ gpc' = [gpc EXCEPT ![g] = "returned"]
    /\ UNCHANGED <<mgrVars, cancel, ctx, serviceVars, gen, asked, confVars, rpc, spc, held>>

Starting(g) ==
    /\ ~Exited
    /\ \/ ReadConfig(g) \/ Listen(g) \/ PublishServer(g) \/ Probe(g) \/ StartTunnel(g)
       \/ PublishTunnel(g) \/ PublishWeb(g) \/ Wake(g) \/ StartReturns(g)
-----------------------------------------------------------------------------
\* Faulty: the function that ends the generation is dropped, not called.
BeginStopForgetful(p) ==
    /\ spc[p] = "begin"
    /\ cancel' = None
    /\ held' = [held EXCEPT ![p] = [tun |-> tun, srv |-> srv, web |-> web]]
    /\ spc' = [spc EXCEPT ![p] = "tunnel"]
    /\ UNCHANGED <<mgrVars, ctx, serviceVars, gpc, gen, asked, confVars, rpc>>

\* Stop: cancel, and a copy of what there is to stop, ...
BeginStop(p) ==
    /\ spc[p] = "begin"
    /\ ctx' = IF cancel = None THEN ctx ELSE [ctx EXCEPT ![cancel] = "cancelled"]
    /\ cancel' = None
    /\ held' = [held EXCEPT ![p] = [tun |-> tun, srv |-> srv, web |-> web]]
    /\ spc' = [spc EXCEPT ![p] = "tunnel"]
    /\ UNCHANGED <<mgrVars, serviceVars, gpc, gen, asked, confVars, rpc>>

Closed(service, g) == IF g = None THEN service ELSE [service EXCEPT ![g] = "closed"]

\* ... which is then stopped, one after the other and without the lock.
StopTunnel(p) ==
    /\ spc[p] = "tunnel"
    /\ tunnel' = Closed(tunnel, held[p].tun)
    /\ spc' = [spc EXCEPT ![p] = "server"]
    /\ UNCHANGED <<mgrVars, cancel, ctx, server, site, gpc, gen, asked, confVars, rpc, held>>

\* srv.Close: bounded, and shuts the listener (see Serve.tla).
StopServer(p) ==
    /\ spc[p] = "server"
    /\ server' = Closed(server, held[p].srv)
    /\ spc' = [spc EXCEPT ![p] = "web"]
    /\ UNCHANGED <<mgrVars, cancel, ctx, tunnel, site, gpc, gen, asked, confVars, rpc, held>>

StopWeb(p) ==
    /\ spc[p] = "web"
    /\ site' = Closed(site, held[p].web)
    /\ spc' = [spc EXCEPT ![p] = "done"]
    /\ held' = [held EXCEPT ![p] = Nothing]
    /\ UNCHANGED <<mgrVars, cancel, ctx, server, tunnel, gpc, gen, asked, confVars, rpc>>

Stop(p) == ~Exited /\ (BeginStop(p) \/ StopTunnel(p) \/ StopServer(p) \/ StopWeb(p))
-----------------------------------------------------------------------------
\* Faulty: forgets the services first, and has nothing left to stop.
StartRestartCleared ==
    /\ rpc = "idle" /\ gen < asked
    /\ rpc' = "stop"
    /\ srv' = None /\ tun' = None /\ web' = None
    /\ spc' = [spc EXCEPT ![Restarter] = "begin"]
    /\ UNCHANGED <<cancel, ctx, serviceVars, gpc, gen, asked, confVars, held>>

\* Restart: restartMu, and Stop, ...
StartRestart ==
    /\ rpc = "idle" /\ gen < asked
    /\ rpc' = "stop"
    /\ spc' = [spc EXCEPT ![Restarter] = "begin"]
    /\ UNCHANGED <<mgrVars, cancel, ctx, serviceVars, gpc, gen, asked, confVars, held>>

\* ... then the manager forgets the services, ...
Reset ==
    /\ rpc = "stop" /\ spc[Restarter] = "done"
    /\ srv' = None /\ tun' = None /\ web' = None
    /\ rpc' = "arm"
    /\ spc' = [spc EXCEPT ![Restarter] = "none"]
    /\ UNCHANGED <<cancel, ctx, serviceVars, gpc, gen, asked, confVars, held>>

\* ... and the next generation starts, with a context of its own.
Arm ==
    /\ rpc = "arm"
    /\ gen' = gen + 1
    /\ cancel' = gen'
    /\ ctx' = [ctx EXCEPT ![gen'] = "live"]
    /\ gpc' = [gpc EXCEPT ![gen'] = "config"]
    /\ rpc' = "idle"
    /\ UNCHANGED <<mgrVars, serviceVars, asked, confVars, spc, held>>

Restart == ~Exited /\ (StartRestart \/ Reset \/ Arm)

\* A request to a web server: handleRestart, or UpdateSettings, which changes
\* the settings first
Request ==
    /\ ~Exited
    /\ asked < MaxRestarts
    /\ ctx[0] = "cancelled" => asked + 1 \in Signals
    /\ InUse(site)
    /\ asked' = asked + 1
    /\ cfg' \in {cfg, asked'}
    /\ UNCHANGED <<mgrVars, cancel, ctx, serviceVars, gpc, gen, conf, rpc, spc, held>>

\* SIGINT or SIGTERM cancels main's context.
Signal ==
    /\ ~Exited
    /\ asked \in Signals /\ ctx[0] = "live"
    /\ ctx' = [ctx EXCEPT ![0] = "cancelled"]
    /\ UNCHANGED <<mgrVars, cancel, serviceVars, gpc, gen, asked, confVars, rpc, spc, held>>

\* Nothing more happens after the process has ended; main waits for a signal
\* for ever if none comes.
Idle ==
    /\ Exited \/ (gpc[0] = "block" /\ asked \notin Signals)
    /\ UNCHANGED vars

Next ==
    \/ \E g \in Gens : Starting(g) \/ (~Exited /\ ServeWeb(g))
    \/ \E p \in Procs : Stop(p)
    \/ Restart \/ Request \/ Signal \/ Idle

Spec == Init /\ [][Next]_vars

\* Every goroutine goes on: a tunnel start ends within 30 seconds, Close is
\* bounded.  No request and no signal has to come.
FairSpec ==
    /\ Spec
    /\ \A g \in Gens : WF_vars(Starting(g)) /\ WF_vars(~Exited /\ ServeWeb(g))
    /\ \A p \in Procs : WF_vars(Stop(p))
    /\ WF_vars(Restart)
-----------------------------------------------------------------------------
MaybeGen == Gens \cup {None}
Service == {"none", "starting", "open", "closed"}

TypeOK ==
    /\ srv \in MaybeGen /\ tun \in MaybeGen /\ web \in MaybeGen /\ cancel \in MaybeGen
    /\ ctx \in [Gens -> {"none", "live", "cancelled"}]
    /\ server \in [Gens -> Service]
    /\ tunnel \in [Gens -> Service]
    /\ site \in [Gens -> Service]
    /\ cfg \in Gens
    /\ conf \in [Gens -> Gens]
    /\ gpc \in [Gens -> {"none", "config", "listen", "publish", "probe", "tunnel", "activate", "web",
                         "block", "stop", "returned"}]
    /\ gen \in Gens
    /\ asked \in Gens
    /\ rpc \in {"idle", "stop", "arm"}
    /\ spc \in [Procs -> {"none", "begin", "tunnel", "server", "web", "done"}]
    /\ held \in [Procs -> [tun : MaybeGen, srv : MaybeGen, web : MaybeGen]]
    /\ rpc # "idle" => gen < asked
    /\ \A g \in Gens : spc[g] \notin {"none", "done"} => gpc[g] = "stop"

\* No generation escapes: whichever Stops and Restarts overlap, a generation
\* that nobody has cancelled is the one that Manager.cancel ends.
OneCancellable == \A g \in Gens \ {0} : ctx[g] = "live" => cancel = g

\* A service of a generation that is up can be found by the next Stop, or is
\* about to be published, or is being stopped.  A second request while the
\* first restart is under way breaks this.
Reachable(g) ==
    /\ server[g] = "open" =>
          \/ srv = g \/ gpc[g] = "publish"
          \/ \E p \in Procs : held[p].srv = g /\ spc[p] \in {"tunnel", "server"}
    /\ tunnel[g] = "open" =>
          \/ tun = g \/ gpc[g] = "activate"
          \/ \E p \in Procs : held[p].tun = g /\ spc[p] = "tunnel"
    /\ site[g] \in {"starting", "open"} =>
          web = g \/ \E p \in Procs : held[p].web = g /\ spc[p] # "done"
NoOrphans == asked <= 1 => \A g \in Gens : Reachable(g)

\* When every request has had its restart, the last generation runs with the
\* settings as they are now: no save is overtaken by an older one, and none is
\* left to the next restart (UpdateSettings, Restart and Start).
NewestSettings == gen = asked /\ gpc[gen] # "config" => conf[gen] = cfg

\* A cancelled generation winds up, also when others are starting.
GenerationsEnd == \A g \in Gens : ctx[g] = "cancelled" ~> gpc[g] = "returned" \/ Exited

Serving(g) == server[g] = "open" /\ site[g] = "open" /\ srv = g /\ web = g

\* One restart takes effect: its generation ends up serving.
RestartWorks == <>[](asked = 1 /\ ctx[0] = "live") => <>[]Serving(1)

\* However many restarts were asked for, the latest generation ends up serving.
LastRestartWorks ==
    \A n \in 1..MaxRestarts : <>[](asked = n /\ ctx[0] = "live") => <>[]Serving(n)
=============================================================================
