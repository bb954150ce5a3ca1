# Verification of syncmedia

syncmedia runs a [syncplay](https://syncplay.pl) server, makes it reachable
through a reverse tunnel (bore or frp) and offers a small web UI.  This directory
holds TLA+ models of its concurrent parts, TLC configurations that check them on
small instances, and TLAPS proofs for every instance.

## 1. Inventory

| Part | Source | State | Operations | What is hard | What must hold |
|---|---|---|---|---|---|
| Rooms, watchers, usernames | `internal/syncplay/room.go`, `server.go` | `RoomManager.names`, `rooms`; `Room.watchers`; `Watcher.room` | Hello, change of room, end of connection, timeout | four locks; moves are three critical sections; a connection's reader and ticker may both remove its watcher | distinct usernames, no lost or leaked reservation, both directions of membership agree, no ghost users, no empty rooms kept, nobody evicted |
| Play state | `state.go`, `room.go`, `server.go` | `Room.playState`, `position`, `setBy`; `Client.serverIgnoringOnTheFly`, `clientIgnoringOnTheFly` | State from a client, forced broadcast, periodic State | check-then-act across unlocks, counts and writes in different orders, acknowledgements | members converge, no client is ignored for ever |
| Accept and close | `server.go` | `closing`, `conns`, `wg`, listener | Serve, handleConnection, ticker, Close | connections arriving during Close, several closers | Close returns and leaves nothing behind |
| Roster messages | `server.go` | what each client was told | join, left, file, ready, chat, list | broadcasts of several readers interleave with moves | every client's list agrees with the room |
| Bore client | `internal/tunnel/bore_native.go` | `state`, `publicAddr`, `ctrlConn`, `closed`, `firstErr` | Start, connect, reconnect with backoff, WaitReady, Stop | Stop against connect, wake-ups of WaitReady, late dials | stopped is final, an address is only shown while ready, no connection leaks |
| frp client | `internal/tunnel/frp_native.go` | the same, and the library's status | run, monitor, WaitReady, Stop | monitor against Stop and the end of `svc.Run` | the same contract |
| Tunnel manager | `internal/tunnel/tunnel.go` | `active` | Start with fallback, Stop, PublicAddr | `mu` held while a tunnel gets ready | at most one tunnel runs; fallback in order |
| Dialer | `internal/tunnel/dialer.go` | - | DialContext | a dial ends after its context; a proxy need not answer | a late connection is closed |
| Lifecycle | `internal/manager/manager.go` | `srv`, `tunnelMgr`, `webSrv`, `cancel`, `lastRestartErr` | Start, Stop, Restart, UpdateSettings | generations of Start overlap | the last generation keeps running; nothing of an older one remains |
| Web UI | `internal/manager/web.go` | - | HTTP handlers | - | calls into the lifecycle |
| Configuration, CLI | `internal/config`, `cmd/syncmedia` | - | merge file, environment, flags | - | unit-tested, sequential |
| Android service | `android/src/SyncService.java` | `monitor`, `current`, `shouldRun` | tryBegin, register, unregister, stop | stop and start while a monitor winds down; `Process.pid()` is missing below API 33 | at most one monitor and one process, none after stop |
| TLS, certificates, packaging | `tls.go`, `scripts/`, `kernelsu/` | - | - | - | not modelled |

The parts interact as follows.  A client's connection is served by a **reader**
goroutine (`handleConnection`); after its Hello it also has a **ticker** goroutine
(`startStateLoop`).  Readers and tickers share the room manager and the rooms, and
either of them may run the connection's `cleanup()`.  A reader writes to *other*
clients' connections when it broadcasts.  The lifecycle manager starts the server and
a tunnel to its port; web handlers and signals call its Stop and Restart from
goroutines of their own.

## 2. Modules

| Module | Models | Abstract specification |
|---|---|---|
| `Names.tla` | usernames, truncation, `findFreeUsername`'s loop and what it must return | `IsFreeName` |
| `Registry.tla` | what username allocation promises | - |
| `Rooms.tla` | rooms, watchers, usernames | `Registry.tla`, by `RegistrySpec` |
| `Sync.tla` | the play state of one room | - |
| `Roster.tla` | the user lists that clients show | - |
| `Serve.tla` | the life of connections, and Close | - |
| `Tunnel.tla` | what both tunnel clients share: the published state, WaitReady, Stop | - |
| `BoreTunnel.tla`, `FrpTunnel.tla` | the two clients' own goroutines | - |
| `Tunnels.tla` | one configured client with its callers | `TunnelContract.tla`, by `ContractSpec` |
| `Lifecycle.tla` | Start, Stop and Restart of the whole application | - |
| `ProcessGuard.tla` | the Android service and its process | - |
| `RoomsProofs`, `MembersProofs`, `SyncProofs`, `RosterProofs`, `ServeProofs`, `TunnelsProofs`, `LifecycleProofs`, `GuardProofs` | theorems and proofs | |
| `MCRooms`, `MCSync`, `MCRoster`, `MCServe`, `MCTunnels`, `MCLifecycle`, `MCGuard` | values for TLC | |

### Rooms.tla

One step is one critical section of `RoomManager.mu` or `Room.mu`; what a goroutine
does between two of them is local.  `pc[c]` is the reader's place in
`handleConnection` and `moveWatcher`, `cpc[c]` is the place in `cleanup()` of
whichever goroutine runs it (`closeMu` admits one).  A connection logs in at most
once, so its watcher is named after it, and `members[o]` is the set of watchers in
the map of Room object `o`.  That map is keyed by username, so `Entered` removes a
watcher of the same name.  A Room object is a pair of its name and an identity: an
object that is dropped from `rooms` may live on in somebody's local variable.
`Copies` is large enough for a fresh object whenever one is created, because only
objects that nothing refers to are reused.

Coarser than the code, without loss: the nested `w.mu` section belongs to the
`r.mu` section around it; `isEmpty` and the deletion in `deleteRoomIfEmpty` are one
step (a watcher that joins in between commutes to before or after it: it holds
the Room object already and is lost from the map either way); the per-room scan in
`findFreeUsername` is one step; `conn.Close()` belongs to the last step of
`cleanup()`.

Two constants switch on what a calm network does not show.  With `LiveTimeouts` the
ticker may find the protocol timeout expired while the reader is at work:
`lastUpdatedOn` is set when a message is dispatched, and a broadcast writes to every
member in turn with a deadline of 10 s each, against a timeout of 12.5 s.  With
`LateMessages` the reader may find lines in its buffer after the connection has been
closed: a rejected Hello runs `cleanup()`, but the read loop goes on.

### Sync.tla

A reader handles one State at a time: acknowledgement and check under `stateMu`
(`HandleState`), the unlocked comparison in `updateState` (`Compare`), `setPaused`,
and `forcePositionUpdate`, which reads the pause flag (`StartForce`) and for each
member, in any order, counts (`CountForced`) and writes (`WriteForced`).  The ticker
reads the flag, checks `serverIgnoringOnTheFly` and writes, in three steps.  The
clients are external: they acknowledge every forced State and report whatever play
state they like.  A message with an acknowledgement and a play state acts like one of
each in that order, so reports and acknowledgements are separate messages.  The write of
a forced State may fail (`WriteFails`): the server only logs it, and the count has been
incremented.  `lost[c]` remembers which forced States were lost in this way; it only
serves to state the properties.  `MaxEvents` bounds reports and failed writes together.
The room's membership is fixed.

### Roster.tla

Each reader's handler of Hello, Set, List and of the end of its connection is split into
the critical sections in which it reads or changes a watcher or a room, and its single
writes; the loops visit watchers in any order, as Go's map iteration does.  A write to a
client is in order with all others to it (`writeMu`), so `view[c]`, what the client shows
of each user, changes with the write: nothing depends on how long the message travels.
How a client takes a `Set.user` (`Shown`) is external: a user who joins or is present is
shown in the room named, one who left is dropped, and a message without a file keeps the
file shown.  `room[c]` abstracts `Watcher.room` and `Room.watchers`, which `Rooms.tla` shows to
agree.  A message with several parts of a Set acts like one of each, in the code's order.

### Serve.tla

Server.mu sections, `wg` operations and closes are single steps; `defer`s run in
reverse order (`Unregister`, `CloseSock`, `Finish`).  What `cleanup()` does to rooms
is in `Rooms.tla` and left out here.  `AcceptError` may happen at any time, also for
a passing reason.

### Tunnel.tla, BoreTunnel.tla, FrpTunnel.tla, Tunnels.tla

`setupTunnels` creates one client, of the configured type; `Tunnels` starts with
either, and the places of the other are `off`.  `SetState` is `setStateLocked`:
`stateCh` is not a value but the set `woken` of the callers whose copy of it has been
closed.  A caller's context may end at any time.

bore's `rpc` is the place of `run` with everything it calls; `sock` says what each
connection is, `conn`, `ctrl` and `sconn` who refers to it.  A dial that outlives its
context becomes `late`, may turn out a connection (`stray`), and is closed by
`DialContext`'s goroutine.  With a proxy (`Proxied`) it may instead become `adrift`:
`dialOnce`'s timeout of 10 s covers the TCP connection only, and what is then written to
and read from the proxy (dialer.go:61, 100, 107) has no deadline.  The relay may refuse
or drop anything at any time; the handshake is one step that succeeds or fails.
Messages on the control connection other than its end touch none of this state.

frp's `RunReturns` looks at the published state whether or not `svc.Run` returned an
error; without one it only returns after `done`, when the branch that needs an error is
closed anyway.

frp's library service is external: it runs, reports any status (an address, or None
when the proxy is not running), and ends with an error or after `done`.  `monitor`
reads the status in one step and publishes it in a later one.  The time since
`notRunningSince` is abstracted to "an earlier tick found it so, and enough time may
have passed".

### Lifecycle.tla

Generation 0 is main's call of Start; each Restart makes the next one.  `gpc[g]` is the
place of generation g's Start, `spc[p]` the place in Stop of whoever calls it (a
Start whose context has ended, or the Restart that holds `restartMu`), and `held[p]` the
services that Stop copied under the lock.  `srv`, `tun`, `web` and `cancel` are the
Manager's fields, naming a generation.  The server, tunnel and web server of a
generation are only open or closed here: `Serve.tla` and `TunnelContract.tla` say what
their own Close and Stop promise, and that these return.  `asked` counts the goroutines
`go m.Restart()`; those beyond `gen` wait for `restartMu`.  The web server is enabled
(without it nobody can ask for a restart); a tunnel may be configured or not, and may
fail.  All generations use the same two ports, which settings cannot change.

Of the settings the model keeps how recent they are: `cfg` is the number of the request
that last changed `Manager.cfg`, and `conf[g]` the copy that generation g's Start took.  A
request either changes them (`UpdateSettings`) or does not (`handleRestart`).
Certificates, the proxy variables that Restart sets in the environment and
`lastRestartErr` are left out.

### ProcessGuard.tla

`service[s]` is where Android's main thread is with instance s of the service; each has a
`ProcessGuard` of its own (`shouldRun`, `monitor`, `current`).  `pc[t]` is the place of monitor
thread t in `monitorLoop` and `proc[t]` its process.  A step is a synchronized method or one
call that starts, waits for, interrupts or destroys something.  The process is external: it
exits at once when another process still serves, ends some time after `destroy()`, and may
crash.  `destroy()` closes the process's output, so reading it may fail while the process
still runs (`Read`).

`hasPid` says whether the platform has `Process.pid()`.  The APK's minimum is API 29, and
below API 33 the call throws a `NoSuchMethodError` (docs/TECHNICAL.md:245 lists this as a
known limitation).  `monitorLoop` makes it between `register` and the try whose finally
unregisters (SyncService.java:93), and catches no Error: the monitor thread ends with its
process running and registered (`LogPid`).  The next `tryBegin` finds a dead monitor and
replaces it; when the new one registers its process, the guard forgets the older
(`Forgotten`).  That Android by default ends an application whose thread dies in this way
is outside the sources, and left out.

`stop()` interrupts the thread outside the lock, so the flag may be set
anywhere in the loop; it is noticed only by `waitFor()` and `sleep()`.  That a thread finds its
binary missing is left out: `onStartCommand` returns before it touches the guard.

## 3. Runs

| Run | Instance | Shows |
|---|---|---|
| `rooms_all` | 2 connections, 1 room name, 2 usernames of which one is cut, live timeouts and late messages | types, `DistinctNames`, `ReservedNames`, `NoEmptyRoomKept`, `LoopFindsFreeName`; Rooms implements Registry |
| `rooms_calm` | 2 connections, 2 room names, neither of the two switches | `SlotsAgree`, `NoGhosts`, `NoEviction`; what ends is forgotten |
| `rooms_listed` | calm | violated: a member of an unlisted room |
| `rooms_evicted` | live timeouts | violated: a username's owner is evicted |
| `sync_room` | 2 members, 2 reports or failed writes, 1 queued State | `NeverDeaf`, `Converges`: except where the last forced State was lost, members end up showing the room's state and are listened to again |
| `roster_views` | 2 connections, 2 rooms, 1 file, one client that asks for Lists | `NobodyMissing`; `ListHeals`: a List ends every wrong entry |
| `roster_files` | the same | violated: a newcomer is shown with somebody else's file |
| `serve_close` | 2 connections, 2 closers | `ClosedIsEmpty` (nobody served, registered or left open); Close returns, everything is closed and tickers end |
| `lifecycle_all` | 2 requests to restart with or without new settings, a signal after at most one | types, `OneCancellable`, `NoOrphans`, `NewestSettings`; a cancelled generation winds up; a single restart ends up serving |
| `lifecycle_twice` | 2 restarts, no signal | violated: two restarts in a row leave no server |
| `tunnels_stop` | bore or frp; 1 caller of WaitReady, 2 of Stop, 2 addresses, 3 relay connections, threshold 2, a proxy | `NoMissedWakeup`, `NoLeak`, `NeverGivesUp`; the contract; Stop ends run, monitor and every control connection, but for dials that wait for a proxy; frp shows what the service reports |
| `guard_stop` | 2 instances of the service, 3 monitor threads, 2 faults, with and without `Process.pid()` | `OneMonitor`, `NoEscape`; what is stopped ends; with `pid()` also `StartsAlone`, and what is started and kept ends up serving |

**Bounds.**  Every race in the room manager is between two connections: one that
leaves, is timed out or moves, and one that arrives; a third adds no new kind of
step, and the proofs cover any number.  Two room names are needed for moving, one
suffices for the rest (a client may "move" to the room it is in).  The two requested
usernames conflict directly and after stripping or cutting.  In `Sync.tla` two
events give two concurrent broadcasts, or one with a member that is not reached; a run
with more is too large, and `SyncProofs.tla` proves `NeverDeaf` for any number.  With
`Playstates` a client pauses, or plays from a new position, which takes every branch of
`updateState`.  `MaxQueued`
lets the ticker wait while States are under way to the client, and a client wait with
a report while its earlier messages are unhandled.  Deadlock is checked
in every passing run but `roster_views` and `guard_stop`, which may end with everybody gone;
`Terminated` is the legitimate end of `Rooms` and `Serve`,
`Sync` never ends because tickers tick, and WaitReady may be called for ever.  Three
connections of bore are one in use, one that `ctrlConn` or Stop still refers to, and
one that is dialled late.  `Proxied` is set because a late dial through a proxy may do
all that a direct one does and more: what the run shows holds of direct dials as well, of
which none is ever adrift (`TypeOK`).  A threshold of 2 takes both branches of the backoff; two
calls of Stop show the second one returning at once.  Two requests to restart make three
generations: one that has served, one that is cancelled while it starts and the one
that replaces it.  `Signals` lets a signal come in a life with at most one restart: with
two, `lifecycle_all` would have to cover three generations that also stop in every order,
which adds states but no new kind of step.  `Idle` stands for main waiting for a signal.
In `Roster.tla` what c shows of d only depends on messages that c or d write, so two
connections have every race about an entry; two rooms are needed to switch, one file to
tell a file from none.  Two instances of the Android service make one that winds down while
the next starts.  The third thread is a second monitor of one of them, which without
`pid()` replaces the first and with it never begins (`OneMonitor`); two faults let both processes fail or one of them twice.

**Fairness.**  Goroutines that can take a step eventually do (Go's scheduler is
preemptive and its mutexes do not starve).  A read from a closed connection fails
eventually.  The ticker's timeout is only assumed fair for a connection whose
reader is gone, since nothing then refreshes `lastUpdatedOn`.  No client has to
send, connect or disconnect, nobody has to call Close, and `Sync` assumes that
States reach clients and are acknowledged.  bore's `run` waits 3 s for a dial (the context
of `connectOnce`) and 30 s for the handshake, so it moves on from them.  A late dial that
nobody waits for connects or fails within 10 s and is then closed; that a proxy ever
answers it is not assumed, so it may be adrift for ever, also after Stop, and `StopEnds`
excepts it.  run's read from the control connection is only
assumed to fail once the connection has been closed.  frp's service ends once its
context is cancelled.  In `Lifecycle` every Start, Stop and Restart goes on: waiting
for the port and for the tunnel have deadlines, and Close and Stop are bounded.  In
`Roster` a handler goes on once it has begun; `ListHeals` says itself that the client keeps
asking.  In `ProcessGuard` threads run, a process told to end does, and `onDestroy` is not
abandoned halfway; nobody has to start or stop the service.

**Without `Process.pid()`.**  `OneMonitor` holds on every platform.  `NoEscape` and `StopEnds`
except the processes that the guard has forgotten, and `StartsAlone` and `StaysUp` are
stated for API 33 and later.  The exceptions are needed: without any one of them TLC finds
the property violated, by a start that launches a second process next to the first, by a
stop that ends only the second, and by a monitor that is not there to restart a process.
For the same kind of reason `StopEnds` of the tunnels fails without its exception for dials
adrift.

**Violations.**

- `Listed` (room.go:252): `getRoom` and `addWatcher` are two critical sections.  If
  the last watcher leaves in between, the newcomer is in a Room the map has lost.
- `HoldersStay` (room.go:119): the ticker's `cleanup()` frees the username while the
  reader is between two rooms; the reader then enters and overwrites the slot of
  the username's new owner.
- `FilesRight` (server.go:394): the announcement of a newcomer carries the file of the
  watcher that is told, not the newcomer's.
- `LastRestartWorks` (docs/TECHNICAL.md:41): `restartMu` does not cover the Start of
  the new generation.  A second Restart does not find services that are open but not
  yet published, so that its own generation cannot listen; and the cancelled Start of
  the first ends by calling Stop on whatever the Manager holds by then.  `NoOrphans`
  is limited to a single request for the same reason.

With `LateMessages` or `LiveTimeouts` set, `NoGhosts` and `SlotsAgree` fail as well,
for the reasons given above; `rooms_calm` shows that they hold otherwise.

## 4. Proofs

`RoomsProofs.tla` proves, for all clients, rooms, usernames and both values of the
two switches:

- `TypeCorrect`: `TypeOK` is inductive.  Its last conjunct ties each program place
  to the non-nil local it needs.
- `UniqueNames`, `NamesReserved`: `DistinctNames` and `ReservedNames` together with
  `TypeOK` are inductive.  Neither is so alone: a Hello takes a name outside
  `names`, which only keeps names distinct if `names` covers every holder, and a
  release removes exactly one holder's name only if names are distinct.
- `ImplementsRegistry`: under the refinement mapping (a connection owns its name
  from Hello to the first half of `removeWatcher`) every step is a Claim, a Release
  or a stutter.
- `FreeNameFound` (`LoopFindsFreeName`), for any finite set of connections smaller than
  `MaxUnderscores` (`Enough`; the code's loop has no bound at all).  The library's
  induction theorems cannot be instantiated, so both facts about the recursive function
  `Underscores` come from the least element of a set of naturals (`LeastNatural`):
  a function of this kind exists, for the loop stops somewhere (`LoopDefined`), and it
  yields the first stop, for there is no least distance from the bound at which it does
  not (`LoopComputes`).  By the pigeonhole principle and `ReservedNames` the connections
  cannot have taken all names with one base (`SomeNameFree`).

`MembersProofs.tla` proves, again for everything and both switches, `EmptyRoomsGo`
(`NoEmptyRoomKept`): an empty room in the map has somebody who is about to enter it or to
delete it if empty (`Tended`).  This needs that the map's keys are the rooms' names
(`Keyed`), or `deleteRoomIfEmpty` would delete another room's entry.  Under the hypothesis
`Calm`, that both switches are off, it proves `MembershipAgrees` (`SlotsAgree`), `NobodyHaunts`
(`NoGhosts`) and `NobodyIsEvicted` (`NoEviction`).  Without `Calm` they are false, as
`rooms_evicted` shows of eviction.  The inductive invariant adds that `cleanup()` and
`moveWatcher` never work on one watcher at a time (`Apart`), so that a room that one of them
remembers is still the watcher's when it acts on it (`Current`), and that a watcher whose
name has a new owner is in a room that the map has lost, where the owner cannot come
(`Bygone`).  `Bygone` is where `findFreeUsername`'s look at the rooms' watchers matters:
with the reservations alone it fails.  `AbandonedIsFound`, for both switches again, says
that a connection whose reader has ended without `cleanup()` is in a room (`Housed`), without
which its ticker would skip it for ever.

`ServeProofs.tla` proves, for any finite set of connections and any closers,
`CloseIsComplete` (`ClosedIsEmpty`) and `CloseNeverStuck`.  The inductive invariant
`Bookkeeping` says that `wg` is the number of live handlers, that registered connections
have live handlers, and that once any Close has returned `closing` holds and no handler is
alive.  `Owned` adds that an open connection is Serve's or has a handler that will close it;
`Registered` and `Pursued`, that a Close which has begun is still to close every connection
that is read from and open, for after `closing` no other is registered.  So a Close that
waits for the handlers waits for none that a client could keep busy.

`SyncProofs.tla` proves, for any members, reports and failed writes, `TypeCorrect` and
`NeverDeafForGood` (`NeverDeaf`).  With `TypeOK` it is inductive: the latest forced State is
in `draft`, then in `outbox`, then its acknowledgement in `inbox`, and each step that takes
it out of one puts it into the next, records it as lost, or ends the wait.

`RosterProofs.tla` proves, for any connections, rooms, files and askers of Lists,
`TypeCorrect` and `NobodyStaysMissing` (`NobodyMissing`).  Two members may have joined in
either order, and either may have missed the other when it took its list of watchers; what
holds in every state is `Tended`: of two watchers in one room, c shows d, or d's handler has
c on its list or has yet to take one, or c's own handler has d to be told of.  A handler takes its
list only after it has entered, so the later list has both.  `DraftRight` ties a message
about to be written to the room its writer is still in.

`TunnelsProofs.tla` proves, for any callers, addresses, connections and threshold,
`ImplementsContract`, `WakeupsComplete` (`NoMissedWakeup`), `ConnectionsKept`
(`NoLeak`) and `BorePersists` (`NeverGivesUp`).  The inductive invariant `Agreement`
ties places to the published state: `closed` holds exactly in state stopped, before
its first success an unstopped client is starting, and between `Publish` and `Lost`
an unstopped bore client is ready.  Each lemma shows for one actor's steps that they
keep it and are steps of the contract or stutters.  `StoppedIsReleased` says that Stop reaches
`run` wherever it was: what `run` reads from is `ctrlConn`, and a stopped tunnel's is closed or
in the hands of a Stop that is still to close it (`Handed`).

`LifecycleProofs.tla` proves, for any number of restarts, `TypeCorrect`,
`EveryGenerationCancellable` (`OneCancellable`) and `SettingsNewest` (`NewestSettings`).
`Arm` overwrites `Manager.cancel`, so it must find no live generation; `Cleared` says that
from the first step of Restart's Stop until `Arm` there is none, which holds because only
the holder of `restartMu` makes one.  `NewestSettings` needs only that no generation is
ahead of the requests (`Latest`).  `NothingOrphaned` (`NoOrphans`) is about a life with a
single request so far, with whatever signals.  The request needs a web server that is up, and that
is published last, so the Start of generation 0 publishes nothing more (`Settled`).  Hence
the Restart's Stop holds exactly what the Manager does, and what it has passed is down
(`Stopping`); when `Reset` forgets the services they all are, and from then on only
generation 1 has any (`Orderly`).

`GuardProofs.tla` proves, for any instances, threads and faults, `TypeCorrect`,
`MonitorUnique` (`OneMonitor`), `NothingEscapes` (`NoEscape`) and `NeverTwo` (`StartsAlone`),
with and without `Process.pid()`.
The key is `Ended`: with `pid()` a monitor leaves its loop only when its instance has been
stopped.  So `tryBegin` never finds a dead monitor, an instance has one monitor in its whole
life (`Monitors`), and every running process is being registered or refused, is logged or read
from, or has been told to end (`Accounted`).  Without `pid()` a monitor gets no further than
the log line (`PidNeeded`) and is replaced only once it is dead; its process is still
registered, or forgotten.

The proofs assume only the named ASSUMEs of the modules, and the hypotheses `Calm` and
`Enough` where stated.  Every invariant and every action property of the passing runs is
proved, and both refinements.  Only model-checked: the liveness properties (`Converges`,
`ListHeals`, `EndedIsForgotten`, `CloseReturns`, `AllClosed`, `TickersEnd`, both `StopEnds`,
`StaysUp`, `FollowsStatus`, `GenerationsEnd`, `RestartWorks`), since fairness and ENABLED are
beyond TLAPS.  Of four of them the half that is a safety property is proved, namely that what
is to happen has somebody to make it happen: `CloseNeverStuck` for `CloseReturns`,
`StoppedIsReleased` for bore's `StopEnds`, `AbandonedIsFound` for `EndedIsForgotten`,
`NothingEscapes` for the Android service's `StopEnds`.

## 5. Plan

1. *(done)* Names, Registry, Rooms; Sync; Serve; the proofs above.
2. *(done)* TunnelContract, Tunnel, BoreTunnel, FrpTunnel, Tunnels, with proofs.
3. *(done)* Lifecycle, with proofs.
4. *(done)* ProcessGuard, with proofs.
5. *(done)* Roster; failed writes in Sync, with proofs of `NeverDeaf`.
6. *(done)* Proofs: `NobodyMissing`, `NoOrphans`, `NoEmptyRoomKept`, `LoopFindsFreeName`;
   `SlotsAgree`, `NoGhosts` and `NoEviction` in calm mode.

## 6. Not modelled

- Positions, ages and latencies: real numbers derived from the clock.  `Sync.tla` treats a
  seek as a forced update that changes no flag.
- `clientIgnoringOnTheFly`: it doubles the state of every client and message, and
  `sync_room` is at the limit of what can be checked.  An echo can only be lost while a
  forced State to the same client is outstanding, and `NeverDeaf` says that one is.
- Readiness, which is sent along with files and in the same manner, and chat, which leaves no state.
- What the settings say: merging of file, environment and flags, redaction, and the proxy
  variables of the environment.
- bore's data connections (`handleDataConnection`): each has a dial and two copying
  goroutines of its own and shares nothing with the control connection.  Stop closes none of
  them, and no property says that it does: they end when either side closes.
- `tunnel.Manager`'s fallback over several clients: `setupTunnels` configures one.
- Certificates and TLS records, JSON encoding, log messages, flag parsing, the web page,
  proxies and socket options, packaging scripts, notifications and the Android activity:
  sequential code or I/O without state shared between goroutines.
