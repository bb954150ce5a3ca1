---------------------------- MODULE TunnelsProofs ----------------------------
(***************************************************************************)
(* Proofs about Tunnels.tla, for any number of callers, addresses and      *)
(* connections: both clients keep the contract of the interface, WaitReady *)
(* misses no wake-up, bore leaks no connection and never gives up, and a   *)
(* Stop of bore reaches run.                                               *)
(***************************************************************************)
EXTENDS Tunnels, TLAPS

SPlaces == {"idle", "marked", "close", "returned"}

LEMMA TypeInit == Init => TypeOK
  <1> SUFFICES ASSUME Init PROVE TypeOK
    OBVIOUS
  <1>1. TunnelTypeOK
    BY DEF Init, TunnelInit, TunnelTypeOK, State, Selecting
  <1>2. BoreTypeOK
    <2>1. 0 \in 0..DegradedThreshold
      BY BoreAssumption
    <2>2. None \notin Conns
      BY BoreAssumption
    <2>3. sock \in [Conns -> {"closed", "open", "late", "adrift", "stray"}]
      BY DEF Init, setupTunnels, BoreInit
    <2> QED BY <2>1, <2>2, <2>3 DEF Init, setupTunnels, BoreInit, BoreTypeOK, Unconnected, Connected
  <1>3. FrpTypeOK /\ (rpc = "off" <=> fpc # "off")
    BY DEF Init, setupTunnels, BoreInit, FrpInit, FrpTypeOK
  <1> QED BY <1>1, <1>2, <1>3 DEF TypeOK

\* A step that publishes a state, or keeps the one there is, keeps the types.
LEMMA PublishType ==
    ASSUME TunnelTypeOK,
           firstErr' \in BOOLEAN, closed' \in BOOLEAN, done' \in BOOLEAN,
           spc' \in [Stoppers -> SPlaces],
           KeepState \/ \E t \in State, a \in Addrs \cup {None} : SetState(t, a)
    PROVE  TunnelTypeOK'
  <1>1. CASE KeepState
    BY <1>1 DEF KeepState, TunnelTypeOK, SPlaces, Selecting, callerVars
  <1>2. ASSUME NEW t \in State, NEW a \in Addrs \cup {None}, SetState(t, a)
        PROVE  TunnelTypeOK'
    <2>1. wpc' = wpc /\ answer' = answer /\ woken' = Selecting' /\ state' \in State
      BY <1>2 DEF SetState, Selecting
    <2> QED BY <1>2, <2>1 DEF SetState, TunnelTypeOK, SPlaces
  <1> QED BY <1>1, <1>2

\* WaitReady changes nothing but its callers' places.
LEMMA WaitingFrame ==
    ASSUME TypeOK, NEW c \in Callers, Waiting(c)
    PROVE  UNCHANGED <<stateVars, done, spc>> /\ TunnelTypeOK'
  <1>1. CASE CallWait(c)
    BY <1>1 DEF CallWait, TypeOK, TunnelTypeOK, stateVars, Selecting
  <1>2. CASE Look(c)
    BY <1>2 DEF Look, TypeOK, TunnelTypeOK, stateVars, Selecting
  <1>3. CASE Wake(c)
    BY <1>3 DEF Wake, TypeOK, TunnelTypeOK, stateVars, Selecting
  <1>4. CASE GiveUp(c)
    BY <1>4 DEF GiveUp, TypeOK, TunnelTypeOK, stateVars, Selecting
  <1> QED BY <1>1, <1>2, <1>3, <1>4 DEF Waiting

LEMMA StopType ==
    ASSUME TypeOK, NEW s \in Stoppers,
           \/ MarkStopped(s)
           \/ CloseDone(s)
           \/ /\ spc' = [spc EXCEPT ![s] = "returned"]
              /\ UNCHANGED <<stateVars, callerVars, done>>
    PROVE  TunnelTypeOK'
  <1>0. spc' \in [Stoppers -> SPlaces]
    BY DEF TypeOK, TunnelTypeOK, MarkStopped, CloseDone, SPlaces
  <1>1. CASE MarkStopped(s)
    <2>1. firstErr' \in BOOLEAN /\ closed' \in BOOLEAN /\ done' \in BOOLEAN
      BY <1>1 DEF MarkStopped, TypeOK, TunnelTypeOK
    <2>2. KeepState \/ SetState("stopped", None)
      BY <1>1 DEF MarkStopped, KeepState, callerVars
    <2>3. "stopped" \in State
      BY DEF State
    <2> QED BY <1>0, <2>1, <2>2, <2>3, PublishType DEF TypeOK
  <1>2. CASE ~MarkStopped(s)
    BY <1>0, <1>2 DEF CloseDone, TypeOK, TunnelTypeOK, SPlaces, Selecting, stateVars, callerVars
  <1> QED BY <1>1, <1>2

LEMMA RunningType ==
    ASSUME TypeOK, Running, UNCHANGED frpVars
    PROVE  TypeOK'
  <1> USE DEF TypeOK, TunnelTypeOK, BoreTypeOK, FrpTypeOK, frpVars, monitorVars, Unconnected, Connected
  <1>1. CASE \E c \in Conns : Dialed(c) \/ DialTimesOut(c)
    BY <1>1, BoreAssumption DEF Dialed, DialTimesOut, Fresh, tunnelVars, stateVars, callerVars,
                                Selecting
  <1>2. CASE DialFails \/ Handshake \/ PublishRefused \/ CloseControl \/ Backoff
    BY <1>2 DEF DialFails, Handshake, PublishRefused, CloseControl, Backoff, tunnelVars, stateVars,
                callerVars, Selecting
  <1>3. CASE \E a \in Addrs : Publish(a)
    BY <1>3 DEF Publish, SetState, State, Selecting
  <1>4. CASE FirstFails
    BY <1>4 DEF FirstFails, SetState, KeepState, State, Selecting, callerVars
  <1>5. CASE Lost
    BY <1>5, BoreAssumption DEF Lost, SetState, KeepState, State, Selecting, callerVars
  <1>6. CASE RetryFails
    BY <1>6, BoreAssumption DEF RetryFails, tunnelVars, stateVars, callerVars, Selecting
  <1>7. CASE Degrade
    BY <1>7 DEF Degrade, SetState, KeepState, State, Selecting, callerVars
  <1> QED BY <1>1, <1>2, <1>3, <1>4, <1>5, <1>6, <1>7 DEF Running

LEMMA BoreType ==
    ASSUME TypeOK, BoreNext, UNCHANGED frpVars
    PROVE  TypeOK'
  <1> USE DEF TypeOK, TunnelTypeOK, BoreTypeOK, FrpTypeOK, frpVars, monitorVars, Unconnected, Connected
  <1>1. CASE Running
    BY <1>1, RunningType
  <1>2. CASE ControlEnds \/ \E c \in Conns : Abandoned(c)
    BY <1>2 DEF ControlEnds, Abandoned, LateDial, ProxyAnswers, CloseStray, tunnelVars, stateVars,
                callerVars, runVars, Selecting
  <1>3. ASSUME NEW s \in Stoppers, BoreMark(s)
        PROVE  TypeOK'
    <2>1. TunnelTypeOK'
      BY <1>3, StopType DEF BoreMark
    <2> QED BY <1>3, <2>1 DEF BoreMark, runVars
  <1>4. ASSUME NEW s \in Stoppers, BoreCloseDone(s)
        PROVE  TypeOK'
    <2>1. TunnelTypeOK'
      BY <1>4, StopType DEF BoreCloseDone
    <2> QED BY <1>4, <2>1 DEF BoreCloseDone, boreVars, runVars
  <1>5. ASSUME NEW s \in Stoppers, CloseConn(s)
        PROVE  TypeOK'
    <2>1. TunnelTypeOK'
      BY <1>5, StopType DEF CloseConn
    <2>2. sock' \in [Conns -> {"closed", "open", "late", "adrift", "stray"}]
      BY <1>5 DEF CloseConn
    <2> QED BY <1>5, <2>1, <2>2 DEF CloseConn, runVars
  <1> QED BY <1>1, <1>2, <1>3, <1>4, <1>5 DEF BoreNext, BoreStopping

LEMMA FrpType ==
    ASSUME TypeOK, FrpNext, UNCHANGED boreVars
    PROVE  TypeOK'
  <1>0. BoreTypeOK' /\ rpc' = rpc
    BY DEF TypeOK, BoreTypeOK, boreVars, runVars
  <1>1. CASE FailFirst
    BY <1>0, <1>1 DEF FailFirst, TypeOK, TunnelTypeOK, FrpTypeOK, SetState, KeepState, State, Selecting,
                      callerVars, monitorVars
  <1>2. CASE Install \/ ServiceMoves \/ ServiceEnds \/ MonitorDone \/ Poll \/ UpdateStopped
    BY <1>0, <1>2 DEF Install, ServiceMoves, ServiceEnds, MonitorDone, Poll, UpdateStopped, TypeOK,
                      TunnelTypeOK, FrpTypeOK, tunnelVars, stateVars, callerVars, monitorVars, Selecting
  <1>3. CASE RunReturns
    <2>1. TunnelTypeOK'
      <3>1. firstErr' \in BOOLEAN /\ UNCHANGED <<closed, done, spc>>
        BY <1>3 DEF RunReturns, TypeOK, TunnelTypeOK
      <3>2. KeepState \/ SetState("degraded", None)
        BY <1>3 DEF RunReturns
      <3> QED BY <3>1, <3>2, PublishType DEF TypeOK, TunnelTypeOK, SPlaces, State
    <2> QED BY <1>0, <1>3, <2>1 DEF RunReturns, TypeOK, FrpTypeOK, monitorVars
  <1>4. CASE Update
    <2>1. TunnelTypeOK'
      <3>1. UNCHANGED <<firstErr, closed, done, spc>>
        BY <1>4 DEF Update
      <3>2. \/ KeepState \/ SetState("degraded", None) \/ SetState("reconnecting", None)
            \/ seen \in Addrs /\ SetState("ready", seen)
        BY <1>4 DEF Update, PublishRunning, PublishNotRunning, TypeOK, FrpTypeOK
      <3> QED BY <3>1, <3>2, PublishType DEF TypeOK, TunnelTypeOK, SPlaces, State
    <2>2. since' \in BOOLEAN
      BY <1>4 DEF Update, PublishRunning, PublishNotRunning
    <2> QED BY <1>0, <1>4, <2>1, <2>2 DEF Update, TypeOK, FrpTypeOK
  <1>5. ASSUME NEW s \in Stoppers, FrpStopping(s)
        PROVE  TypeOK'
    <2>1. TunnelTypeOK'
      BY <1>5, StopType DEF FrpStopping
    <2> QED BY <1>0, <1>5, <2>1 DEF FrpStopping, TypeOK, FrpTypeOK, frpVars, monitorVars
  <1> QED BY <1>1, <1>2, <1>3, <1>4, <1>5 DEF FrpNext

LEMMA TypeNext == TypeOK /\ [Next]_vars => TypeOK'
  <1> SUFFICES ASSUME TypeOK, [Next]_vars PROVE TypeOK'
    OBVIOUS
  <1>1. CASE BoreNext /\ UNCHANGED frpVars
    BY <1>1, BoreType
  <1>2. CASE FrpNext /\ UNCHANGED boreVars
    BY <1>2, FrpType
  <1>3. ASSUME NEW c \in Callers, Waiting(c), UNCHANGED <<boreVars, frpVars>>
        PROVE  TypeOK'
    BY <1>3, WaitingFrame DEF TypeOK, BoreTypeOK, FrpTypeOK, boreVars, runVars, frpVars, monitorVars
  <1>4. CASE UNCHANGED vars
    BY <1>4 DEF vars, TypeOK, TunnelTypeOK, BoreTypeOK, FrpTypeOK, tunnelVars, stateVars,
                callerVars, boreVars, runVars, frpVars, monitorVars, Selecting
  <1> QED BY <1>1, <1>2, <1>3, <1>4 DEF Next

\* Every variable of a tunnel has its type; in particular run holds a
\* connection exactly at the places where it uses one, so it never works with
\* a nil connection.
THEOREM TypeCorrect == Spec => []TypeOK
  BY TypeInit, TypeNext, PTL DEF Spec
-----------------------------------------------------------------------------
\* What ties the places of run, monitor and Stop to the published state.
StopAgrees ==
    /\ closed <=> state = "stopped"
    /\ done => closed
    /\ \A s \in Stoppers : spc[s] \in {"marked", "close"} => closed

BoreAgrees ==
    /\ first /\ rpc \notin {"off", "gone"} /\ ~closed => state = "starting"
    /\ rpc \in {"read", "close", "lost"} /\ ~closed => state = "ready"
    /\ rpc \in {"read", "close", "lost", "sleep", "degrade"} => ~first

FrpAgrees ==
    /\ fpc = "setup" /\ ~closed => state = "starting"
    /\ mpc # "none" => fpc \notin {"off", "setup"}

Agreement ==
    /\ TypeOK
    /\ StopAgrees /\ BoreAgrees /\ FrpAgrees
    /\ NoMissedWakeup /\ NoLeak /\ NeverGivesUp

\* Every step keeps the agreement and is one the contract allows.
Allowed == Agreement' /\ [Contract!Next]_<<state, addr>>

LEMMA AgreementInit == Init => Agreement
  <1> SUFFICES ASSUME Init PROVE Agreement
    OBVIOUS
  <1>1. StopAgrees /\ BoreAgrees /\ FrpAgrees
    BY DEF Init, setupTunnels, TunnelInit, BoreInit, FrpInit, StopAgrees, BoreAgrees, FrpAgrees
  <1>2. NoMissedWakeup /\ NoLeak /\ NeverGivesUp
    BY DEF Init, setupTunnels, TunnelInit, BoreInit, NoMissedWakeup, NoLeak, NeverGivesUp, Selecting
  <1> QED BY <1>1, <1>2, TypeInit DEF Agreement

\* Publishing wakes everybody; an error recorded without publishing finds the
\* tunnel stopped, and nobody asleep.
LEMMA NobodySleepsOn ==
    ASSUME NoMissedWakeup,
           \/ \E t \in State, a \in Addrs \cup {None} : SetState(t, a)
           \/ KeepState /\ (firstErr' = firstErr \/ state = "stopped")
    PROVE  NoMissedWakeup'
  <1>1. CASE \E t \in State, a \in Addrs \cup {None} : SetState(t, a)
    <2>1. Selecting' = Selecting /\ woken' = Selecting
      BY <1>1 DEF SetState, Selecting
    <2> QED BY <2>1 DEF NoMissedWakeup
  <1>2. CASE KeepState /\ (firstErr' = firstErr \/ state = "stopped")
    <2>1. Selecting' = Selecting /\ woken' = woken /\ state' = state
      BY <1>2 DEF KeepState, callerVars, Selecting
    <2> QED BY <1>2, <2>1 DEF NoMissedWakeup
  <1> QED BY <1>1, <1>2

LEMMA WaitingAgrees ==
    ASSUME Agreement, TypeOK', NEW c \in Callers, Waiting(c), UNCHANGED <<boreVars, frpVars>>
    PROVE  Allowed
  <1>1. UNCHANGED <<stateVars, done, spc>>
    BY WaitingFrame DEF Agreement
  <1>2. NoMissedWakeup'
    <2>1. CASE Look(c)
      BY <1>1, <2>1 DEF Look, Agreement, NoMissedWakeup, Selecting, stateVars, TypeOK, TunnelTypeOK
    <2>2. CASE CallWait(c) \/ Wake(c) \/ GiveUp(c)
      <3>1. Selecting' \ woken' \subseteq Selecting \ woken
        BY <2>2 DEF CallWait, Wake, GiveUp, Selecting, Agreement, TypeOK, TunnelTypeOK
      <3> QED BY <1>1, <3>1 DEF Agreement, NoMissedWakeup, stateVars
    <2> QED BY <2>1, <2>2 DEF Waiting
  <1>3. (StopAgrees /\ BoreAgrees /\ FrpAgrees /\ NoLeak /\ NeverGivesUp)'
    BY <1>1 DEF Agreement, StopAgrees, BoreAgrees, FrpAgrees, NoLeak, NeverGivesUp, boreVars,
                runVars, frpVars, monitorVars, stateVars
  <1> QED BY <1>1, <1>2, <1>3 DEF Allowed, Agreement, stateVars

\* Steps of run, and the relay's, that publish nothing.
LEMMA QuietRunning ==
    ASSUME Agreement, TypeOK', UNCHANGED frpVars,
           \/ \E c \in Conns : Dialed(c) \/ DialTimesOut(c) \/ Abandoned(c)
           \/ DialFails \/ Handshake \/ PublishRefused \/ CloseControl \/ Backoff
           \/ RetryFails \/ ControlEnds
    PROVE  Allowed
  <1>1. UNCHANGED tunnelVars
    BY DEF Dialed, DialTimesOut, Abandoned, LateDial, ProxyAnswers, CloseStray, DialFails, Handshake,
           PublishRefused, CloseControl, Backoff, RetryFails, ControlEnds
  <1>2. (StopAgrees /\ FrpAgrees /\ NoMissedWakeup)'
    BY <1>1 DEF Agreement, StopAgrees, FrpAgrees, NoMissedWakeup, Selecting, tunnelVars, stateVars,
                callerVars, frpVars, monitorVars
  <1>3. BoreAgrees'
    BY <1>1 DEF Agreement, BoreAgrees, tunnelVars, stateVars, runVars, Dialed, DialTimesOut,
                Abandoned, LateDial, ProxyAnswers, CloseStray,
                DialFails, Handshake, PublishRefused, CloseControl, Backoff, RetryFails, ControlEnds
  <1>4. NeverGivesUp'
    BY <1>1 DEF Agreement, NeverGivesUp, StopAgrees, tunnelVars, stateVars, runVars, Dialed,
                DialTimesOut, Abandoned, LateDial, ProxyAnswers, CloseStray, DialFails, Handshake,
                PublishRefused, CloseControl, Backoff, RetryFails, ControlEnds
  <1>5. NoLeak'
    BY DEF Agreement, TypeOK, BoreTypeOK, NoLeak, Connected, Fresh, runVars, Dialed, DialTimesOut,
           Abandoned, LateDial, ProxyAnswers, CloseStray, DialFails, Handshake, PublishRefused,
           CloseControl, Backoff, RetryFails, ControlEnds
  <1> QED BY <1>1, <1>2, <1>3, <1>4, <1>5 DEF Allowed, Agreement, tunnelVars, stateVars

\* Steps of run that publish a state.
LEMMA PublishRunningAgrees ==
    ASSUME Agreement, TypeOK', UNCHANGED frpVars,
           (\E a \in Addrs : Publish(a)) \/ FirstFails \/ Lost \/ Degrade
    PROVE  Allowed
  <1>1. UNCHANGED <<closed, done, spc>>
    BY DEF Publish, FirstFails, Lost, Degrade
  <1>3. closed => KeepState
    BY DEF Publish, FirstFails, Lost, Degrade, Agreement, StopAgrees
  <1>4. ~closed => state # "stopped" /\ state' # "stopped"
    BY DEF Publish, FirstFails, Lost, Degrade, Agreement, StopAgrees, SetState, KeepState
  <1>5. StopAgrees'
    BY <1>1, <1>3, <1>4 DEF Agreement, StopAgrees, KeepState
  <1>6. BoreAgrees'
    BY <1>1 DEF Publish, FirstFails, Lost, Degrade, Agreement, BoreAgrees, SetState, KeepState
  <1>7. FrpAgrees'
    BY DEF Publish, FirstFails, Lost, Degrade, Agreement, FrpAgrees, TypeOK, frpVars, monitorVars
  <1>8. NoMissedWakeup'
    <2>1. \/ \E t \in State, a \in Addrs \cup {None} : SetState(t, a)
          \/ KeepState /\ (firstErr' = firstErr \/ state = "stopped")
      BY DEF Publish, FirstFails, Lost, Degrade, Agreement, StopAgrees, State
    <2> QED BY <2>1, NobodySleepsOn DEF Agreement
  <1>9. NoLeak'
    BY DEF Publish, FirstFails, Lost, Degrade, Agreement, NoLeak, Connected
  <1>10. NeverGivesUp'
    BY DEF Publish, FirstFails, Lost, Degrade, Agreement, NeverGivesUp
  <1>11. [Contract!Next]_<<state, addr>>
    <2>1. CASE \E a \in Addrs : Publish(a)
      BY <2>1, <1>4 DEF Publish, SetState, Contract!Next, Contract!BecomeReady
    <2>2. CASE FirstFails
      BY <2>2 DEF FirstFails, SetState, KeepState, Agreement, BoreAgrees, Contract!Next,
                  Contract!Degrade
    <2>3. CASE Lost
      BY <2>3 DEF Lost, SetState, KeepState, Agreement, BoreAgrees, Contract!Next, Contract!Lose
    <2>4. CASE Degrade
      BY <2>4 DEF Degrade, SetState, KeepState, Contract!Next, Contract!Degrade
    <2> QED BY <2>1, <2>2, <2>3, <2>4
  <1> QED BY <1>5, <1>6, <1>7, <1>8, <1>9, <1>10, <1>11 DEF Allowed, Agreement

\* Steps of frp's run and monitor, and of the service, that publish nothing.
LEMMA QuietFrp ==
    ASSUME Agreement, TypeOK', UNCHANGED boreVars,
           Install \/ ServiceMoves \/ ServiceEnds \/ MonitorDone \/ Poll \/ UpdateStopped
    PROVE  Allowed
  <1>1. UNCHANGED tunnelVars
    BY DEF Install, ServiceMoves, ServiceEnds, MonitorDone, Poll, UpdateStopped
  <1>2. (StopAgrees /\ BoreAgrees /\ NoMissedWakeup /\ NoLeak /\ NeverGivesUp)'
    BY <1>1 DEF Agreement, StopAgrees, BoreAgrees, NoMissedWakeup, NoLeak, NeverGivesUp, Selecting,
                tunnelVars, stateVars, callerVars, boreVars, runVars
  <1>3. FrpAgrees'
    BY <1>1 DEF Agreement, FrpAgrees, TypeOK, FrpTypeOK, Install, ServiceMoves, ServiceEnds,
                MonitorDone, Poll, UpdateStopped, tunnelVars, stateVars, monitorVars
  <1> QED BY <1>1, <1>2, <1>3 DEF Allowed, Agreement, tunnelVars, stateVars

\* Steps of frp's run and monitor that publish a state.
LEMMA PublishFrpAgrees ==
    ASSUME Agreement, TypeOK', UNCHANGED boreVars, FailFirst \/ RunReturns \/ Update
    PROVE  Allowed
  <1>1. UNCHANGED <<closed, done, spc>> /\ UNCHANGED <<rpc, first, sock, conn>> /\ rpc = "off"
    BY DEF FailFirst, RunReturns, Update, boreVars, runVars, Agreement, TypeOK, FrpAgrees
  <1>2. closed => KeepState
    BY DEF FailFirst, RunReturns, Update, Agreement, StopAgrees
  <1>3. /\ ~closed => state # "stopped" /\ state' # "stopped"
        /\ Update => seen \in Addrs \cup {None}
    BY DEF FailFirst, RunReturns, Update, PublishRunning, PublishNotRunning, SetState, KeepState,
           Agreement, StopAgrees, TypeOK, FrpTypeOK
  <1>4. StopAgrees'
    BY <1>1, <1>2, <1>3 DEF Agreement, StopAgrees, KeepState
  <1>5. BoreAgrees' /\ NoLeak' /\ NeverGivesUp'
    BY <1>1 DEF Agreement, BoreAgrees, NoLeak, NeverGivesUp
  <1>6. FrpAgrees'
    BY <1>1 DEF FailFirst, RunReturns, Update, Agreement, FrpAgrees, monitorVars
  <1>7. NoMissedWakeup'
    <2>1. \/ \E t \in State, a \in Addrs \cup {None} : SetState(t, a)
          \/ KeepState /\ (firstErr' = firstErr \/ state = "stopped")
      BY <1>3 DEF FailFirst, RunReturns, Update, PublishRunning, PublishNotRunning, State,
                  Agreement, StopAgrees
    <2> QED BY <2>1, NobodySleepsOn DEF Agreement
  <1>8. [Contract!Next]_<<state, addr>>
    <2>1. CASE FailFirst \/ RunReturns
      BY <2>1 DEF FailFirst, RunReturns, SetState, KeepState, Agreement, FrpAgrees, Contract!Next,
                  Contract!Degrade
    <2>2. CASE Update /\ PublishRunning
      BY <2>2, <1>3 DEF Update, PublishRunning, SetState, KeepState, Contract!Next, Contract!BecomeReady
    <2>3. CASE Update /\ PublishNotRunning
      BY <2>3 DEF PublishNotRunning, SetState, KeepState, Contract!Next, Contract!Lose, Contract!Degrade
    <2> QED BY <2>1, <2>2, <2>3 DEF Update
  <1> QED BY <1>4, <1>5, <1>6, <1>7, <1>8 DEF Allowed, Agreement

\* Stop, of either client.
LEMMA StoppingAgrees ==
    ASSUME Agreement, TypeOK', NEW s \in Stoppers,
           \/ BoreStopping(s) /\ UNCHANGED frpVars
           \/ FrpStopping(s) /\ UNCHANGED boreVars
    PROVE  Allowed
  <1>1. /\ UNCHANGED <<firstErr, rpc, first, conn, fpc, mpc>>
        /\ \A c \in Conns : sock'[c] = "open" => sock[c] = "open"
    BY DEF BoreStopping, BoreMark, BoreCloseDone, CloseConn, FrpStopping, MarkStopped, CloseDone,
           boreVars, runVars, frpVars, monitorVars, stateVars, Agreement, TypeOK, BoreTypeOK
  <1>2. CASE MarkStopped(s) /\ ~closed
    <2>1. closed' /\ SetState("stopped", None) /\ state # "stopped"
      BY <1>2 DEF MarkStopped, Agreement, StopAgrees
    <2>2. NoMissedWakeup'
      BY <2>1, NobodySleepsOn DEF Agreement, State
    <2>3. (StopAgrees /\ BoreAgrees /\ FrpAgrees /\ NoLeak /\ NeverGivesUp)'
      BY <1>1, <1>2, <2>1 DEF MarkStopped, SetState, Agreement, StopAgrees, BoreAgrees, FrpAgrees,
                              NoLeak, NeverGivesUp
    <2> QED BY <2>1, <2>2, <2>3 DEF Allowed, Agreement, SetState, Contract!Next, Contract!Stop
  <1>3. CASE ~(MarkStopped(s) /\ ~closed)
    <2>1. KeepState /\ UNCHANGED closed
      BY <1>3 DEF BoreStopping, BoreMark, BoreCloseDone, CloseConn, FrpStopping, MarkStopped, CloseDone,
                  KeepState, stateVars, callerVars
    <2>2. NoMissedWakeup'
      BY <1>1, <2>1, NobodySleepsOn DEF Agreement
    <2>3. StopAgrees'
      BY <1>3, <2>1 DEF BoreStopping, BoreMark, BoreCloseDone, CloseConn, FrpStopping, MarkStopped,
                        CloseDone, KeepState, Agreement, StopAgrees, TypeOK, TunnelTypeOK
    <2>4. (BoreAgrees /\ FrpAgrees /\ NoLeak /\ NeverGivesUp)'
      BY <1>1, <2>1 DEF KeepState, Agreement, BoreAgrees, FrpAgrees, NoLeak, NeverGivesUp
    <2> QED BY <2>1, <2>2, <2>3, <2>4 DEF Allowed, Agreement, KeepState
  <1> QED BY <1>2, <1>3

LEMMA AgreementNext == Agreement /\ [Next]_vars => Allowed
  <1> SUFFICES ASSUME Agreement, [Next]_vars PROVE Allowed
    OBVIOUS
  <1>0. TypeOK'
    BY TypeNext DEF Agreement
  <1>1. CASE BoreNext /\ UNCHANGED frpVars
    BY <1>0, <1>1, QuietRunning, PublishRunningAgrees, StoppingAgrees DEF BoreNext, Running
  <1>2. CASE FrpNext /\ UNCHANGED boreVars
    BY <1>0, <1>2, QuietFrp, PublishFrpAgrees, StoppingAgrees DEF FrpNext
  <1>3. ASSUME NEW c \in Callers, Waiting(c), UNCHANGED <<boreVars, frpVars>>
        PROVE  Allowed
    BY <1>0, <1>3, WaitingAgrees
  <1>4. CASE UNCHANGED vars
    BY <1>0, <1>4 DEF vars, tunnelVars, stateVars, callerVars, boreVars, runVars, frpVars, monitorVars,
                      Allowed, Agreement, StopAgrees, BoreAgrees, FrpAgrees, NoMissedWakeup, NoLeak,
                      NeverGivesUp, Selecting
  <1> QED BY <1>1, <1>2, <1>3, <1>4 DEF Next

LEMMA AgreementAlways == Spec => []Agreement
  <1>1. Agreement /\ [Next]_vars => Agreement'
    BY AgreementNext DEF Allowed
  <1> QED BY <1>1, AgreementInit, PTL DEF Spec

\* A sleeping caller of WaitReady has nothing to be told.
THEOREM WakeupsComplete == Spec => []NoMissedWakeup
  <1>1. Agreement => NoMissedWakeup
    BY DEF Agreement
  <1> QED BY <1>1, AgreementAlways, PTL

\* Of the control connections that dials handed to bore's run only the one it
\* works with is open.
THEOREM ConnectionsKept == Spec => []NoLeak
  <1>1. Agreement => NoLeak
    BY DEF Agreement
  <1> QED BY <1>1, AgreementAlways, PTL

\* A bore tunnel that was ready once retries until it is stopped.
THEOREM BorePersists == Spec => []NeverGivesUp
  <1>1. Agreement => NeverGivesUp
    BY DEF Agreement
  <1> QED BY <1>1, AgreementAlways, PTL

\* Both clients implement the contract of the interface Tunnel.
THEOREM ImplementsContract == Spec => ContractSpec
  <1>1. Init => Contract!Init
    BY DEF Init, TunnelInit, Contract!Init
  <1>2. Agreement /\ [Next]_vars => [Contract!Next]_<<state, addr>>
    BY AgreementNext DEF Allowed
  <1> QED BY <1>1, <1>2, AgreementAlways, PTL DEF Spec, ContractSpec, Contract!Spec
-----------------------------------------------------------------------------
\* What run reads from is ctrlConn, and once the tunnel is stopped some call of
\* Stop has taken it and is still to close it.
Handed ==
    /\ rpc = "read" => ctrl = conn
    /\ closed /\ rpc = "read" /\ sock[conn] # "closed" =>
          sconn = conn /\ \E s \in Stoppers : spc[s] \in {"marked", "close"}

HandedInv == TypeOK /\ Handed

LEMMA HandedInit == Init => HandedInv
  <1>1. Init => Handed
    BY DEF Init, setupTunnels, TunnelInit, BoreInit, Handed
  <1> QED BY <1>1, TypeInit DEF HandedInv

LEMMA HandedStopping ==
    ASSUME HandedInv, NEW s \in Stoppers, BoreStopping(s)
    PROVE  Handed'
  <1> USE DEF HandedInv, TypeOK, TunnelTypeOK, BoreTypeOK, Handed, Connected, runVars, stateVars
  <1>1. CASE BoreMark(s)
    BY <1>1 DEF BoreMark, MarkStopped
  <1>2. CASE BoreCloseDone(s)
    BY <1>2 DEF BoreCloseDone, CloseDone, boreVars
  <1>3. CASE CloseConn(s)
    BY <1>3 DEF CloseConn
  <1> QED BY <1>1, <1>2, <1>3 DEF BoreStopping

LEMMA HandedNext == HandedInv /\ [Next]_vars => HandedInv'
  <1> SUFFICES ASSUME HandedInv, [Next]_vars PROVE Handed'
    BY TypeNext DEF HandedInv
  <1>1. CASE Running
    <2>1. CASE \E a \in Addrs : Publish(a)
      BY <2>1 DEF Publish, HandedInv, Handed
    <2>2. CASE ~ \E a \in Addrs : Publish(a)
      <3>1. rpc' # "read"
        BY <1>1, <2>2 DEF Running, Dialed, DialTimesOut, DialFails, Handshake, PublishRefused,
              FirstFails, CloseControl, Lost, Backoff, RetryFails, Degrade
      <3> QED BY <3>1 DEF Handed
    <2> QED BY <2>1, <2>2
  <1>2. CASE ControlEnds
    BY <1>2 DEF ControlEnds, Handed
  <1>3. CASE \E c \in Conns : Abandoned(c)
    BY <1>3 DEF Abandoned, LateDial, ProxyAnswers, CloseStray, HandedInv, Handed, TypeOK, BoreTypeOK,
                Connected, tunnelVars, stateVars, runVars
  <1>4. CASE \E s \in Stoppers : BoreStopping(s)
    BY <1>4, HandedStopping
  <1>5. CASE FrpNext /\ UNCHANGED boreVars
    <2>1. CASE \E s \in Stoppers : FrpStopping(s)
      BY <1>5, <2>1 DEF FrpStopping, HandedInv, TypeOK, Handed, boreVars, runVars
    <2>2. CASE ~ \E s \in Stoppers : FrpStopping(s)
      <3>1. UNCHANGED <<closed, spc>>
        BY <1>5, <2>2 DEF FrpNext, FailFirst, Install, ServiceMoves, ServiceEnds, RunReturns,
                          MonitorDone,
                Poll, Update, UpdateStopped, tunnelVars, stateVars
      <3> QED BY <1>5, <3>1 DEF HandedInv, Handed, boreVars, runVars
    <2> QED BY <2>1, <2>2
  <1>6. CASE \E c \in Callers : Waiting(c) /\ UNCHANGED <<boreVars, frpVars>>
    BY <1>6, WaitingFrame DEF HandedInv, Handed, boreVars, runVars, stateVars
  <1>7. CASE UNCHANGED vars
    BY <1>7 DEF vars, tunnelVars, stateVars, boreVars, runVars, Handed, HandedInv
  <1> QED BY <1>1, <1>2, <1>3, <1>4, <1>5, <1>6, <1>7 DEF Next, BoreNext

\* When the call of Stop that stopped a bore tunnel is through, run does not read
\* from a connection that is open: the relay cannot keep it (bore_native.go, Stop
\* and controlLoop).
StopReachesRun ==
    closed /\ rpc = "read" /\ (\A s \in Stoppers : spc[s] \notin {"marked", "close"})
        => sock[conn] = "closed"

\* Stop reaches run, wherever run was between dialling and its next attempt when
\* Stop came, for any number of calls of Stop.
THEOREM StoppedIsReleased == Spec => []StopReachesRun
  <1>1. HandedInv => StopReachesRun
    BY DEF HandedInv, Handed, StopReachesRun
  <1>2. Spec => []HandedInv
    BY HandedInit, HandedNext, PTL DEF Spec
  <1> QED BY <1>1, <1>2, PTL
=============================================================================
