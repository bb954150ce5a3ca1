----------------------------- MODULE SyncProofs -----------------------------
(***************************************************************************)
(* Proofs about Sync.tla, for any number of members, reports and failed    *)
(* writes.                                                                 *)
(*                                                                         *)
(* A forced State to a client is followed from the count that goes into it *)
(* to the acknowledgement that brings it back: through draft, outbox and   *)
(* inbox (Outstanding), unless its write fails (lost).  NeverDeaf needs no *)
(* strengthening, for every step that takes the latest forced State from   *)
(* one of these places puts it into the next or ends the wait for it.      *)
(***************************************************************************)
EXTENDS Sync, SequenceTheorems, TLAPS

IInv == TypeOK /\ NeverDeaf
-----------------------------------------------------------------------------
LEMMA AppendKeeps ==
    ASSUME NEW S, NEW s \in Seq(S), NEW e \in S
    PROVE  /\ Append(s, e) \in Seq(S)
           /\ Len(s) + 1 \in 1..Len(Append(s, e)) /\ Append(s, e)[Len(s) + 1] = e
           /\ \A i \in 1..Len(s) : i \in 1..Len(Append(s, e)) /\ Append(s, e)[i] = s[i]
OBVIOUS

LEMMA TailShifts ==
    ASSUME NEW S, NEW s \in Seq(S), s # <<>>
    PROVE  /\ Tail(s) \in Seq(S) /\ Head(s) \in S /\ Head(s) = s[1]
           /\ \A i \in 1..Len(s) : i # 1 => i - 1 \in 1..Len(Tail(s)) /\ Tail(s)[i - 1] = s[i]
OBVIOUS

LEMMA InitInv == Init => IInv
<1> SUFFICES ASSUME Init PROVE IInv
    OBVIOUS
<1>1. TypeOK
    BY SyncAssumption DEF Init, TypeOK, Reports, States
<1>2. NeverDeaf
    BY DEF Init, NeverDeaf
<1> QED
    BY <1>1, <1>2 DEF IInv
-----------------------------------------------------------------------------
\* Types are preserved by every step.

LEMMA ReceiveType == ASSUME TypeOK, NEW c \in Conns, Receive(c) PROVE TypeOK'
<1> DEFINE n == Head(outbox[c]).n
           ack == [ack |-> n, play |-> None, seek |-> FALSE]
<1>1. outbox[c] \in Seq(States) /\ inbox[c] \in Seq(Reports) /\ outbox[c] # <<>>
    BY DEF TypeOK, Receive
<1>2. Head(outbox[c]) \in States /\ Tail(outbox[c]) \in Seq(States)
    BY <1>1, TailShifts
<1>3. ack \in Reports
    BY <1>2 DEF Reports, States
<1>4. Append(inbox[c], ack) \in Seq(Reports)
    BY <1>1, <1>3, AppendKeeps
<1>5. outbox' \in [Conns -> Seq(States)] /\ shown' \in [Conns -> BOOLEAN]
    BY <1>2 DEF Receive, TypeOK, States
<1>6. inbox' \in [Conns -> Seq(Reports)]
    <2>1. inbox' = inbox \/ inbox' = [inbox EXCEPT ![c] = Append(@, ack)]
        BY DEF Receive
    <2> QED
        BY <1>4, <2>1 DEF TypeOK
<1> QED
    BY <1>5, <1>6 DEF Receive, TypeOK, ignoreVars, jobVars, tickerVars

LEMMA ReportType ==
    ASSUME TypeOK, NEW c \in Conns, NEW r \in Playstates, Report(c, r[1], r[2])
    PROVE  TypeOK'
<1> DEFINE m == [ack |-> 0, play |-> r[1], seek |-> r[2]]
<1>1. m \in Reports
    BY SyncAssumption DEF Reports
<1>2. Append(inbox[c], m) \in Seq(Reports)
    BY <1>1, AppendKeeps DEF TypeOK
<1>3. inbox' \in [Conns -> Seq(Reports)] /\ left' \in 0 .. MaxEvents
    BY <1>2, SyncAssumption DEF Report, TypeOK
<1> QED
    BY <1>3 DEF Report, TypeOK, ignoreVars, jobVars, tickerVars

LEMMA HandleType == ASSUME TypeOK, NEW c \in Conns, HandleState(c) PROVE TypeOK'
<1> DEFINE r == Head(inbox[c])
<1>1. r \in Reports /\ Tail(inbox[c]) \in Seq(Reports)
    BY TailShifts DEF TypeOK, HandleState
<1>2. r.ack \in Nat /\ r.play \in BOOLEAN \cup {None} /\ r.seek \in BOOLEAN
    BY <1>1 DEF Reports
<1>3. inbox' \in [Conns -> Seq(Reports)]
    BY <1>1 DEF HandleState, TypeOK
<1>4. mute' \in [Conns -> Nat] /\ lost' \in [Conns -> SUBSET Nat]
    BY <1>2 DEF HandleState, TakeIgnores, Acked, TypeOK
<1>5. CASE mute'[c] = 0 /\ r.play # None
    <2>1. /\ pc' = [pc EXCEPT ![c] = "update"] /\ play' = [play EXCEPT ![c] = r.play]
          /\ seek' = [seek EXCEPT ![c] = r.seek]
        BY <1>5 DEF HandleState
    <2> QED
        BY <1>2, <1>3, <1>4, <1>5, <2>1 DEF HandleState, TypeOK, clientVars, tickerVars
<1>6. CASE ~(mute'[c] = 0 /\ r.play # None)
    BY <1>3, <1>4, <1>6 DEF HandleState, TypeOK, clientVars, tickerVars
<1> QED
    BY <1>5, <1>6

LEMMA ReaderType ==
    ASSUME TypeOK, NEW c \in Conns,
           Compare(c) \/ SetPaused(c) \/ StartForce(c) \/ \E d \in Conns : CountForced(c, d)
    PROVE  TypeOK'
<1> USE SyncAssumption DEF TypeOK, ignoreVars, queueVars, clientVars, tickerVars
<1>1. CASE Compare(c)
    BY <1>1 DEF Compare
<1>2. CASE SetPaused(c)
    BY <1>2 DEF SetPaused
<1>3. CASE StartForce(c)
    BY <1>3 DEF StartForce
<1>4. ASSUME NEW d \in Conns, CountForced(c, d) PROVE TypeOK'
    <2>1. [to |-> d, n |-> mute[d] + 1] \in [to : Conns, n : Nat]
        OBVIOUS
    <2> QED
        BY <1>4, <2>1 DEF CountForced
<1> QED
    BY <1>1, <1>2, <1>3, <1>4

LEMMA WriteType == ASSUME TypeOK, NEW c \in Conns, WriteForced(c) \/ WriteFails(c) PROVE TypeOK'
<1> DEFINE d == draft[c].to
           m == [paused |-> say[c], n |-> draft[c].n]
<1>1. pc[c] = "write" /\ draft[c] \in [to : Conns, n : Nat] /\ say[c] \in BOOLEAN
    BY DEF WriteForced, WriteFails, EndWrite, TypeOK
<1>2. d \in Conns /\ draft[c].n \in Nat /\ m \in States
    BY <1>1 DEF States
<1>3. outbox' \in [Conns -> Seq(States)] /\ lost' \in [Conns -> SUBSET Nat] /\ left' \in 0 .. MaxEvents
    <2>1. CASE WriteForced(c)
        <3>1. Append(outbox[d], m) \in Seq(States)
            BY <1>2, AppendKeeps DEF TypeOK
        <3> QED
            BY <2>1, <1>2, <3>1 DEF WriteForced, TypeOK
    <2>2. CASE WriteFails(c)
        BY <2>2, <1>2, SyncAssumption DEF WriteFails, TypeOK
    <2> QED
        BY <2>1, <2>2
<1>4. EndWrite(c)
    BY DEF WriteForced, WriteFails
<1> QED
    BY <1>1, <1>3, <1>4, SyncAssumption DEF EndWrite, TypeOK, tickerVars

LEMMA TickerType == ASSUME TypeOK, NEW c \in Conns, Ticker(c) PROVE TypeOK'
<1> USE SyncAssumption DEF TypeOK, ignoreVars, queueVars, clientVars, jobVars
<1>1. CASE ReadTick(c)
    BY <1>1 DEF ReadTick
<1>2. CASE CheckTick(c)
    BY <1>2 DEF CheckTick
<1>3. CASE WriteTick(c)
    <2>1. [paused |-> tsay[c], n |-> 0] \in States
        BY <1>3 DEF WriteTick, States
    <2>2. Append(outbox[c], [paused |-> tsay[c], n |-> 0]) \in Seq(States)
        BY <2>1, AppendKeeps
    <2> QED
        BY <1>3, <2>2 DEF WriteTick
<1> QED
    BY <1>1, <1>2, <1>3 DEF Ticker
-----------------------------------------------------------------------------
\* The latest forced State is found again after every step.

\* The three places where a forced State may be
Drafted(c, n) == \E d \in Conns : draft[d] # None /\ draft[d].to = c /\ draft[d].n = n
Sent(c, n) == \E i \in 1 .. Len(outbox[c]) : outbox[c][i].n = n
Returned(c, n) == \E i \in 1 .. Len(inbox[c]) : inbox[c][i].ack = n

LEMMA Places == \A c, n : Outstanding(c, n) <=> Drafted(c, n) \/ Sent(c, n) \/ Returned(c, n)
BY DEF Outstanding, Drafted, Sent, Returned

LEMMA PlacesNext ==
    \A c, n : Outstanding(c, n)' <=> Drafted(c, n)' \/ Sent(c, n)' \/ Returned(c, n)'
BY DEF Outstanding, Drafted, Sent, Returned

\* A step that takes nothing out of the three places, nor out of lost, and
\* leaves the counts alone.
LEMMA NothingTaken ==
    ASSUME NeverDeaf, mute' = mute,
           \A c \in Conns : lost[c] \subseteq lost'[c],
           \A c \in Conns : \A n : Outstanding(c, n) => Outstanding(c, n)' \/ n = 0
    PROVE  NeverDeaf'
BY DEF NeverDeaf

LEMMA ReceiveDeaf == ASSUME TypeOK, NeverDeaf, NEW c \in Conns, Receive(c) PROVE NeverDeaf'
<1> DEFINE ack == [ack |-> Head(outbox[c]).n, play |-> None, seek |-> FALSE]
<1>1. outbox[c] \in Seq(States) /\ inbox[c] \in Seq(Reports) /\ outbox[c] # <<>>
    BY DEF TypeOK, Receive
<1>2. /\ outbox' = [outbox EXCEPT ![c] = Tail(@)] /\ draft' = draft /\ mute' = mute /\ lost' = lost
      /\ inbox' = IF Head(outbox[c]).n = 0 THEN inbox ELSE [inbox EXCEPT ![c] = Append(@, ack)]
    BY DEF Receive, ignoreVars, jobVars
<1>3. Head(outbox[c]) = outbox[c][1] /\ ack \in Reports
    <2>1. Head(outbox[c]) = outbox[c][1] /\ Head(outbox[c]) \in States
        BY <1>1, TailShifts
    <2> QED
        BY <2>1 DEF Reports, States
<1>4. ASSUME NEW e \in Conns, NEW n, Sent(e, n), n # 0 PROVE Sent(e, n)' \/ Returned(e, n)'
    <2>1. PICK i \in 1 .. Len(outbox[e]) : outbox[e][i].n = n
        BY <1>4 DEF Sent
    <2>2. CASE e # c
        BY <1>2, <2>1, <2>2 DEF Sent, TypeOK
    <2>3. CASE e = c /\ i # 1
        <3>1. i - 1 \in 1 .. Len(Tail(outbox[c])) /\ Tail(outbox[c])[i - 1].n = n
            BY <1>1, <2>1, <2>3, TailShifts
        <3> QED
            BY <1>2, <2>3, <3>1 DEF Sent, TypeOK
    <2>4. CASE e = c /\ i = 1
        <3>1. ack.ack = n /\ inbox'[c] = Append(inbox[c], ack)
            BY <1>2, <1>3, <1>4, <2>1, <2>4 DEF TypeOK
        <3>2. Len(inbox[c]) + 1 \in 1 .. Len(inbox'[c]) /\ inbox'[c][Len(inbox[c]) + 1].ack = n
            BY <1>1, <1>3, <3>1, AppendKeeps
        <3> QED
            BY <2>4, <3>2 DEF Returned
    <2> QED
        BY <2>2, <2>3, <2>4
<1>5. ASSUME NEW e \in Conns, NEW n, Returned(e, n) PROVE Returned(e, n)'
    <2>1. PICK i \in 1 .. Len(inbox[e]) : inbox[e][i].ack = n
        BY <1>5 DEF Returned
    <2>2. i \in 1 .. Len(inbox'[e]) /\ inbox'[e][i] = inbox[e][i]
        BY <1>1, <1>2, <1>3, <2>1, AppendKeeps DEF TypeOK
    <2> QED
        BY <2>1, <2>2 DEF Returned
<1>6. \A e \in Conns : \A n : Drafted(e, n) => Drafted(e, n)'
    BY <1>2 DEF Drafted
<1> QED
    BY <1>2, <1>4, <1>5, <1>6, Places, PlacesNext, NothingTaken

LEMMA ReportDeaf ==
    ASSUME TypeOK, NeverDeaf, NEW c \in Conns, NEW r \in Playstates, Report(c, r[1], r[2])
    PROVE  NeverDeaf'
<1> DEFINE m == [ack |-> 0, play |-> r[1], seek |-> r[2]]
<1>1. m \in Reports /\ inbox[c] \in Seq(Reports)
    BY SyncAssumption DEF Reports, TypeOK
<1>2. /\ inbox' = [inbox EXCEPT ![c] = Append(@, m)]
      /\ outbox' = outbox /\ draft' = draft /\ mute' = mute /\ lost' = lost
    BY DEF Report, ignoreVars, jobVars
<1>3. ASSUME NEW e \in Conns, NEW n, Returned(e, n) PROVE Returned(e, n)'
    <2>1. PICK i \in 1 .. Len(inbox[e]) : inbox[e][i].ack = n
        BY <1>3 DEF Returned
    <2>2. i \in 1 .. Len(inbox'[e]) /\ inbox'[e][i] = inbox[e][i]
        BY <1>1, <1>2, <2>1, AppendKeeps DEF TypeOK
    <2> QED
        BY <2>1, <2>2 DEF Returned
<1>4. \A e \in Conns : \A n : (Drafted(e, n) => Drafted(e, n)') /\ (Sent(e, n) => Sent(e, n)')
    BY <1>2 DEF Drafted, Sent
<1> QED
    BY <1>2, <1>3, <1>4, Places, PlacesNext, NothingTaken

LEMMA HandleDeaf == ASSUME TypeOK, NeverDeaf, NEW c \in Conns, HandleState(c) PROVE NeverDeaf'
<1> DEFINE r == Head(inbox[c])
<1>1. inbox[c] \in Seq(Reports) /\ inbox[c] # <<>>
    BY DEF TypeOK, HandleState
<1>2. r = inbox[c][1] /\ r.ack \in Nat
    <2>1. r = inbox[c][1] /\ r \in Reports
        BY <1>1, TailShifts
    <2> QED
        BY <2>1 DEF Reports
<1>3. /\ inbox' = [inbox EXCEPT ![c] = Tail(@)] /\ outbox' = outbox /\ draft' = draft
      /\ mute' = [mute EXCEPT ![c] = Acked(@, r.ack)]
      /\ lost' = [lost EXCEPT ![c] = IF mute'[c] = 0 THEN {} ELSE @]
    BY DEF HandleState, TakeIgnores
<1>4. SUFFICES ASSUME NEW e \in Conns, NEW n, n = mute'[e], n # 0
               PROVE  Outstanding(e, n)' \/ n \in lost'[e]
    BY DEF NeverDeaf, Outstanding
<1>5. n = mute[e] /\ lost'[e] = lost[e] /\ (e = c => r.ack # n)
    BY <1>2, <1>3, <1>4 DEF Acked, TypeOK
<1>6. Outstanding(e, n) \/ n \in lost[e]
    BY <1>4, <1>5 DEF NeverDeaf
<1>7. ASSUME Returned(e, n) PROVE Returned(e, n)'
    <2>1. PICK i \in 1 .. Len(inbox[e]) : inbox[e][i].ack = n
        BY <1>7 DEF Returned
    <2>2. CASE e # c
        BY <1>3, <2>1, <2>2 DEF Returned, TypeOK
    <2>3. CASE e = c
        <3>1. i # 1
            BY <1>2, <1>5, <2>1, <2>3
        <3>2. i - 1 \in 1 .. Len(Tail(inbox[c])) /\ Tail(inbox[c])[i - 1].ack = n
            BY <1>1, <2>1, <2>3, <3>1, TailShifts
        <3> QED
            BY <1>3, <2>3, <3>2 DEF Returned, TypeOK
    <2> QED
        BY <2>2, <2>3
<1>8. (Drafted(e, n) => Drafted(e, n)') /\ (Sent(e, n) => Sent(e, n)')
    BY <1>3 DEF Drafted, Sent
<1> QED
    BY <1>5, <1>6, <1>7, <1>8, Places, PlacesNext

LEMMA CountDeaf ==
    ASSUME TypeOK, NeverDeaf, NEW c \in Conns, NEW d \in Conns, CountForced(c, d)
    PROVE  NeverDeaf'
<1> DEFINE f == [to |-> d, n |-> mute[d] + 1]
<1>1. draft[c] = None /\ f # None
    BY SyncAssumption DEF CountForced, TypeOK
<1>2. /\ mute' = [mute EXCEPT ![d] = @ + 1] /\ draft' = [draft EXCEPT ![c] = f]
      /\ lost' = lost /\ inbox' = inbox /\ outbox' = outbox
    BY DEF CountForced, queueVars
<1>3. SUFFICES ASSUME NEW e \in Conns, NEW n, n = mute'[e], n # 0
               PROVE  Outstanding(e, n)' \/ n \in lost'[e]
    BY DEF NeverDeaf, Outstanding
<1>4. CASE e = d
    <2>1. draft'[c] = f /\ f.to = e /\ f.n = n
        BY <1>2, <1>3, <1>4 DEF TypeOK
    <2>2. Drafted(e, n)'
        BY <1>1, <2>1 DEF Drafted
    <2> QED
        BY <2>2, PlacesNext
<1>5. CASE e # d
    <2>1. n = mute[e] /\ lost'[e] = lost[e]
        BY <1>2, <1>3, <1>5 DEF TypeOK
    <2>2. Drafted(e, n) => Drafted(e, n)'
        BY <1>1, <1>2 DEF Drafted, TypeOK
    <2>3. (Sent(e, n) => Sent(e, n)') /\ (Returned(e, n) => Returned(e, n)')
        BY <1>2 DEF Sent, Returned
    <2> QED
        BY <1>3, <2>1, <2>2, <2>3, Places, PlacesNext DEF NeverDeaf
<1> QED
    BY <1>4, <1>5

LEMMA WriteDeaf ==
    ASSUME TypeOK, NeverDeaf, NEW c \in Conns, WriteForced(c) \/ WriteFails(c)
    PROVE  NeverDeaf'
<1> DEFINE d == draft[c].to
           m == [paused |-> say[c], n |-> draft[c].n]
<1>1. draft[c] \in [to : Conns, n : Nat] /\ m \in States /\ d \in Conns
    BY DEF WriteForced, WriteFails, EndWrite, TypeOK, States
<1>2. draft' = [draft EXCEPT ![c] = None] /\ mute' = mute /\ inbox' = inbox
    BY DEF WriteForced, WriteFails, EndWrite
<1>3. \/ outbox' = [outbox EXCEPT ![d] = Append(@, m)] /\ lost' = lost
      \/ outbox' = outbox /\ lost' = [lost EXCEPT ![d] = @ \cup {draft[c].n}]
    BY DEF WriteForced, WriteFails, EndWrite
<1>4. SUFFICES ASSUME NEW e \in Conns, NEW n, n = mute'[e], n # 0
               PROVE  Outstanding(e, n)' \/ n \in lost'[e]
    BY DEF NeverDeaf, Outstanding
<1>5. Outstanding(e, n) \/ n \in lost[e]
    BY <1>2, <1>4 DEF NeverDeaf
<1>6. n \in lost[e] => n \in lost'[e]
    <2>1. lost'[e] = lost[e] \/ lost'[e] = lost[e] \cup {draft[c].n}
        BY <1>1, <1>3 DEF TypeOK
    <2> QED
        BY <2>1
<1>7. ASSUME Sent(e, n) PROVE Sent(e, n)'
    <2>1. PICK i \in 1 .. Len(outbox[e]) : outbox[e][i].n = n
        BY <1>7 DEF Sent
    <2>2. outbox[d] \in Seq(States)
        BY <1>1 DEF TypeOK
    <2>3. outbox'[e] = outbox[e] \/ (e = d /\ outbox'[e] = Append(outbox[d], m))
        BY <1>1, <1>3 DEF TypeOK
    <2>4. i \in 1 .. Len(outbox'[e]) /\ outbox'[e][i] = outbox[e][i]
        <3>1. CASE outbox'[e] = outbox[e]
            BY <2>1, <3>1
        <3>2. CASE e = d /\ outbox'[e] = Append(outbox[d], m)
            <4> HIDE DEF m
            <4>1. i \in 1 .. Len(Append(outbox[d], m)) /\ Append(outbox[d], m)[i] = outbox[d][i]
                BY <1>1, <2>1, <2>2, <3>2, AppendKeeps
            <4> QED
                BY <3>2, <4>1
        <3> QED
            BY <2>3, <3>1, <3>2
    <2> QED
        BY <2>1, <2>4 DEF Sent
<1>8. Returned(e, n) => Returned(e, n)'
    BY <1>2 DEF Returned
<1>9. ASSUME Drafted(e, n) PROVE Outstanding(e, n)' \/ n \in lost'[e]
    <2>1. PICK x \in Conns : draft[x] # None /\ draft[x].to = e /\ draft[x].n = n
        BY <1>9 DEF Drafted
    <2>2. CASE x # c
        <3>1. Drafted(e, n)'
            BY <1>2, <2>1, <2>2 DEF Drafted, TypeOK
        <3> QED
            BY <3>1, PlacesNext
    <2>3. CASE x = c /\ outbox' = [outbox EXCEPT ![d] = Append(@, m)]
        <3>1. outbox[d] \in Seq(States)
            BY <1>1 DEF TypeOK
        <3>2. outbox'[e] = Append(outbox[e], m) /\ m.n = n /\ e = d
            BY <1>1, <2>1, <2>3 DEF TypeOK
        <3>3. Len(outbox[e]) + 1 \in 1 .. Len(outbox'[e]) /\ outbox'[e][Len(outbox[e]) + 1].n = n
            BY <1>1, <3>1, <3>2, AppendKeeps
        <3>4. Sent(e, n)'
            BY <3>3 DEF Sent
        <3> QED
            BY <3>4, PlacesNext
    <2>4. CASE x = c /\ lost' = [lost EXCEPT ![d] = @ \cup {draft[c].n}]
        BY <1>1, <2>1, <2>4 DEF TypeOK
    <2> QED
        BY <1>3, <2>2, <2>3, <2>4
<1> QED
    BY <1>5, <1>6, <1>7, <1>8, <1>9, Places, PlacesNext

LEMMA TickDeaf == ASSUME TypeOK, NeverDeaf, NEW c \in Conns, WriteTick(c) PROVE NeverDeaf'
<1> DEFINE m == [paused |-> tsay[c], n |-> 0]
<1>1. m \in States /\ outbox[c] \in Seq(States)
    BY DEF WriteTick, TypeOK, States
<1>2. /\ outbox' = [outbox EXCEPT ![c] = Append(@, m)]
      /\ inbox' = inbox /\ draft' = draft /\ mute' = mute /\ lost' = lost
    BY DEF WriteTick, ignoreVars, jobVars
<1>3. ASSUME NEW e \in Conns, NEW n, Sent(e, n) PROVE Sent(e, n)'
    <2>1. PICK i \in 1 .. Len(outbox[e]) : outbox[e][i].n = n
        BY <1>3 DEF Sent
    <2>2. i \in 1 .. Len(outbox'[e]) /\ outbox'[e][i] = outbox[e][i]
        BY <1>1, <1>2, <2>1, AppendKeeps DEF TypeOK
    <2> QED
        BY <2>1, <2>2 DEF Sent
<1>4. \A e \in Conns : \A n : (Drafted(e, n) => Drafted(e, n)') /\ (Returned(e, n) => Returned(e, n)')
    BY <1>2 DEF Drafted, Returned
<1> QED
    BY <1>2, <1>3, <1>4, Places, PlacesNext, NothingTaken

\* The other steps do not touch any of this.
LEMMA IdleDeaf ==
    ASSUME NeverDeaf, UNCHANGED <<mute, lost, draft, inbox, outbox>>
    PROVE  NeverDeaf'
BY DEF NeverDeaf, Outstanding

LEMMA StepInv == IInv /\ [Next]_vars => IInv'
<1> SUFFICES ASSUME IInv, [Next]_vars PROVE IInv'
    OBVIOUS
<1> USE DEF IInv
<1>1. ASSUME NEW c \in Conns, Reader(c) PROVE IInv'
    <2>1. CASE HandleState(c)
        BY <2>1, HandleType, HandleDeaf
    <2>2. CASE Compare(c) \/ SetPaused(c) \/ StartForce(c)
        <3>1. UNCHANGED <<mute, lost, draft, inbox, outbox>>
            BY <2>2 DEF Compare, SetPaused, StartForce, ignoreVars, queueVars
        <3> QED
            BY <2>2, <3>1, ReaderType, IdleDeaf
    <2>3. CASE \E d \in Conns : CountForced(c, d)
        BY <2>3, ReaderType, CountDeaf
    <2>4. CASE WriteForced(c) \/ WriteFails(c)
        BY <2>4, WriteType, WriteDeaf
    <2> QED
        BY <1>1, <2>1, <2>2, <2>3, <2>4 DEF Reader
<1>2. ASSUME NEW c \in Conns, Ticker(c) PROVE IInv'
    <2>1. CASE WriteTick(c)
        BY <1>2, <2>1, TickerType, TickDeaf
    <2>2. CASE ReadTick(c) \/ CheckTick(c)
        <3>1. UNCHANGED <<mute, lost, draft, inbox, outbox>>
            BY <2>2 DEF ReadTick, CheckTick, ignoreVars, queueVars, jobVars
        <3> QED
            BY <1>2, <3>1, TickerType, IdleDeaf
    <2> QED
        BY <1>2, <2>1, <2>2 DEF Ticker
<1>3. ASSUME NEW c \in Conns, Client(c) PROVE IInv'
    BY <1>3, ReceiveType, ReceiveDeaf, ReportType, ReportDeaf DEF Client
<1>4. CASE UNCHANGED vars
    <2>1. TypeOK'
        BY <1>4 DEF vars, ignoreVars, queueVars, clientVars, jobVars, tickerVars, TypeOK
    <2>2. NeverDeaf'
        BY <1>4, IdleDeaf DEF vars, ignoreVars, queueVars, jobVars
    <2> QED
        BY <2>1, <2>2
<1> QED
    BY <1>1, <1>2, <1>3, <1>4 DEF Next
-----------------------------------------------------------------------------
\* The inductive invariant holds throughout.
THEOREM Invariance == Spec => []IInv
BY InitInv, StepInv, PTL DEF Spec

\* The goroutines' variables are of the right shape; what a handler is at agrees
\* with what it holds.
THEOREM TypeCorrect == Spec => []TypeOK
<1>1. IInv => TypeOK
    BY DEF IInv
<1> QED
    BY <1>1, Invariance, PTL

\* However many members, broadcasts and failed writes there are, the server
\* ignores a client only while the forced State whose acknowledgement ends this
\* is under way, or has not been written.
THEOREM NeverDeafForGood == Spec => []NeverDeaf
<1>1. IInv => NeverDeaf
    BY DEF IInv
<1> QED
    BY <1>1, Invariance, PTL
=============================================================================
