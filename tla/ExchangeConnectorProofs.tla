------------------------ MODULE ExchangeConnectorProofs ------------------------
(***************************************************************************)
(* What ExchangeConnector guarantees for any number of reconnects, symbols  *)
(* and heartbeats.                                                          *)
(***************************************************************************)
EXTENDS ExchangeConnector, FiniteSetTheorems, TLAPS

USE ConnectorAssumption

-----------------------------------------------------------------------------
(* Types *)

ReconnectType == [phase : {"idle", "backoff", "connected", "restoring"}, todo : SUBSET Keys]

\* What the body of connect leaves well-typed.
LEMMA ConnectType ==
  ASSUME TypeOK, NEW again \in BOOLEAN, Connect(again)
  PROVE  /\ isConnected' \in BOOLEAN
         /\ heartbeatTimer' \in Nat /\ beats' \in Nat /\ doubles' \in Nat
         /\ intervals' \subseteq 1 .. beats' /\ 1 .. beats \subseteq 1 .. beats'
         /\ status' \in {"none", "CONNECTED", "DEGRADED", "DISCONNECTED"}
         /\ wasConnected' \in BOOLEAN /\ byReconnect' \in BOOLEAN /\ fresh' \subseteq Keys
<1>1. beats \in Nat /\ doubles \in Nat /\ intervals \subseteq 1 .. beats
  BY DEF TypeOK
<1>2. 1 .. beats \subseteq 1 .. beats' /\ beats + 1 \in 1 .. beats'
  BY <1>1 DEF Connect
<1> QED BY <1>1, <1>2 DEF Connect

\* What the body of disconnect leaves well-typed.
LEMMA DisconnectType ==
  ASSUME TypeOK, Disconnect
  PROVE  /\ isConnected' \in BOOLEAN
         /\ intervals' \subseteq 1 .. beats
         /\ status' \in {"none", "CONNECTED", "DEGRADED", "DISCONNECTED"}
         /\ UNCHANGED <<heartbeatTimer, beats, doubles, wasConnected, byReconnect, fresh>>
  BY DEF TypeOK, Disconnect

\* A reconnect's new phase, or what it has left to do.
LEMMA PhaseType ==
  ASSUME TypeOK, NEW r \in Reconnects,
         NEW p \in {"idle", "backoff", "connected", "restoring"}
  PROVE  [reconnects EXCEPT ![r].phase = p] \in [Reconnects -> ReconnectType]
<1>1. reconnects \in [Reconnects -> ReconnectType]
  BY DEF TypeOK, ReconnectType
<1>2. [reconnects[r] EXCEPT !.phase = p] \in ReconnectType
  BY <1>1 DEF ReconnectType
<1> QED BY <1>1, <1>2

LEMMA TypeInit == Init => TypeOK
<1>1. NoReconnect \in ReconnectType
  BY DEF NoReconnect, ReconnectType
<1> SUFFICES ASSUME Init PROVE TypeOK
  OBVIOUS
<1>2. reconnects \in [Reconnects -> ReconnectType]
  BY <1>1 DEF Init
<1>3. intervals \subseteq 1 .. beats /\ pings \subseteq 1 .. beats
  BY DEF Init
<1> QED BY <1>2, <1>3 DEF Init, TypeOK, ReconnectType

LEMMA TypeStep == TypeOK /\ [Next]_vars => TypeOK'
<1> SUFFICES ASSUME TypeOK, [Next]_vars PROVE TypeOK'
  OBVIOUS
<1>0. /\ reconnects \in [Reconnects -> ReconnectType]
      /\ subscriptions \subseteq Keys /\ fresh \subseteq Keys /\ pings \subseteq 1 .. beats
  BY DEF TypeOK, ReconnectType
<1>1. CASE CallConnect
  BY <1>1, ConnectType DEF CallConnect, TypeOK
<1>2. CASE CallDisconnect
  BY <1>2, DisconnectType DEF CallDisconnect, TypeOK
<1>3. ASSUME NEW r \in Reconnects, StartReconnect(r) PROVE TypeOK'
  <2>1. reconnects' \in [Reconnects -> ReconnectType]
    BY <1>3, PhaseType DEF StartReconnect
  <2> QED BY <1>3, <2>1, DisconnectType DEF StartReconnect, TypeOK, ReconnectType
<1>4. ASSUME NEW r \in Reconnects, BackoffOver(r) PROVE TypeOK'
  <2>1. reconnects' \in [Reconnects -> ReconnectType]
    BY <1>4, PhaseType DEF BackoffOver
  <2>2. pings' \subseteq 1 .. beats' /\ UNCHANGED subscriptions /\ Connect(TRUE)
    BY <1>0, <1>4, ConnectType DEF BackoffOver
  <2> QED BY <1>0, <2>1, <2>2, ConnectType DEF TypeOK, ReconnectType
<1>5. ASSUME NEW r \in Reconnects, StartRestore(r) PROVE TypeOK'
  <2>1. [phase |-> "restoring", todo |-> subscriptions] \in ReconnectType
    BY <1>0 DEF ReconnectType
  <2>2. reconnects' \in [Reconnects -> ReconnectType]
    BY <1>0, <1>5, <2>1 DEF StartRestore
  <2> QED BY <1>5, <2>2 DEF StartRestore, link, TypeOK, ReconnectType
<1>6. ASSUME NEW r \in Reconnects, RestoreEnd(r) PROVE TypeOK'
  <2>1. reconnects' \in [Reconnects -> ReconnectType]
    BY <1>0, <1>6 DEF RestoreEnd, NoReconnect, ReconnectType
  <2> QED BY <1>6, <2>1 DEF RestoreEnd, link, TypeOK, ReconnectType
<1>7. ASSUME NEW r \in Reconnects, NEW k \in reconnects[r].todo, RestoreNext(r, k) PROVE TypeOK'
  <2>1. k \in Keys /\ Restored(k) \in Keys
    BY <1>0, <1>7 DEF ReconnectType
  <2>2. [reconnects[r] EXCEPT !.todo = @ \ {k}] \in ReconnectType
    BY <1>0 DEF ReconnectType
  <2>3. reconnects' \in [Reconnects -> ReconnectType]
    BY <1>0, <1>7, <2>2 DEF RestoreNext
  <2> QED BY <1>0, <1>7, <2>1, <2>3 DEF RestoreNext, link, TypeOK, ReconnectType
<1>8. ASSUME NEW k \in Keys, Subscribe(k) PROVE TypeOK'
  BY <1>8 DEF Subscribe, link, TypeOK
<1>9. ASSUME NEW k \in Keys, Unsubscribe(k) PROVE TypeOK'
  BY <1>9 DEF Unsubscribe, link, TypeOK
<1>10. ASSUME NEW i \in 1 .. beats, Beat(i) \/ PingAnswered(i) \/ PingFails(i) PROVE TypeOK'
  BY <1>10 DEF Beat, PingAnswered, PingFails, link, TypeOK
<1>11. CASE UNCHANGED vars
  BY <1>11 DEF vars, TypeOK
<1> QED
  BY <1>1, <1>2, <1>3, <1>4, <1>5, <1>6, <1>7, <1>8, <1>9, <1>10, <1>11 DEF Next, Advance

\* Every variable keeps its type: in particular nobody ever sees CONNECTING.
THEOREM TypeCorrect == Spec => []TypeOK
  BY TypeInit, TypeStep, PTL DEF Spec

-----------------------------------------------------------------------------
(* Heartbeats *)

\* LeaksAreCounted with what it rests on: the adapter is connected exactly while
\* the interval whose handle it has runs, and no later interval exists.
LeakInv ==
  /\ LeaksAreCounted
  /\ isConnected <=> heartbeatTimer \in intervals

LEMMA IntervalsFinite == TypeOK => IsFiniteSet(intervals)
<1> SUFFICES ASSUME TypeOK PROVE IsFiniteSet(intervals)
  OBVIOUS
<1>1. beats \in Int /\ intervals \subseteq 1 .. beats
  BY DEF TypeOK
<1>2. IsFiniteSet(1 .. beats)
  BY <1>1, FS_Interval
<1> QED BY <1>1, <1>2, FS_Subset

\* An interval started has a number of its own.
LEMMA ConnectKeepsLeaks ==
  ASSUME TypeOK, LeakInv, NEW again, Connect(again)
  PROVE  LeakInv'
<1>1. /\ beats \in Nat /\ doubles \in Nat /\ isConnected \in BOOLEAN
      /\ intervals \subseteq 1 .. beats
  BY DEF TypeOK
<1>2. IsFiniteSet(intervals)
  BY IntervalsFinite
<1>3. beats + 1 \notin intervals
  BY <1>1
<1>4. Cardinality(intervals') = Cardinality(intervals) + 1
  BY <1>2, <1>3, FS_AddElement DEF Connect
<1>5. LeaksAreCounted'
  BY <1>1, <1>4 DEF Connect, LeakInv, LeaksAreCounted
<1> QED BY <1>5 DEF Connect, LeakInv

\* A disconnect stops the one interval of a connected adapter and no other.
LEMMA DisconnectKeepsLeaks ==
  ASSUME TypeOK, LeakInv, Disconnect
  PROVE  LeakInv'
<1>1. /\ beats \in Nat /\ doubles \in Nat /\ isConnected \in BOOLEAN
      /\ intervals \subseteq 1 .. beats
  BY DEF TypeOK
<1>2. IsFiniteSet(intervals)
  BY IntervalsFinite
<1>3. CASE isConnected
  <2>1. Cardinality(intervals') = Cardinality(intervals) - 1
    BY <1>2, <1>3, FS_RemoveElement DEF Disconnect, LeakInv
  <2> QED BY <1>1, <1>3, <2>1 DEF Disconnect, LeakInv, LeaksAreCounted
<1>4. CASE ~ isConnected
  <2>1. intervals' = intervals
    BY <1>4 DEF Disconnect, LeakInv
  <2> QED BY <1>1, <1>4, <2>1 DEF Disconnect, LeakInv, LeaksAreCounted
<1> QED BY <1>1, <1>3, <1>4

LEMMA LeakInit == Init => LeakInv
  BY FS_EmptySet DEF Init, LeakInv, LeaksAreCounted

LEMMA LeakStep == TypeOK /\ LeakInv /\ [Next]_vars => LeakInv'
<1> SUFFICES ASSUME TypeOK, LeakInv, [Next]_vars PROVE LeakInv'
  OBVIOUS
<1>1. ASSUME NEW again, Connect(again) PROVE LeakInv'
  BY <1>1, ConnectKeepsLeaks
<1>2. CASE Disconnect
  BY <1>2, DisconnectKeepsLeaks
<1>3. CASE UNCHANGED link
  BY <1>3 DEF link, LeakInv, LeaksAreCounted
<1>4. CASE CallConnect \/ \E r \in Reconnects : BackoffOver(r)
  BY <1>1, <1>4 DEF CallConnect, BackoffOver
<1>5. CASE CallDisconnect \/ \E r \in Reconnects : StartReconnect(r)
  BY <1>2, <1>5 DEF CallDisconnect, StartReconnect
<1>6. ASSUME NEW r \in Reconnects, StartRestore(r) \/ RestoreEnd(r)
             \/ \E k \in reconnects[r].todo : RestoreNext(r, k)
      PROVE  LeakInv'
  BY <1>3, <1>6 DEF StartRestore, RestoreEnd, RestoreNext
<1>7. CASE \E k \in Keys : Subscribe(k) \/ Unsubscribe(k)
  BY <1>3, <1>7 DEF Subscribe, Unsubscribe
<1>8. CASE \E i \in 1 .. beats : Beat(i) \/ PingAnswered(i) \/ PingFails(i)
  BY <1>3, <1>8 DEF Beat, PingAnswered, PingFails
<1>9. CASE UNCHANGED vars
  BY <1>3, <1>9 DEF vars, link
<1> QED
  BY <1>4, <1>5, <1>6, <1>7, <1>8, <1>9 DEF Next, Advance

\* Every heartbeat that runs is the connected adapter's own or was lost by a connect
\* that met a connected adapter: there is no other way to lose one.
THEOREM LeaksCorrect == Spec => []LeaksAreCounted
<1>1. TypeOK /\ LeakInv /\ [Next]_vars => (TypeOK /\ LeakInv)'
  BY TypeStep, LeakStep
<1>2. LeakInv => LeaksAreCounted
  BY DEF LeakInv
<1> QED BY TypeInit, LeakInit, <1>1, <1>2, PTL DEF Spec

-----------------------------------------------------------------------------
(* The tracker's status *)

\* The tracker never forgets a venue, so that no routed ticker registers it anew.
StatusInv == StatusAgrees /\ (wasConnected => status # "none")

LEMMA StatusInit == Init => StatusInv
  BY DEF Init, StatusInv, StatusAgrees

LEMMA StatusStep == TypeOK /\ StatusInv /\ [Next]_vars => StatusInv'
<1> SUFFICES ASSUME TypeOK, StatusInv, [Next]_vars PROVE StatusInv'
  OBVIOUS
<1>0. isConnected \in BOOLEAN /\ wasConnected \in BOOLEAN
  BY DEF TypeOK
<1>1. ASSUME NEW again, Connect(again) PROVE StatusInv'
  BY <1>1 DEF Connect, StatusInv, StatusAgrees
<1>2. CASE Disconnect
  BY <1>0, <1>2 DEF Disconnect, StatusInv, StatusAgrees
<1>3. CASE UNCHANGED <<isConnected, wasConnected, status>>
  BY <1>3 DEF StatusInv, StatusAgrees
<1>4. CASE CallConnect \/ \E r \in Reconnects : BackoffOver(r)
  BY <1>1, <1>4 DEF CallConnect, BackoffOver
<1>5. CASE CallDisconnect \/ \E r \in Reconnects : StartReconnect(r)
  BY <1>2, <1>5 DEF CallDisconnect, StartReconnect
<1>6. ASSUME NEW r \in Reconnects, StartRestore(r) \/ RestoreEnd(r)
             \/ \E k \in reconnects[r].todo : RestoreNext(r, k)
      PROVE  StatusInv'
  BY <1>3, <1>6 DEF StartRestore, RestoreEnd, RestoreNext, link
<1>7. ASSUME NEW k \in Keys, Subscribe(k) PROVE StatusInv'
  BY <1>0, <1>7 DEF Subscribe, link, StatusInv, StatusAgrees
<1>8. CASE \E k \in Keys : Unsubscribe(k)
  BY <1>3, <1>8 DEF Unsubscribe, link
<1>9. CASE \E i \in 1 .. beats : Beat(i) \/ PingAnswered(i)
  BY <1>3, <1>9 DEF Beat, PingAnswered, link
<1>10. CASE \E i \in 1 .. beats : PingFails(i)
  BY <1>0, <1>10 DEF PingFails, link, StatusInv, StatusAgrees
<1>11. CASE UNCHANGED vars
  BY <1>3, <1>11 DEF vars
<1> QED
  BY <1>4, <1>5, <1>6, <1>7, <1>8, <1>9, <1>10, <1>11 DEF Next, Advance

\* Whatever overlaps, a connected adapter is not reported gone, and one that has
\* been connected is reported connected only while it is.
THEOREM StatusCorrect == Spec => []StatusAgrees
<1>1. TypeOK /\ StatusInv /\ [Next]_vars => (TypeOK /\ StatusInv)'
  BY TypeStep, StatusStep
<1>2. StatusInv => StatusAgrees
  BY DEF StatusInv
<1> QED BY TypeInit, StatusInit, <1>1, <1>2, PTL DEF Spec

-----------------------------------------------------------------------------
(* What a reconnect resumes *)

Resumed(k) == Restored(k) = k => k \in fresh

\* Until everything is resumed, somebody will resume it: a reconnect that has yet to
\* copy the subscriptions, or one with all that is missing in its copy.
ResumeInv ==
  byReconnect =>
    \/ \E r \in Reconnects : reconnects[r].phase = "connected"
    \/ \E r \in Reconnects :
         /\ reconnects[r].phase = "restoring"
         /\ \A k \in subscriptions : Resumed(k) \/ k \in reconnects[r].todo
    \/ \A k \in subscriptions : Resumed(k)

LEMMA ResumeInit == Init => ResumeInv
  BY DEF Init, ResumeInv

\* What leaves every reconnect alone but one that is neither connected nor restoring,
\* keeps what is subscribed, and registers nothing that it does not subscribe.
LEMMA ResumeKept ==
  ASSUME ResumeInv, byReconnect' => byReconnect,
         fresh \subseteq fresh', subscriptions' \subseteq subscriptions \cup fresh',
         \A r \in Reconnects :
           reconnects[r].phase \in {"connected", "restoring"} => reconnects'[r] = reconnects[r]
  PROVE  ResumeInv'
  BY DEF ResumeInv, Resumed, Restored

LEMMA ResumeStep == TypeOK /\ ResumeInv /\ [Next]_vars => ResumeInv'
<1> SUFFICES ASSUME TypeOK, ResumeInv, [Next]_vars PROVE ResumeInv'
  OBVIOUS
<1>0. reconnects \in [Reconnects -> ReconnectType]
  BY DEF TypeOK, ReconnectType
<1>1. CASE CallConnect
  BY <1>1 DEF CallConnect, Connect, ResumeInv
<1>2. CASE CallDisconnect
  BY <1>2, ResumeKept DEF CallDisconnect, Disconnect
<1>3. ASSUME NEW r \in Reconnects, StartReconnect(r) PROVE ResumeInv'
  <2>1. reconnects' = [reconnects EXCEPT ![r].phase = "backoff"] /\ reconnects[r].phase = "idle"
    BY <1>3 DEF StartReconnect
  <2>2. \A q \in Reconnects :
          reconnects[q].phase \in {"connected", "restoring"} => reconnects'[q] = reconnects[q]
    BY <1>0, <2>1
  <2> QED BY <1>3, <2>2, ResumeKept DEF StartReconnect, Disconnect
<1>4. ASSUME NEW r \in Reconnects, BackoffOver(r) PROVE ResumeInv'
  <2>1. reconnects'[r].phase = "connected"
    BY <1>0, <1>4 DEF BackoffOver, ReconnectType
  <2> QED BY <2>1 DEF ResumeInv
<1>5. ASSUME NEW r \in Reconnects, StartRestore(r) PROVE ResumeInv'
  <2>1. reconnects'[r].phase = "restoring" /\ reconnects'[r].todo = subscriptions
    BY <1>0, <1>5 DEF StartRestore
  <2> QED BY <1>5, <2>1 DEF StartRestore, ResumeInv
<1>6. ASSUME NEW r \in Reconnects, RestoreEnd(r) PROVE ResumeInv'
  <2>1. /\ reconnects[r].phase = "restoring" /\ reconnects[r].todo = {}
        /\ UNCHANGED <<byReconnect, subscriptions, fresh>>
        /\ \A q \in Reconnects \ {r} : reconnects'[q] = reconnects[q]
    BY <1>0, <1>6 DEF RestoreEnd, link
  <2> QED BY <2>1 DEF ResumeInv, Resumed, Restored
<1>7. ASSUME NEW r \in Reconnects, NEW k \in reconnects[r].todo, RestoreNext(r, k)
      PROVE  ResumeInv'
  <2>1. /\ reconnects[r].phase = "restoring"
        /\ reconnects'[r].phase = "restoring" /\ reconnects'[r].todo = reconnects[r].todo \ {k}
        /\ \A q \in Reconnects \ {r} : reconnects'[q] = reconnects[q]
    BY <1>0, <1>7 DEF RestoreNext, ReconnectType
  <2>2. /\ subscriptions' = subscriptions \cup {Restored(k)}
        /\ fresh' = fresh \cup {Restored(k)} /\ UNCHANGED byReconnect
    BY <1>7 DEF RestoreNext, link
  <2>3. \A j \in subscriptions' : j \in subscriptions \/ Resumed(j)'
    BY <2>2 DEF Resumed, Restored
  <2>4. \A j \in subscriptions : Resumed(j) \/ j = k => Resumed(j)'
    BY <2>2 DEF Resumed, Restored
  <2>5. CASE ~ byReconnect
    BY <2>2, <2>5 DEF ResumeInv
  <2>6. CASE \E q \in Reconnects : reconnects[q].phase = "connected"
    BY <2>1, <2>6 DEF ResumeInv
  <2>7. ASSUME NEW q \in Reconnects, reconnects[q].phase = "restoring",
               \A j \in subscriptions : Resumed(j) \/ j \in reconnects[q].todo
        PROVE  ResumeInv'
    <3>1. reconnects'[q].phase = "restoring"
      BY <2>1, <2>7
    <3>2. \A j \in subscriptions' : Resumed(j)' \/ j \in reconnects'[q].todo
      BY <2>1, <2>3, <2>4, <2>7
    <3> QED BY <3>1, <3>2 DEF ResumeInv
  <2>8. CASE \A j \in subscriptions : Resumed(j)
    BY <2>3, <2>4, <2>8 DEF ResumeInv
  <2> QED BY <2>5, <2>6, <2>7, <2>8 DEF ResumeInv
<1>8. ASSUME NEW k \in Keys, Subscribe(k) \/ Unsubscribe(k) PROVE ResumeInv'
  BY <1>8, ResumeKept DEF Subscribe, Unsubscribe, link
<1>9. ASSUME NEW i \in 1 .. beats, Beat(i) \/ PingAnswered(i) \/ PingFails(i) PROVE ResumeInv'
  BY <1>9, ResumeKept DEF Beat, PingAnswered, PingFails, link
<1>10. CASE UNCHANGED vars
  BY <1>10, ResumeKept DEF vars
<1> QED
  BY <1>1, <1>2, <1>3, <1>4, <1>5, <1>6, <1>7, <1>8, <1>9, <1>10 DEF Next, Advance

\* Reconnects that overlap each other, subscriptions made or ended during a restore
\* loop, disconnects in between: what is registered has been subscribed again on the
\* last connection once all of them have ended.
THEOREM ResumesCorrect == Spec => []ReconnectResumes
<1>1. TypeOK /\ ResumeInv /\ [Next]_vars => (TypeOK /\ ResumeInv)'
  BY TypeStep, ResumeStep
<1>2. ResumeInv => ReconnectResumes
  BY DEF ResumeInv, ReconnectResumes, Resumed
<1> QED BY TypeInit, ResumeInit, <1>1, <1>2, PTL DEF Spec

-----------------------------------------------------------------------------
(* Reconnects end *)

\* Whatever a reconnect has to restore is finite, as only finitely many subscribe calls
\* were made: Keys may be infinite.
FiniteInv ==
  IsFiniteSet(subscriptions) /\ \A r \in Reconnects : IsFiniteSet(reconnects[r].todo)

\* A reconnect under way waits or goes on, in its restore loop with fewer keys to do.
ReconnectGoesOn(r) ==
  \/ reconnects'[r] = reconnects[r]
  \/ reconnects[r].phase = "backoff" /\ reconnects'[r].phase = "connected"
  \/ reconnects[r].phase = "connected" /\ reconnects'[r].phase = "restoring"
  \/ /\ reconnects[r].phase = "restoring" /\ reconnects'[r].phase = "restoring"
     /\ Cardinality(reconnects'[r].todo) < Cardinality(reconnects[r].todo)
  \/ reconnects[r].phase = "restoring" /\ reconnects'[r].phase = "idle"
ReconnectsGoOn == \A r \in Reconnects : reconnects[r].phase # "idle" => ReconnectGoesOn(r)

LEMMA ReconnectsStep == TypeOK /\ FiniteInv /\ [Next]_vars => FiniteInv' /\ ReconnectsGoOn
<1> SUFFICES ASSUME TypeOK, FiniteInv, [Next]_vars PROVE FiniteInv' /\ ReconnectsGoOn
  OBVIOUS
<1>0. reconnects \in [Reconnects -> ReconnectType]
  BY DEF TypeOK, ReconnectType
<1>1. ASSUME UNCHANGED reconnects, \E k : subscriptions' \subseteq subscriptions \cup {k}
      PROVE  FiniteInv' /\ ReconnectsGoOn
  <2>1. PICK k : subscriptions' \subseteq subscriptions \cup {k}
    BY <1>1
  <2>2. IsFiniteSet(subscriptions')
    BY <2>1, FS_AddElement, FS_Subset DEF FiniteInv
  <2> QED BY <1>1, <2>2 DEF FiniteInv, ReconnectsGoOn, ReconnectGoesOn
<1>2. ASSUME NEW r \in Reconnects, NEW v, reconnects' = [reconnects EXCEPT ![r] = v],
             IsFiniteSet(v.todo), IsFiniteSet(subscriptions'),
             reconnects[r].phase # "idle" => ReconnectGoesOn(r)
      PROVE  FiniteInv' /\ ReconnectsGoOn
  <2>1. reconnects'[r] = v /\ \A q \in Reconnects : q # r => reconnects'[q] = reconnects[q]
    BY <1>0, <1>2
  <2> QED BY <1>2, <2>1 DEF FiniteInv, ReconnectsGoOn, ReconnectGoesOn
<1>3. ASSUME NEW r \in Reconnects, StartReconnect(r) \/ BackoffOver(r)
      PROVE  FiniteInv' /\ ReconnectsGoOn
  <2>1. PICK p \in {"backoff", "connected"} :
          /\ reconnects' = [reconnects EXCEPT ![r].phase = p] /\ subscriptions' = subscriptions
          /\ \/ reconnects[r].phase = "idle"
             \/ reconnects[r].phase = "backoff" /\ p = "connected"
    BY <1>3 DEF StartReconnect, BackoffOver
  <2> DEFINE v == [reconnects[r] EXCEPT !.phase = p]
  <2>2. v.phase = p /\ v.todo = reconnects[r].todo
    BY <1>0 DEF ReconnectType
  <2>3. reconnects' = [reconnects EXCEPT ![r] = v] /\ reconnects'[r] = v
    BY <1>0, <2>1
  <2> HIDE DEF v
  <2>4. reconnects[r].phase # "idle" => ReconnectGoesOn(r)
    BY <2>1, <2>2, <2>3 DEF ReconnectGoesOn
  <2> QED BY <1>2, <2>1, <2>2, <2>3, <2>4 DEF FiniteInv
<1>4. ASSUME NEW r \in Reconnects, StartRestore(r) PROVE FiniteInv' /\ ReconnectsGoOn
  <2> DEFINE v == [phase |-> "restoring", todo |-> subscriptions]
  <2>1. /\ reconnects' = [reconnects EXCEPT ![r] = v] /\ subscriptions' = subscriptions
        /\ reconnects[r].phase = "connected" /\ v.phase = "restoring" /\ v.todo = subscriptions
    BY <1>4 DEF StartRestore
  <2> HIDE DEF v
  <2>2. ReconnectGoesOn(r)
    BY <1>0, <2>1 DEF ReconnectGoesOn
  <2> QED BY <1>2, <2>1, <2>2 DEF FiniteInv
<1>5. ASSUME NEW r \in Reconnects, RestoreEnd(r) PROVE FiniteInv' /\ ReconnectsGoOn
  <2>1. /\ reconnects' = [reconnects EXCEPT ![r] = NoReconnect] /\ subscriptions' = subscriptions
        /\ reconnects[r].phase = "restoring"
        /\ NoReconnect.phase = "idle" /\ NoReconnect.todo = {}
    BY <1>5 DEF RestoreEnd, NoReconnect
  <2>2. ReconnectGoesOn(r)
    BY <1>0, <2>1 DEF ReconnectGoesOn
  <2> QED BY <1>2, <2>1, <2>2, FS_EmptySet DEF FiniteInv
<1>6. ASSUME NEW r \in Reconnects, NEW k \in reconnects[r].todo, RestoreNext(r, k)
      PROVE  FiniteInv' /\ ReconnectsGoOn
  <2> DEFINE v == [reconnects[r] EXCEPT !.todo = @ \ {k}]
  <2>1. /\ reconnects' = [reconnects EXCEPT ![r] = v]
        /\ subscriptions' = subscriptions \cup {Restored(k)}
        /\ reconnects[r].phase = "restoring"
    BY <1>6 DEF RestoreNext
  <2>2. v.phase = reconnects[r].phase /\ v.todo = reconnects[r].todo \ {k}
    BY <1>0 DEF ReconnectType
  <2>3. reconnects'[r] = v
    BY <1>0, <2>1
  <2> HIDE DEF v
  <2>4. IsFiniteSet(reconnects[r].todo) /\ IsFiniteSet(subscriptions')
    BY <2>1, FS_AddElement DEF FiniteInv
  <2>5. PICK T : T = reconnects[r].todo
    OBVIOUS
  <2>6. IsFiniteSet(T \ {k}) /\ Cardinality(T \ {k}) = Cardinality(T) - 1
    BY <2>4, <2>5, FS_RemoveElement
  <2>7. Cardinality(T) \in Nat
    BY <2>4, <2>5, FS_CardinalityType
  <2>8. IsFiniteSet(v.todo) /\ Cardinality(v.todo) < Cardinality(reconnects[r].todo)
    BY <2>2, <2>5, <2>6, <2>7
  <2>9. ReconnectGoesOn(r)
    BY <2>1, <2>2, <2>3, <2>8 DEF ReconnectGoesOn
  <2> QED BY <1>2, <2>1, <2>4, <2>8, <2>9
<1>7. ASSUME NEW k \in Keys, Subscribe(k) \/ Unsubscribe(k)
      PROVE  FiniteInv' /\ ReconnectsGoOn
  BY <1>1, <1>7 DEF Subscribe, Unsubscribe
<1>8. ASSUME UNCHANGED <<subscriptions, reconnects>> PROVE FiniteInv' /\ ReconnectsGoOn
  BY <1>1, <1>8
<1> QED
  BY <1>3, <1>4, <1>5, <1>6, <1>7, <1>8
  DEF Next, Advance, CallConnect, CallDisconnect, Beat, PingAnswered, PingFails, vars

\* Nothing sets a reconnect under way back or gives it more to do: neither another
\* reconnect nor a disconnect during its backoff, nor subscriptions made during its
\* restore loop, which goes over a copy.
THEOREM ReconnectsAdvance ==
  Spec => [](\A r \in Reconnects : IsFiniteSet(reconnects[r].todo)) /\ [][ReconnectsGoOn]_vars
<1> DEFINE Inv == TypeOK /\ FiniteInv
           Finite == \A r \in Reconnects : IsFiniteSet(reconnects[r].todo)
<1>1. Init => Inv
  BY TypeInit, FS_EmptySet DEF Init, FiniteInv, NoReconnect
<1>2. Inv /\ [Next]_vars => Inv'
  BY TypeStep, ReconnectsStep
<1>3. Inv /\ [Next]_vars => [ReconnectsGoOn]_vars
  BY ReconnectsStep
<1>4. Inv => Finite
  BY DEF FiniteInv
<1> QED BY <1>1, <1>2, <1>3, <1>4, PTL DEF Spec
================================================================================
