---------------------------- MODULE EventBusProofs ----------------------------
(***************************************************************************)
(* Proofs about EventBus, for any calls, messages, subscribers and number   *)
(* of connections, with or without a stream.                                *)
(***************************************************************************)
EXTENDS EventBus, TLAPS

-----------------------------------------------------------------------------
(* Types *)

CallType == [phase : {"idle", "dialing", "managing", "draining", "closing"},
             conn : 0 .. MaxConns]
PubType == [phase : {"new", "sent", "settled"}, via : 0 .. MaxConns]

\* What Hear leaves is counts again, one more or the same.
LEMMA HearCounts ==
  ASSUME TypeOK, NEW S, NEW m \in Messages, Hear(S, m)
  PROVE  /\ heard' \in [Subs -> [Messages -> Nat]]
         /\ \A s \in Subs, n \in Messages :
              heard'[s][n] = IF s \in S /\ n = m THEN heard[s][n] + 1 ELSE heard[s][n]
<1>1. \A s \in Subs : heard[s] \in [Messages -> Nat]
  BY DEF TypeOK
<1>2. \A s \in Subs :
        heard'[s] = IF s \in S THEN [heard[s] EXCEPT ![m] = @ + 1] ELSE heard[s]
  BY DEF Hear
<1>3. ASSUME NEW s \in Subs PROVE heard'[s] \in [Messages -> Nat]
  <2>1. heard[s][m] + 1 \in Nat
    BY <1>1
  <2>2. [heard[s] EXCEPT ![m] = heard[s][m] + 1] \in [Messages -> Nat]
    BY <1>1, <2>1
  <2> QED BY <1>1, <1>2, <2>2
<1> QED BY <1>1, <1>2, <1>3 DEF Hear

\* The steps of connect and disconnect leave the messages alone, the other steps
\* the calls.
BusStep ==
  \/ \E k \in Calls : StartConnect(k)
  \/ \E k \in Calls, c \in Conns : Dialed(k, c)
  \/ \E k \in Calls : Managed(k)
  \/ \E k \in Calls : ConnectFails(k)
  \/ \E k \in Calls : StartDisconnect(k)
  \/ \E k \in Calls : Drained(k)
  \/ \E k \in Calls : DrainFails(k)
  \/ \E k \in Calls : Closed(k)
MessageStep ==
  \/ \E c \in Conns : LinkLost(c)
  \/ \E s \in Subs : Subscribe(s)
  \/ \E s \in Subs : Unsubscribe(s)
  \/ \E m \in Messages : Publish(m)
  \/ \E m \in Messages, c \in Conns : ServerReceives(m, c)
  \/ \E m \in Messages : Acknowledged(m)
  \/ \E m \in Messages : PublishFails(m)

LEMMA Steps == Next => BusStep \/ MessageStep
  BY DEF Next, BusStep, MessageStep

LEMMA TypeBus == TypeOK /\ BusStep => TypeOK'
<1> SUFFICES ASSUME TypeOK, BusStep PROVE TypeOK'
  OBVIOUS
<1>0. /\ calls \in [Calls -> CallType] /\ NoCall \in CallType
      /\ Conns \subseteq 0 .. MaxConns /\ MaxConns \in Nat
      /\ 0 \in 0 .. MaxConns
  BY EventBusAssumption DEF TypeOK, CallType, NoCall, Conns
<1>1. UNCHANGED <<subs, msgVars>>
  BY DEF BusStep, StartConnect, Dialed, Managed, ConnectFails, StartDisconnect, Drained,
         DrainFails, Closed
<1>2. /\ subs' \in [Subs -> SUBSET Places]
      /\ heard' \in [Subs -> [Messages -> Nat]]
      /\ pub' \in [Messages -> PubType]
      /\ wire' \subseteq Messages \X Conns
      /\ stored' \subseteq Messages
  BY <1>1 DEF TypeOK, PubType, msgVars
<1>3. ASSUME NEW k \in Calls, End(k) PROVE calls' \in [Calls -> CallType]
  BY <1>0, <1>3 DEF End
<1>4. ASSUME NEW k \in Calls, NEW p \in {"dialing", "draining"}, NEW c \in 0 .. MaxConns,
             Begin(k, p, c)
      PROVE  calls' \in [Calls -> CallType] /\ overlapped' \in BOOLEAN
  BY <1>0, <1>4 DEF Begin, CallType, TypeOK
<1>5. ASSUME NEW k \in Calls, StartConnect(k) PROVE TypeOK'
  BY <1>0, <1>2, <1>4, <1>5 DEF StartConnect, TypeOK, CallType, PubType
<1>6. ASSUME NEW k \in Calls, NEW c \in Conns, Dialed(k, c) PROVE TypeOK'
  <2>1. calls' \in [Calls -> CallType]
    BY <1>0, <1>6 DEF Dialed, CallType
  <2> QED BY <1>0, <1>2, <1>6, <2>1 DEF Dialed, TypeOK, CallType, PubType
<1>7. ASSUME NEW k \in Calls, Managed(k) PROVE TypeOK'
  BY <1>0, <1>2, <1>3, <1>7 DEF Managed, TypeOK, CallType, PubType
<1>8. ASSUME NEW k \in Calls, ConnectFails(k) PROVE TypeOK'
  BY <1>0, <1>2, <1>3, <1>8 DEF ConnectFails, TypeOK, CallType, PubType
<1>9. ASSUME NEW k \in Calls, StartDisconnect(k) PROVE TypeOK'
  <2>1. nc \in 0 .. MaxConns
    BY DEF TypeOK
  <2>2. calls' \in [Calls -> CallType] /\ overlapped' \in BOOLEAN
    BY <1>4, <1>9, <2>1 DEF StartDisconnect
  <2> QED BY <1>0, <1>2, <1>9, <2>2 DEF StartDisconnect, TypeOK, CallType, PubType
<1>10. ASSUME NEW k \in Calls, Drained(k) PROVE TypeOK'
  <2>1. calls' \in [Calls -> CallType]
    BY <1>0, <1>3, <1>10 DEF Drained, CallType
  <2>2. link' \in [Conns -> {"unborn", "open", "draining", "closed"}]
    BY <1>10 DEF Drained, TypeOK
  <2> QED BY <1>0, <1>2, <1>10, <2>1, <2>2 DEF Drained, TypeOK, CallType, PubType
<1>11. ASSUME NEW k \in Calls, DrainFails(k) PROVE TypeOK'
  BY <1>0, <1>2, <1>3, <1>11 DEF DrainFails, TypeOK, CallType, PubType
<1>12. ASSUME NEW k \in Calls, Closed(k) PROVE TypeOK'
  BY <1>0, <1>2, <1>3, <1>12 DEF Closed, TypeOK, CallType, PubType
<1> QED BY <1>5, <1>6, <1>7, <1>8, <1>9, <1>10, <1>11, <1>12 DEF BusStep

LEMMA TypeMessage == TypeOK /\ MessageStep => TypeOK'
<1> SUFFICES ASSUME TypeOK, MessageStep PROVE TypeOK'
  OBVIOUS
<1>0. pub \in [Messages -> PubType] /\ Conns \subseteq 0 .. MaxConns
  BY EventBusAssumption DEF TypeOK, PubType, Conns
<1>1. UNCHANGED busVars
  BY DEF MessageStep, LinkLost, Subscribe, Unsubscribe, Publish, ServerReceives,
         Acknowledged, PublishFails
<1>2. /\ nc' \in 0 .. MaxConns /\ js' \in 0 .. MaxConns
      /\ isConnected' \in BOOLEAN /\ overlapped' \in BOOLEAN
      /\ calls' \in [Calls -> CallType]
  BY <1>1 DEF busVars, TypeOK, CallType
<1>3. ASSUME NEW c \in Conns, LinkLost(c) PROVE TypeOK'
  BY <1>2, <1>3 DEF LinkLost, TypeOK, CallType
<1>4. ASSUME NEW s \in Subs, Subscribe(s) PROVE TypeOK'
  <2>1. nc # 0 => nc \in Places
    BY DEF TypeOK, Places, Conns
  <2>2. subs' \in [Subs -> SUBSET Places]
    BY <1>4, <2>1 DEF Subscribe, TypeOK, Places
  <2> QED BY <1>2, <1>4, <2>2 DEF Subscribe, TypeOK, CallType, msgVars
<1>5. ASSUME NEW s \in Subs, Unsubscribe(s) PROVE TypeOK'
  BY <1>2, <1>5 DEF Unsubscribe, TypeOK, CallType, msgVars
<1>6. ASSUME NEW m \in Messages, Emit(m)
      PROVE  heard' \in [Subs -> [Messages -> Nat]] /\ pub' \in [Messages -> PubType]
  <2>1. heard' \in [Subs -> [Messages -> Nat]]
    BY <1>6, HearCounts DEF Emit
  <2> QED BY <1>0, <1>6, <2>1 DEF Emit, PubType
<1>7. ASSUME NEW m \in Messages, Publish(m) PROVE TypeOK'
  <2>1. CASE isConnected /\ js # 0 /\ link[js] = "open"
    <3>1. js \in Conns
      BY <2>1 DEF TypeOK, Conns
    <3>2. pub' \in [Messages -> PubType] /\ wire' \subseteq Messages \X Conns
          /\ UNCHANGED heard
      BY <1>0, <1>7, <2>1, <3>1 DEF Publish, PubType, TypeOK
    <3> QED BY <1>2, <1>7, <3>2 DEF Publish, TypeOK, CallType, PubType
  <2>2. CASE ~ (isConnected /\ js # 0 /\ link[js] = "open")
    BY <1>2, <1>6, <1>7, <2>2 DEF Publish, TypeOK, CallType, PubType
  <2> QED BY <2>1, <2>2
<1>8. ASSUME NEW m \in Messages, NEW c \in Conns, ServerReceives(m, c) PROVE TypeOK'
  <2>1. heard' \in [Subs -> [Messages -> Nat]]
    BY <1>8, HearCounts DEF ServerReceives
  <2> QED BY <1>2, <1>8, <2>1 DEF ServerReceives, TypeOK, CallType
<1>9. ASSUME NEW m \in Messages, Acknowledged(m) PROVE TypeOK'
  <2>1. pub' \in [Messages -> PubType]
    BY <1>0, <1>9 DEF Acknowledged, PubType
  <2> QED BY <1>2, <1>9, <2>1 DEF Acknowledged, TypeOK, CallType, PubType
<1>10. ASSUME NEW m \in Messages, PublishFails(m) PROVE TypeOK'
  BY <1>2, <1>6, <1>10 DEF PublishFails, TypeOK, CallType, PubType
<1> QED BY <1>3, <1>4, <1>5, <1>7, <1>8, <1>9, <1>10 DEF MessageStep

LEMMA TypeStutter == TypeOK /\ UNCHANGED vars => TypeOK'
  BY DEF vars, TypeOK

LEMMA TypeInit == Init => TypeOK
<1> SUFFICES ASSUME Init PROVE TypeOK
  OBVIOUS
<1>1. 0 \in 0 .. MaxConns
  BY EventBusAssumption
<1>2. NoCall \in CallType /\ NewMessage \in PubType
  BY <1>1 DEF NoCall, CallType, NewMessage, PubType
<1>3. [m \in Messages |-> 0] \in [Messages -> Nat]
  OBVIOUS
<1> QED BY <1>1, <1>2, <1>3 DEF Init, TypeOK, CallType, PubType

\* Every variable of the bus keeps its type.
THEOREM TypeCorrect == Spec => []TypeOK
<1>1. TypeOK /\ [Next]_vars => TypeOK'
  BY Steps, TypeBus, TypeMessage, TypeStutter
<1> QED BY TypeInit, <1>1, PTL DEF Spec

-----------------------------------------------------------------------------
(* At most once *)

\* A subscriber is registered in one place, so no message reaches it twice; what
\* that rests on is which of its two ways a heard message has left behind.
OneWay ==
  /\ \A s \in Subs : \A p, q \in subs[s] : p = q
  /\ \A w \in wire : pub[w[1]].phase # "new" /\ w[2] = pub[w[1]].via
  /\ \A s \in Subs, m \in Messages :
       /\ heard[s][m] <= 1
       /\ Memory \in subs[s] /\ heard[s][m] = 1 => pub[m].phase = "settled"
       /\ heard[s][m] = 1 /\ (\E d \in subs[s] : d # Memory) =>
            pub[m].phase # "new" /\ \A w \in wire : w[1] # m

\* A count is a number, so at most one is none or one.
LEMMA HeardOnce ==
  ASSUME TypeOK, OneWay, NEW s \in Subs, NEW m \in Messages
  PROVE  heard[s][m] = 0 \/ heard[s][m] = 1
<1>1. heard[s][m] \in Nat
  BY DEF TypeOK
<1>2. heard[s][m] <= 1
  BY DEF OneWay
<1> QED BY <1>1, <1>2

\* The steps that touch no message and no registration.
LEMMA WayKept ==
  OneWay /\ UNCHANGED <<subs, heard, pub>> /\ wire' \subseteq wire => OneWay'
  BY DEF OneWay

\* What is emitted in memory reaches only those registered there, and those have
\* not heard it while its publish is under way.
LEMMA WayEmit ==
  ASSUME TypeOK, OneWay, NEW m \in Messages, pub[m].phase # "settled",
         Emit(m), UNCHANGED <<subs, wire>>
  PROVE  OneWay'
<1> DEFINE S == {s \in Subs : Memory \in subs[s]}
<1>1. Hear(S, m)
  BY DEF Emit
<1>2. \A s \in Subs, n \in Messages :
        heard'[s][n] = IF s \in S /\ n = m THEN heard[s][n] + 1 ELSE heard[s][n]
  BY <1>1, HearCounts
<1>3. \A n \in Messages : /\ pub'[n].via = pub[n].via
                           /\ pub'[n].phase = IF n = m THEN "settled" ELSE pub[n].phase
  BY DEF Emit, TypeOK
<1>4. \A s \in S : heard[s][m] = 0
  BY HeardOnce DEF OneWay
<1>5. (\A s \in Subs : \A p, q \in subs[s] : p = q)'
  BY DEF OneWay
<1>6. (\A w \in wire : pub[w[1]].phase # "new" /\ w[2] = pub[w[1]].via)'
  BY <1>3 DEF OneWay, TypeOK
<1>7. ASSUME NEW s \in Subs, NEW n \in Messages
      PROVE  ( /\ heard[s][n] <= 1
               /\ Memory \in subs[s] /\ heard[s][n] = 1 => pub[n].phase = "settled"
               /\ heard[s][n] = 1 /\ (\E d \in subs[s] : d # Memory) =>
                    pub[n].phase # "new" /\ \A w \in wire : w[1] # n )'
  <2>1. CASE s \in S /\ n = m
    <3>1. heard'[s][n] = 1 /\ pub'[n].phase = "settled"
      BY <1>2, <1>3, <1>4, <2>1
    <3>2. ~ \E d \in subs[s] : d # Memory
      BY <2>1 DEF OneWay
    <3> QED BY <3>1, <3>2
  <2>2. CASE ~ (s \in S /\ n = m)
    <3>1. heard'[s][n] = heard[s][n]
      BY <1>2, <2>2
    <3> QED BY <1>3, <3>1 DEF OneWay
  <2> QED BY <2>1, <2>2
<1> QED BY <1>5, <1>6, <1>7 DEF OneWay

LEMMA WaySubscribe ==
  ASSUME TypeOK, OneWay, NEW s \in Subs, Subscribe(s) \/ Unsubscribe(s)
  PROVE  OneWay'
<1>1. UNCHANGED <<heard, pub, wire>>
  BY DEF Subscribe, Unsubscribe, msgVars
<1>2. \A t \in Subs : t # s => subs'[t] = subs[t]
  BY DEF Subscribe, Unsubscribe, TypeOK
<1>3. \A p, q \in subs'[s] : p = q
  BY DEF Subscribe, Unsubscribe, TypeOK
<1>4. subs'[s] = {} \/ \A m \in Messages : heard[s][m] = 0
  BY DEF Subscribe, Unsubscribe, TypeOK
<1> QED BY <1>1, <1>2, <1>3, <1>4 DEF OneWay

LEMMA WayPublish ==
  ASSUME TypeOK, OneWay, NEW m \in Messages, Publish(m)
  PROVE  OneWay'
<1>1. CASE isConnected /\ js # 0 /\ link[js] = "open"
  <2>1. /\ pub[m].phase = "new"
        /\ wire' = wire \cup {<<m, js>>}
        /\ UNCHANGED <<subs, heard>>
    BY <1>1 DEF Publish
  <2>2. \A n \in Messages : pub'[n] = IF n = m THEN [phase |-> "sent", via |-> js] ELSE pub[n]
    BY <1>1 DEF Publish, TypeOK
  <2>3. \A w \in wire : w[1] # m /\ w[1] \in Messages
    BY <2>1 DEF OneWay, TypeOK
  <2>4. (\A w \in wire : pub[w[1]].phase # "new" /\ w[2] = pub[w[1]].via)'
    BY <2>1, <2>2, <2>3 DEF OneWay
  <2>5. \A t \in Subs : heard[t][m] = 1 => subs[t] = {}
    BY <2>1 DEF OneWay
  <2> QED BY <2>1, <2>2, <2>4, <2>5 DEF OneWay
<1>2. CASE ~ (isConnected /\ js # 0 /\ link[js] = "open")
  BY <1>2, WayEmit DEF Publish
<1> QED BY <1>1, <1>2

LEMMA WayReceive ==
  ASSUME TypeOK, OneWay, NEW m \in Messages, NEW c \in Conns, ServerReceives(m, c)
  PROVE  OneWay'
<1>1. PICK S \in SUBSET {s \in Subs : \E d \in subs[s] : d # Memory /\ link[d] # "closed"} :
        Hear(S, m)
  BY DEF ServerReceives
<1>2. /\ <<m, c>> \in wire /\ wire' = wire \ {<<m, c>>}
      /\ UNCHANGED <<subs, pub>>
  BY DEF ServerReceives
<1>3. \A s \in Subs, n \in Messages :
        heard'[s][n] = IF s \in S /\ n = m THEN heard[s][n] + 1 ELSE heard[s][n]
  BY <1>1, HearCounts
<1>4. \A s \in S : heard[s][m] = 0
  <2> SUFFICES ASSUME NEW s \in S PROVE heard[s][m] = 0
    OBVIOUS
  <2>1. s \in Subs /\ \E d \in subs[s] : d # Memory
    BY <1>1
  <2>2. heard[s][m] # 1
    BY <1>2, <2>1 DEF OneWay
  <2> QED BY <2>1, <2>2, HeardOnce
<1>5. \A w \in wire' : w \in wire /\ w[1] # m
  BY <1>2 DEF OneWay, TypeOK
<1>6. ASSUME NEW s \in Subs, NEW n \in Messages
      PROVE  ( /\ heard[s][n] <= 1
               /\ Memory \in subs[s] /\ heard[s][n] = 1 => pub[n].phase = "settled"
               /\ heard[s][n] = 1 /\ (\E d \in subs[s] : d # Memory) =>
                    pub[n].phase # "new" /\ \A w \in wire : w[1] # n )'
  <2>1. CASE s \in S /\ n = m
    <3>1. heard'[s][n] = 1 /\ Memory \notin subs[s]
      BY <1>1, <1>3, <1>4, <2>1 DEF OneWay
    <3>2. pub[n].phase # "new"
      BY <1>2, <2>1 DEF OneWay
    <3> QED BY <1>2, <1>5, <2>1, <3>1, <3>2
  <2>2. CASE ~ (s \in S /\ n = m)
    BY <1>2, <1>3, <1>5, <2>2 DEF OneWay
  <2> QED BY <2>1, <2>2
<1> QED BY <1>2, <1>5, <1>6 DEF OneWay

LEMMA WayAcknowledged ==
  ASSUME TypeOK, OneWay, NEW m \in Messages, Acknowledged(m)
  PROVE  OneWay'
<1>1. \A n \in Messages : /\ pub'[n].via = pub[n].via
                           /\ pub'[n].phase = IF n = m THEN "settled" ELSE pub[n].phase
  BY DEF Acknowledged, TypeOK
<1>2. UNCHANGED <<subs, heard, wire>>
  BY DEF Acknowledged
<1>3. \A w \in wire : w[1] \in Messages
  BY DEF TypeOK
<1> QED BY <1>1, <1>2, <1>3 DEF OneWay

LEMMA OneWayStep == TypeOK /\ OneWay /\ [Next]_vars => OneWay'
<1> SUFFICES ASSUME TypeOK, OneWay, [Next]_vars PROVE OneWay'
  OBVIOUS
<1>1. CASE BusStep
  <2>1. UNCHANGED <<subs, heard, pub, wire>>
    BY <1>1 DEF BusStep, msgVars, StartConnect, Dialed, Managed, ConnectFails,
                StartDisconnect, Drained, DrainFails, Closed
  <2> QED BY <2>1, WayKept
<1>2. CASE UNCHANGED vars
  BY <1>2, WayKept DEF vars
<1>3. ASSUME NEW c \in Conns, LinkLost(c) PROVE OneWay'
  BY <1>3, WayKept DEF LinkLost
<1>4. ASSUME NEW m \in Messages, PublishFails(m) PROVE OneWay'
  BY <1>4, WayEmit DEF PublishFails
<1>5. CASE MessageStep
  BY <1>3, <1>4, <1>5, WaySubscribe, WayPublish, WayReceive, WayAcknowledged
     DEF MessageStep
<1> QED BY <1>1, <1>2, <1>5, Steps

\* No subscriber hears a message twice.
THEOREM AtMostOnceCorrect == Spec => []AtMostOnce
<1>1. Init => OneWay
  BY DEF Init, OneWay
<1>2. OneWay => AtMostOnce
  BY DEF OneWay, AtMostOnce
<1> QED BY <1>1, <1>2, TypeCorrect, OneWayStep, PTL DEF Spec

-----------------------------------------------------------------------------
(* Connect and disconnect *)

\* One call at a time, unless the history says otherwise, and what isConnected
\* then stands for.
OneOwner ==
  /\ js = nc
  /\ ~ overlapped =>
       /\ \A k, l \in Calls :
            calls[k].phase # "idle" /\ calls[l].phase # "idle" => k = l
       /\ \A k \in Calls : calls[k].phase = "managing" => nc # 0
       /\ isConnected => nc # 0

\* A call that begins while none is under way is the only one.
LEMMA OwnerBegins ==
  ASSUME TypeOK, OneOwner, NEW k \in Calls, NEW p, p # "managing", NEW c, Begin(k, p, c),
         UNCHANGED <<nc, js, isConnected>>
  PROVE  OneOwner'
<1>1. \A l \in Calls : calls'[l] = IF l = k THEN [phase |-> p, conn |-> c] ELSE calls[l]
  BY DEF Begin, TypeOK
<1>2. ~ overlapped' => ~ overlapped /\ \A l \in Calls : calls[l].phase = "idle"
  BY DEF Begin
<1> QED BY <1>1, <1>2 DEF OneOwner

\* A call that goes on or ends leaves no more calls under way than there were.
LEMMA OwnerGoesOn ==
  ASSUME TypeOK, OneOwner, NEW k \in Calls, calls[k].phase # "idle",
         NEW r, r.phase = "managing" => nc' # 0 \/ overlapped,
         calls' = [calls EXCEPT ![k] = r],
         js' = nc', nc' = 0 => ~ isConnected' \/ overlapped, UNCHANGED overlapped
  PROVE  OneOwner'
<1>1. \A l \in Calls : calls'[l] = IF l = k THEN r ELSE calls[l]
  BY DEF TypeOK
<1>2. ~ overlapped => \A l \in Calls : l # k => calls[l].phase = "idle"
  BY DEF OneOwner
<1> QED BY <1>1, <1>2 DEF OneOwner

LEMMA OneOwnerStep == TypeOK /\ OneOwner /\ [Next]_vars => OneOwner'
<1> SUFFICES ASSUME TypeOK, OneOwner, [Next]_vars PROVE OneOwner'
  OBVIOUS
<1>1. CASE MessageStep \/ UNCHANGED vars
  <2>1. UNCHANGED busVars
    BY <1>1 DEF MessageStep, LinkLost, Subscribe, Unsubscribe, Publish, ServerReceives,
                Acknowledged, PublishFails, vars, busVars
  <2> QED BY <2>1 DEF OneOwner, busVars
<1>2. ASSUME NEW k \in Calls, StartConnect(k) PROVE OneOwner'
  BY <1>2, OwnerBegins DEF StartConnect
<1>3. ASSUME NEW k \in Calls, NEW c \in Conns, Dialed(k, c) PROVE OneOwner'
  <2> DEFINE r == [phase |-> "managing", conn |-> c]
  <2>1. c # 0
    BY DEF Conns
  <2>2. /\ calls[k].phase # "idle" /\ nc' = c /\ js' = c
        /\ UNCHANGED overlapped /\ calls' = [calls EXCEPT ![k] = r]
    BY <1>3 DEF Dialed
  <2> QED BY <2>1, <2>2, OwnerGoesOn
<1>4. ASSUME NEW k \in Calls, Managed(k) PROVE OneOwner'
  <2>1. /\ calls[k].phase = "managing" /\ UNCHANGED <<nc, js, overlapped>>
        /\ calls' = [calls EXCEPT ![k] = NoCall] /\ NoCall.phase # "managing"
    BY <1>4 DEF Managed, End, NoCall
  <2>2. nc = 0 => overlapped
    BY <2>1 DEF OneOwner
  <2> QED BY <2>1, <2>2, OwnerGoesOn DEF OneOwner
<1>5. ASSUME NEW k \in Calls, ConnectFails(k) \/ DrainFails(k) \/ Closed(k) PROVE OneOwner'
  <2>1. /\ calls[k].phase # "idle" /\ UNCHANGED overlapped /\ js' = nc'
        /\ calls' = [calls EXCEPT ![k] = NoCall] /\ NoCall.phase # "managing"
    BY <1>5 DEF ConnectFails, DrainFails, Closed, End, NoCall, OneOwner
  <2>2. nc' = 0 => ~ isConnected' \/ overlapped
    BY <1>5 DEF ConnectFails, DrainFails, Closed, OneOwner
  <2> QED BY <2>1, <2>2, OwnerGoesOn
<1>6. ASSUME NEW k \in Calls, StartDisconnect(k) PROVE OneOwner'
  BY <1>6, OwnerBegins DEF StartDisconnect
<1>7. ASSUME NEW k \in Calls, Drained(k) PROVE OneOwner'
  <2> DEFINE r == IF nc = 0 THEN NoCall ELSE [calls[k] EXCEPT !.phase = "closing"]
  <2>1. /\ calls[k].phase = "draining" /\ UNCHANGED <<nc, js, isConnected, overlapped>>
        /\ calls' = [calls EXCEPT ![k] = r]
    BY <1>7 DEF Drained, End
  <2>2. r.phase # "managing"
    BY DEF NoCall, TypeOK
  <2>3. js' = nc' /\ (nc' = 0 => ~ isConnected' \/ overlapped)
    BY <2>1 DEF OneOwner
  <2> HIDE DEF r
  <2> QED BY <2>1, <2>2, <2>3, OwnerGoesOn
<1>8. CASE BusStep
  BY <1>2, <1>3, <1>4, <1>5, <1>6, <1>7, <1>8 DEF BusStep
<1> QED BY <1>1, <1>8, Steps

\* A bus whose connects and disconnects do not overlap has its client whenever it
\* says it is connected.
THEOREM LiveHasClientCorrect == Spec => []LiveHasClient
<1>1. Init => OneOwner
  BY DEF Init, OneOwner, NoCall
<1>2. OneOwner => LiveHasClient
  BY DEF OneOwner, LiveHasClient
<1> QED BY <1>1, <1>2, TypeCorrect, OneOwnerStep, PTL DEF Spec

-----------------------------------------------------------------------------
(* What disconnect forgets *)

\* A disconnect that drains serially drains this.nc, and has closed it once it is
\* past the drain.
ClosesItsOwn ==
  ~ overlapped =>
    \A k \in Calls :
      /\ calls[k].phase = "draining" => nc # 0 /\ calls[k].conn = nc
      /\ calls[k].phase = "closing" => nc # 0 /\ link[nc] = "closed"

\* The steps of the messages close connections and open none.
LEMMA MessageLinks ==
  ASSUME TypeOK, MessageStep \/ UNCHANGED vars
  PROVE  /\ UNCHANGED <<nc, calls, overlapped>>
         /\ \A c \in Conns : link[c] = "closed" => link'[c] = "closed"
<1>1. UNCHANGED busVars
  BY DEF MessageStep, LinkLost, Subscribe, Unsubscribe, Publish, ServerReceives,
         Acknowledged, PublishFails, vars, busVars
<1>2. ASSUME NEW d \in Conns, LinkLost(d)
      PROVE  \A c \in Conns : link[c] = "closed" => link'[c] = "closed"
  BY <1>2 DEF LinkLost, TypeOK
<1>3. (\E d \in Conns : LinkLost(d)) \/ UNCHANGED link
  BY DEF MessageStep, Subscribe, Unsubscribe, Publish, ServerReceives, Acknowledged,
         PublishFails, vars
<1> QED BY <1>1, <1>2, <1>3 DEF busVars

LEMMA ClosesItsOwnStep ==
  TypeOK /\ OneOwner /\ ClosesItsOwn /\ [Next]_vars => ClosesItsOwn'
<1> SUFFICES ASSUME TypeOK, OneOwner, ClosesItsOwn, [Next]_vars PROVE ClosesItsOwn'
  OBVIOUS
<1>0. calls \in [Calls -> CallType] /\ (nc # 0 => nc \in Conns)
  BY DEF TypeOK, CallType, Conns
<1>1. CASE MessageStep \/ UNCHANGED vars
  BY <1>0, <1>1, MessageLinks DEF ClosesItsOwn
<1>2. ASSUME NEW k \in Calls, calls[k].phase # "idle", UNCHANGED overlapped,
             NEW r, calls' = [calls EXCEPT ![k] = r],
             ~ overlapped => r.phase \notin {"draining", "closing"}
      PROVE  ClosesItsOwn'
  <2>1. ~ overlapped => \A l \in Calls : l # k => calls[l].phase = "idle"
    BY <1>2 DEF OneOwner
  <2>2. \A l \in Calls : calls'[l] = IF l = k THEN r ELSE calls[l]
    BY <1>0, <1>2
  <2> QED BY <1>2, <2>1, <2>2 DEF ClosesItsOwn
<1>3. ASSUME NEW k \in Calls, calls[k].phase # "idle", UNCHANGED overlapped, End(k)
      PROVE  ClosesItsOwn'
  <2>1. calls' = [calls EXCEPT ![k] = NoCall] /\ NoCall.phase = "idle"
    BY <1>3 DEF End, NoCall
  <2> QED BY <1>2, <1>3, <2>1
<1>4. ASSUME NEW k \in Calls, NEW p, NEW c, Begin(k, p, c),
             p # "closing", p = "draining" => nc' # 0 /\ c = nc'
      PROVE  ClosesItsOwn'
  <2>1. \A l \in Calls : calls'[l] = IF l = k THEN [phase |-> p, conn |-> c] ELSE calls[l]
    BY <1>0, <1>4 DEF Begin
  <2>2. ~ overlapped' => \A l \in Calls : calls[l].phase = "idle"
    BY <1>4 DEF Begin
  <2> QED BY <1>4, <2>1, <2>2 DEF ClosesItsOwn
<1>5. ASSUME NEW k \in Calls, StartConnect(k) PROVE ClosesItsOwn'
  BY <1>4, <1>5 DEF StartConnect
<1>6. ASSUME NEW k \in Calls, NEW c \in Conns, Dialed(k, c) PROVE ClosesItsOwn'
  <2> DEFINE r == [phase |-> "managing", conn |-> c]
  <2>1. /\ calls[k].phase # "idle" /\ UNCHANGED overlapped
        /\ calls' = [calls EXCEPT ![k] = r] /\ r.phase = "managing"
    BY <1>6 DEF Dialed
  <2> HIDE DEF r
  <2> QED BY <1>2, <2>1
<1>7. ASSUME NEW k \in Calls, Managed(k) \/ ConnectFails(k) \/ DrainFails(k) \/ Closed(k)
      PROVE  ClosesItsOwn'
  BY <1>3, <1>7 DEF Managed, ConnectFails, DrainFails, Closed
<1>8. ASSUME NEW k \in Calls, StartDisconnect(k) PROVE ClosesItsOwn'
  BY <1>4, <1>8 DEF StartDisconnect
<1>9. ASSUME NEW k \in Calls, Drained(k) PROVE ClosesItsOwn'
  <2>1. calls[k].phase = "draining" /\ UNCHANGED <<nc, overlapped>>
    BY <1>9 DEF Drained
  <2>2. CASE nc = 0
    BY <1>3, <1>9, <2>1, <2>2 DEF Drained
  <2>3. CASE nc # 0
    <3>1. link'[nc] = "closed"
      BY <1>0, <1>9, <2>3 DEF Drained, TypeOK
    <3>2. \A l \in Calls : calls'[l] = IF l = k THEN [calls[k] EXCEPT !.phase = "closing"]
                                                ELSE calls[l]
      BY <1>0, <1>9, <2>3 DEF Drained
    <3>3. [calls[k] EXCEPT !.phase = "closing"].phase = "closing"
      BY <1>0 DEF CallType
    <3>4. ~ overlapped => \A l \in Calls : l # k => calls[l].phase = "idle"
      BY <2>1 DEF OneOwner
    <3> QED BY <2>1, <2>3, <3>1, <3>2, <3>3, <3>4 DEF ClosesItsOwn
  <2> QED BY <2>2, <2>3
<1>10. CASE BusStep
  BY <1>5, <1>6, <1>7, <1>8, <1>9, <1>10 DEF BusStep
<1> QED BY <1>1, <1>10, Steps

\* A bus whose connects and disconnects do not overlap forgets a connection that
\* is not closed only by connecting anew over it.
THEOREM ReplacedOrClosedCorrect == Spec => ReplacedOrClosed
<1> DEFINE Inv == TypeOK /\ OneOwner /\ ClosesItsOwn
           Kept == ~ overlapped /\ nc # 0 /\ nc' # nc =>
                     link[nc] = "closed" \/ (nc' # 0 /\ link[nc'] = "unborn")
<1>1. Init => Inv
  BY TypeInit DEF Init, OneOwner, ClosesItsOwn, NoCall
<1>2. Inv /\ [Next]_vars => Inv'
  BY Steps, TypeBus, TypeMessage, TypeStutter, OneOwnerStep, ClosesItsOwnStep
<1>3. Inv /\ [Next]_vars => [Kept]_vars
  <2> SUFFICES ASSUME Inv, Next, ~ overlapped, nc # 0, nc' # nc
               PROVE  link[nc] = "closed" \/ (nc' # 0 /\ link[nc'] = "unborn")
    OBVIOUS
  <2>1. BusStep
    BY Steps, MessageLinks
  <2>2. (\E k \in Calls, c \in Conns : Dialed(k, c)) \/ \E k \in Calls : Closed(k)
    BY <2>1 DEF BusStep, StartConnect, Managed, ConnectFails, StartDisconnect, Drained,
                DrainFails
  <2>3. ASSUME NEW k \in Calls, NEW c \in Conns, Dialed(k, c)
        PROVE  nc' # 0 /\ link[nc'] = "unborn"
    BY <2>3 DEF Dialed, Conns
  <2>4. ASSUME NEW k \in Calls, Closed(k) PROVE link[nc] = "closed"
    BY <2>4 DEF Closed, ClosesItsOwn
  <2> QED BY <2>2, <2>3, <2>4
<1>4. Spec => [][Kept]_vars
  BY <1>1, <1>2, <1>3, PTL DEF Spec
<1> QED BY <1>4 DEF ReplacedOrClosed

=============================================================================
