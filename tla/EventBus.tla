------------------------------- MODULE EventBus -------------------------------
(***************************************************************************)
(* NatsEventBus (packages/market-data/src/event-bus/nats-event-bus.ts) with *)
(* one subject: publishers and subscribers go through a NATS connection     *)
(* while there is one and through an in-memory emitter otherwise, and a     *)
(* publish that JetStream does not acknowledge is emitted in memory.        *)
(*                                                                          *)
(* The NATS client and server are external.  A connection that is lost for  *)
(* good is closed by the client without a word to this class; a request may *)
(* reach the server after its publisher gave it up, and a subscriber whose  *)
(* connection is momentarily away misses what passes.  Handlers' errors are *)
(* swallowed, so what a registration hears is all that is kept of it.       *)
(***************************************************************************)
EXTENDS Naturals, FiniteSets

CONSTANTS
  Calls,            \* slots for connect and disconnect calls; one if serial
  Messages,         \* publish calls, each with an event of its own
  Subs,             \* slots for subscribe calls
  Memory,           \* the in-memory emitter, as a place to register
  HasStream,        \* does a JetStream stream take the subject?
  MaxConns          \* bound: connections ever opened

ASSUME EventBusAssumption ==
  /\ HasStream \in BOOLEAN
  /\ MaxConns \in Nat
  /\ Memory \notin 0 .. MaxConns

VARIABLES
  nc, js,           \* the connections of this.nc and this.js, 0 if null
  isConnected,
  link,             \* external: the state of each connection
  calls,            \* connect and disconnect calls that are under way
  overlapped,       \* history: were two of them ever under way at once?
  subs,             \* where each subscriber is registered
  heard,            \* how often each subscriber has heard each message
  pub,              \* the publish calls: phase, and connection, 0 if none
  wire,             \* external: messages on their way to the server
  stored            \* external: messages in the stream, and acknowledged

vars ==
  <<nc, js, isConnected, link, calls, overlapped, subs, heard, pub, wire, stored>>
busVars == <<nc, js, isConnected, calls, overlapped>>
msgVars == <<heard, pub, wire, stored>>

Conns == 1 .. MaxConns
Places == Conns \cup {Memory}

NoCall == [phase |-> "idle", conn |-> 0]
NewMessage == [phase |-> "new", via |-> 0]

TypeOK ==
  /\ nc \in 0 .. MaxConns /\ js \in 0 .. MaxConns
  /\ isConnected \in BOOLEAN
  /\ link \in [Conns -> {"unborn", "open", "draining", "closed"}]
  /\ calls \in [Calls -> [phase : {"idle", "dialing", "managing", "draining", "closing"},
                          conn : 0 .. MaxConns]]
  /\ overlapped \in BOOLEAN
  /\ subs \in [Subs -> SUBSET Places]
  /\ heard \in [Subs -> [Messages -> Nat]]
  /\ pub \in [Messages -> [phase : {"new", "sent", "settled"}, via : 0 .. MaxConns]]
  /\ wire \subseteq Messages \X Conns
  /\ stored \subseteq Messages

Init ==
  /\ nc = 0 /\ js = 0 /\ isConnected = FALSE
  /\ link = [c \in Conns |-> "unborn"]
  /\ calls = [k \in Calls |-> NoCall]
  /\ overlapped = FALSE
  /\ subs = [s \in Subs |-> {}]
  /\ heard = [s \in Subs |-> [m \in Messages |-> 0]]
  /\ pub = [m \in Messages |-> NewMessage]
  /\ wire = {} /\ stored = {}

-----------------------------------------------------------------------------
(* connect and disconnect *)

Begin(k, phase, c) ==
  /\ calls[k].phase = "idle"
  /\ calls' = [calls EXCEPT ![k] = [phase |-> phase, conn |-> c]]
  /\ overlapped' = (overlapped \/ \E l \in Calls : calls[l].phase # "idle")

End(k) == calls' = [calls EXCEPT ![k] = NoCall]

StartConnect(k) ==
  /\ Begin(k, "dialing", 0)
  /\ UNCHANGED <<nc, js, isConnected, link, subs, msgVars>>

\* await connect(): the new connection takes the place of any other, and its
\* manager is asked for.
Dialed(k, c) ==
  /\ calls[k].phase = "dialing" /\ link[c] = "unborn"
  /\ link' = [link EXCEPT ![c] = "open"]
  /\ nc' = c /\ js' = c
  /\ calls' = [calls EXCEPT ![k] = [phase |-> "managing", conn |-> c]]
  /\ UNCHANGED <<isConnected, overlapped, subs, msgVars>>

\* await jetstreamManager()
Managed(k) ==
  /\ calls[k].phase = "managing" /\ link[calls[k].conn] # "closed"
  /\ isConnected' = TRUE
  /\ End(k)
  /\ UNCHANGED <<nc, js, link, overlapped, subs, msgVars>>

\* Either await may fail; what the first one opened stays.
ConnectFails(k) ==
  /\ calls[k].phase \in {"dialing", "managing"}
  /\ isConnected' = FALSE
  /\ End(k)
  /\ UNCHANGED <<nc, js, link, overlapped, subs, msgVars>>

\* Without a connection disconnect does nothing, and the drain of one that is
\* closed or draining throws before anything is changed.
StartDisconnect(k) ==
  /\ nc # 0 /\ link[nc] = "open"
  /\ Begin(k, "draining", nc)
  /\ link' = [link EXCEPT ![nc] = "draining"]
  /\ UNCHANGED <<nc, js, isConnected, subs, msgVars>>

\* Mutant: drain and close are started and not awaited.
DrainedUnawaited(k) ==
  /\ calls[k].phase = "draining" /\ link[calls[k].conn] = "draining"
  /\ calls' = [calls EXCEPT ![k].phase = "closing"]
  /\ UNCHANGED <<nc, js, isConnected, link, overlapped, subs, msgVars>>

\* await drain() is over, with its connection closed.  this.nc is read again.
Drained(k) ==
  LET c == calls[k].conn
      now == [link EXCEPT ![c] = "closed"] IN
  /\ calls[k].phase = "draining" /\ link[c] = "draining"
  /\ IF nc = 0
     THEN link' = now /\ End(k)
     ELSE /\ link' = [now EXCEPT ![nc] = "closed"]
          /\ calls' = [calls EXCEPT ![k].phase = "closing"]
  /\ UNCHANGED <<nc, js, isConnected, overlapped, subs, msgVars>>

\* The connection was lost for good while it drained: disconnect throws.
DrainFails(k) ==
  /\ calls[k].phase = "draining" /\ link[calls[k].conn] = "closed"
  /\ End(k)
  /\ UNCHANGED <<nc, js, isConnected, link, overlapped, subs, msgVars>>

\* Mutant: the bus still claims a live connection.
ClosedButConnected(k) ==
  /\ calls[k].phase = "closing"
  /\ nc' = 0 /\ js' = 0
  /\ End(k)
  /\ UNCHANGED <<isConnected, link, overlapped, subs, msgVars>>

\* await close()
Closed(k) ==
  /\ calls[k].phase = "closing"
  /\ nc' = 0 /\ js' = 0 /\ isConnected' = FALSE
  /\ End(k)
  /\ UNCHANGED <<link, overlapped, subs, msgVars>>

\* External: the client gives up reconnecting.
LinkLost(c) ==
  /\ link[c] \in {"open", "draining"}
  /\ link' = [link EXCEPT ![c] = "closed"]
  /\ wire' = {w \in wire : w[2] # c}
  /\ UNCHANGED <<busVars, subs, heard, pub, stored>>

-----------------------------------------------------------------------------
(* subscribe *)

\* Mutant: after the NATS subscription the method falls through to the emitter.
SubscribeTwice(s) ==
  /\ subs[s] = {} /\ \A m \in Messages : heard[s][m] = 0
  /\ subs' = [subs EXCEPT ![s] =
       {Memory} \cup IF isConnected /\ nc # 0 /\ link[nc] = "open" THEN {nc} ELSE {}]
  /\ UNCHANGED <<busVars, link, msgVars>>

\* A connection that is closed or draining refuses.  A slot that has heard
\* something is not used again, which is a bound.
Subscribe(s) ==
  /\ subs[s] = {} /\ \A m \in Messages : heard[s][m] = 0
  /\ subs' = [subs EXCEPT ![s] =
       {IF isConnected /\ nc # 0 /\ link[nc] = "open" THEN nc ELSE Memory}]
  /\ UNCHANGED <<busVars, link, msgVars>>

Unsubscribe(s) ==
  /\ subs[s] # {}
  /\ subs' = [subs EXCEPT ![s] = {}]
  /\ UNCHANGED <<busVars, link, msgVars>>

-----------------------------------------------------------------------------
(* publish *)

Hear(S, m) ==
  heard' = [s \in Subs |-> IF s \in S THEN [heard[s] EXCEPT ![m] = @ + 1] ELSE heard[s]]

\* inMemoryFallback.emit, and the end of the call.
Emit(m) ==
  /\ Hear({s \in Subs : Memory \in subs[s]}, m)
  /\ pub' = [pub EXCEPT ![m].phase = "settled"]

\* Mutant: isConnected alone decides.
PublishUnchecked(m) ==
  /\ pub[m].phase = "new"
  /\ IF isConnected /\ (js = 0 \/ link[js] = "open")
     THEN /\ pub' = [pub EXCEPT ![m] = [phase |-> "sent", via |-> js]]
          /\ wire' = wire \cup {<<m, js>>}
          /\ UNCHANGED heard
     ELSE Emit(m) /\ UNCHANGED wire
  /\ UNCHANGED <<busVars, link, subs, stored>>

\* Handed to JetStream if the bus has a connection that takes it.
Publish(m) ==
  /\ pub[m].phase = "new"
  /\ IF isConnected /\ js # 0 /\ link[js] = "open"
     THEN /\ pub' = [pub EXCEPT ![m] = [phase |-> "sent", via |-> js]]
          /\ wire' = wire \cup {<<m, js>>}
          /\ UNCHANGED heard
     ELSE Emit(m) /\ UNCHANGED wire
  /\ UNCHANGED <<busVars, link, subs, stored>>

\* External: the server takes a message in, stores it if a stream wants it, and
\* hands it to subscribers, also when its publisher no longer waits.
ServerReceives(m, c) ==
  /\ <<m, c>> \in wire
  /\ link[c] # "closed"
  /\ wire' = wire \ {<<m, c>>}
  /\ stored' = IF HasStream THEN stored \cup {m} ELSE stored
  /\ \E S \in SUBSET {s \in Subs : \E d \in subs[s] : d # Memory /\ link[d] # "closed"} :
       Hear(S, m)
  /\ UNCHANGED <<busVars, link, subs, pub>>

Acknowledged(m) ==
  /\ pub[m].phase = "sent" /\ m \in stored /\ link[pub[m].via] # "closed"
  /\ pub' = [pub EXCEPT ![m].phase = "settled"]
  /\ UNCHANGED <<busVars, link, subs, heard, wire, stored>>

\* js.publish throws: no answer in time, no stream, or no connection any more.
PublishFails(m) ==
  /\ pub[m].phase = "sent"
  /\ Emit(m)
  /\ UNCHANGED <<busVars, link, subs, wire, stored>>

-----------------------------------------------------------------------------

Next ==
  \/ \E k \in Calls : StartConnect(k)
  \/ \E k \in Calls, c \in Conns : Dialed(k, c)
  \/ \E k \in Calls : Managed(k)
  \/ \E k \in Calls : ConnectFails(k)
  \/ \E k \in Calls : StartDisconnect(k)
  \/ \E k \in Calls : Drained(k)
  \/ \E k \in Calls : DrainFails(k)
  \/ \E k \in Calls : Closed(k)
  \/ \E c \in Conns : LinkLost(c)
  \/ \E s \in Subs : Subscribe(s)
  \/ \E s \in Subs : Unsubscribe(s)
  \/ \E m \in Messages : Publish(m)
  \/ \E m \in Messages, c \in Conns : ServerReceives(m, c)
  \/ \E m \in Messages : Acknowledged(m)
  \/ \E m \in Messages : PublishFails(m)

Spec == Init /\ [][Next]_vars

-----------------------------------------------------------------------------
(* Properties *)

\* The two ways to a subscriber never both reach it: not when an answer is lost
\* and the message goes out again in memory, not when it reaches the server late,
\* whatever connect and disconnect do meanwhile.
AtMostOnce == \A s \in Subs, m \in Messages : heard[s][m] <= 1

\* With connect and disconnect one at a time, a bus that claims a live connection
\* has its client and its JetStream, both of the same connection.
LiveHasClient == ~ overlapped /\ isConnected => nc # 0 /\ js = nc

\* With connect and disconnect one at a time, this.nc lets go of a connection
\* only when that is closed, or when connect puts a new one in its place: a
\* disconnect that reads this.nc again after its await forgets no live client.
ReplacedOrClosed ==
  [][~ overlapped /\ nc # 0 /\ nc' # nc =>
       link[nc] = "closed" \/ (nc' # 0 /\ link[nc'] = "unborn")]_vars

\* What publish has handed to JetStream and returned from without an error is in
\* the stream or was heard by someone, or may still come there.
RetainedOrHeard ==
  \A m \in Messages :
    pub[m].phase = "settled" /\ pub[m].via # 0 =>
      \/ m \in stored
      \/ \E s \in Subs : heard[s][m] > 0
      \/ <<m, pub[m].via>> \in wire /\ link[pub[m].via] # "closed"

=============================================================================
