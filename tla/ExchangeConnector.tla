--------------------------- MODULE ExchangeConnector ---------------------------
(***************************************************************************)
(* BaseExchangeAdapter (packages/exchange-connectors/src/base/              *)
(* base.exchange.ts) with its entry in ExchangeStatusTracker                *)
(* (packages/market-data/src/exchange-status.ts): connect and disconnect,   *)
(* which run at once, reconnect, which waits for a backoff and restores     *)
(* subscriptions one by one, and the heartbeat, a timer whose pings answer  *)
(* later.  Nothing keeps two of them apart.                                 *)
(*                                                                          *)
(* A subscription's key is <<channel, symbol>>.  The restore loop splits    *)
(* the key's string at its colons, of which a symbol may have its own:      *)
(* Cut gives what is left of each symbol.  The length of the backoff, the   *)
(* tracker's counters and the data are left out, and a subscription asks    *)
(* the venue for its data once, as the code does.                           *)
(***************************************************************************)
EXTENDS Naturals, FiniteSets

CONSTANTS
  Reconnects,       \* slots for reconnect calls
  Symbols, Cut,     \* symbols, and what splitting at colons leaves of each
  Keys,             \* the subscriptions that may be made
  MaxBeats          \* bound: heartbeat intervals ever started

Channels == {"ticker", "orderbook", "funding", "trades"}

\* The key under which the restore loop subscribes again.
Restored(k) == <<k[1], Cut[k[2]]>>

ASSUME ConnectorAssumption ==
  /\ Cut \in [Symbols -> Symbols]
  /\ Keys \subseteq Channels \X Symbols
  /\ \A k \in Keys : Restored(k) \in Keys
  /\ IsFiniteSet(Reconnects) /\ MaxBeats \in Nat

VARIABLES
  isConnected,
  heartbeatTimer,   \* handle of the interval started last, 0 before the first
  beats,            \* intervals ever started; they are numbered
  intervals,        \* external: those the runtime still fires
  pings,            \* intervals whose callback awaits its ping
  status,           \* the tracker's status, "none" before it is registered
  subscriptions,
  reconnects,       \* reconnect calls: phase, and the keys still to restore
  doubles,          \* history: connects that met a connected adapter
  wasConnected,     \* history: has connect ever run?
  byReconnect,      \* history: was the last connect a reconnect's?
  fresh             \* history: keys subscribed since the last connect

vars == <<isConnected, heartbeatTimer, beats, intervals, pings, status,
          subscriptions, reconnects, doubles, wasConnected, byReconnect, fresh>>
link == <<isConnected, heartbeatTimer, beats, intervals, doubles, wasConnected, byReconnect>>

NoReconnect == [phase |-> "idle", todo |-> {}]

TypeOK ==
  /\ isConnected \in BOOLEAN
  /\ heartbeatTimer \in Nat /\ beats \in Nat /\ doubles \in Nat
  /\ intervals \subseteq 1 .. beats /\ pings \subseteq 1 .. beats
  /\ status \in {"none", "CONNECTED", "DEGRADED", "DISCONNECTED"}
  /\ subscriptions \subseteq Keys /\ fresh \subseteq Keys
  /\ reconnects \in [Reconnects -> [phase : {"idle", "backoff", "connected", "restoring"},
                                    todo : SUBSET Keys]]
  /\ wasConnected \in BOOLEAN /\ byReconnect \in BOOLEAN

Init ==
  /\ isConnected = FALSE
  /\ heartbeatTimer = 0 /\ beats = 0 /\ doubles = 0
  /\ intervals = {} /\ pings = {}
  /\ status = "none"
  /\ subscriptions = {} /\ fresh = {}
  /\ reconnects = [r \in Reconnects |-> NoReconnect]
  /\ wasConnected = FALSE /\ byReconnect = FALSE

-----------------------------------------------------------------------------
(* connect and disconnect *)

\* Mutant: only the tracker's first registration sets the status.
ConnectRegisteringOnly(again) ==
  /\ isConnected' = TRUE
  /\ status' = IF status = "none" THEN "CONNECTED" ELSE status
  /\ beats' = beats + 1 /\ heartbeatTimer' = beats + 1
  /\ intervals' = intervals \cup {beats + 1}
  /\ doubles' = IF isConnected THEN doubles + 1 ELSE doubles
  /\ wasConnected' = TRUE /\ byReconnect' = again /\ fresh' = {}

\* The body of connect: a new interval, whose handle replaces any other.
Connect(again) ==
  /\ isConnected' = TRUE
  /\ status' = "CONNECTED"
  /\ beats' = beats + 1 /\ heartbeatTimer' = beats + 1
  /\ intervals' = intervals \cup {beats + 1}
  /\ doubles' = IF isConnected THEN doubles + 1 ELSE doubles
  /\ wasConnected' = TRUE /\ byReconnect' = again /\ fresh' = {}

\* Mutant: the interval is not cleared.
DisconnectUncleared ==
  /\ isConnected' = FALSE
  /\ status' = IF status = "none" THEN "none" ELSE "DISCONNECTED"
  /\ UNCHANGED <<heartbeatTimer, beats, intervals, doubles, wasConnected, byReconnect, fresh>>

\* The body of disconnect: it clears the interval whose handle it has, and the
\* tracker ignores a venue it does not know.
Disconnect ==
  /\ isConnected' = FALSE
  /\ intervals' = intervals \ {heartbeatTimer}
  /\ status' = IF status = "none" THEN "none" ELSE "DISCONNECTED"
  /\ UNCHANGED <<heartbeatTimer, beats, doubles, wasConnected, byReconnect, fresh>>

\* Room for one interval more than those reconnects under way will start.
BeatsLeft ==
  beats + Cardinality({r \in Reconnects : reconnects[r].phase = "backoff"}) < MaxBeats

CallConnect ==
  /\ BeatsLeft
  /\ Connect(FALSE)
  /\ UNCHANGED <<pings, subscriptions, reconnects>>

CallDisconnect ==
  /\ Disconnect
  /\ UNCHANGED <<pings, subscriptions, reconnects>>

-----------------------------------------------------------------------------
(* reconnect *)

\* Mutant: CONNECTING is reported after the disconnect, so that it can be seen.
StartReconnectVisibly(r) ==
  /\ reconnects[r].phase = "idle" /\ BeatsLeft
  /\ isConnected' = FALSE /\ intervals' = intervals \ {heartbeatTimer}
  /\ status' = "CONNECTING"
  /\ reconnects' = [reconnects EXCEPT ![r].phase = "backoff"]
  /\ UNCHANGED <<heartbeatTimer, beats, doubles, wasConnected, byReconnect, fresh,
                 pings, subscriptions>>

\* CONNECTING is overwritten by the disconnect before anybody can see it.
StartReconnect(r) ==
  /\ reconnects[r].phase = "idle" /\ BeatsLeft
  /\ Disconnect
  /\ reconnects' = [reconnects EXCEPT ![r].phase = "backoff"]
  /\ UNCHANGED <<pings, subscriptions>>

\* Mutant: the backoff goes on while somebody else has connected.
BackoffOverPolitely(r) ==
  /\ reconnects[r].phase = "backoff" /\ ~ isConnected
  /\ Connect(TRUE)
  /\ reconnects' = [reconnects EXCEPT ![r].phase = "connected"]
  /\ UNCHANGED <<pings, subscriptions>>

\* The backoff is over: connect, whatever was called meanwhile.
BackoffOver(r) ==
  /\ reconnects[r].phase = "backoff"
  /\ Connect(TRUE)
  /\ reconnects' = [reconnects EXCEPT ![r].phase = "connected"]
  /\ UNCHANGED <<pings, subscriptions>>

\* Array.from(this.subscriptions): the loop goes over a copy.
StartRestore(r) ==
  /\ reconnects[r].phase = "connected"
  /\ reconnects' = [reconnects EXCEPT ![r] = [phase |-> "restoring", todo |-> subscriptions]]
  /\ UNCHANGED <<link, pings, status, subscriptions, fresh>>

\* Mutant: subscribe returns early when the key is registered already.
RestoreUnregistered(r, k) ==
  /\ reconnects[r].phase = "restoring" /\ k \in reconnects[r].todo
  /\ subscriptions' = subscriptions \cup {Restored(k)}
  /\ fresh' = fresh \cup ({Restored(k)} \ subscriptions)
  /\ reconnects' = [reconnects EXCEPT ![r].todo = @ \ {k}]
  /\ UNCHANGED <<link, pings, status>>

\* One turn of the loop, which awaits it: a key is subscribed again though it may
\* have been unsubscribed, or the adapter disconnected, since the copy was made.
RestoreNext(r, k) ==
  /\ reconnects[r].phase = "restoring" /\ k \in reconnects[r].todo
  /\ subscriptions' = subscriptions \cup {Restored(k)} /\ fresh' = fresh \cup {Restored(k)}
  /\ reconnects' = [reconnects EXCEPT ![r].todo = @ \ {k}]
  /\ UNCHANGED <<link, pings, status>>

RestoreEnd(r) ==
  /\ reconnects[r].phase = "restoring" /\ reconnects[r].todo = {}
  /\ reconnects' = [reconnects EXCEPT ![r] = NoReconnect]
  /\ UNCHANGED <<link, pings, status, subscriptions, fresh>>

-----------------------------------------------------------------------------
(* subscribe and unsubscribe *)

\* subscribe up to its await.  A ticker fetched, for a book too, is routed, and
\* that registers the venue with the tracker as CONNECTED.
Subscribe(k) ==
  /\ subscriptions' = subscriptions \cup {k} /\ fresh' = fresh \cup {k}
  /\ status' = IF status = "none" /\ k[1] \in {"ticker", "orderbook"} THEN "CONNECTED" ELSE status
  /\ UNCHANGED <<link, pings, reconnects>>

Unsubscribe(k) ==
  /\ k \in subscriptions
  /\ subscriptions' = subscriptions \ {k}
  /\ UNCHANGED <<link, pings, status, reconnects, fresh>>

-----------------------------------------------------------------------------
(* The heartbeat *)

Beat(i) ==
  /\ i \in intervals \ pings
  /\ pings' = pings \cup {i}
  /\ UNCHANGED <<link, status, subscriptions, reconnects, fresh>>

\* recordMessage counts it and leaves the status alone.
PingAnswered(i) ==
  /\ i \in pings
  /\ pings' = pings \ {i}
  /\ UNCHANGED <<link, status, subscriptions, reconnects, fresh>>

\* The base class's ping never fails; a venue's own may.
PingFails(i) ==
  /\ i \in pings
  /\ pings' = pings \ {i}
  /\ status' = "DEGRADED"
  /\ UNCHANGED <<link, subscriptions, reconnects, fresh>>

-----------------------------------------------------------------------------

Advance(r) ==
  \/ BackoffOver(r) \/ StartRestore(r) \/ RestoreEnd(r)
  \/ \E k \in reconnects[r].todo : RestoreNext(r, k)

Next ==
  \/ CallConnect \/ CallDisconnect
  \/ \E r \in Reconnects : StartReconnect(r) \/ Advance(r)
  \/ \E k \in Keys : Subscribe(k) \/ Unsubscribe(k)
  \/ \E i \in 1 .. beats : Beat(i) \/ PingAnswered(i) \/ PingFails(i)

Spec == Init /\ [][Next]_vars

\* The backoff timer fires, and what the restore loop awaits is at hand.
FairSpec == Spec /\ \A r \in Reconnects : WF_vars(Advance(r))

-----------------------------------------------------------------------------
(* Properties *)

\* The heartbeats that run are one of a connected adapter and one for each connect
\* that met a connected adapter, as a reconnect's may after its backoff.  Nothing
\* else loses a handle, nothing stops those, and a disconnect always stops its own.
LeaksAreCounted ==
  Cardinality(intervals) = doubles + IF isConnected THEN 1 ELSE 0

\* The tracker and the adapter agree, through reconnects that overlap each other and
\* disconnects, except that a failed ping may still degrade a venue that is gone.
StatusAgrees ==
  /\ isConnected => status \in {"CONNECTED", "DEGRADED"}
  /\ wasConnected /\ status = "CONNECTED" => isConnected

\* Once the reconnects have ended, everything registered has been subscribed again
\* on the connection the last of them made, if its symbol has no colon.
ReconnectResumes ==
  byReconnect /\ (\A r \in Reconnects : reconnects[r].phase = "idle") =>
    \A k \in subscriptions : Restored(k) = k => k \in fresh

\* docs/exchanges/cex-connectors.md:80: "Upon reconnection, all registered ticker, depth,
\* and funding streams are automatically resubscribed."  Those of a symbol with a colon,
\* by which SymbolNormalizer knows a perpetual, are not: what is cut off is lost.
EveryStreamResumes ==
  byReconnect /\ (\A r \in Reconnects : reconnects[r].phase = "idle") =>
    subscriptions \subseteq fresh

\* A reconnect ends, whatever is called during its backoff and its restore loop.
ReconnectsEnd ==
  \A r \in Reconnects : (reconnects[r].phase # "idle") ~> (reconnects[r].phase = "idle")

=============================================================================
