-------------------------- MODULE ConnectionManager --------------------------
(***************************************************************************)
(* ExchangeConnectionManager.executeProtected                               *)
(* (packages/exchange-connectors/src/resilience/                            *)
(* exchange-connection-manager.ts): a request to an exchange goes through a *)
(* cache, a rate limiter, a circuit breaker, a retry loop and a timeout per *)
(* attempt.  The limiter (Bottleneck), the breaker (opossum), p-retry and   *)
(* p-timeout are libraries, modelled as this class sets them up and uses    *)
(* them; the venue is external and may answer late, fail or stay silent.    *)
(*                                                                          *)
(* Neither the breaker's timeout nor p-timeout cancels what it gives up     *)
(* waiting for: the retry loop outlives its call and a request its attempt. *)
(* Timers may fire at any moment after they are set.                        *)
(***************************************************************************)
EXTENDS Naturals, Sequences, FiniteSets

CONSTANTS
  Calls,            \* slots for executeProtected calls
  Keys, NoKey,      \* cache keys, and a call without one
  Retries,          \* options.retries
  MaxConcurrent,    \* the limiter's maxConcurrent
  MaxVersion        \* bound: versions of the venue's data

ASSUME ConnectionManagerAssumption ==
  /\ IsFiniteSet(Calls)
  /\ NoKey \notin Keys
  /\ Retries \in Nat
  /\ MaxConcurrent \in Nat \ {0}
  /\ MaxVersion \in Nat \ {0}

VARIABLES
  call,       \* phase, cache key, and the venue's version when it was made
  queue,      \* the limiter's queue
  loop,       \* p-retry's loop of each call, which may outlive the call
  requests,   \* requests at the venue: <<call, try, version served, 0 if none>>
  breaker,    \* the breaker's state
  probe,      \* may the half-open breaker let one call through?
  cache,      \* the version cached under each key, 0 if none
  version     \* external: the current version of the venue's data

vars == <<call, queue, loop, requests, breaker, probe, cache, version>>

Tries == 1 .. Retries + 1
Versions == 1 .. MaxVersion

NoCall == [phase |-> "idle", key |-> NoKey, since |-> 1]
NoLoop == [phase |-> "none", try |-> 1]

TypeOK ==
  /\ call \in [Calls -> [phase : {"idle", "queued", "fired"},
                         key : Keys \cup {NoKey}, since : Versions]]
  /\ queue \in Seq(Calls)
  /\ loop \in [Calls -> [phase : {"none", "attempt", "backoff"}, try : Tries]]
  /\ requests \subseteq Calls \X Tries \X (0 .. MaxVersion)
  /\ breaker \in {"closed", "open", "halfOpen"}
  /\ probe \in BOOLEAN
  /\ cache \in [Keys -> 0 .. MaxVersion]
  /\ version \in Versions

Init ==
  /\ call = [c \in Calls |-> NoCall]
  /\ queue = <<>>
  /\ loop = [c \in Calls |-> NoLoop]
  /\ requests = {}
  /\ breaker = "closed"
  /\ probe = FALSE
  /\ cache = [k \in Keys |-> 0]
  /\ version = 1

Fired == {c \in Calls : call[c].phase = "fired"}

-----------------------------------------------------------------------------
(* executeProtected up to the limiter *)

\* A slot is free again when the requests of its last call are gone too.
Free(c) ==
  /\ call[c].phase = "idle"
  /\ loop[c].phase = "none"
  /\ \A r \in requests : r[1] # c

\* A call whose key is cached returns at once and changes nothing.
Execute(c, k) ==
  /\ Free(c)
  /\ k \in Keys => cache[k] = 0
  /\ call' = [call EXCEPT ![c] = [phase |-> "queued", key |-> k, since |-> version]]
  /\ queue' = Append(queue, c)
  /\ UNCHANGED <<loop, requests, breaker, probe, cache, version>>

-----------------------------------------------------------------------------
(* The breaker *)

\* Mutant: the refusal does not reach the caller.
FireRefusedSilently(c) ==
  /\ queue # <<>> /\ c = Head(queue)
  /\ Cardinality(Fired) < MaxConcurrent
  /\ breaker # "closed" /\ ~ probe
  /\ queue' = Tail(queue)
  /\ UNCHANGED <<call, loop, requests, breaker, probe, cache, version>>

\* The limiter starts the next call and the breaker refuses it.
FireRefused(c) ==
  /\ queue # <<>> /\ c = Head(queue)
  /\ Cardinality(Fired) < MaxConcurrent
  /\ breaker # "closed" /\ ~ probe
  /\ queue' = Tail(queue)
  /\ call' = [call EXCEPT ![c] = NoCall]
  /\ UNCHANGED <<loop, requests, breaker, probe, cache, version>>

\* Mutant: the call that starts stays in the queue.
FireAllowedQueued(c) ==
  /\ queue # <<>> /\ c = Head(queue)
  /\ Cardinality(Fired) < MaxConcurrent
  /\ breaker = "closed" \/ probe
  /\ call' = [call EXCEPT ![c].phase = "fired"]
  /\ loop' = [loop EXCEPT ![c] = [phase |-> "attempt", try |-> 1]]
  /\ requests' = requests \cup {<<c, 1, 0>>}
  /\ probe' = FALSE
  /\ UNCHANGED <<queue, breaker, cache, version>>

\* The limiter starts the next call and the breaker lets its first attempt go.
FireAllowed(c) ==
  /\ queue # <<>> /\ c = Head(queue)
  /\ Cardinality(Fired) < MaxConcurrent
  /\ breaker = "closed" \/ probe
  /\ queue' = Tail(queue)
  /\ call' = [call EXCEPT ![c].phase = "fired"]
  /\ loop' = [loop EXCEPT ![c] = [phase |-> "attempt", try |-> 1]]
  /\ requests' = requests \cup {<<c, 1, 0>>}
  /\ probe' = FALSE
  /\ UNCHANGED <<breaker, cache, version>>

\* A failure opens a half-open breaker, and a closed one if the error rate of
\* its rolling window says so.
CountFailure ==
  /\ \/ breaker' = "open"
     \/ breaker = "closed" /\ breaker' = "closed"
  /\ probe' = FALSE

\* The breaker gives up waiting for a call, whose loop goes on.
BreakerTimeout(c) ==
  /\ call[c].phase = "fired"
  /\ call' = [call EXCEPT ![c] = NoCall]
  /\ CountFailure
  /\ UNCHANGED <<queue, loop, requests, cache, version>>

\* resetTimeout after it opened.
HalfOpen ==
  /\ breaker = "open"
  /\ breaker' = "halfOpen"
  /\ probe' = TRUE
  /\ UNCHANGED <<call, queue, loop, requests, cache, version>>

-----------------------------------------------------------------------------
(* The retry loop *)

\* Mutant: the last failure is counted but not thrown to the caller.
GiveUpUnreported(c) ==
  /\ loop' = [loop EXCEPT ![c] = NoLoop]
  /\ IF call[c].phase = "fired"
     THEN CountFailure
     ELSE UNCHANGED <<breaker, probe>>
  /\ UNCHANGED call

\* The loop of c ends without a result; the breaker hears of it if it waits.
GiveUp(c) ==
  /\ loop' = [loop EXCEPT ![c] = NoLoop]
  /\ IF call[c].phase = "fired"
     THEN CountFailure /\ call' = [call EXCEPT ![c] = NoCall]
     ELSE UNCHANGED <<call, breaker, probe>>

\* Mutant: one attempt too many.
AttemptFailedOnceMore(c) ==
  IF loop[c].try <= Retries + 1
  THEN /\ loop' = [loop EXCEPT ![c].phase = "backoff"]
       /\ UNCHANGED <<call, breaker, probe>>
  ELSE GiveUp(c)

\* The current attempt of c failed: back off, or give up after the last.
AttemptFailed(c) ==
  IF loop[c].try <= Retries
  THEN /\ loop' = [loop EXCEPT ![c].phase = "backoff"]
       /\ UNCHANGED <<call, breaker, probe>>
  ELSE GiveUp(c)

\* p-timeout: the attempt failed and its request stays at the venue.
AttemptTimeout(c) ==
  /\ loop[c].phase = "attempt"
  /\ AttemptFailed(c)
  /\ UNCHANGED <<queue, requests, cache, version>>

\* Mutant: attempts are not counted.
RetryUncounted(c) ==
  /\ loop[c].phase = "backoff"
  /\ loop' = [loop EXCEPT ![c].phase = "attempt"]
  /\ requests' = requests \cup {<<c, loop[c].try, 0>>}
  /\ UNCHANGED <<call, queue, breaker, probe, cache, version>>

\* The backoff is over; nobody asks whether the call still waits.
Retry(c) ==
  /\ loop[c].phase = "backoff"
  /\ loop' = [loop EXCEPT ![c] = [phase |-> "attempt", try |-> @.try + 1]]
  /\ requests' = requests \cup {<<c, loop[c].try + 1, 0>>}
  /\ UNCHANGED <<call, queue, breaker, probe, cache, version>>

\* Does an attempt still wait for this request?
Awaited(r) == loop[r[1]].phase = "attempt" /\ loop[r[1]].try = r[2]

\* A request nobody waits for any more ends.
RequestDropped(r) ==
  /\ ~ Awaited(r)
  /\ requests' = requests \ {r}
  /\ UNCHANGED <<call, queue, loop, breaker, probe, cache, version>>

\* The venue, or the way to it, fails a request; a TypeError or an AbortError
\* ends the loop whatever attempts are left.
RequestFails(r) ==
  /\ Awaited(r)
  /\ requests' = requests \ {r}
  /\ AttemptFailed(r[1]) \/ GiveUp(r[1])
  /\ UNCHANGED <<queue, cache, version>>

\* Mutant: the answer of an attempt that was given up settles the loop too.
RequestSucceedsLate(r) ==
  LET c == r[1] IN
  /\ r[3] # 0
  /\ requests' = requests \ {r}
  /\ loop' = [loop EXCEPT ![c] = NoLoop]
  /\ IF call[c].phase = "fired"
     THEN /\ call' = [call EXCEPT ![c] = NoCall]
          /\ cache' = [k \in Keys |-> IF k = call[c].key THEN r[3] ELSE cache[k]]
          /\ breaker' = IF breaker = "halfOpen" THEN "closed" ELSE breaker
          /\ probe' = IF breaker = "halfOpen" THEN FALSE ELSE probe
     ELSE UNCHANGED <<call, cache, breaker, probe>>
  /\ UNCHANGED <<queue, version>>

\* The answer arrives: it ends the loop and, if the call still waits, closes a
\* half-open breaker, goes to the cache and is returned.
RequestSucceeds(r) ==
  LET c == r[1] IN
  /\ Awaited(r) /\ r[3] # 0
  /\ requests' = requests \ {r}
  /\ loop' = [loop EXCEPT ![c] = NoLoop]
  /\ IF call[c].phase = "fired"
     THEN /\ call' = [call EXCEPT ![c] = NoCall]
          /\ cache' = [k \in Keys |-> IF k = call[c].key THEN r[3] ELSE cache[k]]
          /\ breaker' = IF breaker = "halfOpen" THEN "closed" ELSE breaker
          /\ probe' = IF breaker = "halfOpen" THEN FALSE ELSE probe
     ELSE UNCHANGED <<call, cache, breaker, probe>>
  /\ UNCHANGED <<queue, version>>

-----------------------------------------------------------------------------
(* The cache and the venue *)

\* clearCache, or the TTL or LRU eviction of every key.
ClearCache ==
  /\ cache # [k \in Keys |-> 0]
  /\ cache' = [k \in Keys |-> 0]
  /\ UNCHANGED <<call, queue, loop, requests, breaker, probe, version>>

\* The TTL of one key passes, or it is evicted.
Evict(k) ==
  /\ cache[k] # 0
  /\ cache' = [cache EXCEPT ![k] = 0]
  /\ UNCHANGED <<call, queue, loop, requests, breaker, probe, version>>

\* The venue serves a request with the data of that moment.
VenueServes(r) ==
  /\ r[3] = 0
  /\ requests' = (requests \ {r}) \cup {<<r[1], r[2], version>>}
  /\ UNCHANGED <<call, queue, loop, breaker, probe, cache, version>>

VenueMoves ==
  /\ version < MaxVersion
  /\ version' = version + 1
  /\ UNCHANGED <<call, queue, loop, requests, breaker, probe, cache>>

-----------------------------------------------------------------------------

Fire(c) == FireRefused(c) \/ FireAllowed(c)

Next ==
  \/ \E c \in Calls, k \in Keys \cup {NoKey} : Execute(c, k)
  \/ \E c \in Calls : FireRefused(c)
  \/ \E c \in Calls : FireAllowed(c)
  \/ \E c \in Calls : BreakerTimeout(c)
  \/ \E c \in Calls : AttemptTimeout(c)
  \/ \E c \in Calls : Retry(c)
  \/ \E r \in requests : RequestDropped(r)
  \/ \E r \in requests : RequestFails(r)
  \/ \E r \in requests : RequestSucceeds(r)
  \/ \E r \in requests : VenueServes(r)
  \/ HalfOpen
  \/ ClearCache
  \/ \E k \in Keys : Evict(k)
  \/ VenueMoves

Spec == Init /\ [][Next]_vars

\* Timers fire and the limiter starts the next call it may; of the venue
\* nothing is asked.
FairSpec ==
  /\ Spec
  /\ \A c \in Calls : WF_vars(Fire(c))
  /\ \A c \in Calls : WF_vars(BreakerTimeout(c))
  /\ \A c \in Calls : WF_vars(AttemptTimeout(c))
  /\ \A c \in Calls : WF_vars(Retry(c))

-----------------------------------------------------------------------------
(* Properties *)

\* The limiter's queue holds the queued calls, each once.
QueueIsExact ==
  /\ \A c \in Calls : call[c].phase = "queued" <=> \E i \in DOMAIN queue : queue[i] = c
  /\ \A i, j \in DOMAIN queue : queue[i] = queue[j] => i = j

\* A call the breaker waits for has a retry loop that will settle it, and an
\* attempt that loop waits for has a request at the venue.
WaitsForSomething ==
  /\ \A c \in Calls : call[c].phase = "fired" => loop[c].phase # "none"
  /\ \A c \in Calls :
       loop[c].phase = "attempt" => \E r \in requests : r[1] = c /\ Awaited(r)

\* Late answers of earlier attempts and of calls given up are never cached: a
\* new value in the cache is the answer to the newest request of a call that
\* still waits under that key, and was served after the call was made.
CachesOwnAnswer ==
  [][\A k \in Keys : cache'[k] \notin {0, cache[k]} =>
       \E r \in requests \ requests' :
         /\ r[1] \in Fired /\ call[r[1]].key = k
         /\ loop[r[1]].phase = "attempt"
         /\ \A q \in requests : q[1] = r[1] => q[2] <= r[2]
         /\ cache'[k] = r[3] /\ r[3] >= call[r[1]].since]_vars

\* A venue that stays silent holds up no call for good, queued or fired.
CallsSettle == \A c \in Calls : (call[c].phase # "idle") ~> (call[c].phase = "idle")

\* The retry loop of a call that was given up ends.
LoopsEnd == \A c \in Calls : (loop[c].phase # "none") ~> (loop[c].phase = "none")

=============================================================================
