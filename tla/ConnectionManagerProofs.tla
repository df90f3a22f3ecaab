----------------------- MODULE ConnectionManagerProofs -----------------------
(***************************************************************************)
(* What ConnectionManager guarantees for any number of calls, keys, retries *)
(* and concurrent jobs.                                                     *)
(***************************************************************************)
EXTENDS ConnectionManager, FiniteSetTheorems, TLAPS

USE ConnectionManagerAssumption

-----------------------------------------------------------------------------
(* Types *)

CallType == [phase : {"idle", "queued", "fired"},
             key : Keys \cup {NoKey}, since : Versions]
LoopType == [phase : {"none", "attempt", "backoff"}, try : Tries]

LEMMA Constants == NoCall \in CallType /\ NoLoop \in LoopType /\ 1 \in Tries
  BY DEF NoCall, NoLoop, CallType, LoopType, Tries, Versions

\* What AttemptFailed and GiveUp leave well-typed.
LEMMA AttemptFailedType ==
  ASSUME TypeOK, NEW c \in Calls, AttemptFailed(c) \/ GiveUp(c)
  PROVE  /\ call' \in [Calls -> CallType]
         /\ loop' \in [Calls -> LoopType]
         /\ breaker' \in {"closed", "open", "halfOpen"}
         /\ probe' \in BOOLEAN
<1>0. /\ call \in [Calls -> CallType] /\ loop \in [Calls -> LoopType]
      /\ breaker \in {"closed", "open", "halfOpen"} /\ probe \in BOOLEAN
  BY DEF TypeOK, CallType, LoopType
<1>1. CASE GiveUp(c)
  BY <1>0, <1>1, Constants DEF GiveUp, CountFailure
<1>2. CASE loop[c].try <= Retries /\ AttemptFailed(c)
  <2>1. loop' = [loop EXCEPT ![c].phase = "backoff"] /\ UNCHANGED <<call, breaker, probe>>
    BY <1>2 DEF AttemptFailed
  <2>2. [loop[c] EXCEPT !.phase = "backoff"] \in LoopType
    BY <1>0 DEF LoopType
  <2> QED BY <1>0, <2>1, <2>2
<1> QED BY <1>1, <1>2 DEF AttemptFailed

\* A loop backs off only before an attempt it still has: without it the number
\* of tries would have no bound.
BackoffHasTry == \A c \in Calls : loop[c].phase = "backoff" => loop[c].try <= Retries
TypeInv == TypeOK /\ BackoffHasTry

LEMMA TypeInit == Init => TypeInv
<1> SUFFICES ASSUME Init PROVE TypeInv
  OBVIOUS
<1>1. call \in [Calls -> CallType] /\ loop \in [Calls -> LoopType]
  BY Constants DEF Init
<1>2. BackoffHasTry
  BY DEF Init, NoLoop, BackoffHasTry
<1>3. requests \subseteq Calls \X Tries \X (0 .. MaxVersion) /\ queue \in Seq(Calls)
  BY DEF Init
<1>4. cache \in [Keys -> 0 .. MaxVersion] /\ version \in Versions
  BY DEF Init, Versions
<1> QED BY <1>1, <1>2, <1>3, <1>4 DEF Init, TypeInv, TypeOK, CallType, LoopType

LEMMA TypeStep == TypeInv /\ [Next]_vars => TypeOK'
<1> SUFFICES ASSUME TypeInv, [Next]_vars PROVE TypeOK'
  OBVIOUS
<1> USE DEF TypeInv
<1>0. /\ call \in [Calls -> CallType] /\ loop \in [Calls -> LoopType]
      /\ queue \in Seq(Calls)
      /\ requests \subseteq Calls \X Tries \X (0 .. MaxVersion)
      /\ breaker \in {"closed", "open", "halfOpen"} /\ probe \in BOOLEAN
      /\ cache \in [Keys -> 0 .. MaxVersion] /\ version \in Versions
  BY DEF TypeOK, CallType, LoopType
<1>G. ASSUME /\ call' \in [Calls -> CallType] /\ loop' \in [Calls -> LoopType]
             /\ queue' \in Seq(Calls)
             /\ requests' \subseteq Calls \X Tries \X (0 .. MaxVersion)
             /\ breaker' \in {"closed", "open", "halfOpen"} /\ probe' \in BOOLEAN
             /\ cache' \in [Keys -> 0 .. MaxVersion] /\ version' \in Versions
      PROVE  TypeOK'
  BY <1>G DEF TypeOK, CallType, LoopType
<1>1. ASSUME NEW c \in Calls, NEW k \in Keys \cup {NoKey}, Execute(c, k) PROVE TypeOK'
  <2>1. [phase |-> "queued", key |-> k, since |-> version] \in CallType
    BY <1>0 DEF CallType
  <2>2. call' \in [Calls -> CallType] /\ queue' \in Seq(Calls)
    BY <1>0, <1>1, <2>1 DEF Execute
  <2> QED BY <1>0, <1>G, <1>1, <2>2 DEF Execute
<1>2. ASSUME NEW c \in Calls, FireRefused(c) PROVE TypeOK'
  BY <1>0, <1>G, <1>2, Constants DEF FireRefused
<1>3. ASSUME NEW c \in Calls, FireAllowed(c) PROVE TypeOK'
  <2>1. [call[c] EXCEPT !.phase = "fired"] \in CallType
    BY <1>0 DEF CallType
  <2>2. [phase |-> "attempt", try |-> 1] \in LoopType /\ 1 \in Tries
    BY Constants DEF LoopType
  <2>3. call' \in [Calls -> CallType] /\ loop' \in [Calls -> LoopType]
    BY <1>0, <1>3, <2>1, <2>2 DEF FireAllowed
  <2>4. requests' \subseteq Calls \X Tries \X (0 .. MaxVersion)
    BY <1>0, <1>3, <2>2 DEF FireAllowed
  <2>5. queue' \in Seq(Calls)
    <3>1. queue # <<>> /\ queue' = Tail(queue)
      BY <1>3 DEF FireAllowed
    <3> QED BY <1>0, <3>1
  <2>7. probe' \in BOOLEAN
    BY <1>3 DEF FireAllowed
  <2>6. UNCHANGED <<breaker, cache, version>>
    BY <1>3 DEF FireAllowed
  <2> QED BY <1>0, <1>G, <2>3, <2>4, <2>5, <2>6, <2>7
<1>4. ASSUME NEW c \in Calls, BreakerTimeout(c) PROVE TypeOK'
  BY <1>0, <1>G, <1>4, Constants DEF BreakerTimeout, CountFailure
<1>5. ASSUME NEW c \in Calls, AttemptTimeout(c) PROVE TypeOK'
  BY <1>0, <1>G, <1>5, AttemptFailedType DEF AttemptTimeout
<1>6. ASSUME NEW c \in Calls, Retry(c) PROVE TypeOK'
  <2>1. loop[c].try + 1 \in Tries
    BY <1>0, <1>6 DEF LoopType, Tries, Retry, BackoffHasTry
  <2>2. [phase |-> "attempt", try |-> loop[c].try + 1] \in LoopType
    BY <2>1 DEF LoopType
  <2>3. loop' \in [Calls -> LoopType]
    BY <1>0, <1>6, <2>2 DEF Retry
  <2>4. requests' \subseteq Calls \X Tries \X (0 .. MaxVersion)
    BY <1>0, <1>6, <2>1 DEF Retry
  <2> QED BY <1>0, <1>G, <1>6, <2>3, <2>4 DEF Retry
<1>7. ASSUME NEW r \in requests, RequestDropped(r) PROVE TypeOK'
  BY <1>0, <1>G, <1>7 DEF RequestDropped
<1>8. ASSUME NEW r \in requests, RequestFails(r) PROVE TypeOK'
  <2>1. r[1] \in Calls
    BY <1>0
  <2> QED BY <1>0, <1>G, <1>8, <2>1, AttemptFailedType DEF RequestFails
<1>9. ASSUME NEW r \in requests, RequestSucceeds(r) PROVE TypeOK'
  <2>1. r[1] \in Calls /\ r[3] \in 0 .. MaxVersion
    BY <1>0
  <2>2. loop' \in [Calls -> LoopType] /\ requests' \subseteq Calls \X Tries \X (0 .. MaxVersion)
    BY <1>0, <1>9, <2>1, Constants DEF RequestSucceeds
  <2>3. CASE call[r[1]].phase = "fired"
    <3>1. call' \in [Calls -> CallType]
      BY <1>0, <1>9, <2>3, Constants DEF RequestSucceeds
    <3>2. cache' \in [Keys -> 0 .. MaxVersion]
      BY <1>0, <1>9, <2>1, <2>3 DEF RequestSucceeds
    <3> QED BY <1>0, <1>G, <1>9, <2>2, <2>3, <3>1, <3>2 DEF RequestSucceeds
  <2>4. CASE call[r[1]].phase # "fired"
    BY <1>0, <1>G, <1>9, <2>2, <2>4 DEF RequestSucceeds
  <2> QED BY <2>3, <2>4
<1>10. ASSUME NEW r \in requests, VenueServes(r) PROVE TypeOK'
  <2>1. r[1] \in Calls /\ r[2] \in Tries /\ version \in 0 .. MaxVersion
    BY <1>0 DEF Versions
  <2> QED BY <1>0, <1>G, <1>10, <2>1 DEF VenueServes
<1>11. CASE HalfOpen
  BY <1>0, <1>G, <1>11 DEF HalfOpen
<1>12. CASE ClearCache
  BY <1>0, <1>G, <1>12 DEF ClearCache
<1>13. ASSUME NEW k \in Keys, Evict(k) PROVE TypeOK'
  BY <1>0, <1>G, <1>13 DEF Evict
<1>14. CASE VenueMoves
  BY <1>0, <1>G, <1>14 DEF VenueMoves, Versions
<1>15. CASE UNCHANGED vars
  BY <1>0, <1>G, <1>15 DEF vars
<1> QED BY <1>1, <1>2, <1>3, <1>4, <1>5, <1>6, <1>7, <1>8, <1>9, <1>10, <1>11,
           <1>12, <1>13, <1>14, <1>15 DEF Next

-----------------------------------------------------------------------------
(* Retry loops *)

\* What AttemptFailed and GiveUp do to the loops and the waiting calls.
LEMMA AttemptFailedEffect ==
  ASSUME TypeOK, NEW c \in Calls, AttemptFailed(c) \/ GiveUp(c)
  PROVE  /\ \A d \in Calls : d # c => loop'[d] = loop[d] /\ call'[d] = call[d]
         /\ \/ loop'[c].phase = "none" /\ call'[c].phase # "fired"
            \/ /\ loop'[c].phase = "backoff" /\ loop'[c].try = loop[c].try
               /\ loop[c].try <= Retries
               /\ call'[c] = call[c]
         /\ \A d \in Calls : call'[d] \in {call[d], NoCall}
         /\ \A d \in Calls : call'[d] = call[d] \/ call[d].phase = "fired"
<1>0. call \in [Calls -> CallType] /\ loop \in [Calls -> LoopType]
  BY DEF TypeOK, CallType, LoopType
<1>1. CASE GiveUp(c)
  BY <1>0, <1>1 DEF GiveUp, NoLoop, NoCall
<1>2. CASE loop[c].try <= Retries /\ AttemptFailed(c)
  <2>1. loop' = [loop EXCEPT ![c].phase = "backoff"] /\ UNCHANGED call
    BY <1>2 DEF AttemptFailed
  <2>2. loop'[c].phase = "backoff" /\ loop'[c].try = loop[c].try
    BY <1>0, <2>1 DEF LoopType
  <2> QED BY <1>0, <1>2, <2>1, <2>2
<1> QED BY <1>1, <1>2 DEF AttemptFailed

LEMMA BackoffStep == TypeInv /\ [Next]_vars => BackoffHasTry'
<1> SUFFICES ASSUME TypeInv, [Next]_vars PROVE BackoffHasTry'
  OBVIOUS
<1> USE DEF TypeInv
<1>0. loop \in [Calls -> LoopType] /\ requests \subseteq Calls \X Tries \X (0 .. MaxVersion)
  BY DEF TypeOK, LoopType
<1>1. ASSUME NEW c \in Calls, AttemptFailed(c) \/ GiveUp(c) PROVE BackoffHasTry'
  BY <1>1, AttemptFailedEffect DEF BackoffHasTry
<1>2. ASSUME UNCHANGED loop PROVE BackoffHasTry'
  BY <1>2 DEF BackoffHasTry
<1>3. ASSUME NEW c \in Calls, FireAllowed(c) PROVE BackoffHasTry'
  BY <1>0, <1>3 DEF FireAllowed, BackoffHasTry
<1>4. ASSUME NEW c \in Calls, Retry(c) PROVE BackoffHasTry'
  BY <1>0, <1>4 DEF Retry, BackoffHasTry
<1>5. ASSUME NEW r \in requests, RequestSucceeds(r) PROVE BackoffHasTry'
  BY <1>0, <1>5 DEF RequestSucceeds, NoLoop, BackoffHasTry
<1>6. ASSUME NEW r \in requests, RequestFails(r) PROVE BackoffHasTry'
  BY <1>0, <1>1, <1>6 DEF RequestFails
<1> QED BY <1>1, <1>2, <1>3, <1>4, <1>5, <1>6
        DEF Next, Execute, FireRefused, BreakerTimeout, AttemptTimeout, RequestDropped,
            VenueServes, HalfOpen, ClearCache, Evict, VenueMoves, vars

\* Every variable of the connection manager keeps its type; above all, no call
\* makes more attempts than retries + 1.
THEOREM TypeCorrect == Spec => []TypeOK
<1>1. Init => TypeInv
  BY TypeInit
<1>2. TypeInv /\ [Next]_vars => TypeInv'
  BY TypeStep, BackoffStep DEF TypeInv
<1>3. TypeInv => TypeOK
  BY DEF TypeInv
<1> QED BY <1>1, <1>2, <1>3, PTL DEF Spec

-----------------------------------------------------------------------------
(* Nothing waits in vain *)

\* A waiting call has a loop and a waiting attempt has a request: the promise of
\* executeProtected hangs on something that will settle it.
LEMMA WaitsInit == Init => WaitsForSomething
  BY DEF Init, WaitsForSomething, NoCall, NoLoop

LEMMA WaitsStep == TypeInv /\ WaitsForSomething /\ [Next]_vars => WaitsForSomething'
<1> SUFFICES ASSUME TypeInv, WaitsForSomething, [Next]_vars
             PROVE  WaitsForSomething'
  OBVIOUS
<1> USE DEF TypeInv
<1>0. /\ call \in [Calls -> CallType] /\ loop \in [Calls -> LoopType]
      /\ requests \subseteq Calls \X Tries \X (0 .. MaxVersion)
  BY DEF TypeOK, CallType, LoopType
<1>1. ASSUME NEW c \in Calls, NEW k \in Keys \cup {NoKey}, Execute(c, k)
      PROVE  WaitsForSomething'
  BY <1>0, <1>1 DEF Execute, WaitsForSomething, Awaited
<1>2. ASSUME NEW c \in Calls, FireRefused(c) PROVE WaitsForSomething'
  BY <1>0, <1>2 DEF FireRefused, NoCall, WaitsForSomething, Awaited
<1>3. ASSUME NEW c \in Calls, FireAllowed(c) PROVE WaitsForSomething'
  <2>1. /\ loop'[c] = [phase |-> "attempt", try |-> 1]
        /\ \A d \in Calls : d # c => loop'[d] = loop[d] /\ call'[d] = call[d]
        /\ <<c, 1, 0>> \in requests' /\ requests \subseteq requests'
    BY <1>0, <1>3 DEF FireAllowed
  <2>2. Awaited(<<c, 1, 0>>)'
    BY <2>1 DEF Awaited
  <2> QED BY <1>0, <2>1, <2>2 DEF WaitsForSomething, Awaited
<1>4. ASSUME NEW c \in Calls, BreakerTimeout(c) PROVE WaitsForSomething'
  BY <1>0, <1>4 DEF BreakerTimeout, NoCall, WaitsForSomething, Awaited
<1>5. ASSUME NEW c \in Calls, AttemptFailed(c) \/ GiveUp(c),
             NEW S \in SUBSET {r \in requests : r[1] = c}, requests' = requests \ S
      PROVE  WaitsForSomething'
  BY <1>0, <1>5, AttemptFailedEffect DEF WaitsForSomething, Awaited
<1>6. ASSUME NEW c \in Calls, AttemptTimeout(c) PROVE WaitsForSomething'
  <2>1. requests' = requests \ {}
    BY <1>6 DEF AttemptTimeout
  <2> QED BY <1>5, <1>6, <2>1 DEF AttemptTimeout
<1>7. ASSUME NEW c \in Calls, Retry(c) PROVE WaitsForSomething'
  <2>1. /\ loop'[c].phase = "attempt" /\ loop'[c].try = loop[c].try + 1
        /\ \A d \in Calls : d # c => loop'[d] = loop[d]
        /\ call' = call
        /\ <<c, loop[c].try + 1, 0>> \in requests' /\ requests \subseteq requests'
    BY <1>0, <1>7 DEF Retry
  <2>2. \E q \in requests' : q[1] = c /\ q[2] = loop'[c].try
    BY <2>1
  <2> QED BY <1>0, <2>1, <2>2 DEF WaitsForSomething, Awaited
<1>8. ASSUME NEW r \in requests, RequestDropped(r) PROVE WaitsForSomething'
  BY <1>0, <1>8 DEF RequestDropped, WaitsForSomething, Awaited
<1>9. ASSUME NEW r \in requests, RequestFails(r) PROVE WaitsForSomething'
  <2>1. r[1] \in Calls /\ {r} \in SUBSET {q \in requests : q[1] = r[1]}
    BY <1>0
  <2>2. requests' = requests \ {r} /\ (AttemptFailed(r[1]) \/ GiveUp(r[1]))
    BY <1>9 DEF RequestFails
  <2> QED BY <1>5, <2>1, <2>2
<1>10. ASSUME NEW r \in requests, RequestSucceeds(r) PROVE WaitsForSomething'
  <2>1. r[1] \in Calls /\ requests' = requests \ {r} /\ loop'[r[1]].phase = "none"
    BY <1>0, <1>10 DEF RequestSucceeds, NoLoop
  <2>2. \A d \in Calls : d # r[1] => loop'[d] = loop[d] /\ call'[d] = call[d]
    BY <1>0, <1>10 DEF RequestSucceeds
  <2>3. call'[r[1]].phase # "fired"
    <3>1. CASE call[r[1]].phase = "fired"
      BY <1>0, <1>10, <2>1, <3>1 DEF RequestSucceeds, NoCall
    <3>2. CASE call[r[1]].phase # "fired"
      BY <1>10, <3>2 DEF RequestSucceeds
    <3> QED BY <3>1, <3>2
  <2> QED BY <2>1, <2>2, <2>3 DEF WaitsForSomething, Awaited
<1>11. ASSUME NEW r \in requests, VenueServes(r) PROVE WaitsForSomething'
  <2> DEFINE q == <<r[1], r[2], version>>
  <2>1. q \in requests' /\ q[1] = r[1] /\ q[2] = r[2] /\ UNCHANGED <<call, loop>>
    BY <1>11 DEF VenueServes
  <2>2. \A s \in requests : s \in requests' \/ s = r
    BY <1>11 DEF VenueServes
  <2> HIDE DEF q
  <2> QED BY <1>0, <2>1, <2>2 DEF WaitsForSomething, Awaited
<1>12. ASSUME UNCHANGED <<call, loop, requests>> PROVE WaitsForSomething'
  BY <1>12 DEF WaitsForSomething, Awaited
<1> QED BY <1>1, <1>2, <1>3, <1>4, <1>6, <1>7, <1>8, <1>9, <1>10, <1>11, <1>12
        DEF Next, HalfOpen, ClearCache, Evict, VenueMoves, vars

\* A call the breaker waits for always has a retry loop, and an attempt always a
\* request, whatever timeouts, refusals and late answers came before.
THEOREM WaitsCorrect == Spec => []WaitsForSomething
<1> DEFINE Inv == TypeInv /\ WaitsForSomething
<1>1. Init => Inv
  BY TypeInit, WaitsInit
<1>2. Inv /\ [Next]_vars => Inv'
  BY TypeStep, BackoffStep, WaitsStep DEF TypeInv
<1> QED BY <1>1, <1>2, PTL DEF Spec

-----------------------------------------------------------------------------
(* The limiter's queue *)

LEMMA QueueInit == Init => QueueIsExact
  BY DEF Init, QueueIsExact, NoCall

\* A call enters the queue.
LEMMA QueueEnter ==
  ASSUME TypeOK, QueueIsExact, NEW c \in Calls, call[c].phase = "idle",
         queue' = Append(queue, c), call'[c].phase = "queued",
         \A d \in Calls : d # c => call'[d] = call[d]
  PROVE  QueueIsExact'
<1>0. queue \in Seq(Calls)
  BY DEF TypeOK
<1>1. /\ DOMAIN queue' = 1 .. Len(queue) + 1
      /\ \A i \in DOMAIN queue : queue'[i] = queue[i]
      /\ DOMAIN queue = 1 .. Len(queue)
      /\ queue'[Len(queue) + 1] = c
  BY <1>0
<1>2. \A i \in DOMAIN queue : queue[i] # c /\ queue[i] \in Calls
  BY <1>0 DEF QueueIsExact
<1>3. Len(queue) \in Nat
  BY <1>0
<1>4. ASSUME NEW d \in Calls
      PROVE  call'[d].phase = "queued" <=> \E i \in DOMAIN queue' : queue'[i] = d
  BY <1>1, <1>2, <1>3 DEF QueueIsExact
<1>5. ASSUME NEW i \in DOMAIN queue', NEW j \in DOMAIN queue', queue'[i] = queue'[j]
      PROVE  i = j
  BY <1>1, <1>2, <1>3, <1>5 DEF QueueIsExact
<1> QED BY <1>4, <1>5 DEF QueueIsExact

\* The head of the queue leaves it.
LEMMA QueueLeave ==
  ASSUME TypeOK, QueueIsExact, NEW c \in Calls, queue # <<>>, c = Head(queue),
         queue' = Tail(queue), call'[c].phase # "queued",
         \A d \in Calls : d # c => call'[d] = call[d]
  PROVE  QueueIsExact'
<1>0. queue \in Seq(Calls) /\ Len(queue) \in Nat \ {0}
  BY DEF TypeOK
<1>1. /\ DOMAIN queue' = 1 .. Len(queue) - 1
      /\ DOMAIN queue = 1 .. Len(queue)
      /\ \A i \in DOMAIN queue' : queue'[i] = queue[i + 1]
      /\ queue[1] = c
  BY <1>0
<1>2. ASSUME NEW d \in Calls
      PROVE  call'[d].phase = "queued" <=> \E i \in DOMAIN queue' : queue'[i] = d
  <2>1. CASE d = c
    BY <1>0, <1>1, <2>1 DEF QueueIsExact
  <2>2. CASE d # c
    <3>1. \A i \in DOMAIN queue : queue[i] = d => i # 1 /\ i - 1 \in DOMAIN queue' /\ queue'[i - 1] = d
      BY <1>0, <1>1, <2>2
    <3>2. \A i \in DOMAIN queue' : i + 1 \in DOMAIN queue
      BY <1>0, <1>1
    <3>3. (\E i \in DOMAIN queue : queue[i] = d) <=> (\E i \in DOMAIN queue' : queue'[i] = d)
      BY <1>1, <3>1, <3>2
    <3> QED BY <2>2, <3>3 DEF QueueIsExact
  <2> QED BY <2>1, <2>2
<1>3. ASSUME NEW i \in DOMAIN queue', NEW j \in DOMAIN queue', queue'[i] = queue'[j]
      PROVE  i = j
  BY <1>0, <1>1, <1>3 DEF QueueIsExact
<1> QED BY <1>2, <1>3 DEF QueueIsExact

\* Calls outside the queue change and stay outside it.
LEMMA QueueKept ==
  ASSUME QueueIsExact, queue' = queue,
         \A d \in Calls : call'[d].phase = "queued" <=> call[d].phase = "queued"
  PROVE  QueueIsExact'
  BY DEF QueueIsExact

LEMMA QueueStep == TypeInv /\ QueueIsExact /\ [Next]_vars => QueueIsExact'
<1> SUFFICES ASSUME TypeInv, QueueIsExact, [Next]_vars PROVE QueueIsExact'
  OBVIOUS
<1> USE DEF TypeInv
<1>0. /\ call \in [Calls -> CallType]
      /\ requests \subseteq Calls \X Tries \X (0 .. MaxVersion)
  BY DEF TypeOK, CallType
<1>1. ASSUME NEW c \in Calls, NEW k \in Keys \cup {NoKey}, Execute(c, k)
      PROVE  QueueIsExact'
  BY <1>0, <1>1, QueueEnter DEF Execute, Free
<1>2. ASSUME NEW c \in Calls, FireRefused(c) PROVE QueueIsExact'
  BY <1>0, <1>2, QueueLeave DEF FireRefused, NoCall
<1>3. ASSUME NEW c \in Calls, FireAllowed(c) PROVE QueueIsExact'
  <2>1. call'[c].phase = "fired" /\ \A d \in Calls : d # c => call'[d] = call[d]
    BY <1>0, <1>3 DEF FireAllowed, CallType
  <2> QED BY <1>3, <2>1, QueueLeave DEF FireAllowed
<1>4. ASSUME NEW c \in Calls, BreakerTimeout(c) PROVE QueueIsExact'
  <2>1. \A d \in Calls : call'[d].phase = "queued" <=> call[d].phase = "queued"
    BY <1>0, <1>4 DEF BreakerTimeout, NoCall
  <2> QED BY <1>4, <2>1, QueueKept DEF BreakerTimeout
<1>5. ASSUME NEW c \in Calls, AttemptFailed(c) \/ GiveUp(c), queue' = queue
      PROVE  QueueIsExact'
  <2>1. \A d \in Calls : call'[d] \in {call[d], NoCall} /\ (call'[d] = call[d] \/ call[d].phase = "fired")
    BY <1>5, AttemptFailedEffect
  <2>2. \A d \in Calls : call'[d].phase = "queued" <=> call[d].phase = "queued"
    BY <2>1 DEF NoCall
  <2> QED BY <1>5, <2>2, QueueKept
<1>6. ASSUME NEW c \in Calls, AttemptTimeout(c) PROVE QueueIsExact'
  BY <1>5, <1>6 DEF AttemptTimeout
<1>7. ASSUME NEW r \in requests, RequestFails(r) PROVE QueueIsExact'
  BY <1>0, <1>5, <1>7 DEF RequestFails
<1>8. ASSUME NEW r \in requests, RequestSucceeds(r) PROVE QueueIsExact'
  <2>1. r[1] \in Calls
    BY <1>0
  <2>2. \A d \in Calls : call'[d].phase = "queued" <=> call[d].phase = "queued"
    <3>1. CASE call[r[1]].phase = "fired"
      BY <1>0, <1>8, <2>1, <3>1 DEF RequestSucceeds, NoCall
    <3>2. CASE call[r[1]].phase # "fired"
      BY <1>8, <3>2 DEF RequestSucceeds
    <3> QED BY <3>1, <3>2
  <2> QED BY <1>8, <2>2, QueueKept DEF RequestSucceeds
<1>9. ASSUME UNCHANGED <<call, queue>> PROVE QueueIsExact'
  BY <1>9 DEF QueueIsExact
<1> QED BY <1>1, <1>2, <1>3, <1>4, <1>6, <1>7, <1>8, <1>9
        DEF Next, Retry, RequestDropped, VenueServes, HalfOpen, ClearCache, Evict,
            VenueMoves, vars

\* The limiter loses no queued call and starts none twice.
THEOREM QueueCorrect == Spec => []QueueIsExact
<1> DEFINE Inv == TypeInv /\ QueueIsExact
<1>1. Init => Inv
  BY TypeInit, QueueInit
<1>2. Inv /\ [Next]_vars => Inv'
  BY TypeStep, BackoffStep, QueueStep DEF TypeInv
<1> QED BY <1>1, <1>2, PTL DEF Spec

\* A call that waits in the queue keeps its place, moves up by one, or has started or been
\* refused as the first.
MovesUp(i) ==
  \/ i \in DOMAIN queue' /\ queue'[i] = queue[i]
  \/ i > 1 /\ i - 1 \in DOMAIN queue' /\ queue'[i - 1] = queue[i]
  \/ i = 1 /\ call'[queue[1]].phase # "queued"
QueueMovesUp == \A i \in DOMAIN queue : MovesUp(i)

LEMMA QueueOrderStep == TypeInv /\ [Next]_vars => QueueMovesUp
<1> SUFFICES ASSUME TypeInv, [Next]_vars, NEW i \in DOMAIN queue PROVE MovesUp(i)
  BY DEF QueueMovesUp
<1>0. /\ queue \in Seq(Calls) /\ Len(queue) \in Nat /\ DOMAIN queue = 1 .. Len(queue)
      /\ call \in [Calls -> CallType]
  BY DEF TypeInv, TypeOK, CallType
<1>1. ASSUME queue' = queue PROVE MovesUp(i)
  BY <1>1 DEF MovesUp
<1>2. ASSUME NEW c \in Calls, NEW k \in Keys \cup {NoKey}, Execute(c, k) PROVE MovesUp(i)
  <2>1. queue' = Append(queue, c)
    BY <1>2 DEF Execute
  <2> QED BY <1>0, <2>1 DEF MovesUp
<1>3. ASSUME NEW c \in Calls, Fire(c) PROVE MovesUp(i)
  <2>1. queue # << >> /\ c = queue[1] /\ queue' = Tail(queue)
    BY <1>0, <1>3 DEF Fire, FireRefused, FireAllowed
  <2>2. call'[c].phase # "queued"
    BY <1>0, <1>3 DEF Fire, FireRefused, FireAllowed, CallType, NoCall
  <2>3. CASE i = 1
    BY <2>1, <2>2, <2>3 DEF MovesUp
  <2>4. CASE i # 1
    <3>1. i > 1 /\ i - 1 \in DOMAIN queue' /\ queue'[i - 1] = queue[i]
      BY <1>0, <2>1, <2>4
    <3> QED BY <3>1 DEF MovesUp
  <2> QED BY <2>3, <2>4
<1> QED BY <1>1, <1>2, <1>3
        DEF Next, Fire, BreakerTimeout, AttemptTimeout, Retry, RequestDropped, RequestFails,
            RequestSucceeds, VenueServes, HalfOpen, ClearCache, Evict, VenueMoves, vars

\* Nobody overtakes a call that waits for the limiter, and none leaves it but as the first.
THEOREM QueueOrderCorrect == Spec => [][QueueMovesUp]_vars
<1>1. Init => TypeInv
  BY TypeInit
<1>2. TypeInv /\ [Next]_vars => TypeInv' /\ [QueueMovesUp]_vars
  BY TypeStep, BackoffStep, QueueOrderStep DEF TypeInv
<1> QED BY <1>1, <1>2, PTL DEF Spec

-----------------------------------------------------------------------------
(* What is cached *)

\* Every answer at the venue was served after the call of its slot was made, and
\* no call was made in the venue's future.
AnswersAreNew ==
  /\ \A c \in Calls : call[c].since <= version
  /\ \A r \in requests : r[3] # 0 => r[3] >= call[r[1]].since

LEMMA AnswersInit == Init => AnswersAreNew
  BY DEF Init, AnswersAreNew, NoCall

LEMMA AnswersStep == TypeInv /\ AnswersAreNew /\ [Next]_vars => AnswersAreNew'
<1> SUFFICES ASSUME TypeInv, AnswersAreNew, [Next]_vars PROVE AnswersAreNew'
  OBVIOUS
<1> USE DEF TypeInv
<1>0. /\ call \in [Calls -> CallType] /\ version \in Versions
      /\ requests \subseteq Calls \X Tries \X (0 .. MaxVersion)
      /\ Versions \subseteq Nat \ {0} /\ NoCall.since = 1
  BY DEF TypeOK, CallType, Versions, NoCall
<1>1. ASSUME NEW c \in Calls, NEW k \in Keys \cup {NoKey}, Execute(c, k)
      PROVE  AnswersAreNew'
  <2>1. call'[c].since = version /\ \A d \in Calls : d # c => call'[d] = call[d]
    BY <1>0, <1>1 DEF Execute
  <2>2. \A r \in requests : r[1] # c /\ r[1] \in Calls
    BY <1>0, <1>1 DEF Execute, Free
  <2> QED BY <1>0, <1>1, <2>1, <2>2 DEF Execute, AnswersAreNew
<1>2. ASSUME \A d \in Calls : call'[d].since \in {call[d].since, 1},
             requests' \subseteq requests \cup {<<d, i, 0>> : d \in Calls, i \in Tries},
             version' = version
      PROVE  AnswersAreNew'
  <2>0. \A d \in Calls : call[d].since \in Nat \ {0}
    <3>1. \A d \in Calls : call[d].since \in Versions
      BY <1>0 DEF CallType
    <3> QED BY <1>0, <3>1
  <2>1. \A d \in Calls : call[d].since \in Nat \ {0} /\ call'[d].since <= call[d].since
    <3> TAKE d \in Calls
    <3>1. call[d].since \in Nat /\ call[d].since # 0
      BY <2>0
    <3>2. call'[d].since = call[d].since \/ call'[d].since = 1
      BY <1>2
    <3> QED BY <3>1, <3>2
  <2>2. \A r \in requests' : r[3] # 0 => r \in requests /\ r[1] \in Calls /\ r[3] \in Nat
    BY <1>0, <1>2
  <2>3. \A d \in Calls : call'[d].since \in Nat
    BY <1>2, <2>1
  <2> QED BY <1>0, <1>2, <2>1, <2>2, <2>3 DEF AnswersAreNew
<1>3. ASSUME NEW c \in Calls, Fire(c) PROVE AnswersAreNew'
  <2>1. CASE FireRefused(c)
    BY <1>0, <1>2, <2>1 DEF FireRefused, CallType
  <2>2. CASE FireAllowed(c)
    <3>1. \A d \in Calls : call'[d].since = call[d].since
      BY <1>0, <2>2 DEF FireAllowed, CallType
    <3>2. requests' = requests \cup {<<c, 1, 0>>} /\ 1 \in Tries
      BY <2>2, Constants DEF FireAllowed
    <3> QED BY <1>0, <1>2, <2>2, <3>1, <3>2 DEF FireAllowed
  <2> QED BY <1>3, <2>1, <2>2 DEF Fire
<1>4. ASSUME NEW c \in Calls, BreakerTimeout(c) PROVE AnswersAreNew'
  <2>1. \A d \in Calls : call'[d].since \in {call[d].since, 1}
    BY <1>0, <1>4 DEF BreakerTimeout
  <2> QED BY <1>2, <1>4, <2>1 DEF BreakerTimeout
<1>5. ASSUME NEW c \in Calls, AttemptFailed(c) \/ GiveUp(c),
             requests' \subseteq requests, version' = version
      PROVE  AnswersAreNew'
  <2>1. \A d \in Calls : call'[d] \in {call[d], NoCall}
    BY <1>5, AttemptFailedEffect
  <2>2. \A d \in Calls : call'[d].since \in {call[d].since, 1}
    BY <1>0, <2>1
  <2> QED BY <1>2, <1>5, <2>2
<1>6. ASSUME NEW c \in Calls, AttemptTimeout(c) PROVE AnswersAreNew'
  BY <1>5, <1>6 DEF AttemptTimeout
<1>7. ASSUME NEW c \in Calls, Retry(c) PROVE AnswersAreNew'
  <2>1. loop[c].try + 1 \in Tries
    BY <1>7 DEF Retry, BackoffHasTry, TypeOK, Tries
  <2> QED BY <1>2, <1>7, <2>1 DEF Retry
<1>8. ASSUME NEW r \in requests, RequestFails(r) PROVE AnswersAreNew'
  <2>1. r[1] \in Calls
    BY <1>0
  <2> QED BY <1>5, <1>8, <2>1 DEF RequestFails
<1>9. ASSUME NEW r \in requests, RequestSucceeds(r) PROVE AnswersAreNew'
  <2>1. r[1] \in Calls
    BY <1>0
  <2>2. \A d \in Calls : call'[d].since \in {call[d].since, 1}
    <3>1. CASE call[r[1]].phase = "fired"
      BY <1>0, <1>9, <2>1, <3>1 DEF RequestSucceeds
    <3>2. CASE call[r[1]].phase # "fired"
      BY <1>9, <3>2 DEF RequestSucceeds
    <3> QED BY <3>1, <3>2
  <2> QED BY <1>2, <1>9, <2>2 DEF RequestSucceeds
<1>10. ASSUME NEW r \in requests, VenueServes(r) PROVE AnswersAreNew'
  <2>1. r[1] \in Calls /\ requests' = (requests \ {r}) \cup {<<r[1], r[2], version>>}
    BY <1>0, <1>10 DEF VenueServes
  <2> QED BY <1>0, <1>10, <2>1 DEF VenueServes, AnswersAreNew
<1>11. CASE VenueMoves
  <2>1. version' = version + 1 /\ UNCHANGED <<call, requests>>
    BY <1>11 DEF VenueMoves
  <2>2. \A d \in Calls : call[d].since \in Nat /\ version \in Nat
    BY <1>0 DEF CallType
  <2> QED BY <2>1, <2>2 DEF AnswersAreNew
<1>12. ASSUME UNCHANGED <<call, version>>, requests' \subseteq requests
       PROVE  AnswersAreNew'
  BY <1>12 DEF AnswersAreNew
<1> QED BY <1>1, <1>3, <1>4, <1>6, <1>7, <1>8, <1>9, <1>10, <1>11, <1>12
        DEF Next, Fire, RequestDropped, HalfOpen, ClearCache, Evict, vars

-----------------------------------------------------------------------------
(* The load on the venue *)

\* A call never has more than retries + 1 requests at the venue, although an attempt
\* that times out leaves its own there and the loop outlives the call.
RequestsOf(c) == {r \in requests : r[1] = c}
LoadIsBounded == \A c \in Calls : Cardinality(RequestsOf(c)) <= Retries + 1

\* A loop that runs goes on to its next attempt or ends; nothing starts it again.
LoopGoesOn(c) ==
  \/ loop'[c] = loop[c] \/ loop'[c].phase = "none"
  \/ loop[c].phase = "attempt" /\ loop'[c].phase = "backoff" /\ loop'[c].try = loop[c].try
  \/ loop[c].phase = "backoff" /\ loop'[c].phase = "attempt" /\ loop'[c].try = loop[c].try + 1
LoopsGoOn == \A c \in Calls : loop[c].phase # "none" => LoopGoesOn(c)

\* Attempts have a request each, none is of an attempt to come, and a call that waits in
\* the queue has left nothing of the call before it behind.
LoadInv ==
  /\ \A q, r \in requests : q[1] = r[1] /\ q[2] = r[2] => q = r
  /\ \A r \in requests : loop[r[1]].phase # "none" => r[2] <= loop[r[1]].try
  /\ \A c \in Calls : call[c].phase = "queued" =>
       loop[c].phase = "none" /\ \A r \in requests : r[1] # c

LEMMA HeadIsQueued ==
  ASSUME TypeOK, QueueIsExact, NEW c \in Calls, queue # << >>, c = Head(queue)
  PROVE  call[c].phase = "queued"
<1>1. queue \in Seq(Calls) /\ 1 \in DOMAIN queue /\ queue[1] = c
  BY DEF TypeOK
<1> QED BY <1>1 DEF QueueIsExact

\* What makes no request, queues no call and starts no loop.
LEMMA LoadKept ==
  ASSUME TypeOK, LoadInv, requests' \subseteq requests,
         \A c \in Calls : call'[c].phase = "queued" => call[c].phase = "queued",
         \A c \in Calls : loop'[c].phase # "none" =>
           loop[c].phase # "none" /\ loop'[c].try = loop[c].try
  PROVE  LoadInv'
<1>1. \A r \in requests : r[1] \in Calls
  BY DEF TypeOK
<1> QED BY <1>1 DEF LoadInv

LEMMA LoadStep ==
  ASSUME TypeInv, QueueIsExact, LoadInv, [Next]_vars
  PROVE  LoadInv' /\ LoopsGoOn
<1> USE DEF TypeInv
<1>0. /\ call \in [Calls -> CallType] /\ loop \in [Calls -> LoopType]
      /\ requests \subseteq Calls \X Tries \X (0 .. MaxVersion)
      /\ \A r \in requests : r[1] \in Calls /\ r[2] \in Nat
      /\ \A c \in Calls : loop[c].try \in Nat
  BY DEF TypeOK, CallType, LoopType, Tries
<1>1. ASSUME NEW c \in Calls, NEW k \in Keys \cup {NoKey}, Execute(c, k)
      PROVE  LoadInv' /\ LoopsGoOn
  <2>1. /\ loop[c].phase = "none" /\ \A r \in requests : r[1] # c
        /\ UNCHANGED <<loop, requests>> /\ \A d \in Calls : d # c => call'[d] = call[d]
    BY <1>0, <1>1 DEF Execute, Free
  <2> QED BY <2>1 DEF LoadInv, LoopsGoOn, LoopGoesOn
<1>2. ASSUME NEW c \in Calls, FireRefused(c) PROVE LoadInv' /\ LoopsGoOn
  <2>1. UNCHANGED <<loop, requests>> /\ \A d \in Calls : call'[d] \in {call[d], NoCall}
    BY <1>0, <1>2 DEF FireRefused
  <2> QED BY <2>1, LoadKept DEF LoopsGoOn, LoopGoesOn, NoCall
<1>3. ASSUME NEW c \in Calls, FireAllowed(c) PROVE LoadInv' /\ LoopsGoOn
  <2>1. call[c].phase = "queued"
    BY <1>3, HeadIsQueued DEF FireAllowed
  <2>2. loop[c].phase = "none" /\ \A r \in requests : r[1] # c
    BY <2>1 DEF LoadInv
  <2>3. /\ call'[c].phase = "fired" /\ loop'[c].try = 1
        /\ \A d \in Calls : d # c => call'[d] = call[d] /\ loop'[d] = loop[d]
        /\ requests' = requests \cup {<<c, 1, 0>>}
    BY <1>0, <1>3 DEF FireAllowed, CallType
  <2> QED BY <1>0, <2>2, <2>3 DEF LoadInv, LoopsGoOn, LoopGoesOn
<1>4. ASSUME NEW c \in Calls, BreakerTimeout(c) PROVE LoadInv' /\ LoopsGoOn
  <2>1. UNCHANGED <<loop, requests>> /\ \A d \in Calls : call'[d] \in {call[d], NoCall}
    BY <1>0, <1>4 DEF BreakerTimeout
  <2> QED BY <2>1, LoadKept DEF LoopsGoOn, LoopGoesOn, NoCall
<1>5. ASSUME NEW c \in Calls, loop[c].phase = "attempt", AttemptFailed(c) \/ GiveUp(c),
             requests' \subseteq requests
      PROVE  LoadInv' /\ LoopsGoOn
  <2>1. /\ \A d \in Calls : d # c => loop'[d] = loop[d]
        /\ \/ loop'[c].phase = "none"
           \/ loop'[c].phase = "backoff" /\ loop'[c].try = loop[c].try
        /\ \A d \in Calls : call'[d] \in {call[d], NoCall}
    BY <1>5, AttemptFailedEffect
  <2>2. \A d \in Calls : loop'[d].phase # "none" =>
          loop[d].phase # "none" /\ loop'[d].try = loop[d].try
    BY <1>5, <2>1
  <2>3. LoadInv'
    BY <1>5, <2>1, <2>2, LoadKept DEF NoCall
  <2>4. LoopsGoOn
    BY <1>5, <2>1 DEF LoopsGoOn, LoopGoesOn
  <2> QED BY <2>3, <2>4
<1>6. ASSUME NEW c \in Calls, AttemptTimeout(c) PROVE LoadInv' /\ LoopsGoOn
  BY <1>5, <1>6 DEF AttemptTimeout
<1>7. ASSUME NEW c \in Calls, Retry(c) PROVE LoadInv' /\ LoopsGoOn
  <2>1. /\ loop[c].phase = "backoff" /\ loop'[c].phase = "attempt"
        /\ loop'[c].try = loop[c].try + 1
        /\ \A d \in Calls : d # c => loop'[d] = loop[d]
        /\ call' = call /\ requests' = requests \cup {<<c, loop[c].try + 1, 0>>}
    BY <1>0, <1>7 DEF Retry
  <2>2. \A r \in requests : r[1] = c => r[2] <= loop[c].try
    BY <2>1 DEF LoadInv
  <2>3. LoopsGoOn
    BY <2>1 DEF LoopsGoOn, LoopGoesOn
  <2>4. ASSUME NEW q \in requests', NEW r \in requests', q[1] = r[1], q[2] = r[2] PROVE q = r
    BY <1>0, <2>1, <2>2, <2>4 DEF LoadInv
  <2>5. ASSUME NEW r \in requests', loop'[r[1]].phase # "none" PROVE r[2] <= loop'[r[1]].try
    BY <1>0, <2>1, <2>2, <2>5 DEF LoadInv
  <2>6. ASSUME NEW d \in Calls, call'[d].phase = "queued"
        PROVE  loop'[d].phase = "none" /\ \A r \in requests' : r[1] # d
    BY <2>1, <2>6 DEF LoadInv
  <2> QED BY <2>3, <2>4, <2>5, <2>6 DEF LoadInv
<1>8. ASSUME NEW r \in requests, RequestFails(r) PROVE LoadInv' /\ LoopsGoOn
  <2>1. r[1] \in Calls /\ loop[r[1]].phase = "attempt" /\ requests' \subseteq requests
    BY <1>0, <1>8 DEF RequestFails, Awaited
  <2> QED BY <1>5, <1>8, <2>1 DEF RequestFails
<1>9. ASSUME NEW r \in requests, RequestSucceeds(r) PROVE LoadInv' /\ LoopsGoOn
  <2>1. /\ r[1] \in Calls /\ loop'[r[1]].phase = "none" /\ requests' \subseteq requests
        /\ \A d \in Calls : d # r[1] => loop'[d] = loop[d]
    BY <1>0, <1>9 DEF RequestSucceeds, NoLoop
  <2>2. \A d \in Calls : call'[d] \in {call[d], NoCall}
    BY <1>0, <1>9 DEF RequestSucceeds
  <2>3. LoadInv'
    BY <2>1, <2>2, LoadKept DEF NoCall
  <2> QED BY <2>1, <2>3 DEF LoopsGoOn, LoopGoesOn
<1>10. ASSUME NEW r \in requests, VenueServes(r) PROVE LoadInv' /\ LoopsGoOn
  <2>1. /\ UNCHANGED <<call, loop>> /\ r[1] \in Calls
        /\ requests' = (requests \ {r}) \cup {<<r[1], r[2], version>>}
    BY <1>0, <1>10 DEF VenueServes
  <2>2. ASSUME NEW p \in requests', NEW q \in requests', p[1] = q[1], p[2] = q[2] PROVE p = q
    BY <2>1, <2>2 DEF LoadInv
  <2>3. \A q \in requests' : \E p \in requests : p[1] = q[1] /\ p[2] = q[2]
    BY <2>1
  <2>4. ASSUME NEW q \in requests', loop'[q[1]].phase # "none" PROVE q[2] <= loop'[q[1]].try
    BY <2>1, <2>3, <2>4 DEF LoadInv
  <2>5. ASSUME NEW d \in Calls, call'[d].phase = "queued"
        PROVE  loop'[d].phase = "none" /\ \A q \in requests' : q[1] # d
    BY <2>1, <2>3, <2>5 DEF LoadInv
  <2> QED BY <2>1, <2>2, <2>4, <2>5 DEF LoadInv, LoopsGoOn, LoopGoesOn
<1>11. ASSUME UNCHANGED <<call, loop>>, requests' \subseteq requests
       PROVE  LoadInv' /\ LoopsGoOn
  BY <1>11, LoadKept DEF LoopsGoOn, LoopGoesOn
<1> QED BY <1>1, <1>2, <1>3, <1>4, <1>6, <1>7, <1>8, <1>9, <1>10, <1>11
        DEF Next, RequestDropped, HalfOpen, ClearCache, Evict, VenueMoves, vars

\* Requests of one call differ by their attempt, of which there are retries + 1.
LEMMA LoadIsTries ==
  ASSUME TypeOK, LoadInv
  PROVE  LoadIsBounded
<1> SUFFICES ASSUME NEW c \in Calls PROVE Cardinality(RequestsOf(c)) <= Retries + 1
  BY DEF LoadIsBounded
<1> DEFINE f == [r \in RequestsOf(c) |-> r[2]]
<1>1. f \in Injection(RequestsOf(c), Tries)
  <2>1. \A r \in RequestsOf(c) : r[2] \in Tries
    BY DEF RequestsOf, TypeOK
  <2>2. \A q, r \in RequestsOf(c) : f[q] = f[r] => q = r
    BY DEF RequestsOf, LoadInv
  <2> QED BY <2>1, <2>2 DEF Injection, IsInjective
<1>2. IsFiniteSet(Tries) /\ Cardinality(Tries) = Retries + 1
  BY FS_Interval DEF Tries
<1> QED BY <1>1, <1>2, FS_Injection

\* The limiter bounds the calls it starts, not what they leave at the venue.  That is
\* bounded too: a call has at most a request for each of its retries + 1 attempts there,
\* and its loop, which outlives the call, only goes on to the next attempt or ends.
THEOREM LoadCorrect == Spec => []LoadIsBounded /\ [][LoopsGoOn]_vars
<1> DEFINE Inv == TypeInv /\ QueueIsExact /\ LoadInv
<1>1. Init => Inv
  BY TypeInit, QueueInit DEF Init, LoadInv, NoCall, NoLoop
<1>2. Inv /\ [Next]_vars => Inv'
  BY TypeStep, BackoffStep, QueueStep, LoadStep DEF TypeInv
<1>3. Inv /\ [Next]_vars => [LoopsGoOn]_vars
  BY LoadStep
<1>4. Inv => LoadIsBounded
  BY LoadIsTries DEF TypeInv
<1> QED BY <1>1, <1>2, <1>3, <1>4, PTL DEF Spec

-----------------------------------------------------------------------------
(* The cache *)

\* Only the answer to the newest request of a call that still waits, served
\* after the call was made, is ever cached: no late answer of an earlier attempt
\* or of a given-up call is.
THEOREM CachesOwnAnswerCorrect == Spec => CachesOwnAnswer
<1> DEFINE Inv == TypeInv /\ QueueIsExact /\ LoadInv /\ AnswersAreNew
           Own(r, k) ==
             /\ r[1] \in Fired /\ call[r[1]].key = k
             /\ loop[r[1]].phase = "attempt"
             /\ \A q \in requests : q[1] = r[1] => q[2] <= r[2]
             /\ cache'[k] = r[3] /\ r[3] >= call[r[1]].since
           OwnAnswer == \A k \in Keys : cache'[k] \notin {0, cache[k]} =>
                          \E r \in requests \ requests' : Own(r, k)
<1>1. Init => Inv
  BY TypeInit, QueueInit, AnswersInit DEF Init, LoadInv, NoCall, NoLoop
<1>2. Inv /\ [Next]_vars => Inv'
  BY TypeStep, BackoffStep, QueueStep, LoadStep, AnswersStep DEF TypeInv
<1>3. Inv /\ [Next]_vars => [OwnAnswer]_vars
  <2> SUFFICES ASSUME Inv, Next, NEW k \in Keys, cache'[k] \notin {0, cache[k]}
               PROVE  \E r \in requests \ requests' : Own(r, k)
    OBVIOUS
  <2>0. cache \in [Keys -> 0 .. MaxVersion] /\ requests \subseteq Calls \X Tries \X (0 .. MaxVersion)
    BY DEF TypeInv, TypeOK
  <2>1. CASE \E r \in requests : RequestSucceeds(r)
    <3>1. PICK r \in requests : RequestSucceeds(r)
      BY <2>1
    <3>2. r[1] \in Calls /\ call[r[1]].phase = "fired" /\ r \notin requests'
      BY <2>0, <3>1 DEF RequestSucceeds
    <3>3. cache' = [x \in Keys |-> IF x = call[r[1]].key THEN r[3] ELSE cache[x]] /\ r[3] # 0
      BY <3>1, <3>2 DEF RequestSucceeds
    <3>4. call[r[1]].key = k /\ cache'[k] = r[3]
      BY <3>3
    <3>5. r[3] >= call[r[1]].since
      BY <3>3 DEF AnswersAreNew
    <3>6. loop[r[1]].phase = "attempt" /\ loop[r[1]].try = r[2]
      BY <3>1 DEF RequestSucceeds, Awaited
    <3>7. \A q \in requests : q[1] = r[1] => q[2] <= r[2]
      BY <3>6 DEF LoadInv
    <3>8. Own(r, k)
      BY <3>2, <3>4, <3>5, <3>6, <3>7 DEF Fired
    <3> QED BY <3>2, <3>8
  <2>2. CASE ClearCache \/ \E x \in Keys : Evict(x)
    BY <2>0, <2>2 DEF ClearCache, Evict
  <2>3. CASE cache' = cache
    BY <2>3
  <2> QED BY <2>1, <2>2, <2>3
          DEF Next, Execute, FireRefused, FireAllowed, BreakerTimeout, AttemptTimeout,
              Retry, RequestDropped, RequestFails, VenueServes, HalfOpen, VenueMoves
<1>4. Spec => [][OwnAnswer]_vars
  BY <1>1, <1>2, <1>3, PTL DEF Spec
<1> QED BY <1>4 DEF CachesOwnAnswer
=============================================================================
