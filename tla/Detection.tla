------------------------------ MODULE Detection ------------------------------
(***************************************************************************)
(* How market data becomes the opportunities that the API serves:           *)
(* ArbitrageService.refreshOpportunities (apps/api), the ArbitragePipeline   *)
(* it calls, the DataQualityEngine and the SpotSpatialDetector.             *)
(*                                                                          *)
(* A refresh asks every venue for every symbol, one after the other, across *)
(* awaits.  What follows the last answer runs in one go: every tick is      *)
(* checked, the accepted ones are compared pair by pair, and the cache is   *)
(* replaced.  A timer starts a refresh every Period whether or not the one  *)
(* before is over; refreshes that overlap share what the quality engine     *)
(* remembers.                                                               *)
(*                                                                          *)
(* Prices and times are integers.  Fractions (slippage, fees, the least     *)
(* spread) are counts of 1/Scale.  fetchTicker is over-approximated: the    *)
(* adapters of the repository answer at once from constants, so that their  *)
(* refreshes do not overlap, and here it may answer late, fail, or answer   *)
(* with any tick of Answers.                                                *)
(***************************************************************************)
EXTENDS Integers, Sequences

CONSTANTS
  FeedList,       \* the venues and symbols in the order a refresh asks for them
  Answers,        \* what each feed may answer with
  Refreshes,      \* slots for refreshes under way
  MaxAge,         \* thresholds of the quality engine
  MaxDrift,
  JumpPercent,
  Scale, Taker, Slip, MinSpread,
  Capital,        \* money of one trade
  Gas, HalfCent,  \* money, in 1/Scale of the unit of Capital
  Lifetime,       \* what a detected opportunity is said to last
  Period,         \* of the refresh timer
  MaxTime         \* bound: how long the clock runs

Feeds == DOMAIN FeedList

AnswerType == [bid : Int, ask : Int, last : Int, ok : BOOLEAN, delay : Int]

ASSUME DetectionAssumption ==
  /\ FeedList \in Seq([venue : STRING, symbol : STRING])
  /\ FeedList # <<>>
  /\ Answers \in [Feeds -> SUBSET AnswerType]
  /\ MaxAge \in Nat /\ MaxDrift \in Nat /\ JumpPercent \in Nat
  /\ Scale \in Nat /\ Taker \in Nat /\ Slip \in Nat /\ MinSpread \in Nat
  /\ Taker + Slip <= Scale
  /\ Capital \in Nat /\ Gas \in Nat /\ HalfCent \in Nat
  /\ Lifetime \in Nat /\ Period \in Nat /\ MaxTime \in Nat
  /\ Period <= Lifetime      \* in the code both are five seconds

\* A ticker; ok is FALSE when one of its prices is not a number.
Ticker == [bid : Int, ask : Int, last : Int, ok : BOOLEAN, timestamp : Int]

\* The place of a venue that failed: nothing is in the list of tickers for it.
Missing == [bid |-> 0, ask |-> 0, last |-> 0, ok |-> FALSE, timestamp |-> 0]

VARIABLES
  now,          \* Date.now()
  refreshes,    \* the feed each one waits for (0: none), what it has collected
  timer,        \* whether the interval is set, and when it is next due
  lastKnown,    \* lastKnownPrices; 0, which counts for none, where it has no entry
  cache,        \* the spot opportunities of cachedOpportunities
  trail         \* history: each feed's last accepted price, and those rejected since

vars == <<now, refreshes, timer, lastKnown, cache, trail>>

-----------------------------------------------------------------------------
(* DataQualityEngine *)

Distance(x, y) == IF x >= y THEN x - y ELSE y - x

\* A previous price that is zero or negative allows any jump.
Jump(previous, last) ==
  previous > 0 /\ Distance(last, previous) * 100 > JumpPercent * previous

\* Mutant: only a locked book is caught.
CrossedLocked(t) == t.bid = t.ask

Crossed(t) == t.bid >= t.ask

\* Mutant: measured by the limit for the drift.
StaleByDrift(t) == now - t.timestamp > MaxDrift

Stale(t) == now - t.timestamp > MaxAge

Status(t, previous) ==
  IF t.bid <= 0 \/ t.ask <= 0 \/ t.last <= 0 \/ Crossed(t) THEN "INVALID"
  ELSE IF Stale(t) THEN "STALE"
  ELSE IF Jump(previous, t.last) \/ Distance(now, t.timestamp) > MaxDrift THEN "SUSPICIOUS"
  ELSE "VALID"

Executable(got, i) == got[i].ok /\ Status(got[i], lastKnown[i]) = "VALID"

\* Mutant: a venue that fails loses its entry.
RememberAnswers(got) == [i \in Feeds |-> IF got[i].ok THEN got[i].last ELSE 0]

\* Rejected prices are remembered too; those that do not parse are not.
Remember(got) == [i \in Feeds |-> IF got[i].ok THEN got[i].last ELSE lastKnown[i]]

-----------------------------------------------------------------------------
(* SpotSpatialDetector and calculateSpotArbitrage *)

\* The net profit, times the ask: Capital / ask is bought and sold at the bid,
\* less the two fees, the slippage of the sale, and the gas.
NetProfit(bid, ask) ==
  Capital * (bid * (Scale - Taker - Slip) - ask * (Scale + Taker)) - Gas * ask

WideEnough(bid, ask) == (bid - ask) * Scale >= MinSpread * ask

\* The pipeline keeps what is still positive after toFixed(2).
Profitable(bid, ask) == NetProfit(bid, ask) > 0 /\ NetProfit(bid, ask) >= HalfCent * ask

Pays(buy, sell) ==
  /\ sell.bid > buy.ask
  /\ WideEnough(sell.bid, buy.ask)
  /\ Profitable(sell.bid, buy.ask)

Opportunity(i, j, got) ==
  [buy |-> i, sell |-> j, ask |-> got[i].ask, bid |-> got[j].bid,
   oldest |-> IF got[i].timestamp <= got[j].timestamp THEN got[i].timestamp
                                                        ELSE got[j].timestamp,
   detected |-> now, expires |-> now + Lifetime]

Pairs(got) ==
  {p \in Feeds \X Feeds :
     /\ p[1] # p[2]
     /\ FeedList[p[1]].symbol = FeedList[p[2]].symbol
     /\ Executable(got, p[1]) /\ Executable(got, p[2])
     /\ Pays(got[p[1]], got[p[2]])}

\* Mutant: a refresh that finds nothing leaves the cache alone.
ProcessTickersOrKeep(got) ==
  IF Pairs(got) = {} THEN cache ELSE {Opportunity(p[1], p[2], got) : p \in Pairs(got)}

ProcessTickers(got) == {Opportunity(p[1], p[2], got) : p \in Pairs(got)}

-----------------------------------------------------------------------------
(* ArbitrageService *)

OpportunityType ==
  [buy : Feeds, sell : Feeds, ask : Int, bid : Int,
   oldest : Int, detected : Nat, expires : Nat]

TypeOK ==
  /\ now \in Nat
  /\ refreshes \in [Refreshes -> [feed : {0} \cup Feeds, got : [Feeds -> Ticker]]]
  /\ timer \in [set : BOOLEAN, due : Nat]
  /\ lastKnown \in [Feeds -> Int]
  /\ cache \subseteq OpportunityType
  /\ trail \in [Feeds -> [accepted : Int, rejected : SUBSET Int]]
  \* Before the timer is set there is one refresh at most: the first.
  /\ \A r, s \in Refreshes :
       ~timer.set /\ refreshes[r].feed # 0 /\ refreshes[s].feed # 0 => r = s

Idle == [feed |-> 0, got |-> [i \in Feeds |-> Missing]]

Init ==
  /\ now = 0
  /\ refreshes = [r \in Refreshes |-> Idle]
  /\ timer = [set |-> FALSE, due |-> 0]
  /\ lastKnown = [i \in Feeds |-> 0]
  /\ cache = {}
  /\ trail = [i \in Feeds |-> [accepted |-> 0, rejected |-> {}]]

\* A refresh begins by asking the first feed.
Begin(r) ==
  /\ refreshes[r].feed = 0
  /\ refreshes' = [refreshes EXCEPT ![r].feed = 1]
  /\ UNCHANGED <<now, lastKnown, cache, trail>>

\* onModuleInit waits for the first refresh before it sets the timer.
OnModuleInit(r) ==
  /\ ~timer.set
  /\ \A s \in Refreshes : refreshes[s].feed = 0
  /\ Begin(r)
  /\ UNCHANGED timer

\* Mutant: the interval is set without waiting for the first refresh.
TimerFiresAtOnce(r) ==
  /\ now >= timer.due
  /\ Begin(r)
  /\ timer' = [timer EXCEPT !.due = now + Period]

TimerFires(r) ==
  /\ timer.set /\ now >= timer.due
  /\ Begin(r)
  /\ timer' = [timer EXCEPT !.due = now + Period]

\* What fetchTicker may come back with.
Fetched(i) ==
  {Missing} \cup
  {[bid |-> a.bid, ask |-> a.ask, last |-> a.last, ok |-> a.ok, timestamp |-> now - a.delay] :
     a \in Answers[i]}

Follow(got) ==
  [i \in Feeds |->
     IF ~got[i].ok THEN trail[i]
     ELSE IF Executable(got, i) THEN [accepted |-> got[i].last, rejected |-> {}]
     ELSE [trail[i] EXCEPT !.rejected = @ \cup {got[i].last}]]

\* fetchTicker settles, and the loop goes on to the next feed.
FetchTicker(r) ==
  LET i == refreshes[r].feed IN
  /\ i \in Feeds /\ i < Len(FeedList)
  /\ \E t \in Fetched(i) :
       refreshes' = [refreshes EXCEPT ![r] = [feed |-> i + 1, got |-> [@.got EXCEPT ![i] = t]]]
  /\ UNCHANGED <<now, timer, lastKnown, cache, trail>>

\* The last one settles: processTickers runs and the cache is replaced.
FetchLast(r) ==
  LET i == refreshes[r].feed IN
  /\ i = Len(FeedList)
  /\ \E t \in Fetched(i) :
       LET got == [refreshes[r].got EXCEPT ![i] = t] IN
       /\ lastKnown' = Remember(got)
       /\ cache' = ProcessTickers(got)
       /\ trail' = Follow(got)
  /\ refreshes' = [refreshes EXCEPT ![r] = Idle]
  /\ timer' = IF timer.set THEN timer ELSE [set |-> TRUE, due |-> now + Period]
  /\ UNCHANGED now

ClockTicks ==
  /\ now < MaxTime
  /\ now' = now + 1
  /\ UNCHANGED <<refreshes, timer, lastKnown, cache, trail>>

Next ==
  \/ \E r \in Refreshes : OnModuleInit(r) \/ TimerFires(r) \/ FetchTicker(r) \/ FetchLast(r)
  \/ ClockTicks

Spec == Init /\ [][Next]_vars

-----------------------------------------------------------------------------
(* Properties *)

\* p gains at least as much on the same capital as q does.
AtLeastAsGood(p, q) == p.bid * q.ask >= q.bid * p.ask

\* When the cache offers to sell on a feed that it also offers to buy on, it
\* offers the direct trade as well, and that one is as good as either: the
\* offers never lead around a circle, as they would if a crossed tick reached
\* the detector (crossed-book check, spot-spatial.detector.ts pair loop).
ChainsAreDominated ==
  \A p, q \in cache : p.sell = q.buy =>
    \E d \in cache :
      /\ d.buy = p.buy /\ d.sell = q.sell /\ d.buy # d.sell
      /\ AtLeastAsGood(d, p) /\ AtLeastAsGood(d, q)

\* Between two accepted ticks of a feed that are a jump apart lies a rejected
\* one, and one of those rejected was already at the new price (or had no
\* positive price, after which the engine lets anything pass): rejected ticks
\* overwrite lastKnownPrices too, and so does any other refresh under way.
JumpsAreAnnounced ==
  [][\A i \in Feeds :
       Jump(trail[i].accepted, trail'[i].accepted) =>
         \E p \in trail[i].rejected : ~Jump(p, trail'[i].accepted)]_vars

\* However long a refresh takes, and whatever it replaces, the cache never goes
\* back to ticks that were more than MaxAge old when the replaced opportunity was
\* detected: their age is measured at the refresh's end, not when they came in.
CacheStepsBackLittle ==
  [][\A o \in cache, n \in cache' : n \in cache \/ n.oldest >= o.detected - MaxAge]_vars

\* The getters serve what has expired, as they look at no clock: but only while
\* a refresh is under way, or due and late.  The refresh that finds nothing
\* empties the cache too, and no offer ends before the timer's next turn.
ExpiredIsBeingReplaced ==
  \A o \in cache :
    now >= o.expires => now >= timer.due \/ \E r \in Refreshes : refreshes[r].feed # 0
==============================================================================
