--------------------------- MODULE DetectionProofs ---------------------------
(***************************************************************************)
(* The properties of Detection for any list of feeds, any answers and any   *)
(* number of overlapping refreshes.                                         *)
(***************************************************************************)
EXTENDS Detection, TLAPS

-----------------------------------------------------------------------------
(* Arithmetic *)

LEMMA ProductOfNaturals == \A x, y \in Nat : x * y \in Nat
OBVIOUS

LEMMA Scaled ==
  ASSUME NEW k \in Nat, NEW x \in Int, NEW y \in Int, x <= y
  PROVE  k * x <= k * y /\ x * k <= y * k
<1>1. y - x \in Nat
  OBVIOUS
<1>2. k * (y - x) \in Nat
  BY <1>1, ProductOfNaturals
<1>3. k * (y - x) = k * y - k * x
  OBVIOUS
<1>4. k * x \in Int /\ k * y \in Int /\ x * k = k * x /\ y * k = k * y
  OBVIOUS
<1> HIDE <1>1
<1>5. QED
  BY <1>2, <1>3, <1>4

\* No price is a jump away from itself.
LEMMA NoSelfJump == ASSUME NEW x \in Int PROVE ~Jump(x, x)
<1>1. SUFFICES ASSUME x > 0 PROVE ~(0 > JumpPercent * x)
  BY DEF Jump, Distance
<1>2. JumpPercent * x \in Nat
  BY <1>1, DetectionAssumption, ProductOfNaturals
<1>3. QED
  BY <1>2

\* A sale at a higher bid pays when the sale at the lower one did.
LEMMA HigherBidPays ==
  ASSUME NEW a \in Int, NEW b \in Int, NEW c \in Int, b <= c,
         WideEnough(b, a), Profitable(b, a)
  PROVE  WideEnough(c, a) /\ Profitable(c, a)
<1> DEFINE K == Scale - Taker - Slip
           F == Scale + Taker
<1>1. K \in Nat /\ F \in Nat /\ Scale \in Nat /\ Capital \in Nat /\ Gas \in Nat
  /\ HalfCent \in Nat /\ MinSpread \in Nat
  BY DetectionAssumption
<1>2. WideEnough(c, a)
  <2>1. (b - a) * Scale <= (c - a) * Scale
    BY <1>1, Scaled, b - a \in Int, c - a \in Int, b - a <= c - a
  <2>2. MinSpread * a \in Int /\ (b - a) * Scale \in Int /\ (c - a) * Scale \in Int
    BY <1>1
  <2>3. (b - a) * Scale >= MinSpread * a
    BY DEF WideEnough
  <2>4. (c - a) * Scale >= MinSpread * a
    BY <2>1, <2>2, <2>3
  <2>5. QED
    BY <2>4 DEF WideEnough
<1>3. NetProfit(b, a) <= NetProfit(c, a) /\ NetProfit(b, a) \in Int /\ NetProfit(c, a) \in Int
  <2> DEFINE B == b * K - a * F
             C == c * K - a * F
  <2>1. b * K <= c * K
    BY <1>1, Scaled
  <2>2. b * K \in Int /\ c * K \in Int /\ a * F \in Int
    BY <1>1
  <2>3. B \in Int /\ C \in Int /\ B <= C
    BY <2>1, <2>2
  <2>4. NetProfit(b, a) = Capital * B - Gas * a /\ NetProfit(c, a) = Capital * C - Gas * a
    BY DEF NetProfit
  <2> HIDE DEF B, C
  <2>5. Capital * B <= Capital * C
    BY <1>1, <2>3, Scaled
  <2>6. Capital * B \in Int /\ Capital * C \in Int /\ Gas * a \in Int
    BY <1>1, <2>3
  <2>7. QED
    BY <2>4, <2>5, <2>6
<1>4. HalfCent * a \in Int
  BY <1>1
<1>5. NetProfit(b, a) > 0 /\ NetProfit(b, a) >= HalfCent * a
  BY DEF Profitable
<1>6. NetProfit(c, a) > 0 /\ NetProfit(c, a) >= HalfCent * a
  BY <1>3, <1>4, <1>5
<1>7. QED
  BY <1>2, <1>6 DEF Profitable

-----------------------------------------------------------------------------
(* Types *)

LEMMA FeedNumbers ==
  /\ Feeds = 1 .. Len(FeedList) /\ Len(FeedList) \in Nat /\ 1 \in Feeds
  /\ Missing \in Ticker
<1>1. FeedList \in Seq([venue : STRING, symbol : STRING]) /\ FeedList # <<>>
  BY DetectionAssumption
<1>2. Feeds = 1 .. Len(FeedList) /\ Len(FeedList) \in Nat /\ Len(FeedList) # 0
  BY <1>1 DEF Feeds
<1>3. Missing \in Ticker
  BY DEF Missing, Ticker
<1>4. QED
  BY <1>2, <1>3

LEMMA FetchedTickers ==
  ASSUME TypeOK, NEW i \in Feeds, NEW t \in Fetched(i)
  PROVE  t \in Ticker
<1>1. CASE t = Missing
  BY <1>1, FeedNumbers
<1>2. CASE \E a \in Answers[i] :
             t = [bid |-> a.bid, ask |-> a.ask, last |-> a.last, ok |-> a.ok,
                  timestamp |-> now - a.delay]
  <2>1. PICK a \in Answers[i] :
          t = [bid |-> a.bid, ask |-> a.ask, last |-> a.last, ok |-> a.ok,
               timestamp |-> now - a.delay]
    BY <1>2
  <2>2. a \in AnswerType
    BY DetectionAssumption
  <2>3. now - a.delay \in Int
    BY <2>2 DEF TypeOK, AnswerType
  <2>4. QED
    BY <2>1, <2>2, <2>3 DEF Ticker, AnswerType
<1>3. QED
  BY <1>1, <1>2 DEF Fetched

\* What the last step of a refresh does, with the tickers it has collected.
LEMMA LastStep ==
  ASSUME TypeOK, NEW r \in Refreshes, FetchLast(r)
  PROVE  \E got \in [Feeds -> Ticker] :
           /\ lastKnown' = Remember(got)
           /\ cache' = ProcessTickers(got)
           /\ trail' = Follow(got)
           /\ now' = now
<1> DEFINE i == refreshes[r].feed
<1>1. i \in Feeds
  BY FeedNumbers DEF FetchLast, TypeOK
<1>2. PICK t \in Fetched(i) :
        LET got == [refreshes[r].got EXCEPT ![i] = t] IN
        /\ lastKnown' = Remember(got)
        /\ cache' = ProcessTickers(got)
        /\ trail' = Follow(got)
  BY DEF FetchLast
<1>3. t \in Ticker
  BY <1>1, FetchedTickers
<1>4. refreshes[r].got \in [Feeds -> Ticker]
  BY DEF TypeOK
<1>5. [refreshes[r].got EXCEPT ![i] = t] \in [Feeds -> Ticker]
  BY <1>1, <1>3, <1>4
<1>6. now' = now
  BY DEF FetchLast
<1>7. QED
  BY <1>2, <1>5, <1>6

\* What an opportunity is made of.
LEMMA Found ==
  ASSUME TypeOK, NEW got \in [Feeds -> Ticker], NEW o \in ProcessTickers(got)
  PROVE  /\ o \in OpportunityType
         /\ o = Opportunity(o.buy, o.sell, got)
         /\ <<o.buy, o.sell>> \in Pairs(got)
<1>1. PICK p \in Pairs(got) : o = Opportunity(p[1], p[2], got)
  BY DEF ProcessTickers
<1>2. p \in Feeds \X Feeds
  BY DEF Pairs
<1>3. p = <<p[1], p[2]>> /\ p[1] \in Feeds /\ p[2] \in Feeds
  BY <1>2
<1>4. o.buy = p[1] /\ o.sell = p[2]
  BY <1>1 DEF Opportunity
<1>5. got[p[1]] \in Ticker /\ got[p[2]] \in Ticker
  BY <1>3
<1>6. now \in Nat /\ now + Lifetime \in Nat
  BY DetectionAssumption DEF TypeOK
<1>7. o \in OpportunityType
  BY <1>1, <1>3, <1>5, <1>6 DEF Opportunity, OpportunityType, Ticker
<1>8. QED
  BY <1>1, <1>3, <1>4, <1>7

LEMMA InitTypeOK ==
  ASSUME Init
  PROVE  TypeOK
<1>1. Idle \in [feed : {0} \cup Feeds, got : [Feeds -> Ticker]]
  BY FeedNumbers DEF Idle
<1>2. refreshes \in [Refreshes -> [feed : {0} \cup Feeds, got : [Feeds -> Ticker]]]
  BY <1>1 DEF Init
<1>3. \A r \in Refreshes : refreshes[r].feed = 0
  BY DEF Init, Idle
<1>4. trail \in [Feeds -> [accepted : Int, rejected : SUBSET Int]]
  BY DEF Init
<1>5. lastKnown \in [Feeds -> Int]
  BY DEF Init
<1>6. QED
  BY <1>2, <1>3, <1>4, <1>5 DEF Init, TypeOK

RefreshType == [feed : {0} \cup Feeds, got : [Feeds -> Ticker]]

\* A refresh begins: its types, whoever starts it.
LEMMA BeginTypes ==
  ASSUME TypeOK, NEW r \in Refreshes, Begin(r)
  PROVE  /\ refreshes' \in [Refreshes -> RefreshType]
         /\ \A s \in Refreshes : s # r => refreshes'[s].feed = refreshes[s].feed
<1>1. refreshes \in [Refreshes -> RefreshType]
  BY DEF TypeOK, RefreshType
<1>2. [refreshes[r] EXCEPT !.feed = 1] \in RefreshType
  BY <1>1, FeedNumbers DEF RefreshType
<1>3. refreshes' = [refreshes EXCEPT ![r] = [refreshes[r] EXCEPT !.feed = 1]]
  BY <1>1 DEF Begin
<1>4. QED
  BY <1>1, <1>2, <1>3

\* One turn of the loop: the refresh waits for the next feed.
LEMMA FetchTickerTypes ==
  ASSUME TypeOK, NEW r \in Refreshes, FetchTicker(r)
  PROVE  /\ refreshes' \in [Refreshes -> RefreshType]
         /\ \A s \in Refreshes : refreshes'[s].feed # 0 <=> refreshes[s].feed # 0
<1> DEFINE i == refreshes[r].feed
<1>1. i \in Feeds /\ i < Len(FeedList)
  BY DEF FetchTicker
<1>2. PICK t \in Fetched(i) :
        refreshes' =
          [refreshes EXCEPT ![r] = [feed |-> i + 1, got |-> [@.got EXCEPT ![i] = t]]]
  BY DEF FetchTicker
<1>3. t \in Ticker
  BY <1>1, FetchedTickers
<1>4. refreshes \in [Refreshes -> RefreshType]
  BY DEF TypeOK, RefreshType
<1>5. refreshes[r].got \in [Feeds -> Ticker]
  BY <1>4 DEF RefreshType
<1>6. [refreshes[r].got EXCEPT ![i] = t] \in [Feeds -> Ticker]
  BY <1>1, <1>3, <1>5
<1>7. i + 1 \in Feeds
  BY <1>1, FeedNumbers
<1> DEFINE next == [feed |-> i + 1, got |-> [refreshes[r].got EXCEPT ![i] = t]]
<1>8. next \in RefreshType
  BY <1>6, <1>7 DEF RefreshType
<1>9. refreshes' = [refreshes EXCEPT ![r] = next]
  BY <1>2, <1>4
<1>10. i # 0 /\ next.feed # 0
  BY <1>1, FeedNumbers
<1> HIDE DEF next
<1>11. QED
  BY <1>4, <1>8, <1>9, <1>10

LEMMA FetchLastTypes ==
  ASSUME TypeOK, NEW r \in Refreshes, FetchLast(r)
  PROVE  TypeOK'
<1>1. PICK got \in [Feeds -> Ticker] :
        /\ lastKnown' = Remember(got)
        /\ cache' = ProcessTickers(got)
        /\ trail' = Follow(got)
        /\ now' = now
  BY LastStep
<1>2. \A i \in Feeds : got[i].last \in Int
  BY DEF Ticker
<1>3. lastKnown' \in [Feeds -> Int]
  BY <1>1, <1>2 DEF Remember, TypeOK
<1>4. cache' \subseteq OpportunityType
  BY <1>1, Found
<1>5. trail' \in [Feeds -> [accepted : Int, rejected : SUBSET Int]]
  <2>1. ASSUME NEW i \in Feeds
        PROVE  /\ trail[i] \in [accepted : Int, rejected : SUBSET Int]
               /\ [accepted |-> got[i].last, rejected |-> {}]
                    \in [accepted : Int, rejected : SUBSET Int]
               /\ [trail[i] EXCEPT !.rejected = @ \cup {got[i].last}]
                    \in [accepted : Int, rejected : SUBSET Int]
    BY <1>2 DEF TypeOK
  <2>2. QED
    BY <1>1, <2>1 DEF Follow
<1>6. refreshes' \in [Refreshes -> RefreshType]
  <2>1. Idle \in RefreshType
    BY FeedNumbers DEF Idle, RefreshType
  <2>2. refreshes \in [Refreshes -> RefreshType] /\ refreshes' = [refreshes EXCEPT ![r] = Idle]
    BY DEF TypeOK, RefreshType, FetchLast
  <2>3. QED
    BY <2>1, <2>2
<1>7. timer' \in [set : BOOLEAN, due : Nat] /\ timer'.set
  <2>1. now + Period \in Nat
    BY DetectionAssumption DEF TypeOK
  <2>2. QED
    BY <2>1 DEF FetchLast, TypeOK
<1>8. QED
  BY <1>1, <1>3, <1>4, <1>5, <1>6, <1>7 DEF TypeOK, RefreshType

LEMMA NextTypeOK ==
  ASSUME TypeOK, [Next]_vars
  PROVE  TypeOK'
<1>1. ASSUME NEW r \in Refreshes, OnModuleInit(r)
      PROVE  TypeOK'
  <2>1. Begin(r) /\ timer' = timer /\ \A s \in Refreshes : refreshes[s].feed = 0
    BY <1>1 DEF OnModuleInit
  <2>2. \A s \in Refreshes : s # r => refreshes'[s].feed = 0
    BY <2>1, BeginTypes
  <2>3. \A p, s \in Refreshes :
          ~timer'.set /\ refreshes'[p].feed # 0 /\ refreshes'[s].feed # 0 => p = s
    BY <2>2
  <2>4. QED
    BY <2>1, <2>3, BeginTypes DEF Begin, TypeOK, RefreshType
<1>2. ASSUME NEW r \in Refreshes, TimerFires(r)
      PROVE  TypeOK'
  <2>1. Begin(r) /\ timer.set /\ timer' = [timer EXCEPT !.due = now + Period]
    BY <1>2 DEF TimerFires
  <2>2. now + Period \in Nat
    BY DetectionAssumption DEF TypeOK
  <2>3. timer' \in [set : BOOLEAN, due : Nat] /\ timer'.set
    BY <2>1, <2>2 DEF TypeOK
  <2>4. QED
    BY <2>1, <2>3, BeginTypes DEF Begin, TypeOK, RefreshType
<1>3. ASSUME NEW r \in Refreshes, FetchTicker(r)
      PROVE  TypeOK'
  <2>1. UNCHANGED <<now, timer, lastKnown, cache, trail>>
    BY <1>3 DEF FetchTicker
  <2>2. \A p, s \in Refreshes :
          ~timer'.set /\ refreshes'[p].feed # 0 /\ refreshes'[s].feed # 0 => p = s
    BY <1>3, <2>1, FetchTickerTypes DEF TypeOK
  <2>3. QED
    BY <1>3, <2>1, <2>2, FetchTickerTypes DEF TypeOK, RefreshType
<1>4. ASSUME NEW r \in Refreshes, FetchLast(r)
      PROVE  TypeOK'
  BY <1>4, FetchLastTypes
<1>5. CASE ClockTicks
  BY <1>5 DEF ClockTicks, TypeOK
<1>6. CASE UNCHANGED vars
  BY <1>6 DEF vars, TypeOK
<1>7. QED
  BY <1>1, <1>2, <1>3, <1>4, <1>5, <1>6 DEF Next

\* The clock, the refreshes, the cache and the engine's memory keep their types,
\* and no refresh overlaps the first one.
THEOREM TypeCorrect == Spec => []TypeOK
<1>1. Init => TypeOK
  BY InitTypeOK
<1>2. TypeOK /\ [Next]_vars => TypeOK'
  BY NextTypeOK
<1>3. QED
  BY <1>1, <1>2, PTL DEF Spec

-----------------------------------------------------------------------------
(* Chains of opportunities *)

\* The best a chain offers: its first purchase, sold where the second one sells.
LEMMA DirectTrade ==
  ASSUME TypeOK, NEW got \in [Feeds -> Ticker],
         NEW i \in Feeds, NEW j \in Feeds, NEW k \in Feeds,
         <<i, j>> \in Pairs(got), <<j, k>> \in Pairs(got)
  PROVE  /\ <<i, k>> \in Pairs(got)
         /\ got[i].ask <= got[j].ask /\ got[j].bid <= got[k].bid
         /\ got[i].ask > 0 /\ got[k].bid > 0
<1>1. /\ FeedList[i].symbol = FeedList[j].symbol /\ FeedList[j].symbol = FeedList[k].symbol
      /\ Executable(got, i) /\ Executable(got, j) /\ Executable(got, k)
      /\ Pays(got[i], got[j]) /\ Pays(got[j], got[k])
  BY DEF Pairs
<1>2. ASSUME NEW n \in Feeds, Executable(got, n)
      PROVE  got[n].bid > 0 /\ got[n].ask > 0 /\ got[n].bid < got[n].ask
  <2>1. Status(got[n], lastKnown[n]) # "INVALID"
    BY <1>2 DEF Executable
  <2>2. ~(got[n].bid <= 0 \/ got[n].ask <= 0 \/ got[n].bid >= got[n].ask)
    BY <2>1 DEF Status, Crossed
  <2>3. got[n].bid \in Int /\ got[n].ask \in Int
    BY DEF Ticker
  <2>4. QED
    BY <2>2, <2>3
<1>3. /\ got[i].ask \in Int /\ got[j].ask \in Int
      /\ got[i].bid \in Int /\ got[j].bid \in Int /\ got[k].bid \in Int
  BY DEF Ticker
<1>4. /\ got[j].bid > got[i].ask /\ WideEnough(got[j].bid, got[i].ask)
      /\ Profitable(got[j].bid, got[i].ask) /\ got[k].bid > got[j].ask
  BY <1>1 DEF Pays
<1>5. /\ got[i].bid < got[i].ask /\ got[j].bid < got[j].ask
      /\ got[i].ask > 0 /\ got[k].bid > 0
  BY <1>1, <1>2
<1>6. /\ got[i].ask <= got[j].ask /\ got[j].bid <= got[k].bid
      /\ got[k].bid > got[i].ask /\ got[k].bid # got[i].bid
  BY <1>3, <1>4, <1>5
<1>7. Pays(got[i], got[k])
  BY <1>3, <1>4, <1>6, HigherBidPays DEF Pays
<1>8. QED
  BY <1>1, <1>5, <1>6, <1>7 DEF Pairs

LEMMA ProcessedChains ==
  ASSUME TypeOK, NEW got \in [Feeds -> Ticker],
         NEW p \in ProcessTickers(got), NEW q \in ProcessTickers(got), p.sell = q.buy
  PROVE  \E d \in ProcessTickers(got) :
           /\ d.buy = p.buy /\ d.sell = q.sell /\ d.buy # d.sell
           /\ AtLeastAsGood(d, p) /\ AtLeastAsGood(d, q)
<1> DEFINE i == p.buy
           j == p.sell
           k == q.sell
           d == Opportunity(i, k, got)
<1>1. /\ i \in Feeds /\ j \in Feeds /\ k \in Feeds
      /\ <<i, j>> \in Pairs(got) /\ <<j, k>> \in Pairs(got)
  BY Found DEF OpportunityType
<1>2. /\ <<i, k>> \in Pairs(got)
      /\ got[i].ask <= got[j].ask /\ got[j].bid <= got[k].bid
      /\ got[i].ask > 0 /\ got[k].bid > 0
  BY <1>1, DirectTrade
<1>3. d \in ProcessTickers(got)
  BY <1>2 DEF ProcessTickers
<1>4. i # k
  BY <1>2 DEF Pairs
<1>5. /\ p.ask = got[i].ask /\ p.bid = got[j].bid
      /\ q.ask = got[j].ask /\ q.bid = got[k].bid
  <2>1. p = Opportunity(i, j, got) /\ q = Opportunity(j, k, got)
    BY Found
  <2> HIDE DEF i, j, k
  <2>2. QED
    BY <2>1 DEF Opportunity
<1>6. d.buy = i /\ d.sell = k /\ d.ask = got[i].ask /\ d.bid = got[k].bid
  BY DEF Opportunity
<1>7. /\ got[i].ask \in Nat /\ got[k].bid \in Nat
      /\ got[j].ask \in Int /\ got[j].bid \in Int
  BY <1>1, <1>2 DEF Ticker
<1>8. AtLeastAsGood(d, p)
  <2>1. got[j].bid * got[i].ask <= got[k].bid * got[i].ask
    BY <1>2, <1>7, Scaled
  <2>2. QED
    BY <1>5, <1>6, <1>7, <2>1 DEF AtLeastAsGood
<1>9. AtLeastAsGood(d, q)
  <2>1. got[k].bid * got[i].ask <= got[k].bid * got[j].ask
    BY <1>2, <1>7, Scaled
  <2>2. QED
    BY <1>5, <1>6, <1>7, <2>1 DEF AtLeastAsGood
<1>10. QED
  BY <1>3, <1>4, <1>6, <1>8, <1>9

\* Offers that follow one another never lead around a circle: the direct trade
\* is offered too and gains at least as much as either of them.
THEOREM ChainsCorrect == Spec => []ChainsAreDominated
<1>1. Init => ChainsAreDominated
  BY DEF Init, ChainsAreDominated
<1>2. TypeOK /\ ChainsAreDominated /\ [Next]_vars => ChainsAreDominated'
  <2> SUFFICES ASSUME TypeOK, ChainsAreDominated, [Next]_vars
               PROVE  ChainsAreDominated'
    OBVIOUS
  <2>1. ASSUME NEW r \in Refreshes, FetchLast(r)
        PROVE  ChainsAreDominated'
    <3>1. PICK got \in [Feeds -> Ticker] : cache' = ProcessTickers(got)
      BY <2>1, LastStep
    <3>2. QED
      BY <3>1, ProcessedChains DEF ChainsAreDominated, AtLeastAsGood
  <2>2. CASE cache' = cache
    BY <2>2 DEF ChainsAreDominated, AtLeastAsGood
  <2>3. QED
    BY <2>1, <2>2 DEF Next, OnModuleInit, TimerFires, Begin, FetchTicker, ClockTicks, vars
<1>3. QED
  BY <1>1, <1>2, TypeCorrect, PTL DEF Spec

-----------------------------------------------------------------------------
(* What the quality engine remembers, and how old the cache is *)

\* The engine remembers the last accepted price, or one that it has rejected since.
Remembered ==
  \A i \in Feeds : lastKnown[i] = trail[i].accepted \/ lastKnown[i] \in trail[i].rejected

\* Nothing in the cache was detected in the future.
Detected == \A o \in cache : o.detected <= now

DetectionInv == TypeOK /\ Remembered /\ Detected

LEMMA InitDetectionInv == Init => DetectionInv
BY InitTypeOK DEF Init, DetectionInv, Remembered, Detected

LEMMA ProcessedMemory ==
  ASSUME DetectionInv, NEW got \in [Feeds -> Ticker],
         lastKnown' = Remember(got), trail' = Follow(got)
  PROVE  Remembered'
<1> SUFFICES ASSUME NEW i \in Feeds
             PROVE  lastKnown'[i] = trail'[i].accepted \/ lastKnown'[i] \in trail'[i].rejected
  BY DEF Remembered
<1>1. trail[i] \in [accepted : Int, rejected : SUBSET Int]
  BY DEF DetectionInv, TypeOK
<1>2. CASE ~got[i].ok
  BY <1>2 DEF Remember, Follow, DetectionInv, Remembered
<1>3. CASE got[i].ok /\ Executable(got, i)
  BY <1>3 DEF Remember, Follow
<1>4. CASE got[i].ok /\ ~Executable(got, i)
  <2>1. trail'[i] = [trail[i] EXCEPT !.rejected = @ \cup {got[i].last}]
    BY <1>4 DEF Follow
  <2>2. lastKnown'[i] = got[i].last
    BY <1>4 DEF Remember
  <2>3. QED
    BY <1>1, <2>1, <2>2
<1>5. QED
  BY <1>2, <1>3, <1>4

LEMMA NextDetectionInv ==
  ASSUME DetectionInv, [Next]_vars
  PROVE  DetectionInv'
<1>1. TypeOK'
  BY NextTypeOK DEF DetectionInv
<1>2. ASSUME NEW r \in Refreshes, FetchLast(r)
      PROVE  DetectionInv'
  <2>1. PICK got \in [Feeds -> Ticker] :
          /\ lastKnown' = Remember(got)
          /\ cache' = ProcessTickers(got)
          /\ trail' = Follow(got)
          /\ now' = now
    BY <1>2, LastStep DEF DetectionInv
  <2>2. Remembered'
    BY <2>1, ProcessedMemory
  <2>3. \A o \in ProcessTickers(got) : o.detected = now
    BY DEF ProcessTickers, Opportunity
  <2>4. Detected'
    BY <2>1, <2>3 DEF Detected, DetectionInv, TypeOK
  <2>5. QED
    BY <1>1, <2>2, <2>4 DEF DetectionInv
<1>3. CASE ClockTicks
  <2>1. \A o \in cache : o.detected \in Nat
    BY DEF DetectionInv, TypeOK, OpportunityType
  <2>2. QED
    BY <1>1, <1>3, <2>1 DEF ClockTicks, DetectionInv, TypeOK, Remembered, Detected
<1>4. CASE UNCHANGED <<now, lastKnown, cache, trail>>
  BY <1>1, <1>4 DEF DetectionInv, Remembered, Detected
<1>5. QED
  BY <1>2, <1>3, <1>4 DEF Next, OnModuleInit, TimerFires, Begin, FetchTicker, vars

LEMMA DetectionInvariant == Spec => []DetectionInv
<1>1. DetectionInv /\ [Next]_vars => DetectionInv'
  BY NextDetectionInv
<1>2. QED
  BY <1>1, InitDetectionInv, PTL DEF Spec

\* An accepted price jump was announced: since the last accepted tick of that feed
\* one was rejected whose price was no jump away from the new one.
THEOREM JumpsCorrect == Spec => JumpsAreAnnounced
<1>1. DetectionInv /\ [Next]_vars =>
        \A i \in Feeds :
          Jump(trail[i].accepted, trail'[i].accepted) =>
            \E p \in trail[i].rejected : ~Jump(p, trail'[i].accepted)
  <2> SUFFICES ASSUME DetectionInv, [Next]_vars, NEW i \in Feeds,
                      Jump(trail[i].accepted, trail'[i].accepted)
               PROVE  \E p \in trail[i].rejected : ~Jump(p, trail'[i].accepted)
    OBVIOUS
  <2>1. trail[i] \in [accepted : Int, rejected : SUBSET Int]
    BY DEF DetectionInv, TypeOK
  <2>2. trail'[i].accepted # trail[i].accepted
    BY <2>1, NoSelfJump
  <2>3. PICK r \in Refreshes : FetchLast(r)
    BY <2>2
    DEF Next, OnModuleInit, TimerFires, Begin, FetchTicker, ClockTicks, vars
  <2>4. PICK got \in [Feeds -> Ticker] : trail' = Follow(got)
    BY <2>3, LastStep DEF DetectionInv
  <2>5. Executable(got, i) /\ trail'[i].accepted = got[i].last
    <3>1. CASE ~got[i].ok
      BY <2>2, <2>4, <3>1 DEF Follow
    <3>2. CASE got[i].ok /\ ~Executable(got, i)
      <4>1. trail'[i] = [trail[i] EXCEPT !.rejected = @ \cup {got[i].last}]
        BY <2>4, <3>2 DEF Follow
      <4>2. QED
        BY <2>1, <2>2, <4>1
    <3>3. CASE got[i].ok /\ Executable(got, i)
      BY <2>4, <3>3 DEF Follow
    <3>4. QED
      BY <3>1, <3>2, <3>3
  <2>6. ~Jump(lastKnown[i], got[i].last)
    <3>1. Status(got[i], lastKnown[i]) = "VALID"
      BY <2>5 DEF Executable
    <3>2. QED
      BY <3>1 DEF Status
  <2>7. lastKnown[i] \in trail[i].rejected
    BY <2>5, <2>6 DEF DetectionInv, Remembered
  <2>8. QED
    BY <2>5, <2>6, <2>7
<1>2. QED
  BY <1>1, DetectionInvariant, PTL DEF Spec, JumpsAreAnnounced

\* A refresh that ends late sets the cache back by at most MaxAge.
THEOREM CacheCorrect == Spec => CacheStepsBackLittle
<1>1. DetectionInv /\ [Next]_vars =>
        \A o \in cache, n \in cache' : n \in cache \/ n.oldest >= o.detected - MaxAge
  <2> SUFFICES ASSUME DetectionInv, [Next]_vars, NEW o \in cache, NEW n \in cache',
                      n \notin cache
               PROVE  n.oldest >= o.detected - MaxAge
    OBVIOUS
  <2>1. PICK r \in Refreshes : FetchLast(r)
    BY DEF Next, OnModuleInit, TimerFires, Begin, FetchTicker, ClockTicks, vars
  <2>2. PICK got \in [Feeds -> Ticker] : cache' = ProcessTickers(got)
    BY <2>1, LastStep DEF DetectionInv
  <2>3. n \in OpportunityType /\ n = Opportunity(n.buy, n.sell, got)
        /\ <<n.buy, n.sell>> \in Pairs(got)
    BY <2>2, Found DEF DetectionInv
  <2>4. n.buy \in Feeds /\ n.sell \in Feeds
        /\ Executable(got, n.buy) /\ Executable(got, n.sell)
    BY <2>3 DEF Pairs, OpportunityType
  <2>5. ASSUME NEW i \in Feeds, Executable(got, i)
        PROVE  now - got[i].timestamp <= MaxAge
    <3>1. Status(got[i], lastKnown[i]) = "VALID"
      BY <2>5 DEF Executable
    <3>2. ~Stale(got[i])
      BY <3>1 DEF Status
    <3>3. got[i].timestamp \in Int /\ now \in Nat /\ MaxAge \in Nat
      BY DetectionAssumption DEF Ticker, DetectionInv, TypeOK
    <3>4. QED
      BY <3>2, <3>3 DEF Stale
  <2>6. n.oldest \in {got[n.buy].timestamp, got[n.sell].timestamp}
    BY <2>3 DEF Opportunity
  <2>7. now - n.oldest <= MaxAge
    BY <2>4, <2>5, <2>6
  <2>8. o.detected \in Nat /\ o.detected <= now
    BY DEF DetectionInv, Detected, TypeOK, OpportunityType
  <2>9. n.oldest \in Int /\ now \in Nat /\ MaxAge \in Nat
    BY <2>3, DetectionAssumption DEF OpportunityType, DetectionInv, TypeOK
  <2>10. QED
    BY <2>7, <2>8, <2>9
<1>2. QED
  BY <1>1, DetectionInvariant, PTL DEF Spec, CacheStepsBackLittle

\* The offers last until the timer is due again, or a refresh is under way.
Renewed ==
  /\ timer.due <= now + Period
  /\ \A o \in cache :
       timer.due <= o.expires \/ \E r \in Refreshes : refreshes[r].feed # 0

LEMMA RenewedStep ==
  ASSUME TypeOK, Renewed, [Next]_vars
  PROVE  Renewed'
<1>1. now \in Nat /\ timer \in [set : BOOLEAN, due : Nat] /\ timer.due \in Nat
  BY DEF TypeOK
<1>2. Period \in Nat /\ Lifetime \in Nat /\ Period <= Lifetime
  BY DetectionAssumption
<1>3. refreshes \in [Refreshes -> RefreshType]
  BY DEF TypeOK, RefreshType
<1>4. ASSUME NEW r \in Refreshes, Begin(r), timer' = timer \/ timer'.due = now + Period
      PROVE  Renewed'
  <2>1. refreshes'[r].feed # 0 /\ now' = now
    <3>1. refreshes' = [refreshes EXCEPT ![r] = [refreshes[r] EXCEPT !.feed = 1]]
      BY <1>3, <1>4 DEF Begin
    <3>2. refreshes'[r].feed = 1
      BY <1>3, <3>1 DEF RefreshType
    <3>3. QED
      BY <1>4, <3>2 DEF Begin
  <2>2. timer'.due <= now + Period
    BY <1>1, <1>2, <1>4 DEF Renewed
  <2>3. QED
    BY <2>1, <2>2 DEF Renewed
<1>5. ASSUME NEW r \in Refreshes, FetchTicker(r)
      PROVE  Renewed'
  <2>1. UNCHANGED <<now, timer, cache>>
    BY <1>5 DEF FetchTicker
  <2>2. \A s \in Refreshes : refreshes[s].feed # 0 => refreshes'[s].feed # 0
    BY <1>5, FetchTickerTypes
  <2>3. QED
    BY <2>1, <2>2 DEF Renewed
<1>6. ASSUME NEW r \in Refreshes, FetchLast(r)
      PROVE  Renewed'
  <2>1. PICK got \in [Feeds -> Ticker] : cache' = ProcessTickers(got) /\ now' = now
    BY <1>6, LastStep
  <2>2. timer'.due <= now + Period
    BY <1>1, <1>2, <1>6 DEF FetchLast, Renewed
  <2>3. \A o \in cache' : o.expires = now + Lifetime
    BY <2>1 DEF ProcessTickers, Opportunity
  <2>4. timer'.due \in Nat
    BY <1>6, FetchLastTypes DEF TypeOK
  <2>5. QED
    BY <1>1, <1>2, <2>1, <2>2, <2>3, <2>4 DEF Renewed
<1>7. CASE ClockTicks
  BY <1>1, <1>2, <1>7 DEF ClockTicks, Renewed
<1>8. CASE UNCHANGED vars
  BY <1>8 DEF vars, Renewed
<1>9. ASSUME NEW r \in Refreshes, OnModuleInit(r) \/ TimerFires(r)
      PROVE  Renewed'
  BY <1>1, <1>4, <1>9 DEF OnModuleInit, TimerFires
<1>10. QED
  BY <1>5, <1>6, <1>7, <1>8, <1>9 DEF Next

\* What has expired is served only while a refresh is under way or overdue.
THEOREM ExpiryCorrect == Spec => []ExpiredIsBeingReplaced
<1>1. Init => Renewed
  BY DetectionAssumption DEF Init, Renewed
<1>2. TypeOK /\ Renewed /\ [Next]_vars => Renewed'
  BY RenewedStep
<1>3. TypeOK /\ Renewed => ExpiredIsBeingReplaced
  <2> SUFFICES ASSUME TypeOK, Renewed, NEW o \in cache, now >= o.expires,
                      \A r \in Refreshes : refreshes[r].feed = 0
               PROVE  now >= timer.due
    BY DEF ExpiredIsBeingReplaced
  <2>1. timer.due <= o.expires
    BY DEF Renewed
  <2>2. timer.due \in Nat /\ now \in Nat /\ o.expires \in Nat
    BY DEF TypeOK, OpportunityType
  <2>3. QED
    BY <2>1, <2>2
<1>4. QED
  BY <1>1, <1>2, <1>3, TypeCorrect, PTL DEF Spec
=============================================================================
