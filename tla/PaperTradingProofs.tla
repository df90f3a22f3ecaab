--------------------------- MODULE PaperTradingProofs ---------------------------
(***************************************************************************)
(* What PaperTrading guarantees for any venues, tokens, opportunities,      *)
(* rates and rounding units, and any number of executions.                  *)
(***************************************************************************)
EXTENDS PaperTrading, SequenceTheorems, TLAPS

USE PaperAssumption

-----------------------------------------------------------------------------
(* Arithmetic *)

\* A number and its integer quotient.
LEMMA Quotient ==
  ASSUME NEW n \in Nat, NEW k \in Nat \ {0}
  PROVE  /\ n \div k \in Nat
         /\ (n \div k) * k <= n
         /\ n < (n \div k) * k + k
<1>1. n \div k \in Int /\ n % k \in 0 .. k - 1 /\ n = k * (n \div k) + (n % k)
  BY SMT
<1>2. n \div k >= 0
  BY SMT
<1> QED BY <1>1, <1>2, SMT

\* Rounding moves a number by at most half a unit.
LEMMA RoundClose ==
  ASSUME NEW x \in Int, NEW u \in Nat \ {0}
  PROVE  Round(x, u) \in Int /\ 2 * Abs(Round(x, u) - x) <= u
<1> DEFINE a == IF x >= 0 THEN x ELSE -x
           n == 2 * a + u
           q == n \div (2 * u)
<1>1. a \in Nat /\ n \in Nat /\ 2 * u \in Nat \ {0}
  OBVIOUS
<1> HIDE DEF a
<1>2. /\ q \in Nat /\ q * (2 * u) <= n /\ n < q * (2 * u) + 2 * u
  BY <1>1, Quotient
<1> HIDE DEF q
<1>3. q * (2 * u) = 2 * (q * u) /\ q * u \in Int
  BY <1>2
<1>4. 2 * (q * u) <= 2 * a + u /\ 2 * a <= 2 * (q * u) + u
  BY <1>1, <1>2, <1>3
<1>5. Round(x, u) = IF x >= 0 THEN q * u ELSE -(q * u)
  BY DEF Round, q, n, a
<1> QED BY <1>1, <1>3, <1>4, <1>5 DEF Abs, a

\* What an order moves is the worth of its leg less slippage and fee.
LEMMA LegFacts ==
  ASSUME NEW l \in LegType
  PROVE  /\ Cash(l) \in Int /\ Worth(l) \in Int /\ Received(l) \in Int
         /\ FeeUsd(l) \in Int /\ Slippage(l) \in Int
         /\ Cash(l) = Worth(l) - Slippage(l) - FeeUsd(l)
<1> DEFINE q == l.amount * l.price
           fee == q * (IF l.side = "BUY" THEN SlipScale + 1 ELSE SlipScale - 1)
<1>1. l.amount \in Nat /\ l.price \in Nat /\ l.side \in Sides /\ q \in Nat
  BY DEF LegType
<1> HIDE DEF q
<1>2. /\ q * SlipScale * FeeScale \in Int /\ q * FeeScale \in Int /\ fee \in Int
  BY <1>1
<1>3. /\ Notional(l) = q * SlipScale * FeeScale
      /\ Slippage(l) = q * FeeScale
      /\ FeeUsd(l) = fee
  BY DEF Notional, Slippage, FeeUsd, q
<1> HIDE DEF fee
<1>4. Notional(l) \in Int /\ Slippage(l) \in Int /\ FeeUsd(l) \in Int
  BY <1>2, <1>3
<1>5. CASE l.side = "BUY"
  <2>1. /\ TotalCost(l) = Notional(l) + Slippage(l)
        /\ Worth(l) = -Notional(l)
        /\ Cash(l) = -TotalCost(l) - FeeUsd(l)
        /\ Received(l) = l.amount
    BY <1>5 DEF TotalCost, Worth, Cash, Signed, Received
  <2> QED BY <1>1, <1>4, <2>1
<1>6. CASE l.side # "BUY"
  <2>1. /\ TotalCost(l) = Notional(l) - Slippage(l)
        /\ Worth(l) = Notional(l)
        /\ Cash(l) = TotalCost(l) - FeeUsd(l)
        /\ Received(l) = -l.amount
    BY <1>6 DEF TotalCost, Worth, Cash, Signed, Received
  <2> QED BY <1>1, <1>4, <2>1
<1> QED BY <1>5, <1>6

-----------------------------------------------------------------------------
(* Types *)

ExecutionType == [phase : {"idle", "submitted"},
                  opp : [route : Seq(Legs), gross : Int],
                  leg : Nat, fees : Int, slippage : Int]
AccountsType == [Venues -> [Tokens -> Int]]

\* What TypeOK says of the leg that an execution has submitted.
Underway(x, venues) == x.phase = "submitted" =>
  /\ x.leg \in 1 .. Len(x.opp.route)
  /\ x.opp.route[x.leg].venue \in venues

\* The leg that an execution has submitted.
LEMMA SubmittedLeg ==
  ASSUME TypeOK, NEW e \in Executions, executions[e].phase = "submitted"
  PROVE  executions[e].opp.route[executions[e].leg] \in LegType
<1>1. /\ executions[e].opp.route \in Seq(Legs)
      /\ executions[e].leg \in 1 .. Len(executions[e].opp.route)
  BY DEF TypeOK
<1> QED BY <1>1

LEMMA OpeningType == \A v \in Venues, t \in Tokens : Opening(v, t) \in Int
  BY DEF Opening

LEMMA IdleType == Idle \in ExecutionType /\ \A venues : Underway(Idle, venues)
  BY EmptySeq DEF Idle, ExecutionType, Underway

\* An account opened, or found open.
LEMMA GetExchangeType ==
  ASSUME open \subseteq Venues, NEW v \in Venues, NEW b \in AccountsType, GetExchange(v, b)
  PROVE  open' \subseteq Venues /\ balances' \in AccountsType /\ v \in open' /\ open \subseteq open'
<1>1. [t \in Tokens |-> Opening(v, t)] \in [Tokens -> Int]
  BY OpeningType
<1> QED BY <1>1 DEF GetExchange, AccountsType

LEMMA PostedType ==
  ASSUME TypeOK, NEW l \in LegType
  PROVE  Posted(l) \in AccountsType
<1> DEFINE a == balances[l.venue]
           base == Round(a[l.base] + Received(l), Lot)
           cash == Round(a[USDT] + Cash(l), Cent)
<1>1. l.venue \in Venues /\ l.base \in Tokens /\ a \in [Tokens -> Int]
  BY DEF TypeOK, LegType
<1>2. a[l.base] + Received(l) \in Int /\ a[USDT] + Cash(l) \in Int
  BY <1>1, LegFacts
<1>3. base \in Int /\ cash \in Int
  BY <1>2, RoundClose
<1> HIDE DEF base, cash
<1>4. [a EXCEPT ![l.base] = base, ![USDT] = cash] \in [Tokens -> Int]
  BY <1>1, <1>3
<1>5. Posted(l) = [balances EXCEPT ![l.venue] = [a EXCEPT ![l.base] = base, ![USDT] = cash]]
  BY DEF Posted, base, cash
<1>6. balances \in AccountsType
  BY DEF TypeOK, AccountsType
<1> QED BY <1>1, <1>4, <1>5, <1>6 DEF AccountsType

LEMMA OwedType ==
  ASSUME TypeOK, NEW l \in LegType
  PROVE  Owed(l) \in [Venues -> [Tokens -> [sum : Int, posts : Nat]]]
<1>1. l.venue \in Venues /\ Cash(l) \in Int /\ Received(l) \in Int
  BY LegFacts DEF LegType
<1>2. \A o \in [sum : Int, posts : Nat], x \in Int : Owe(o, x) \in [sum : Int, posts : Nat]
  BY DEF Owe
<1>3. owed \in [Venues -> [Tokens -> [sum : Int, posts : Nat]]]
  BY DEF TypeOK
<1>4. [t \in Tokens |-> IF t = USDT THEN Owe(owed[l.venue][t], Cash(l))
                        ELSE IF t = l.base THEN Owe(owed[l.venue][t], Received(l))
                        ELSE owed[l.venue][t]]
        \in [Tokens -> [sum : Int, posts : Nat]]
  BY <1>1, <1>2, <1>3
<1> QED BY <1>1, <1>3, <1>4 DEF Owed

LEMMA ReportType ==
  ASSUME TypeOK, NEW opp \in [route : Seq(Legs), gross : Int], NEW fees \in Int,
         NEW slippage \in Int, NEW m \in [cash : Int, worth : Int], NEW legs \in Nat,
         Report(opp, fees, slippage, m, legs)
  PROVE  /\ performance' \in [realized : Int, fees : Int, slippage : Int, trades : Nat]
         /\ earned' \in [cash : Int, claims : Int, roundings : Nat]
<1>1. opp.gross - fees - slippage \in Int
  OBVIOUS
<1>2. Round(opp.gross - fees - slippage, Cent) \in Int
  BY <1>1, RoundClose
<1> DEFINE net == Round(opp.gross - fees - slippage, Cent)
<1>3. performance' = [realized |-> performance.realized + net, fees |-> performance.fees + fees,
                      slippage |-> performance.slippage + slippage,
                      trades |-> performance.trades + 1]
  BY DEF Report, Performance
<1> HIDE DEF net
<1>4. performance' \in [realized : Int, fees : Int, slippage : Int, trades : Nat]
  <2>1. performance \in [realized : Int, fees : Int, slippage : Int, trades : Nat]
    BY DEF TypeOK
  <2>2. net \in Int
    BY <1>2 DEF net
  <2>3. /\ performance.realized + net \in Int /\ performance.fees + fees \in Int
        /\ performance.slippage + slippage \in Int /\ performance.trades + 1 \in Nat
    BY <2>1, <2>2
  <2> QED BY <1>3, <2>3
<1>5. /\ earned.cash + m.cash \in Int
      /\ earned.claims + opp.gross - m.worth \in Int
      /\ earned.roundings + 2 * legs + 1 \in Nat
  <2>1. earned \in [cash : Int, claims : Int, roundings : Nat]
    BY DEF TypeOK
  <2> QED BY <2>1
<1>6. earned' \in [cash : Int, claims : Int, roundings : Nat]
  BY <1>5 DEF Report
<1> QED BY <1>4, <1>6

LEMMA TypeInit == Init => TypeOK
<1> SUFFICES ASSUME Init PROVE TypeOK
  OBVIOUS
<1>1. \A v \in Venues, t \in Tokens : (IF v \in Listed THEN Opening(v, t) ELSE 0) \in Int
  BY OpeningType
<1>2. balances \in [Venues -> [Tokens -> Int]]
  BY <1>1 DEF Init
<1>3. executions \in [Executions -> ExecutionType]
  BY IdleType DEF Init
<1>4. \A e \in Executions : executions[e].phase = "idle"
  BY DEF Init, Idle
<1> QED BY <1>2, <1>3, <1>4 DEF Init, TypeOK, Nothing, ExecutionType

LEMMA TypeStep == TypeOK /\ [Next]_vars => TypeOK'
<1> SUFFICES ASSUME TypeOK, [Next]_vars PROVE TypeOK'
  OBVIOUS
<1>1. \A e \in Executions : Underway(executions[e], open)
  BY DEF TypeOK, Underway
<1>2. executions \in [Executions -> ExecutionType]
  BY DEF TypeOK, ExecutionType
\* What is left to show once the new executions are known to be well-typed.
<1>3. ASSUME executions' \in [Executions -> ExecutionType],
             \A e \in Executions : Underway(executions[e], open)',
             open' \subseteq Venues, balances' \in AccountsType, started' \in Nat,
             performance' \in [realized : Int, fees : Int, slippage : Int, trades : Nat],
             owed' \in [Venues -> [Tokens -> [sum : Int, posts : Nat]]],
             moved' \in [Executions -> [cash : Int, worth : Int]],
             earned' \in [cash : Int, claims : Int, roundings : Nat]
      PROVE  TypeOK'
  BY <1>3 DEF TypeOK, Underway, ExecutionType, AccountsType
\* One execution changes, and no account is closed.
<1>4. ASSUME NEW e \in Executions, NEW x \in ExecutionType,
             executions' = [executions EXCEPT ![e] = x],
             open \subseteq open', Underway(x, open')
      PROVE  /\ executions' \in [Executions -> ExecutionType]
             /\ \A f \in Executions : Underway(executions[f], open)'
  <2>1. executions' \in [Executions -> ExecutionType]
    BY <1>2, <1>4
  <2>2. ASSUME NEW f \in Executions PROVE Underway(executions'[f], open')
    BY <1>1, <1>2, <1>4 DEF Underway
  <2> QED BY <2>1, <2>2
<1>5. ASSUME NEW e \in Executions, NEW opp \in Opportunities, Execute(e, opp)
      PROVE  TypeOK'
  <2>1. opp \in [route : Seq(Legs), gross : Int] /\ opp.route \in Seq(Legs)
    OBVIOUS
  <2>2. started' \in Nat /\ owed' = owed /\ moved' = moved
    BY <1>5 DEF Execute, TypeOK
  <2>3. CASE opp.route = <<>>
    <3>1. Report(opp, 0, 0, Nothing, 0) /\ UNCHANGED <<open, balances, executions>>
      BY <1>5, <2>3 DEF Execute
    <3>2. Nothing \in [cash : Int, worth : Int] /\ 0 \in Int /\ 0 \in Nat
      BY DEF Nothing
    <3>3. /\ performance' \in [realized : Int, fees : Int, slippage : Int, trades : Nat]
          /\ earned' \in [cash : Int, claims : Int, roundings : Nat]
      BY <2>1, <3>1, <3>2, ReportType
    <3> QED BY <2>2, <3>1, <3>3 DEF TypeOK
  <2>4. CASE opp.route # <<>>
    <3> DEFINE x == [phase |-> "submitted", opp |-> opp, leg |-> 1, fees |-> 0, slippage |-> 0]
    <3>1. 1 \in 1 .. Len(opp.route) /\ opp.route[1] \in LegType
      BY <2>1, <2>4
    <3>2. opp.route[1].venue \in Venues
      BY <3>1 DEF LegType
    <3>3. /\ GetExchange(opp.route[1].venue, balances)
          /\ executions' = [executions EXCEPT ![e] = x]
          /\ UNCHANGED <<performance, earned>>
      BY <1>5, <2>4 DEF Execute
    <3>4. /\ open' \subseteq Venues /\ balances' \in AccountsType
          /\ opp.route[1].venue \in open' /\ open \subseteq open'
      BY <3>2, <3>3, GetExchangeType DEF TypeOK, AccountsType
    <3>5. x \in ExecutionType /\ Underway(x, open')
      BY <2>1, <3>1, <3>4 DEF ExecutionType, Underway
    <3> HIDE DEF x
    <3>6. /\ executions' \in [Executions -> ExecutionType]
          /\ \A f \in Executions : Underway(executions[f], open)'
      BY <1>4, <3>3, <3>4, <3>5
    <3> QED BY <1>3, <2>2, <3>3, <3>4, <3>6 DEF TypeOK
  <2> QED BY <2>3, <2>4
<1>6. ASSUME NEW e \in Executions, Fill(e) PROVE TypeOK'
  <2> DEFINE x == executions[e]
             l == x.opp.route[x.leg]
             y == Filled(x, l)
             m == [cash |-> moved[e].cash + Cash(l), worth |-> moved[e].worth + Worth(l)]
  <2>1. x \in ExecutionType /\ l \in LegType /\ l.venue \in open
    BY <1>2, <1>6, SubmittedLeg DEF Fill, TypeOK
  <2>2. x.opp.route \in Seq(Legs) /\ Len(x.opp.route) \in Nat
    BY <2>1 DEF ExecutionType
  <2>3. y \in ExecutionType /\ y.opp = x.opp /\ y.leg = x.leg + 1
    <3>1. Round(FeeUsd(l), Cent) \in Int /\ Round(Slippage(l), Cent) \in Int
      BY <2>1, LegFacts, RoundClose
    <3> DEFINE fee == x.fees + Round(FeeUsd(l), Cent)
               slip == x.slippage + Round(Slippage(l), Cent)
    <3>2. fee \in Int /\ slip \in Int /\ x.leg + 1 \in Nat
      BY <2>1, <3>1 DEF ExecutionType
    <3>3. y = [x EXCEPT !.leg = x.leg + 1, !.fees = fee, !.slippage = slip]
      BY DEF Filled
    <3> HIDE DEF fee, slip, y, l, x
    <3> QED BY <2>1, <3>2, <3>3 DEF ExecutionType
  <2>4. m \in [cash : Int, worth : Int]
    <3>1. Cash(l) \in Int /\ Worth(l) \in Int
      BY <2>1, LegFacts
    <3>2. moved[e].cash + Cash(l) \in Int /\ moved[e].worth + Worth(l) \in Int
      BY <3>1 DEF TypeOK
    <3> QED BY <3>2
  <2>5. Posted(l) \in AccountsType
        /\ Owed(l) \in [Venues -> [Tokens -> [sum : Int, posts : Nat]]]
    BY <2>1, PostedType, OwedType
  <2>6. owed' = Owed(l) /\ started' \in Nat
    BY <1>6 DEF Fill, TypeOK
  <2>7. x.leg \in Nat /\ open \subseteq Venues
    BY <2>1 DEF ExecutionType, TypeOK
  <2>8. CASE y.leg <= Len(x.opp.route)
    <3>1. y.leg \in 1 .. Len(x.opp.route) /\ x.opp.route[y.leg] \in LegType
      BY <2>2, <2>3, <2>7, <2>8
    <3>2. x.opp.route[y.leg].venue \in Venues
      BY <3>1 DEF LegType
    <3>3. /\ GetExchange(x.opp.route[y.leg].venue, Posted(l))
          /\ executions' = [executions EXCEPT ![e] = y]
          /\ moved' = [moved EXCEPT ![e] = m]
          /\ UNCHANGED <<performance, earned>>
      BY <1>6, <2>8 DEF Fill
    <3>4. /\ open' \subseteq Venues /\ balances' \in AccountsType
          /\ x.opp.route[y.leg].venue \in open' /\ open \subseteq open'
      BY <2>5, <2>7, <3>2, <3>3, GetExchangeType
    <3>5. Underway(y, open')
      BY <2>3, <3>1, <3>4 DEF Underway
    <3> HIDE DEF x, y, m, l
    <3>6. /\ executions' \in [Executions -> ExecutionType]
          /\ \A f \in Executions : Underway(executions[f], open)'
      BY <1>4, <2>3, <3>3, <3>4, <3>5
    <3>7. moved' \in [Executions -> [cash : Int, worth : Int]]
      BY <2>4, <3>3 DEF TypeOK
    <3>8. /\ performance' \in [realized : Int, fees : Int, slippage : Int, trades : Nat]
          /\ earned' \in [cash : Int, claims : Int, roundings : Nat]
      BY <3>3 DEF TypeOK
    <3> QED BY <1>3, <2>5, <2>6, <3>4, <3>6, <3>7, <3>8
  <2>9. CASE ~(y.leg <= Len(x.opp.route))
    <3>1. /\ open' = open /\ balances' = Posted(l)
          /\ Report(x.opp, y.fees, y.slippage, m, Len(x.opp.route))
          /\ executions' = [executions EXCEPT ![e] = Idle]
          /\ moved' = [moved EXCEPT ![e] = Nothing]
      BY <1>6, <2>9 DEF Fill
    <3>2. y.fees \in Int /\ y.slippage \in Int /\ x.opp \in [route : Seq(Legs), gross : Int]
      BY <2>1, <2>3 DEF ExecutionType
    <3> HIDE DEF x, y, m, l
    <3>3. /\ performance' \in [realized : Int, fees : Int, slippage : Int, trades : Nat]
          /\ earned' \in [cash : Int, claims : Int, roundings : Nat]
      BY <2>2, <2>4, <3>1, <3>2, ReportType
    <3>4. /\ executions' \in [Executions -> ExecutionType]
          /\ \A f \in Executions : Underway(executions[f], open)'
      BY <1>4, <3>1, IdleType
    <3>5. moved' \in [Executions -> [cash : Int, worth : Int]]
      BY <3>1 DEF TypeOK, Nothing
    <3> QED BY <1>3, <2>5, <2>6, <2>7, <3>1, <3>3, <3>4, <3>5
  <2> QED BY <2>8, <2>9
<1>7. ASSUME NEW e \in Executions, Throw(e) PROVE TypeOK'
  <2>1. /\ executions' = [executions EXCEPT ![e] = Idle]
        /\ moved' = [moved EXCEPT ![e] = Nothing]
        /\ UNCHANGED <<open, balances, performance, started, owed, earned>>
    BY <1>7 DEF Throw
  <2>2. /\ executions' \in [Executions -> ExecutionType]
        /\ \A f \in Executions : Underway(executions[f], open)'
    BY <1>4, <2>1, IdleType
  <2>3. moved' \in [Executions -> [cash : Int, worth : Int]]
    BY <2>1 DEF TypeOK, Nothing
  <2> QED BY <1>3, <2>1, <2>2, <2>3 DEF TypeOK, AccountsType
<1>8. CASE UNCHANGED vars
  BY <1>8 DEF vars, TypeOK
<1> QED BY <1>5, <1>6, <1>7, <1>8 DEF Next

\* Balances, executions and sums keep their types, and the leg that an
\* execution has submitted exists, on a venue that has an account.
THEOREM TypeCorrect == Spec => []TypeOK
  BY TypeInit, TypeStep, PTL DEF Spec

-----------------------------------------------------------------------------
(* The ledger *)

\* One posting more allows for half a unit more.
LEMMA RoundedDrift ==
  ASSUME NEW x \in Int, NEW e \in Int, NEW d \in Int, NEW u \in Nat \ {0}, NEW n \in Nat,
         2 * Abs(x - e) <= u * n
  PROVE  2 * Abs(Round(x + d, u) - (e + d)) <= u * (n + 1)
<1> DEFINE r == Round(x + d, u)
<1>1. x + d \in Int
  OBVIOUS
<1>2. r \in Int /\ 2 * Abs(r - (x + d)) <= u
  BY <1>1, RoundClose
<1> HIDE DEF r
<1> DEFINE p == u * n
<1>3. u * (n + 1) = p + u /\ p \in Int /\ 2 * Abs(x - e) <= p
  OBVIOUS
<1> HIDE DEF p
<1>4. 2 * Abs(r - (e + d)) <= p + u
  BY <1>2, <1>3 DEF Abs
<1> QED BY <1>3, <1>4 DEF r

\* The drift of one balance.
Agrees(b, before, o, t) == 2 * Abs(b - (before + o.sum)) <= Unit(t) * o.posts
OpenedWith(v, t, venues) == IF v \in venues THEN Opening(v, t) ELSE 0

\* LedgerAgrees is inductive once nothing was posted to an account unopened.
LedgerInv ==
  /\ \A v \in Venues, t \in Tokens : Agrees(balances[v][t], OpenedWith(v, t, open), owed[v][t], t)
  /\ \A v \in Venues \ open, t \in Tokens : owed[v][t] = [sum |-> 0, posts |-> 0]

LEMMA LedgerInvImplies == LedgerInv => LedgerAgrees
  BY DEF LedgerInv, LedgerAgrees, Agrees, Expected, OpenedWith

LEMMA UnitType == \A t \in Tokens : Unit(t) \in Nat \ {0}
  BY DEF Unit

\* A balance that is just what it should be.
LEMMA AgreesAtFirst ==
  ASSUME NEW b \in Int, NEW t \in Tokens
  PROVE  Agrees(b, b, [sum |-> 0, posts |-> 0], t)
<1>1. b - (b + 0) = 0 /\ Unit(t) * 0 = 0
  BY UnitType
<1> QED BY <1>1 DEF Agrees, Abs

LEMMA LedgerInit == Init => LedgerInv
<1> SUFFICES ASSUME Init PROVE LedgerInv
  OBVIOUS
<1>1. \A v \in Venues, t \in Tokens : owed[v][t] = [sum |-> 0, posts |-> 0]
  BY DEF Init
<1>2. ASSUME NEW v \in Venues, NEW t \in Tokens
      PROVE  Agrees(balances[v][t], OpenedWith(v, t, open), owed[v][t], t)
  <2>1. balances[v][t] = OpenedWith(v, t, open) /\ balances[v][t] \in Int
    BY OpeningType DEF Init, OpenedWith
  <2> QED BY <1>1, <2>1, AgreesAtFirst
<1> QED BY <1>1, <1>2 DEF LedgerInv

\* A fill posts to one account, each balance at most once.
LEMMA PostedAgrees ==
  ASSUME TypeOK, LedgerInv, NEW l \in LegType, l.venue \in open,
         NEW v \in Venues, NEW t \in Tokens
  PROVE  Agrees(Posted(l)[v][t], OpenedWith(v, t, open), Owed(l)[v][t], t)
<1> DEFINE o == owed[v][t]
           opening == OpenedWith(v, t, open)
<1>1. Agrees(balances[v][t], opening, o, t)
  BY DEF LedgerInv
<1>2. balances[v][t] \in Int /\ opening \in Int /\ o \in [sum : Int, posts : Nat]
  BY OpeningType DEF TypeOK, OpenedWith
<1>3. balances \in AccountsType /\ owed \in [Venues -> [Tokens -> [sum : Int, posts : Nat]]]
  BY DEF TypeOK, AccountsType
<1>4. l.venue \in Venues /\ l.base \in Tokens /\ Cash(l) \in Int /\ Received(l) \in Int
  BY LegFacts DEF LegType
<1>5. ASSUME NEW d \in Int, Posted(l)[v][t] = Round(balances[v][t] + d, Unit(t)),
             Owed(l)[v][t] = Owe(o, d)
      PROVE  Agrees(Posted(l)[v][t], opening, Owed(l)[v][t], t)
  <2> DEFINE e == opening + o.sum
  <2>1. e \in Int /\ o.posts \in Nat /\ 2 * Abs(balances[v][t] - e) <= Unit(t) * o.posts
    BY <1>1, <1>2 DEF Agrees
  <2>2. 2 * Abs(Round(balances[v][t] + d, Unit(t)) - (e + d)) <= Unit(t) * (o.posts + 1)
    BY <1>2, <2>1, RoundedDrift, UnitType
  <2>3. e + d = opening + (o.sum + d)
    BY <1>2
  <2> QED BY <1>5, <2>2, <2>3 DEF Agrees, Owe
<1>6. CASE v # l.venue
  <2>1. Posted(l)[v][t] = balances[v][t] /\ Owed(l)[v][t] = o
    BY <1>3, <1>4, <1>6 DEF Posted, Owed
  <2> QED BY <1>1, <2>1
<1>7. CASE v = l.venue /\ t = USDT
  <2>1. Posted(l)[v][t] = Round(balances[v][t] + Cash(l), Cent)
    BY <1>3, <1>4, <1>7 DEF Posted, AccountsType
  <2>2. Owed(l)[v][t] = Owe(o, Cash(l)) /\ Unit(t) = Cent
    BY <1>3, <1>4, <1>7 DEF Owed, Unit
  <2> QED BY <1>4, <1>5, <2>1, <2>2
<1>8. CASE v = l.venue /\ t # USDT /\ t = l.base
  <2>1. Posted(l)[v][t] = Round(balances[v][t] + Received(l), Lot)
    BY <1>3, <1>4, <1>8 DEF Posted, AccountsType
  <2>2. Owed(l)[v][t] = Owe(o, Received(l)) /\ Unit(t) = Lot
    BY <1>3, <1>4, <1>8 DEF Owed, Unit
  <2> QED BY <1>4, <1>5, <2>1, <2>2
<1>9. CASE v = l.venue /\ t # USDT /\ t # l.base
  <2>1. Posted(l)[v][t] = balances[v][t]
    BY <1>3, <1>4, <1>9 DEF Posted, AccountsType
  <2>2. Owed(l)[v][t] = o
    BY <1>3, <1>4, <1>9 DEF Owed
  <2> QED BY <1>1, <2>1, <2>2
<1> QED BY <1>6, <1>7, <1>8, <1>9

\* Opening an account, if need be, among balances that agree.
LEMMA GetExchangeAgrees ==
  ASSUME open \subseteq Venues, NEW w \in Venues, NEW b \in AccountsType, GetExchange(w, b),
         NEW o, \A v \in Venues, t \in Tokens : Agrees(b[v][t], OpenedWith(v, t, open), o[v][t], t),
         \A v \in Venues \ open, t \in Tokens : o[v][t] = [sum |-> 0, posts |-> 0],
         owed' = o
  PROVE  LedgerInv'
<1>1. ASSUME NEW v \in Venues, NEW t \in Tokens
      PROVE  Agrees(balances'[v][t], OpenedWith(v, t, open'), o[v][t], t)
  <2>1. CASE w \in open \/ v # w
    <3>1. balances'[v][t] = b[v][t] /\ (v \in open' <=> v \in open)
      BY <2>1 DEF GetExchange, AccountsType
    <3> QED BY <3>1 DEF OpenedWith
  <2>2. CASE w \notin open /\ v = w
    <3>1. balances'[v][t] = Opening(v, t) /\ OpenedWith(v, t, open') = Opening(v, t)
      BY <2>2 DEF GetExchange, AccountsType, OpenedWith
    <3>2. o[v][t] = [sum |-> 0, posts |-> 0]
      BY <2>2
    <3> QED BY <3>1, <3>2, AgreesAtFirst, OpeningType
  <2> QED BY <2>1, <2>2
<1>2. Venues \ open' \subseteq Venues \ open
  BY DEF GetExchange
<1> QED BY <1>1, <1>2 DEF LedgerInv

LEMMA LedgerStep == TypeOK /\ TypeOK' /\ LedgerInv /\ [Next]_vars => LedgerInv'
<1> SUFFICES ASSUME TypeOK, LedgerInv, [Next]_vars PROVE LedgerInv'
  OBVIOUS
<1>1. open \subseteq Venues /\ balances \in AccountsType
  BY DEF TypeOK, AccountsType
<1>2. ASSUME UNCHANGED <<open, balances, owed>> PROVE LedgerInv'
  BY <1>2 DEF LedgerInv
<1>3. ASSUME NEW e \in Executions, NEW opp \in Opportunities, Execute(e, opp)
      PROVE  LedgerInv'
  <2>1. CASE opp.route = <<>>
    BY <1>2, <1>3, <2>1 DEF Execute
  <2>2. CASE opp.route # <<>>
    <3>1. opp.route \in Seq(Legs) /\ opp.route[1] \in LegType
      BY <2>2
    <3>2. GetExchange(opp.route[1].venue, balances) /\ owed' = owed
      BY <1>3, <2>2 DEF Execute
    <3>3. opp.route[1].venue \in Venues
      BY <3>1 DEF LegType
    <3>4. \A v \in Venues, t \in Tokens :
            Agrees(balances[v][t], OpenedWith(v, t, open), owed[v][t], t)
      BY DEF LedgerInv
    <3>5. \A v \in Venues \ open, t \in Tokens : owed[v][t] = [sum |-> 0, posts |-> 0]
      BY DEF LedgerInv
    <3> QED BY <1>1, <3>2, <3>3, <3>4, <3>5, GetExchangeAgrees
  <2> QED BY <2>1, <2>2
<1>4. ASSUME NEW e \in Executions, Fill(e) PROVE LedgerInv'
  <2> DEFINE x == executions[e]
             l == x.opp.route[x.leg]
             y == Filled(x, l)
  <2>1. l \in LegType /\ l.venue \in open /\ owed' = Owed(l)
    BY <1>4, SubmittedLeg DEF Fill, TypeOK
  <2> HIDE DEF l
  <2>2. \A v \in Venues, t \in Tokens :
          Agrees(Posted(l)[v][t], OpenedWith(v, t, open), Owed(l)[v][t], t)
    BY <2>1, PostedAgrees
  <2>3. ASSUME NEW v \in Venues \ open, NEW t \in Tokens
        PROVE  Owed(l)[v][t] = [sum |-> 0, posts |-> 0]
    <3>1. Owed(l)[v] = owed[v]
      BY <2>1 DEF Owed, TypeOK
    <3> QED BY <3>1 DEF LedgerInv
  <2>4. Posted(l) \in AccountsType
    BY <2>1, PostedType
  <2>5. CASE y.leg <= Len(x.opp.route)
    <3>1. GetExchange(x.opp.route[y.leg].venue, Posted(l))
      BY <1>4, <2>5 DEF Fill, l
    <3>2. x.opp.route[y.leg].venue \in Venues
      <4>1. x.opp.route \in Seq(Legs) /\ x.leg \in Nat
        BY DEF TypeOK
      <4>2. y.leg = x.leg + 1
        BY DEF Filled, TypeOK
      <4>3. x.opp.route[y.leg] \in LegType
        BY <2>5, <4>1, <4>2
      <4> QED BY <4>3 DEF LegType
    <3> HIDE DEF x, y
    <3> QED BY <1>1, <2>1, <2>2, <2>3, <2>4, <3>1, <3>2, GetExchangeAgrees
  <2>6. CASE ~(y.leg <= Len(x.opp.route))
    <3>1. open' = open /\ balances' = Posted(l)
      BY <1>4, <2>6 DEF Fill, l
    <3> QED BY <2>1, <2>2, <2>3, <3>1 DEF LedgerInv
  <2> QED BY <2>5, <2>6
<1>5. ASSUME NEW e \in Executions, Throw(e) PROVE LedgerInv'
  BY <1>2, <1>5 DEF Throw
<1>6. CASE UNCHANGED vars
  BY <1>2, <1>6 DEF vars
<1> QED BY <1>3, <1>4, <1>5, <1>6 DEF Next

\* However executions interleave, every balance is its opening balance and all
\* that was posted to it, within half a unit for each posting.
THEOREM LedgerCorrect == Spec => []LedgerAgrees
<1>1. TypeOK /\ LedgerInv /\ [Next]_vars => TypeOK' /\ LedgerInv'
  BY TypeStep, LedgerStep
<1> QED BY <1>1, TypeInit, LedgerInit, LedgerInvImplies, PTL DEF Spec

-----------------------------------------------------------------------------
(* The reports *)

\* The cash an execution moved is the worth of its legs less the fees and the
\* slippage it has added up, within a cent for each leg.
Tallies(cash, worth, fees, slippage, legs) ==
  2 * Abs(cash - (worth - fees - slippage)) <= Cent * (2 * legs)

CashInv ==
  /\ ReportsAreCash
  /\ \A e \in Executions :
       \/ executions[e].phase = "idle" /\ moved[e] = Nothing
       \/ /\ executions[e].phase = "submitted"
          /\ Tallies(moved[e].cash, moved[e].worth, executions[e].fees, executions[e].slippage,
                     executions[e].leg - 1)

LEMMA CashInit == Init => CashInv
<1> SUFFICES ASSUME Init PROVE CashInv
  OBVIOUS
<1>1. ReportsAreCash
  BY DEF Init, ReportsAreCash, Abs
<1> QED BY <1>1 DEF Init, Idle, CashInv

\* One leg more.
LEMMA TallyLeg ==
  ASSUME NEW l \in LegType, NEW cash \in Int, NEW worth \in Int, NEW fees \in Int,
         NEW slippage \in Int, NEW k \in Nat, Tallies(cash, worth, fees, slippage, k)
  PROVE  Tallies(cash + Cash(l), worth + Worth(l), fees + Round(FeeUsd(l), Cent),
                 slippage + Round(Slippage(l), Cent), k + 1)
<1> DEFINE f == FeeUsd(l)
           s == Slippage(l)
           rf == Round(f, Cent)
           rs == Round(s, Cent)
           w == Worth(l)
           p == Cent * (2 * k)
<1>1. f \in Int /\ s \in Int /\ w \in Int /\ Cash(l) = w - s - f
  BY LegFacts
<1>2. rf \in Int /\ 2 * Abs(rf - f) <= Cent /\ rs \in Int /\ 2 * Abs(rs - s) <= Cent
  BY <1>1, RoundClose
<1>3. p \in Int /\ Cent * (2 * (k + 1)) = p + 2 * Cent
  OBVIOUS
<1>4. 2 * Abs(cash - (worth - fees - slippage)) <= p
  BY DEF Tallies
<1> HIDE DEF f, s, rf, rs, w, p
<1>5. 2 * Abs((cash + (w - s - f)) - ((worth + w) - (fees + rf) - (slippage + rs))) <= p + 2 * Cent
  BY <1>1, <1>2, <1>3, <1>4 DEF Abs
<1> QED BY <1>1, <1>3, <1>5 DEF Tallies, f, s, rf, rs, w

\* The drift of the reports, the rounding of this one and the tally of its
\* execution add up.
LEMMA ReportArithmetic ==
  ASSUME NEW r \in Int, NEW c \in Int, NEW k \in Int, NEW p \in Int, NEW q \in Int,
         NEW g \in Int, NEW f \in Int, NEW s \in Int, NEW net \in Int,
         NEW cash \in Int, NEW worth \in Int,
         2 * Abs(r - c - k) <= p, 2 * Abs(net - (g - f - s)) <= Cent,
         2 * Abs(cash - (worth - f - s)) <= q
  PROVE  2 * Abs((r + net) - (c + cash) - (k + g - worth)) <= p + q + Cent
<1> DEFINE drift == r - c - k
           rounded == net - (g - f - s)
           tally == cash - (worth - f - s)
<1>1. (r + net) - (c + cash) - (k + g - worth) = drift + rounded - tally
  OBVIOUS
<1>2. drift \in Int /\ rounded \in Int /\ tally \in Int
  OBVIOUS
<1>3. 2 * Abs(drift) <= p /\ 2 * Abs(rounded) <= Cent /\ 2 * Abs(tally) <= q
  OBVIOUS
<1> HIDE DEF drift, rounded, tally
<1>4. 2 * Abs(drift + rounded - tally) <= p + q + Cent
  BY <1>2, <1>3 DEF Abs
<1> QED BY <1>1, <1>4

\* A report of an execution whose sums tally.
LEMMA ReportKeeps ==
  ASSUME TypeOK, ReportsAreCash, NEW opp \in [route : Seq(Legs), gross : Int],
         NEW fees \in Int, NEW slippage \in Int, NEW m \in [cash : Int, worth : Int],
         NEW legs \in Nat, Tallies(m.cash, m.worth, fees, slippage, legs),
         Report(opp, fees, slippage, m, legs)
  PROVE  ReportsAreCash'
<1> DEFINE g == opp.gross
           net == Round(g - fees - slippage, Cent)
           r == performance.realized
           c == earned.cash
           k == earned.claims
           p == Cent * earned.roundings
           q == Cent * (2 * legs)
<1>1. g \in Int /\ g - fees - slippage \in Int
  OBVIOUS
<1>2. net \in Int /\ 2 * Abs(net - (g - fees - slippage)) <= Cent
  BY <1>1, RoundClose
<1>3. r \in Int /\ c \in Int /\ k \in Int /\ earned.roundings \in Nat
  BY DEF TypeOK
<1>4. /\ performance'.realized = r + net
      /\ earned'.cash = c + m.cash /\ earned'.claims = k + g - m.worth
      /\ earned'.roundings = earned.roundings + 2 * legs + 1
  BY DEF Report, Performance
<1>5. p \in Int /\ q \in Int /\ 2 * Abs(r - c - k) <= p
  BY <1>3 DEF ReportsAreCash
<1>6. 2 * Abs(m.cash - (m.worth - fees - slippage)) <= q
  BY DEF Tallies
<1>7. Cent * (earned.roundings + 2 * legs + 1) = p + q + Cent
  BY <1>3
<1> HIDE DEF g, net, r, c, k, p, q
<1>8. 2 * Abs((r + net) - (c + m.cash) - (k + g - m.worth)) <= p + q + Cent
  <2>1. m.cash \in Int /\ m.worth \in Int
    OBVIOUS
  <2> QED BY <1>1, <1>2, <1>3, <1>5, <1>6, <2>1, ReportArithmetic
<1> QED BY <1>4, <1>7, <1>8 DEF ReportsAreCash

LEMMA CashStep == TypeOK /\ CashInv /\ [Next]_vars => CashInv'
<1> SUFFICES ASSUME TypeOK, CashInv, [Next]_vars PROVE CashInv'
  OBVIOUS
<1>1. executions \in [Executions -> ExecutionType] /\ moved \in [Executions -> [cash : Int, worth : Int]]
  BY DEF TypeOK, ExecutionType
<1>2. ASSUME UNCHANGED <<performance, earned>> PROVE ReportsAreCash'
  BY <1>2 DEF CashInv, ReportsAreCash
\* A new execution has nothing to tally.
<1>3. Tallies(0, 0, 0, 0, 0)
  BY DEF Tallies, Abs
<1>4. ASSUME NEW e \in Executions, NEW opp \in Opportunities, Execute(e, opp)
      PROVE  CashInv'
  <2>1. executions[e].phase = "idle" /\ moved[e] = Nothing /\ moved' = moved
    BY <1>4 DEF Execute, CashInv
  <2>2. CASE opp.route = <<>>
    <3>1. Report(opp, 0, 0, Nothing, 0) /\ executions' = executions
      BY <1>4, <2>2 DEF Execute
    <3>2. /\ Nothing \in [cash : Int, worth : Int] /\ 0 \in Int /\ 0 \in Nat
          /\ Nothing.cash = 0 /\ Nothing.worth = 0
          /\ opp \in [route : Seq(Legs), gross : Int]
      BY DEF Nothing
    <3>3. Tallies(Nothing.cash, Nothing.worth, 0, 0, 0)
      BY <1>3, <3>2
    <3>4. ReportsAreCash
      BY DEF CashInv
    <3>5. ReportsAreCash'
      BY <3>1, <3>2, <3>3, <3>4, ReportKeeps
    <3> QED BY <2>1, <3>1, <3>5 DEF CashInv
  <2>3. CASE opp.route # <<>>
    <3>1. /\ executions' = [executions EXCEPT ![e] =
               [phase |-> "submitted", opp |-> opp, leg |-> 1, fees |-> 0, slippage |-> 0]]
          /\ UNCHANGED <<performance, earned>>
      BY <1>4, <2>3 DEF Execute
    <3>2. /\ executions'[e].phase = "submitted" /\ executions'[e].leg - 1 = 0
          /\ executions'[e].fees = 0 /\ executions'[e].slippage = 0
          /\ moved'[e].cash = 0 /\ moved'[e].worth = 0
      BY <1>1, <2>1, <3>1 DEF Nothing
    <3>3. \A f \in Executions \ {e} : executions'[f] = executions[f] /\ moved'[f] = moved[f]
      BY <1>1, <2>1, <3>1
    <3> QED BY <1>2, <1>3, <3>1, <3>2, <3>3 DEF CashInv
  <2> QED BY <2>2, <2>3
<1>5. ASSUME NEW e \in Executions, Fill(e) PROVE CashInv'
  <2> DEFINE x == executions[e]
             l == x.opp.route[x.leg]
             y == Filled(x, l)
             m == [cash |-> moved[e].cash + Cash(l), worth |-> moved[e].worth + Worth(l)]
             fees == x.fees + Round(FeeUsd(l), Cent)
             slip == x.slippage + Round(Slippage(l), Cent)
  <2>1. x \in ExecutionType /\ l \in LegType /\ x.phase = "submitted"
    BY <1>1, <1>5, SubmittedLeg DEF Fill
  <2>2. x.leg \in 1 .. Len(x.opp.route) /\ Len(x.opp.route) \in Nat
    BY <2>1 DEF TypeOK
  <2>3. /\ y.phase = "submitted" /\ y.leg = x.leg + 1
        /\ y.fees = fees /\ y.slippage = slip
    BY <2>1 DEF Filled, ExecutionType
  <2>4. fees \in Int /\ slip \in Int
    <3>1. FeeUsd(l) \in Int /\ Slippage(l) \in Int
      BY <2>1, LegFacts
    <3>2. Round(FeeUsd(l), Cent) \in Int /\ Round(Slippage(l), Cent) \in Int
      BY <3>1, RoundClose
    <3>3. x.fees \in Int /\ x.slippage \in Int
      BY <2>1 DEF ExecutionType
    <3> HIDE DEF x, l
    <3> QED BY <3>2, <3>3
  <2>5. m \in [cash : Int, worth : Int]
    <3>1. Cash(l) \in Int /\ Worth(l) \in Int
      BY <2>1, LegFacts
    <3> QED BY <1>1, <3>1
  <2>6. Tallies(m.cash, m.worth, fees, slip, x.leg)
    <3>1. Tallies(moved[e].cash, moved[e].worth, x.fees, x.slippage, x.leg - 1)
      BY <2>1 DEF CashInv
    <3>2. moved[e].cash \in Int /\ moved[e].worth \in Int /\ x.fees \in Int /\ x.slippage \in Int
          /\ x.leg - 1 \in Nat /\ (x.leg - 1) + 1 = x.leg
      BY <1>1, <2>1, <2>2 DEF ExecutionType
    <3>3. Tallies(moved[e].cash + Cash(l), moved[e].worth + Worth(l), fees, slip, (x.leg - 1) + 1)
      BY <2>1, <3>1, <3>2, TallyLeg
    <3> QED BY <3>2, <3>3
  <2> HIDE DEF fees, slip, m
  <2>7. CASE y.leg <= Len(x.opp.route)
    <3>1. /\ executions' = [executions EXCEPT ![e] = y] /\ moved' = [moved EXCEPT ![e] = m]
          /\ UNCHANGED <<performance, earned>>
      BY <1>5, <2>7 DEF Fill, m
    <3>2. executions'[e] = y /\ moved'[e] = m /\ y.leg - 1 = x.leg
      BY <1>1, <2>2, <2>3, <3>1
    <3>3. \A f \in Executions \ {e} : executions'[f] = executions[f] /\ moved'[f] = moved[f]
      BY <1>1, <3>1
    <3> HIDE DEF y, l, x
    <3> QED BY <1>2, <2>3, <2>6, <3>1, <3>2, <3>3 DEF CashInv
  <2>8. CASE ~(y.leg <= Len(x.opp.route))
    <3>1. /\ Report(x.opp, fees, slip, m, Len(x.opp.route))
          /\ executions' = [executions EXCEPT ![e] = Idle]
          /\ moved' = [moved EXCEPT ![e] = Nothing]
      BY <1>5, <2>3, <2>8 DEF Fill, m
    <3>2. x.leg = Len(x.opp.route) /\ x.opp \in [route : Seq(Legs), gross : Int]
      BY <2>1, <2>2, <2>3, <2>8 DEF ExecutionType
    <3>3. ReportsAreCash
      BY DEF CashInv
    <3>4. ReportsAreCash'
      BY <2>2, <2>4, <2>5, <2>6, <3>1, <3>2, <3>3, ReportKeeps
    <3>5. \A f \in Executions :
            \/ executions'[f].phase = "idle" /\ moved'[f] = Nothing
            \/ executions'[f] = executions[f] /\ moved'[f] = moved[f]
      BY <1>1, <3>1 DEF Idle
    <3> QED BY <3>4, <3>5 DEF CashInv
  <2> QED BY <2>7, <2>8
<1>6. ASSUME NEW e \in Executions, Throw(e) PROVE CashInv'
  <2>1. /\ executions' = [executions EXCEPT ![e] = Idle]
        /\ moved' = [moved EXCEPT ![e] = Nothing]
        /\ UNCHANGED <<performance, earned>>
    BY <1>6 DEF Throw
  <2>2. \A f \in Executions :
          \/ executions'[f].phase = "idle" /\ moved'[f] = Nothing
          \/ executions'[f] = executions[f] /\ moved'[f] = moved[f]
    BY <1>1, <2>1 DEF Idle
  <2> QED BY <1>2, <2>1, <2>2 DEF CashInv
<1>7. CASE UNCHANGED vars
  BY <1>2, <1>7 DEF vars, CashInv
<1> QED BY <1>4, <1>5, <1>6, <1>7 DEF Next

\* The profit reported is the cash that the reported executions moved, and what
\* their opportunities claimed beyond the worth of their legs, within half a
\* cent for each rounding.
THEOREM ReportsCorrect == Spec => []ReportsAreCash
<1>1. CashInv => ReportsAreCash
  BY DEF CashInv
<1>2. TypeOK /\ CashInv /\ [Next]_vars => TypeOK' /\ CashInv'
  BY TypeStep, CashStep
<1> QED BY <1>1, <1>2, TypeInit, CashInit, PTL DEF Spec

================================================================================
