------------------------------ MODULE PaperTrading ------------------------------
(***************************************************************************)
(* PaperExchange (packages/arbitrage-engine/src/paper/paper-trading.ts),    *)
(* PaperSimulationService and PaperPortfolioManager (apps/paper-engine/src).*)
(* An execution submits the legs of an opportunity one after the other.     *)
(* Each order waits for its simulated latency and then reads, changes and   *)
(* writes the venue's account in one go; between two legs any other         *)
(* execution may trade on the same accounts.                                *)
(*                                                                          *)
(* Money is an integer.  Its unit is so small that the slippage of          *)
(* 1/SlipScale and the fee of 1/FeeScale come out exact, so what toFixed    *)
(* does is the only rounding: to a Cent in money, to a Lot in tokens.       *)
(* Orders, fills and reports are kept by the code for display; of them the  *)
(* model keeps what getPerformance adds up.                                 *)
(***************************************************************************)
EXTENDS Integers, Sequences

CONSTANTS
  Venues, Listed,        \* venues, and those the constructor opens
  Tokens, USDT,
  Opportunities,         \* [route: sequence of Legs, gross: their claimed profit]
  Legs,                  \* the legs there may be
  Executions,            \* slots for executions under way
  SlipScale, FeeScale,   \* 2000 and 1000: 0.05% and 10 basis points
  Cent, Lot,             \* one hundredth of a dollar, one ten-thousandth of a token
  ListedFunds, LazyFunds,
  MaxExecutions          \* bound: executions ever started

Sides == {"BUY", "SELL"}

\* Whatever a leg does other than buy is submitted as a sale of its first asset.
\* A leg with ok = FALSE has an amount or a price that Decimal does not parse.
LegType == [venue : Venues, base : Tokens, side : Sides, amount : Nat, price : Nat, ok : BOOLEAN]

ASSUME PaperAssumption ==
  /\ Listed \subseteq Venues /\ USDT \in Tokens
  /\ Legs \subseteq LegType
  /\ Opportunities \subseteq [route : Seq(Legs), gross : Int]
  /\ SlipScale \in Nat /\ FeeScale \in Nat
  /\ Cent \in Nat \ {0} /\ Lot \in Nat \ {0}
  /\ ListedFunds \in Int /\ LazyFunds \in Int
  /\ MaxExecutions \in Nat

-----------------------------------------------------------------------------
(* Arithmetic of an order *)

\* Mutant: towards minus infinity.
RoundDown(x, u) == (x \div u) * u

\* toFixed: to the nearest multiple of u, half away from zero.
Round(x, u) ==
  IF x >= 0 THEN ((2 * x + u) \div (2 * u)) * u
            ELSE -(((2 * (-x) + u) \div (2 * u)) * u)

Abs(x) == IF x >= 0 THEN x ELSE -x

\* The leg at its market price, before slippage.
Notional(l) == l.amount * l.price * SlipScale * FeeScale
Slippage(l) == l.amount * l.price * FeeScale

\* Market orders buy above and sell below the market price.
TotalCost(l) == IF l.side = "BUY" THEN Notional(l) + Slippage(l) ELSE Notional(l) - Slippage(l)
FeeUsd(l) == l.amount * l.price * (IF l.side = "BUY" THEN SlipScale + 1 ELSE SlipScale - 1)

\* Money that the order moves, and what it would be worth at the market price.
Signed(l, x) == IF l.side = "BUY" THEN -x ELSE x
Cash(l) == Signed(l, TotalCost(l)) - FeeUsd(l)
Worth(l) == Signed(l, Notional(l))
Received(l) == IF l.side = "BUY" THEN l.amount ELSE -l.amount

-----------------------------------------------------------------------------

VARIABLES
  open,          \* venues with an account
  balances,      \* balances[v][t], 0 where the account has no entry
  executions,    \* opportunity, index of the submitted leg, sums so far
  performance,   \* what getPerformance adds up over the reports
  started,       \* executions ever started
  owed,          \* history: what was posted to each balance, unrounded, and how often
  moved,         \* history: cash and worth of each execution's orders so far
  earned         \* history: the same of all that were reported, and the roundings made

vars == <<open, balances, executions, performance, started, owed, moved, earned>>

Idle == [phase |-> "idle", opp |-> [route |-> <<>>, gross |-> 0], leg |-> 0,
         fees |-> 0, slippage |-> 0]
Nothing == [cash |-> 0, worth |-> 0]

Opening(v, t) == IF t # USDT THEN 0 ELSE IF v \in Listed THEN ListedFunds ELSE LazyFunds

TypeOK ==
  /\ open \subseteq Venues
  /\ balances \in [Venues -> [Tokens -> Int]]
  /\ executions \in
       [Executions -> [phase : {"idle", "submitted"},
                       opp : [route : Seq(Legs), gross : Int],
                       leg : Nat, fees : Int, slippage : Int]]
  /\ performance \in [realized : Int, fees : Int, slippage : Int, trades : Nat]
  /\ started \in Nat
  /\ owed \in [Venues -> [Tokens -> [sum : Int, posts : Nat]]]
  /\ moved \in [Executions -> [cash : Int, worth : Int]]
  /\ earned \in [cash : Int, claims : Int, roundings : Nat]
  \* The submitted leg exists, on a venue that has an account.
  /\ \A e \in Executions : executions[e].phase = "submitted" =>
       /\ executions[e].leg \in 1 .. Len(executions[e].opp.route)
       /\ executions[e].opp.route[executions[e].leg].venue \in open

Init ==
  /\ open = Listed
  /\ balances = [v \in Venues |-> [t \in Tokens |-> IF v \in Listed THEN Opening(v, t) ELSE 0]]
  /\ executions = [e \in Executions |-> Idle]
  /\ performance = [realized |-> 0, fees |-> 0, slippage |-> 0, trades |-> 0]
  /\ started = 0
  /\ owed = [v \in Venues |-> [t \in Tokens |-> [sum |-> 0, posts |-> 0]]]
  /\ moved = [e \in Executions |-> Nothing]
  /\ earned = [cash |-> 0, claims |-> 0, roundings |-> 0]

\* Mutant: the lookup does not create.
GetExchangeListed(v, b) == UNCHANGED open /\ balances' = b

\* getExchange, on balances b: a venue seen for the first time gets an account.
GetExchange(v, b) ==
  /\ open' = open \cup {v}
  /\ balances' = IF v \in open THEN b ELSE [b EXCEPT ![v] = [t \in Tokens |-> Opening(v, t)]]

\* What getPerformance adds up once there is one report more.
Performance(net, fees, slippage) ==
  [realized |-> performance.realized + net, fees |-> performance.fees + fees,
   slippage |-> performance.slippage + slippage, trades |-> performance.trades + 1]

\* The report: profit as claimed less fees and slippage as filled.
Report(opp, fees, slippage, m, legs) ==
  /\ performance' = Performance(Round(opp.gross - fees - slippage, Cent), fees, slippage)
  /\ earned' = [cash |-> earned.cash + m.cash,
                claims |-> earned.claims + opp.gross - m.worth,
                roundings |-> earned.roundings + 2 * legs + 1]

\* executeOpportunityPaper up to the latency of its first order; with no legs
\* it reports at once.
Execute(e, opp) ==
  /\ executions[e].phase = "idle" /\ started < MaxExecutions
  /\ started' = started + 1
  /\ IF opp.route = <<>>
     THEN Report(opp, 0, 0, Nothing, 0) /\ UNCHANGED <<open, balances, executions>>
     ELSE /\ GetExchange(opp.route[1].venue, balances)
          /\ executions' = [executions EXCEPT ![e] =
               [phase |-> "submitted", opp |-> opp, leg |-> 1, fees |-> 0, slippage |-> 0]]
          /\ UNCHANGED <<performance, earned>>
  /\ UNCHANGED <<owed, moved>>

\* Mutant: USDT first, so that the other write wins when the base is USDT.
PostedUsdtFirst(l) ==
  LET a == balances[l.venue]
  IN [balances EXCEPT ![l.venue] =
       [a EXCEPT ![USDT] = Round(a[USDT] + Cash(l), Cent),
                 ![l.base] = Round(a[l.base] + Received(l), Lot)]]

\* The balances after a fill.  Both are read before either is written, so with
\* USDT as base token the second write undoes the first.
Posted(l) ==
  LET a == balances[l.venue]
  IN [balances EXCEPT ![l.venue] =
       [a EXCEPT ![l.base] = Round(a[l.base] + Received(l), Lot),
                 ![USDT] = Round(a[USDT] + Cash(l), Cent)]]

Owe(o, x) == [sum |-> o.sum + x, posts |-> o.posts + 1]

\* The cash in USDT and, of any other token, the amount.
Owed(l) ==
  [owed EXCEPT ![l.venue] = [t \in Tokens |->
     IF t = USDT THEN Owe(@[t], Cash(l))
     ELSE IF t = l.base THEN Owe(@[t], Received(l)) ELSE @[t]]]

\* Mutant: the fees and slippage of the last order only.
FilledForgetting(x, l) ==
  [x EXCEPT !.leg = x.leg + 1,
            !.fees = Round(FeeUsd(l), Cent),
            !.slippage = Round(Slippage(l), Cent)]

\* The sums of an execution after a fill, and the leg it submits next.
Filled(x, l) ==
  [x EXCEPT !.leg = x.leg + 1,
            !.fees = x.fees + Round(FeeUsd(l), Cent),
            !.slippage = x.slippage + Round(Slippage(l), Cent)]

\* An order's latency is over: it fills, and the execution goes on to its next
\* leg or to the report.
Fill(e) ==
  LET x == executions[e]
      l == x.opp.route[x.leg]
      y == Filled(x, l)
      m == [cash |-> moved[e].cash + Cash(l), worth |-> moved[e].worth + Worth(l)]
  IN /\ x.phase = "submitted" /\ l.ok
     /\ owed' = Owed(l)
     /\ IF y.leg <= Len(x.opp.route)
        THEN /\ GetExchange(x.opp.route[y.leg].venue, Posted(l))
             /\ executions' = [executions EXCEPT ![e] = y]
             /\ moved' = [moved EXCEPT ![e] = m]
             /\ UNCHANGED <<performance, earned>>
        ELSE /\ open' = open /\ balances' = Posted(l)
             /\ Report(x.opp, y.fees, y.slippage, m, Len(x.opp.route))
             /\ executions' = [executions EXCEPT ![e] = Idle]
             /\ moved' = [moved EXCEPT ![e] = Nothing]
     /\ UNCHANGED started

\* An order whose numbers do not parse rejects: its execution ends without a
\* report, and what its earlier legs did stays on the accounts.
Throw(e) ==
  /\ executions[e].phase = "submitted"
  /\ ~executions[e].opp.route[executions[e].leg].ok
  /\ executions' = [executions EXCEPT ![e] = Idle]
  /\ moved' = [moved EXCEPT ![e] = Nothing]
  /\ UNCHANGED <<open, balances, performance, started, owed, earned>>

Next == \E e \in Executions :
  \/ \E opp \in Opportunities : Execute(e, opp)
  \/ Fill(e)
  \/ Throw(e)

Spec == Init /\ [][Next]_vars

-----------------------------------------------------------------------------
(* Properties *)

Unit(t) == IF t = USDT THEN Cent ELSE Lot

\* What was posted, but for the amounts of orders in USDT, which no balance keeps.
Expected(v, t) == (IF v \in open THEN Opening(v, t) ELSE 0) + owed[v][t].sum

\* However executions interleave, no order's effect on an account is lost or
\* doubled: every balance is its opening balance and all that was posted to it,
\* give or take half a unit for each time it was rounded.  The cash of an
\* order whose base token is USDT is posted right; its amount, which the second
\* write undoes, is the exception.
LedgerAgrees == \A v \in Venues, t \in Tokens :
  2 * Abs(balances[v][t] - Expected(v, t)) <= Unit(t) * owed[v][t].posts

\* The profit that the portfolio manager reports is what the accounts earned by
\* the executions reported, and what those opportunities claimed beyond the
\* worth of their own legs, give or take half a cent for each rounded fee,
\* slippage and profit.
ReportsAreCash ==
  2 * Abs(performance.realized - earned.cash - earned.claims) <= Cent * earned.roundings
================================================================================
