------------------------- MODULE MCPaperTrading -------------------------
(* PaperTrading with a spot opportunity as its detector writes one, whose   *)
(* first leg has USDT for a base; a trade of dust at a venue nobody listed; *)
(* a second leg that does not parse; and a route without legs.              *)
EXTENDS PaperTrading

CONSTANTS binance, bybit, curve, usdt, btc

Leg(v, b, s, a, p, ok) ==
  [venue |-> v, base |-> b, side |-> s, amount |-> a, price |-> p, ok |-> ok]

BuyLow == Leg(binance, usdt, "BUY", 3, 2, TRUE)
SellHigh == Leg(bybit, btc, "SELL", 3, 3, TRUE)
BuyDust == Leg(curve, btc, "BUY", 1, 5, TRUE)
SellDust == Leg(binance, btc, "SELL", 1, 5, TRUE)
Garbled == Leg(bybit, btc, "SELL", 2, 2, FALSE)

MCLegs == {BuyLow, SellHigh, BuyDust, SellDust, Garbled}

MCOpportunities ==
  {[route |-> <<BuyLow, SellHigh>>, gross |-> 3 * SlipScale * FeeScale],
   [route |-> <<BuyDust, SellDust>>, gross |-> 3 * Cent],
   [route |-> <<BuyDust, Garbled>>, gross |-> 0],
   [route |-> <<>>, gross |-> 0]}
=========================================================================
