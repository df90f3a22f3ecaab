--------------------------- MODULE MCDetection ---------------------------
(* Detection with three venues whose prices may form a chain.  The second   *)
(* may spike, fall back and quote nothing; the third may cross, be          *)
(* unprofitably close to the second, be old or be ahead of our clock.       *)
EXTENDS Detection

Feed(v) == [venue |-> v, symbol |-> "BTC/USDT"]
MCFeedList == <<Feed("binance"), Feed("bybit"), Feed("kraken")>>

Quote(b, a, l, d) == [bid |-> b, ask |-> a, last |-> l, ok |-> TRUE, delay |-> d]
Garbled == [Quote(1, 2, 1, 0) EXCEPT !.ok = FALSE]

MCAnswers ==
  <<{Quote(400, 401, 400, 0), Quote(400, 401, 400, 1)},
    {Quote(410, 411, 410, 0), Quote(500, 501, 500, 0), Quote(410, 411, 0, 0), Garbled},
    {Quote(412, 413, 412, 0), Quote(420, 421, 420, 2), Quote(420, 421, 420, -3),
     Quote(430, 395, 412, 0)}>>
==========================================================================
