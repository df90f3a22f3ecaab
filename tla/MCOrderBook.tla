---------------------------- MODULE MCOrderBook ----------------------------
(* Instances of OrderBook for TLC; the constants are in the .cfg files.      *)
EXTENDS OrderBook, TLC

\* The slots of resync promises are interchangeable.
RequestSymmetry == Permutations(Requests)
=============================================================================
