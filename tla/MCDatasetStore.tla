------------------------- MODULE MCDatasetStore -------------------------
(* DatasetStore with one key, as keys do not meet: that of a spot market    *)
(* and of the same market written without its separator.                    *)
EXTENDS DatasetStore, TLC

CONSTANTS btc, spot, joined

MCKeyOf == [m \in Markets |-> btc]
MCMarketLists == {<<spot, joined>>}
AnyBatch == Permutations(Batches)
=========================================================================
