----------------------------- MODULE BookReplica -----------------------------
(***************************************************************************)
(* What a client-side copy of a venue's order book promises, without saying *)
(* how: the venue publishes versions of its book, and what the client shows *)
(* is always one of those versions.  The client moves by following the next *)
(* version or by replacing what it shows with a version it was sent whole.  *)
(*                                                                          *)
(* OrderBook implements this specification when the venue chains its deltas *)
(* (OrderBook!Replica, theorem OrderBookImplementsReplica).                 *)
(***************************************************************************)
EXTENDS Naturals, Sequences

CONSTANTS
  Books,      \* the books a venue may publish
  NoView      \* what a client shows before its first snapshot

VARIABLES
  versions,   \* the venue's books, oldest first
  version,    \* index of the version shown, 0 before the first snapshot
  shown       \* the book the client shows

replicaVars == <<versions, version, shown>>

ReplicaInit ==
  /\ \E b \in Books : versions = <<b>>
  /\ version = 0
  /\ shown = NoView

Publish ==
  /\ \E b \in Books : versions' = Append(versions, b)
  /\ UNCHANGED <<version, shown>>

\* The next version, and no other, may be reached incrementally.
Follow ==
  /\ version \in 1 .. Len(versions) - 1
  /\ version' = version + 1
  /\ shown' = versions[version + 1]
  /\ UNCHANGED versions

\* A whole snapshot may be of any published version, an older one included.
Replace ==
  \E n \in 1 .. Len(versions) :
    /\ version' = n
    /\ shown' = versions[n]
    /\ UNCHANGED versions

ReplicaNext == Publish \/ Follow \/ Replace

ReplicaSpec == ReplicaInit /\ [][ReplicaNext]_replicaVars

=============================================================================
