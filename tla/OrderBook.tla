------------------------------ MODULE OrderBook ------------------------------
(***************************************************************************)
(* OrderBookManager (packages/market-data/src/orderbook-manager.ts): the    *)
(* local copy of one venue's order book, kept by snapshots and by deltas    *)
(* that a feed may lose, repeat and reorder, with asynchronous resyncs that *)
(* may overlap each other and the feed.                                     *)
(*                                                                          *)
(* A book maps a level <<side, price>> to its amount, 0 for a level that is *)
(* not in the Map.  The venue is external: venue[n] is its book after the   *)
(* update with sequence number n, so the delta with sequence n carries the  *)
(* absolute amounts of the levels in which venue[n] and venue[n-1] differ.  *)
(* A venue's feed may show a crossed book (docs/data-quality/               *)
(* quality-rules.md), so venue[n] is any book.                              *)
(* Decimal strings are numbers; the depth cut of getDepth is abstracted.    *)
(***************************************************************************)
EXTENDS Naturals, Sequences

CONSTANTS
  Prices,           \* the prices of the instrument
  MaxAmount,        \* amounts are 0..MaxAmount
  MaxSeq,           \* bound: sequence numbers the venue may use
  ClockSeq,         \* Date.now(), the sequence of a snapshot that has none
  Sequencing,       \* do snapshots carry a sequence? a set of BOOLEANs
  Chained,          \* do deltas carry previousSequence?
  ResyncCallback,   \* was onResyncNeeded given to the constructor?
  Requests,         \* slots for resync promises in flight
  NoView            \* what a book shows before its first snapshot

ASSUME OrderBookAssumption ==
  /\ Prices \subseteq Nat
  /\ MaxAmount \in Nat
  /\ MaxSeq \in Nat \ {0}
  /\ ClockSeq \in Nat /\ ClockSeq > MaxSeq
  /\ Sequencing \subseteq BOOLEAN
  /\ Chained \in BOOLEAN
  /\ ResyncCallback \in BOOLEAN

VARIABLES
  venue,            \* external: the venue's books, oldest first
  book,             \* bids and asks
  lastSequence,
  qualityStatus,
  resyncs,          \* the resync promises, by slot
  asOf,             \* history: the venue sequence the book's content dates from
  seeded            \* history: has a snapshot ever been applied?

vars == <<venue, book, lastSequence, qualityStatus, resyncs, asOf, seeded>>

Levels == {"bid", "ask"} \X Prices
Book == [Levels -> 0 .. MaxAmount]

\* Best bid at or above best ask, which is any bid at or above any ask.
Crossed(b) ==
  \E p, q \in Prices : b[<<"bid", p>>] > 0 /\ b[<<"ask", q>>] > 0 /\ p >= q

\* The quality status validateIntegrity leaves.
Integrity(b) == IF Crossed(b) THEN "SUSPICIOUS" ELSE "VALID"

Idle == [phase |-> "idle", at |-> 0, sequenced |-> FALSE]
Asked == [phase |-> "asked", at |-> 0, sequenced |-> FALSE]
Answered(n, s) == [phase |-> "answered", at |-> n, sequenced |-> s]
ResyncStates ==
  [phase : {"idle", "asked", "answered"}, at : 0 .. MaxSeq, sequenced : BOOLEAN]

TypeOK ==
  /\ venue \in Seq(Book) /\ Len(venue) \in 1 .. MaxSeq
  /\ book \in Book
  /\ lastSequence \in 0 .. MaxSeq \cup {ClockSeq}
  /\ qualityStatus \in {"VALID", "SUSPICIOUS", "INVALID"}
  /\ resyncs \in [Requests -> ResyncStates]
  /\ asOf \in 0 .. MaxSeq
  /\ seeded \in BOOLEAN

Init ==
  /\ \E b \in Book : venue = <<b>>
  /\ book = [l \in Levels |-> 0]
  /\ lastSequence = 0
  /\ qualityStatus = "VALID"
  /\ resyncs = [r \in Requests |-> Idle]
  /\ asOf = 0
  /\ seeded = FALSE

-----------------------------------------------------------------------------
(* The venue *)

\* The venue's book changes and the feed carries one more delta.
VenueMoves ==
  /\ Len(venue) < MaxSeq
  /\ \E b \in Book \ {venue[Len(venue)]} : venue' = Append(venue, b)
  /\ UNCHANGED <<book, lastSequence, qualityStatus, resyncs, asOf, seeded>>

\* The venue serves the snapshot a resync asked for: its book of that moment.
VenueAnswers(r) ==
  /\ resyncs[r].phase = "asked"
  /\ \E s \in Sequencing :
       resyncs' = [resyncs EXCEPT ![r] = Answered(Len(venue), s)]
  /\ UNCHANGED <<venue, book, lastSequence, qualityStatus, asOf, seeded>>

-----------------------------------------------------------------------------
(* Snapshots *)

\* Mutant: the maps are not cleared, so levels the snapshot lacks stay.
ApplySnapshotUncleared(n, sequenced) ==
  /\ book' = [l \in Levels |-> IF venue[n][l] > 0 THEN venue[n][l] ELSE book[l]]
  /\ lastSequence' = IF sequenced THEN n ELSE ClockSeq
  /\ qualityStatus' = Integrity(book')
  /\ asOf' = n
  /\ seeded' = TRUE

\* Mutant: the sequence expected next is stored as the last one.
ApplySnapshotNext(n, sequenced) ==
  /\ book' = venue[n]
  /\ lastSequence' = IF sequenced THEN n + 1 ELSE ClockSeq
  /\ qualityStatus' = Integrity(venue[n])
  /\ asOf' = n
  /\ seeded' = TRUE

\* applySnapshot of the venue's book as of sequence n.
ApplySnapshot(n, sequenced) ==
  /\ book' = venue[n]
  /\ lastSequence' = IF sequenced THEN n ELSE ClockSeq
  /\ qualityStatus' = Integrity(venue[n])
  /\ asOf' = n
  /\ seeded' = TRUE

\* The owner's own first snapshot, fetched at any earlier moment.
Seed(n) ==
  /\ ~ seeded
  /\ \E s \in Sequencing : ApplySnapshot(n, s)
  /\ UNCHANGED <<venue, resyncs>>

\* resync up to its await; applyUpdate is its one caller and does not await it.
StartResync(r) ==
  /\ resyncs[r] = Idle
  /\ resyncs' = [resyncs EXCEPT ![r] = Asked]

\* The awaited snapshot arrives and replaces the book, whatever happened since.
ResyncDone(r) ==
  /\ resyncs[r].phase = "answered"
  /\ ApplySnapshot(resyncs[r].at, resyncs[r].sequenced)
  /\ resyncs' = [resyncs EXCEPT ![r] = Idle]
  /\ UNCHANGED venue

\* Mutant: the catch block swallows the error.
ResyncFailsSilently(r) ==
  /\ resyncs[r].phase # "idle"
  /\ resyncs' = [resyncs EXCEPT ![r] = Idle]
  /\ UNCHANGED <<venue, book, lastSequence, qualityStatus, asOf, seeded>>

\* onResyncNeeded rejects, before or after the venue served it.
ResyncFails(r) ==
  /\ resyncs[r].phase # "idle"
  /\ qualityStatus' = "INVALID"
  /\ resyncs' = [resyncs EXCEPT ![r] = Idle]
  /\ UNCHANGED <<venue, book, lastSequence, asOf, seeded>>

-----------------------------------------------------------------------------
(* Deltas *)

\* Mutant: previousSequence is not compared.
ValidateSequenceUnchained(n) == lastSequence = 0 \/ n > lastSequence

\* The verdict of validateSequence on the delta with sequence n.
ValidateSequence(n) ==
  \/ lastSequence = 0
  \/ /\ Chained => n - 1 = lastSequence
     /\ n > lastSequence

\* Mutant: a level with amount 0 is not deleted.
PatchedWithoutRemoval(b, n) ==
  [l \in Levels |->
     IF venue[n][l] # venue[n - 1][l] /\ venue[n][l] > 0 THEN venue[n][l] ELSE b[l]]

\* The book after the level changes of the delta with sequence n.
Patched(b, n) ==
  [l \in Levels |-> IF venue[n][l] # venue[n - 1][l] THEN venue[n][l] ELSE b[l]]

AcceptUpdate(n) ==
  /\ ValidateSequence(n)
  /\ book' = Patched(book, n)
  /\ lastSequence' = n
  /\ qualityStatus' = Integrity(book')
  /\ asOf' = n
  /\ UNCHANGED <<venue, resyncs, seeded>>

RejectUpdate(n) ==
  /\ ~ ValidateSequence(n)
  /\ qualityStatus' = "SUSPICIOUS"
  /\ IF ResyncCallback
     THEN \E r \in Requests : StartResync(r)
     ELSE UNCHANGED resyncs
  /\ UNCHANGED <<venue, book, lastSequence, asOf, seeded>>

\* The feed may deliver any delta the venue sent, late, again or never.
ApplyUpdate(n) == AcceptUpdate(n) \/ RejectUpdate(n)

-----------------------------------------------------------------------------

Next ==
  \/ VenueMoves
  \/ \E n \in 1 .. Len(venue) : Seed(n)
  \/ \E n \in 2 .. Len(venue) : ApplyUpdate(n)
  \/ \E r \in Requests :
       VenueAnswers(r) \/ ResyncDone(r) \/ ResyncFails(r)

Spec == Init /\ [][Next]_vars

-----------------------------------------------------------------------------
(* Properties *)

\* Whatever the feed loses, repeats or reorders and however resyncs overlap
\* it, a book that has had a snapshot is exactly the venue's book at one
\* moment, and a lastSequence the venue gave names that moment.
BookIsVenueImage ==
  seeded =>
    /\ asOf \in 1 .. Len(venue)
    /\ book = venue[asOf]
    /\ lastSequence \in {asOf, ClockSeq}

\* Lost, repeated and reordered deltas and overlapping resyncs never cross the
\* book themselves, before the first snapshot included: a crossed book shows
\* the venue's own crossing of that moment, and validateIntegrity has told it.
CrossedOnlyByVenue ==
  Crossed(book) =>
    /\ asOf \in 1 .. Len(venue)
    /\ Crossed(venue[asOf])
    /\ qualityStatus # "VALID"

\* The strengthening that makes the two inductive on a chained feed: before the
\* first snapshot the book holds a part of the venue's book of one moment, and
\* a snapshot on its way is of a book the venue really had.
PartialImage ==
  IF lastSequence = 0
  THEN ~ seeded /\ book = [l \in Levels |-> 0]
  ELSE /\ asOf \in 1 .. Len(venue)
       /\ lastSequence \in {asOf, ClockSeq}
       /\ \A l \in Levels : book[l] \in {0, venue[asOf][l]}
AnswersArePublished ==
  \A r \in Requests :
    resyncs[r].phase = "answered" => resyncs[r].at \in 1 .. Len(venue)
ImageInv == TypeOK /\ PartialImage /\ BookIsVenueImage /\ AnswersArePublished

Resyncing == \E r \in Requests : resyncs[r].phase # "idle"

\* No gap is forgotten: a SUSPICIOUS book has a resync in flight, unless it is
\* SUSPICIOUS for being crossed.  For that validateIntegrity asks for none, though
\* rule DQ-002 (docs/data-quality/quality-rules.md) triggers a REST snapshot.
SuspicionExplained ==
  ResyncCallback /\ qualityStatus = "SUSPICIOUS" => Resyncing \/ Crossed(book)

\* The book is a replica of the venue's: it follows deltas one by one in order
\* or is replaced whole.
Replica == INSTANCE BookReplica
             WITH Books <- Book, versions <- venue,
                  version <- IF seeded THEN asOf ELSE 0,
                  shown <- IF seeded THEN book ELSE NoView
ImplementsReplica == Replica!ReplicaSpec

\* A completed resync keeps every update the book had already taken: the
\* documented repair queries the snapshot and then replays buffered updates
\* until state parity (docs/exchanges/cex-connectors.md).  The code applies the
\* awaited snapshot as it is.
ResyncKeepsUpdates ==
  [][\A r \in Requests : resyncs[r].phase = "answered" /\ resyncs'[r] = Idle
       => asOf' >= asOf \/ qualityStatus' = "INVALID"]_vars

=============================================================================
