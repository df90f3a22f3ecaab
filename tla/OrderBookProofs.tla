--------------------------- MODULE OrderBookProofs ---------------------------
(***************************************************************************)
(* What OrderBook guarantees for any set of prices, any number of resyncs   *)
(* in flight and any length of the venue's history.                         *)
(***************************************************************************)
EXTENDS OrderBook, TLAPS

USE OrderBookAssumption

-----------------------------------------------------------------------------
(* Lemmas about the operators *)

\* A published book stays what it was when the venue publishes another.
LEMMA PublishedStays ==
  ASSUME NEW B, NEW s \in Seq(B), NEW b \in B, NEW n \in 1 .. Len(s)
  PROVE  /\ Append(s, b)[n] = s[n]
         /\ n \in 1 .. Len(Append(s, b))
  OBVIOUS

\* A book in the venue's history is a Book.
LEMMA VenueBookType ==
  ASSUME TypeOK, NEW n \in 1 .. Len(venue)
  PROVE  venue[n] \in Book
  BY DEF TypeOK

\* Patching keeps the type of a book.
LEMMA PatchedType ==
  ASSUME TypeOK, NEW n \in 2 .. Len(venue)
  PROVE  Patched(book, n) \in Book
<1>1. venue[n] \in Book /\ n - 1 \in 1 .. Len(venue)
  BY VenueBookType DEF TypeOK
<1>2. ASSUME NEW l \in Levels
      PROVE  (IF venue[n][l] # venue[n - 1][l] THEN venue[n][l] ELSE book[l])
               \in 0 .. MaxAmount
  BY <1>1, <1>2 DEF TypeOK, Book
<1> QED BY <1>2 DEF Patched, Book

\* A delta applied to the book it continues gives the venue's next book.
LEMMA PatchContinues ==
  ASSUME TypeOK, NEW n \in 2 .. Len(venue), book = venue[n - 1]
  PROVE  Patched(book, n) = venue[n]
<1>1. venue[n] \in Book
  BY VenueBookType DEF TypeOK
<1>2. \A l \in Levels : Patched(book, n)[l] = venue[n][l]
  BY DEF Patched
<1> QED BY <1>1, <1>2 DEF Patched, Book

\* A book that holds only levels the venue has is crossed by the venue's own.
LEMMA PartCrosses ==
  ASSUME NEW b, NEW v \in Book, Crossed(b),
         \A l \in Levels : b[l] \in {0, v[l]}
  PROVE  Crossed(v)
<1> PICK p \in Prices, q \in Prices :
      b[<<"bid", p>>] > 0 /\ b[<<"ask", q>>] > 0 /\ p >= q
  BY DEF Crossed
<1>1. <<"bid", p>> \in Levels /\ <<"ask", q>> \in Levels
  BY DEF Levels
<1>2. v[<<"bid", p>>] > 0 /\ v[<<"ask", q>>] > 0
  BY <1>1
<1> QED BY <1>2 DEF Crossed

-----------------------------------------------------------------------------
(* Types *)

\* A promised snapshot must be one of the venue's books for the type of the
\* book to survive it.
TypeInv == TypeOK /\ AnswersArePublished

LEMMA TypeInvInit == Init => TypeInv
<1> SUFFICES ASSUME Init PROVE TypeInv
  OBVIOUS
<1>1. venue \in Seq(Book) /\ Len(venue) \in 1 .. MaxSeq
  <2>1. PICK b \in Book : venue = <<b>>
    BY DEF Init
  <2>2. <<b>> \in Seq(Book) /\ Len(<<b>>) = 1
    OBVIOUS
  <2> QED BY <2>1, <2>2
<1>2. book \in Book
  BY DEF Init, Book
<1>3. resyncs \in [Requests -> ResyncStates]
  BY DEF Init, Idle, ResyncStates
<1>4. AnswersArePublished
  BY DEF Init, Idle, AnswersArePublished
<1>5. lastSequence \in 0 .. MaxSeq \cup {ClockSeq} /\ asOf \in 0 .. MaxSeq
  BY DEF Init
<1>6. qualityStatus \in {"VALID", "SUSPICIOUS", "INVALID"} /\ seeded \in BOOLEAN
  BY DEF Init
<1> QED BY <1>1, <1>2, <1>3, <1>4, <1>5, <1>6 DEF TypeInv, TypeOK

LEMMA TypeInvStep == TypeInv /\ [Next]_vars => TypeInv'
<1> SUFFICES ASSUME TypeInv, [Next]_vars PROVE TypeInv'
  OBVIOUS
<1> USE DEF TypeInv
<1>1. CASE VenueMoves
  <2>1. PICK b \in Book : venue' = Append(venue, b)
    BY <1>1 DEF VenueMoves
  <2>2. venue' \in Seq(Book) /\ Len(venue') = Len(venue) + 1
    BY <2>1 DEF TypeOK
  <2> QED BY <1>1, <2>2 DEF VenueMoves, TypeOK, AnswersArePublished
<1>2. ASSUME NEW n \in 1 .. Len(venue), Seed(n) PROVE TypeInv'
  BY <1>2, VenueBookType
  DEF Seed, ApplySnapshot, Integrity, TypeOK, AnswersArePublished
<1>3. ASSUME NEW n \in 2 .. Len(venue), AcceptUpdate(n) PROVE TypeInv'
  BY <1>3, PatchedType DEF AcceptUpdate, Integrity, TypeOK, AnswersArePublished
<1>4. ASSUME NEW n \in 2 .. Len(venue), RejectUpdate(n) PROVE TypeInv'
  <2>1. CASE ~ ResyncCallback
    BY <1>4, <2>1 DEF RejectUpdate, TypeOK, AnswersArePublished
  <2>2. CASE ResyncCallback
    <3>1. PICK r \in Requests : StartResync(r)
      BY <1>4, <2>2 DEF RejectUpdate
    <3>2. /\ resyncs' \in [Requests -> ResyncStates]
          /\ \A q \in Requests : q # r => resyncs'[q] = resyncs[q]
          /\ resyncs'[r].phase = "asked"
      BY <3>1 DEF StartResync, Asked, ResyncStates, TypeOK
    <3> QED BY <1>4, <3>2 DEF RejectUpdate, TypeOK, AnswersArePublished
  <2> QED BY <2>1, <2>2 DEF RejectUpdate
<1>5. ASSUME NEW r \in Requests, VenueAnswers(r) PROVE TypeInv'
  BY <1>5 DEF VenueAnswers, Answered, ResyncStates, TypeOK, AnswersArePublished
<1>6. ASSUME NEW r \in Requests, ResyncDone(r) PROVE TypeInv'
  <2>1. resyncs[r].at \in 1 .. Len(venue)
    BY <1>6 DEF ResyncDone, AnswersArePublished
  <2>2. TypeOK'
    BY <1>6, <2>1, VenueBookType
    DEF ResyncDone, ApplySnapshot, Integrity, Idle, ResyncStates, TypeOK
  <2> QED BY <1>6, <2>2 DEF ResyncDone, Idle, TypeOK, AnswersArePublished
<1>7. ASSUME NEW r \in Requests, ResyncFails(r) PROVE TypeInv'
  BY <1>7 DEF ResyncFails, Idle, ResyncStates, TypeOK, AnswersArePublished
<1>8. CASE UNCHANGED vars
  BY <1>8 DEF vars, TypeOK, AnswersArePublished
<1> QED BY <1>1, <1>2, <1>3, <1>4, <1>5, <1>6, <1>7, <1>8 DEF Next, ApplyUpdate

\* Every variable keeps its type, whatever the feed and the resyncs do.
THEOREM TypeCorrect == Spec => []TypeOK
<1>1. TypeInv => TypeOK
  BY DEF TypeInv
<1> QED BY TypeInvInit, TypeInvStep, <1>1, PTL DEF Spec

-----------------------------------------------------------------------------
(* The image *)

LEMMA ImageInvInit == Init => ImageInv
  BY TypeInvInit DEF Init, TypeInv, ImageInv, PartialImage, BookIsVenueImage

\* A chained feed keeps the book an image of the venue's: the step lemma.
LEMMA ImageInvStep ==
  ASSUME Chained PROVE ImageInv /\ [Next]_vars => ImageInv'
<1> SUFFICES ASSUME ImageInv, [Next]_vars
             PROVE  PartialImage' /\ BookIsVenueImage'
  BY TypeInvStep DEF ImageInv, TypeInv
<1>0. TypeOK /\ TypeOK' /\ PartialImage /\ BookIsVenueImage /\ AnswersArePublished
  BY TypeInvStep DEF ImageInv, TypeInv
<1>1. CASE VenueMoves
  <2>1. PICK b \in Book : venue' = Append(venue, b)
    BY <1>1 DEF VenueMoves
  <2>2. \A n \in 1 .. Len(venue) : venue'[n] = venue[n] /\ n \in 1 .. Len(venue')
    BY <2>1, <1>0, PublishedStays DEF TypeOK
  <2>3. UNCHANGED <<book, lastSequence, asOf, seeded>>
    BY <1>1 DEF VenueMoves
  <2>4. PartialImage'
    <3>1. CASE lastSequence = 0
      BY <3>1, <2>3, <1>0 DEF PartialImage
    <3>2. CASE lastSequence # 0
      BY <3>2, <2>2, <2>3, <1>0 DEF PartialImage
    <3> QED BY <3>1, <3>2
  <2>5. BookIsVenueImage'
    BY <2>2, <2>3, <1>0 DEF BookIsVenueImage
  <2> QED BY <2>4, <2>5
<1>2. ASSUME NEW n \in 1 .. Len(venue), NEW s \in BOOLEAN,
             ApplySnapshot(n, s), UNCHANGED venue
      PROVE  PartialImage' /\ BookIsVenueImage'
  <2>1. lastSequence' \in {n, ClockSeq} /\ lastSequence' # 0
    BY <1>2, <1>0 DEF ApplySnapshot, TypeOK
  <2> QED BY <1>2, <2>1, <1>0 DEF ApplySnapshot, PartialImage, BookIsVenueImage
<1>3. ASSUME NEW n \in 1 .. Len(venue), Seed(n)
      PROVE  PartialImage' /\ BookIsVenueImage'
  BY <1>2, <1>3 DEF Seed
<1>4. ASSUME NEW r \in Requests, ResyncDone(r)
      PROVE  PartialImage' /\ BookIsVenueImage'
  <2>1. resyncs[r].at \in 1 .. Len(venue) /\ resyncs[r].sequenced \in BOOLEAN
    BY <1>4, <1>0 DEF ResyncDone, AnswersArePublished, TypeOK, ResyncStates
  <2> QED BY <1>2, <1>4, <2>1 DEF ResyncDone
<1>5. ASSUME NEW n \in 2 .. Len(venue), AcceptUpdate(n)
      PROVE  PartialImage' /\ BookIsVenueImage'
  <2>1. /\ book' = Patched(book, n) /\ lastSequence' = n /\ asOf' = n
        /\ UNCHANGED <<venue, seeded>>
        /\ n \in Nat /\ n # 0 /\ n <= MaxSeq /\ n \in 1 .. Len(venue)
    BY <1>5, <1>0 DEF AcceptUpdate, TypeOK
  <2>2. CASE lastSequence = 0
    <3>1. ~ seeded /\ book = [l \in Levels |-> 0]
      BY <2>2, <1>0 DEF PartialImage
    <3>2. \A l \in Levels : Patched(book, n)[l] \in {0, venue[n][l]}
      BY <3>1 DEF Patched
    <3> QED BY <2>1, <3>1, <3>2 DEF PartialImage, BookIsVenueImage
  <2>3. CASE lastSequence # 0
    <3>1. n - 1 = lastSequence /\ asOf = n - 1
      BY <1>5, <2>1, <2>3, <1>0
      DEF AcceptUpdate, ValidateSequence, PartialImage
    <3>2. \A l \in Levels : book[l] \in {0, venue[n - 1][l]}
      BY <2>3, <3>1, <1>0 DEF PartialImage
    <3>3. \A l \in Levels : Patched(book, n)[l] \in {0, venue[n][l]}
      BY <3>2 DEF Patched
    <3>4. seeded => Patched(book, n) = venue[n]
      BY <3>1, <1>0, PatchContinues DEF BookIsVenueImage
    <3> QED BY <2>1, <3>3, <3>4 DEF PartialImage, BookIsVenueImage
  <2> QED BY <2>2, <2>3
<1>6. ASSUME UNCHANGED <<venue, book, lastSequence, asOf, seeded>>
      PROVE  PartialImage' /\ BookIsVenueImage'
  BY <1>6, <1>0 DEF PartialImage, BookIsVenueImage
<1>7. ASSUME NEW n \in 2 .. Len(venue), RejectUpdate(n)
      PROVE  PartialImage' /\ BookIsVenueImage'
  BY <1>6, <1>7 DEF RejectUpdate
<1>8. ASSUME NEW r \in Requests, VenueAnswers(r) \/ ResyncFails(r)
      PROVE  PartialImage' /\ BookIsVenueImage'
  BY <1>6, <1>8 DEF VenueAnswers, ResyncFails
<1>9. CASE UNCHANGED vars
  BY <1>6, <1>9 DEF vars
<1> QED BY <1>1, <1>3, <1>4, <1>5, <1>7, <1>8, <1>9 DEF Next, ApplyUpdate

LEMMA ImageInvariant == ASSUME Chained PROVE Spec => []ImageInv
  BY ImageInvInit, ImageInvStep, PTL DEF Spec

\* A chained feed, whatever it loses, repeats or reorders and however many
\* resyncs overlap it, leaves the book an exact image of the venue's book.
THEOREM BookImageCorrect == ASSUME Chained PROVE Spec => []BookIsVenueImage
<1>1. ImageInv => BookIsVenueImage
  BY DEF ImageInv
<1> QED BY ImageInvariant, <1>1, PTL

\* A book marked VALID is not crossed: whatever changes the book judges it anew.
ValidUncrossed == qualityStatus = "VALID" => ~ Crossed(book)

LEMMA ValidUncrossedInit == Init => ValidUncrossed
<1> SUFFICES ASSUME Init, NEW p \in Prices, book[<<"bid", p>>] > 0 PROVE FALSE
  BY DEF ValidUncrossed, Crossed
<1>1. <<"bid", p>> \in Levels
  BY DEF Levels
<1> QED BY <1>1 DEF Init

LEMMA ValidUncrossedStep == ValidUncrossed /\ [Next]_vars => ValidUncrossed'
<1> SUFFICES ASSUME ValidUncrossed, [Next]_vars PROVE ValidUncrossed'
  OBVIOUS
<1>1. ASSUME UNCHANGED book, qualityStatus' \in {qualityStatus, "SUSPICIOUS", "INVALID"}
      PROVE  ValidUncrossed'
  BY <1>1 DEF ValidUncrossed, Crossed
<1>2. ASSUME qualityStatus' = Integrity(book') PROVE ValidUncrossed'
  BY <1>2 DEF ValidUncrossed, Integrity, Crossed
<1>3. ASSUME NEW n, NEW s, ApplySnapshot(n, s) PROVE ValidUncrossed'
  BY <1>2, <1>3 DEF ApplySnapshot
<1>4. ASSUME NEW n, Seed(n) PROVE ValidUncrossed'
  BY <1>3, <1>4 DEF Seed
<1>5. ASSUME NEW n, ApplyUpdate(n) PROVE ValidUncrossed'
  BY <1>1, <1>2, <1>5 DEF ApplyUpdate, AcceptUpdate, RejectUpdate
<1>6. ASSUME NEW r, VenueAnswers(r) \/ ResyncDone(r) \/ ResyncFails(r)
      PROVE  ValidUncrossed'
  BY <1>1, <1>3, <1>6 DEF VenueAnswers, ResyncDone, ResyncFails
<1> QED BY <1>1, <1>4, <1>5, <1>6 DEF Next, VenueMoves, vars

\* A chained feed never crosses the local book by itself, before the first
\* snapshot too: where the book is crossed the venue's was, and the status
\* says that something is wrong.
THEOREM CrossedOnlyByVenueCorrect ==
  ASSUME Chained PROVE Spec => []CrossedOnlyByVenue
<1>1. ImageInv /\ ValidUncrossed => CrossedOnlyByVenue
  <2> SUFFICES ASSUME ImageInv, ValidUncrossed, Crossed(book)
               PROVE  CrossedOnlyByVenue
    BY DEF CrossedOnlyByVenue
  <2>1. qualityStatus # "VALID"
    BY DEF ValidUncrossed
  <2>2. CASE lastSequence = 0
    <3>1. \A l \in Levels : book[l] = 0
      BY <2>2 DEF ImageInv, PartialImage
    <3>2. \A p \in Prices : ~ (book[<<"bid", p>>] > 0)
      BY <3>1 DEF Levels
    <3> QED BY <3>2, Zenon DEF Crossed
  <2>3. CASE lastSequence # 0
    <3>1. /\ asOf \in 1 .. Len(venue)
          /\ \A l \in Levels : book[l] \in {0, venue[asOf][l]}
      BY <2>3 DEF ImageInv, PartialImage
    <3>2. Crossed(venue[asOf])
      BY <3>1, VenueBookType, PartCrosses DEF ImageInv
    <3> QED BY <2>1, <3>1, <3>2 DEF CrossedOnlyByVenue
  <2> QED BY <2>2, <2>3
<1>2. Spec => []ValidUncrossed
  BY ValidUncrossedInit, ValidUncrossedStep, PTL DEF Spec
<1> QED BY ImageInvariant, <1>1, <1>2, PTL

-----------------------------------------------------------------------------
(* Gaps are repaired *)

\* A step that leaves the book SUSPICIOUS leaves a resync in flight or a
\* crossed book.
LEMMA SuspicionStep ==
  TypeInv /\ SuspicionExplained /\ [Next]_vars => SuspicionExplained'
<1> SUFFICES ASSUME TypeInv, SuspicionExplained, [Next]_vars,
                    ResyncCallback, qualityStatus' = "SUSPICIOUS"
             PROVE  Resyncing' \/ Crossed(book')
  BY DEF SuspicionExplained
<1>0. TypeOK /\ resyncs \in [Requests -> ResyncStates]
  BY DEF TypeInv, TypeOK
<1>1. ASSUME UNCHANGED <<qualityStatus, resyncs, book>>
      PROVE  Resyncing' \/ Crossed(book')
  BY <1>1 DEF SuspicionExplained, Resyncing, Crossed
<1>2. ASSUME qualityStatus' = Integrity(book') PROVE Crossed(book')
  BY <1>2 DEF Integrity
<1>3. ASSUME NEW n, NEW s, ApplySnapshot(n, s) PROVE Crossed(book')
  BY <1>2, <1>3 DEF ApplySnapshot
<1>4. ASSUME NEW n, Seed(n) PROVE Crossed(book')
  BY <1>3, <1>4 DEF Seed
<1>5. ASSUME NEW n, AcceptUpdate(n) PROVE Crossed(book')
  BY <1>2, <1>5 DEF AcceptUpdate
<1>6. ASSUME NEW n, RejectUpdate(n) PROVE Resyncing'
  <2>1. PICK r \in Requests : StartResync(r)
    BY <1>6 DEF RejectUpdate
  <2>2. resyncs'[r].phase = "asked"
    BY <1>0, <2>1 DEF StartResync, Asked
  <2> QED BY <2>2 DEF Resyncing
<1>7. ASSUME NEW r \in Requests, VenueAnswers(r) PROVE Resyncing'
  <2>1. resyncs'[r].phase = "answered"
    BY <1>0, <1>7 DEF VenueAnswers, Answered
  <2> QED BY <2>1 DEF Resyncing
<1>8. ASSUME NEW r \in Requests, ResyncDone(r) PROVE Crossed(book')
  BY <1>3, <1>8 DEF ResyncDone
<1>9. ASSUME NEW r \in Requests, ResyncFails(r) PROVE FALSE
  BY <1>9 DEF ResyncFails
<1> QED BY <1>1, <1>4, <1>5, <1>6, <1>7, <1>8, <1>9
        DEF Next, ApplyUpdate, VenueMoves, vars

\* With a resync callback no book, chained or not, stays SUSPICIOUS after a
\* gap with nobody repairing it: one that does is crossed.
THEOREM SuspicionCorrect == Spec => []SuspicionExplained
<1>1. Init => SuspicionExplained
  BY DEF Init, SuspicionExplained
<1> QED BY TypeInvInit, TypeInvStep, SuspicionStep, <1>1, PTL DEF Spec

-----------------------------------------------------------------------------
(* Resyncs end *)

\* A resync under way waits, is answered, or ends; and where it ends the book
\* is given up or is, whole, the one the venue answered with, judged by whether
\* the venue's own book is crossed.
ResyncGoesOn(r) ==
  \/ resyncs'[r] = resyncs[r]
  \/ resyncs[r].phase = "asked" /\ resyncs'[r].phase = "answered"
  \/ resyncs'[r] = Idle /\ qualityStatus' = "INVALID"
  \/ /\ resyncs[r].phase = "answered" /\ resyncs'[r] = Idle
     /\ resyncs[r].at \in 1 .. Len(venue)
     /\ book' = venue[resyncs[r].at] /\ seeded'
     /\ qualityStatus' =
          IF Crossed(venue[resyncs[r].at]) THEN "SUSPICIOUS" ELSE "VALID"
ResyncsGoOn == \A r \in Requests : resyncs[r].phase # "idle" => ResyncGoesOn(r)

LEMMA ResyncsStep == TypeInv /\ Next => ResyncsGoOn
<1> SUFFICES ASSUME TypeInv, Next, NEW r \in Requests, resyncs[r].phase # "idle"
             PROVE  ResyncGoesOn(r)
  BY DEF ResyncsGoOn
<1>0. TypeOK /\ AnswersArePublished /\ resyncs \in [Requests -> ResyncStates]
  BY DEF TypeInv, TypeOK
<1>1. ASSUME UNCHANGED resyncs PROVE ResyncGoesOn(r)
  BY <1>1 DEF ResyncGoesOn
<1>2. ASSUME NEW q \in Requests, StartResync(q) PROVE ResyncGoesOn(r)
  <2>1. q # r /\ resyncs'[r] = resyncs[r]
    BY <1>0, <1>2 DEF StartResync, Idle
  <2> QED BY <2>1 DEF ResyncGoesOn
<1>3. ASSUME NEW q \in Requests, VenueAnswers(q) PROVE ResyncGoesOn(r)
  <2>1. resyncs[q].phase = "asked" /\ resyncs'[q].phase = "answered"
        /\ \A p \in Requests : p # q => resyncs'[p] = resyncs[p]
    BY <1>0, <1>3 DEF VenueAnswers, Answered
  <2> QED BY <2>1 DEF ResyncGoesOn
<1>4. ASSUME NEW q \in Requests, ResyncDone(q) PROVE ResyncGoesOn(r)
  <2>1. resyncs'[q] = Idle /\ \A p \in Requests : p # q => resyncs'[p] = resyncs[p]
    BY <1>0, <1>4 DEF ResyncDone
  <2>2. resyncs[q].at \in 1 .. Len(venue)
    BY <1>0, <1>4 DEF ResyncDone, AnswersArePublished
  <2>3. /\ resyncs[q].phase = "answered"
        /\ book' = venue[resyncs[q].at] /\ seeded'
        /\ qualityStatus' =
             IF Crossed(venue[resyncs[q].at]) THEN "SUSPICIOUS" ELSE "VALID"
    BY <1>4 DEF ResyncDone, ApplySnapshot, Integrity
  <2> QED BY <2>1, <2>2, <2>3 DEF ResyncGoesOn
<1>5. ASSUME NEW q \in Requests, ResyncFails(q) PROVE ResyncGoesOn(r)
  <2>1. /\ resyncs'[q] = Idle /\ \A p \in Requests : p # q => resyncs'[p] = resyncs[p]
        /\ qualityStatus' = "INVALID"
    BY <1>0, <1>5 DEF ResyncFails
  <2> QED BY <2>1 DEF ResyncGoesOn
<1>6. ASSUME NEW n \in 2 .. Len(venue), RejectUpdate(n) PROVE ResyncGoesOn(r)
  BY <1>1, <1>2, <1>6 DEF RejectUpdate
<1>7. CASE VenueMoves
  BY <1>1, <1>7 DEF VenueMoves
<1>8. ASSUME NEW n, Seed(n) \/ AcceptUpdate(n) PROVE ResyncGoesOn(r)
  BY <1>1, <1>8 DEF Seed, AcceptUpdate
<1> QED BY <1>3, <1>4, <1>5, <1>6, <1>7, <1>8 DEF Next, ApplyUpdate

\* On any feed, chained or not, and whatever deltas the book took meanwhile, a
\* resync that is answered leaves exactly the venue's book of that answer, VALID
\* unless the venue's own book is crossed, and one that fails gives the book up.
\* No step sets a resync under way back.
THEOREM ResyncsRestore == Spec => [][ResyncsGoOn]_vars
<1>1. TypeInv /\ [Next]_vars => [ResyncsGoOn]_vars
  BY ResyncsStep
<1> QED BY TypeInvInit, TypeInvStep, <1>1, PTL DEF Spec

-----------------------------------------------------------------------------
(* Refinement *)

\* Every step of a chained book is a step of the replica or leaves it alone.
LEMMA ReplicaStep ==
  ASSUME Chained
  PROVE  ImageInv /\ ImageInv' /\ [Next]_vars
           => [Replica!ReplicaNext]_(Replica!replicaVars)
<1> SUFFICES ASSUME ImageInv, ImageInv', [Next]_vars
             PROVE  [Replica!ReplicaNext]_(Replica!replicaVars)
  OBVIOUS
<1> USE DEF Replica!replicaVars
<1>0. TypeOK /\ BookIsVenueImage /\ BookIsVenueImage'
  BY DEF ImageInv
<1>1. ASSUME UNCHANGED <<venue, book, asOf, seeded>>
      PROVE  UNCHANGED Replica!replicaVars
  BY <1>1
<1>2. CASE VenueMoves
  <2>1. Replica!Publish
    BY <1>2 DEF VenueMoves, Replica!Publish
  <2> QED BY <2>1 DEF Replica!ReplicaNext
<1>3. ASSUME NEW n \in 1 .. Len(venue), NEW s, ApplySnapshot(n, s), UNCHANGED venue
      PROVE  Replica!ReplicaNext
  BY <1>3 DEF ApplySnapshot, Replica!ReplicaNext, Replica!Replace
<1>4. ASSUME NEW n \in 1 .. Len(venue), Seed(n) PROVE Replica!ReplicaNext
  BY <1>3, <1>4 DEF Seed
<1>5. ASSUME NEW r \in Requests, ResyncDone(r) PROVE Replica!ReplicaNext
  <2>1. resyncs[r].at \in 1 .. Len(venue)
    BY <1>5 DEF ResyncDone, ImageInv, AnswersArePublished
  <2> QED BY <1>3, <1>5, <2>1 DEF ResyncDone
<1>6. ASSUME NEW n \in 2 .. Len(venue), AcceptUpdate(n)
      PROVE  [Replica!ReplicaNext]_(Replica!replicaVars)
  <2>1. /\ UNCHANGED <<venue, seeded>>
        /\ asOf' = n
    BY <1>6 DEF AcceptUpdate
  <2>2. CASE seeded
    <3>1. lastSequence # 0
      BY <2>2 DEF ImageInv, PartialImage
    <3>2. asOf = n - 1 /\ asOf \in 1 .. Len(venue) - 1 /\ n = asOf + 1
      BY <3>1, <2>2, <1>6, <1>0
      DEF AcceptUpdate, ValidateSequence, BookIsVenueImage, TypeOK
    <3>3. book' = venue[asOf + 1]
      BY <2>1, <2>2, <3>2, <1>0 DEF BookIsVenueImage
    <3>4. Replica!Follow
      BY <2>1, <2>2, <3>2, <3>3 DEF Replica!Follow
    <3> QED BY <3>4 DEF Replica!ReplicaNext
  <2>3. CASE ~ seeded
    BY <2>1, <2>3
  <2> QED BY <2>2, <2>3
<1>7. ASSUME NEW n \in 2 .. Len(venue), RejectUpdate(n)
      PROVE  UNCHANGED Replica!replicaVars
  BY <1>1, <1>7 DEF RejectUpdate
<1>8. ASSUME NEW r \in Requests, VenueAnswers(r) \/ ResyncFails(r)
      PROVE  UNCHANGED Replica!replicaVars
  BY <1>1, <1>8 DEF VenueAnswers, ResyncFails
<1>9. CASE UNCHANGED vars
  BY <1>1, <1>9 DEF vars
<1> QED BY <1>2, <1>4, <1>5, <1>6, <1>7, <1>8, <1>9 DEF Next, ApplyUpdate

\* A chained book implements the replica: it only ever follows the venue one
\* update at a time or is replaced by a whole book of the venue.
THEOREM OrderBookImplementsReplica == ASSUME Chained PROVE Spec => ImplementsReplica
<1>1. Init => Replica!ReplicaInit
  BY DEF Init, Replica!ReplicaInit
<1> QED BY ImageInvariant, ReplicaStep, <1>1, PTL
        DEF Spec, ImplementsReplica, Replica!ReplicaSpec

=============================================================================
