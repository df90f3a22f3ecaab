--------------------------- MODULE DatasetStoreProofs ---------------------------
(* Theorems about DatasetStore: types, and that what calls report stands.      *)
EXTENDS DatasetStore, TLAPS

-----------------------------------------------------------------------------
(* Types *)

LEMMA BlankRecords ==
  /\ NoWrite \in WriteType
  /\ NoRead \in ReadType
  /\ NoBatch \in [todo : Seq(Markets), upload : {0} \cup Writes]
<1>1. (CHOOSE k \in Keys : TRUE) \in Keys  BY StoreAssumption
<1>2. NoWrite \in WriteType  BY <1>1 DEF NoWrite, WriteType, Places
<1>3. NoRead \in ReadType  BY <1>1 DEF NoRead, ReadType, Places
<1>4. NoBatch \in [todo : Seq(Markets), upload : {0} \cup Writes]  BY DEF NoBatch
<1>5. QED  BY <1>2, <1>3, <1>4

LEMMA InitTypeOK ==
  ASSUME Init
  PROVE  TypeOK
BY BlankRecords, StoreAssumption DEF Init, TypeOK, NoBatch

LEMMA NewWriteType ==
  ASSUME TypeOK, NEW op \in {"put", "delete"}, NEW k \in Keys
  PROVE  NewWrite(op, k) \in WriteType
BY DEF TypeOK, NewWrite, WriteType, Done, Places

LEMMA OneOfEach ==
  ASSUME TypeOK
  PROVE  /\ \A w \in Writes : writes[w] \in WriteType /\ writes[w].key \in Keys
         /\ \A r \in Reads : reads[r] \in ReadType /\ reads[r].key \in Keys
<1>1. writes \in [Writes -> WriteType] /\ reads \in [Reads -> ReadType]  BY DEF TypeOK
<1>2. \A c \in WriteType : c.key \in Keys  BY DEF WriteType
<1>3. \A c \in ReadType : c.key \in Keys  BY DEF ReadType
<1>4. QED  BY <1>1, <1>2, <1>3

\* TypeOK in two parts: the types of the variables, and the rest.
Types ==
  /\ configured \in BOOLEAN
  /\ cloud \in [Keys -> {0} \cup Writes]
  /\ local \in [Keys -> {0} \cup Writes]
  /\ writes \in [Writes -> WriteType]
  /\ reads \in [Reads -> ReadType]
  /\ batches \in [Batches -> [todo : Seq(Markets), upload : {0} \cup Writes]]

Awaited ==
  /\ \A b \in Batches : batches[b].upload # 0 =>
       writes[batches[b].upload].at = "waiting" /\ writes[batches[b].upload].op = "put"
  /\ \A b, c \in Batches :
       batches[b].upload # 0 /\ batches[b].upload = batches[c].upload => b = c

LEMMA TwoParts == TypeOK <=> Types /\ Awaited
BY DEF TypeOK, Types, Awaited

LEMMA NotAwaited ==
  ASSUME TypeOK, NEW w \in Writes, writes[w].at # "waiting" \/ writes[w].op # "put"
  PROVE  \A c \in Batches : batches[c].upload # w
BY DEF TypeOK, Writes

\* Uploads that stay awaited stay as they are.
LEMMA StillAwaited ==
  ASSUME TypeOK, Types',
         \A c \in Batches : batches'[c].upload # 0 =>
            /\ batches'[c].upload = batches[c].upload
            /\ writes'[batches[c].upload].at = writes[batches[c].upload].at
            /\ writes'[batches[c].upload].op = writes[batches[c].upload].op
  PROVE  TypeOK'
<1>1. Awaited  BY TwoParts
<1>2. Awaited'  BY <1>1 DEF Awaited
<1>3. QED  BY <1>2 DEF Types, Awaited, TypeOK

LEMMA StoreTypes ==
  ASSUME TypeOK, NEW call \in WriteType
  PROVE  /\ Settled(call, "local") \in WriteType
         /\ Settled(call, "cloud") \in WriteType
         /\ [call EXCEPT !.at = "failed"] \in WriteType
BY DEF Settled, WriteType, Places

LEMMA FromDiskType ==
  ASSUME TypeOK, NEW call \in ReadType
  PROVE  FromDisk(call) \in ReadType
<1>1. local[call.key] \in {0} \cup Writes  BY DEF TypeOK, ReadType
<1>2. QED  BY <1>1 DEF FromDisk, ReadType, Places

LEMMA StepTypeOK ==
  ASSUME TypeOK, [Next]_vars
  PROVE  TypeOK'
<1>0. Types /\ Awaited  BY TwoParts
<1>. USE OneOfEach
<1>1. ASSUME NEW b \in Batches, NEW list \in MarketLists, RunDailyArchiveBatch(b, list)
      PROVE  TypeOK'
  <2>1. list \in Seq(Markets)  BY StoreAssumption
  <2>2. batches' = [batches EXCEPT ![b] = [todo |-> list, upload |-> 0]]
    <3>1. batches[b] = [todo |-> <<>>, upload |-> 0]
      BY <1>1 DEF RunDailyArchiveBatch, NoBatch
    <3>2. [batches[b] EXCEPT !.todo = list] = [todo |-> list, upload |-> 0]  BY <3>1
    <3>3. batches' = [batches EXCEPT ![b] = [batches[b] EXCEPT !.todo = list]]
      BY <1>0, <1>1 DEF RunDailyArchiveBatch, Types
    <3>4. QED  BY <3>2, <3>3
  <2>3. Types'  BY <1>0, <1>1, <2>1, <2>2 DEF RunDailyArchiveBatch, Types
  <2>4. QED  BY <1>0, <1>1, <2>2, <2>3, StillAwaited DEF RunDailyArchiveBatch, Types
<1>2. ASSUME NEW b \in Batches, NEW w \in Writes, Archive24HourTicks(b, w)
      PROVE  TypeOK'
  <2>. DEFINE k == KeyOf[Head(batches[b].todo)]
              call == NewWrite("put", k)
              rest == Tail(batches[b].todo)
  <2>1. batches[b] \in [todo : Seq(Markets), upload : {0} \cup Writes]  BY <1>0 DEF Types
  <2>2. Head(batches[b].todo) \in Markets /\ rest \in Seq(Markets)
    BY <1>2, <2>1 DEF Archive24HourTicks
  <2>3. k \in Keys  BY <2>2, StoreAssumption
  <2>4. call \in WriteType  BY <2>3, NewWriteType
  <2>5. call.at = "waiting" /\ call.op = "put" /\ call.key = k  BY DEF NewWrite
  <2>6. writes[w].at = "unused"  BY <1>2 DEF Archive24HourTicks, IsNext
  <2>7. \A c \in Batches : batches[c].upload # w  BY <2>6, NotAwaited
  <2>8. w # 0  BY DEF Writes
  <2>9. /\ Settled(call, "local") \in WriteType
        /\ [call EXCEPT !.at = "failed"] \in WriteType
    BY <2>4, StoreTypes
  <2>10. \/ /\ writes' = [writes EXCEPT ![w] = call] /\ local' = local
             /\ batches' = [batches EXCEPT ![b] = [todo |-> rest, upload |-> w]]
         \/ /\ Stored(w, call)
             /\ batches' = [batches EXCEPT ![b] = [todo |-> rest, upload |-> 0]]
         \/ NotStored(w, call) /\ Rejects(b)
    BY <1>2 DEF Archive24HourTicks
  <2>11. UNCHANGED <<configured, cloud, reads>>  BY <1>2 DEF Archive24HourTicks
  <2>. HIDE DEF k, call, rest
  <2>12. CASE /\ writes' = [writes EXCEPT ![w] = call] /\ local' = local
              /\ batches' = [batches EXCEPT ![b] = [todo |-> rest, upload |-> w]]
    <3>1. Types'  BY <1>0, <2>2, <2>4, <2>11, <2>12 DEF Types
    <3>2. batches'[b].upload = w /\ \A c \in Batches : c # b => batches'[c] = batches[c]
      BY <1>0, <2>12 DEF Types
    <3>3. writes'[w] = call /\ \A v \in Writes : v # w => writes'[v] = writes[v]
      BY <1>0, <2>12 DEF Types
    <3>4. \A c \in Batches : batches[c].upload # 0 => batches[c].upload \in Writes
      BY <1>0 DEF Types
    <3>5. Awaited'
      BY <1>0, <2>5, <2>7, <2>8, <3>2, <3>3, <3>4 DEF Awaited
    <3>6. QED  BY <3>1, <3>5 DEF Types, Awaited, TypeOK
  <2>13. CASE /\ Stored(w, call)
              /\ batches' = [batches EXCEPT ![b] = [todo |-> rest, upload |-> 0]]
    <3>1. Types'  BY <1>0, <2>2, <2>3, <2>5, <2>9, <2>11, <2>13 DEF Types, Stored
    <3>2. \A c \in Batches : batches'[c].upload # 0 =>
            c # b /\ batches'[c].upload = batches[c].upload
      BY <1>0, <2>13 DEF Types
    <3>3. \A v \in Writes : v # w => writes'[v] = writes[v]
      BY <1>0, <2>13 DEF Types, Stored
    <3>4. QED  BY <1>0, <2>7, <3>1, <3>2, <3>3, StillAwaited DEF Types
  <2>14. CASE NotStored(w, call) /\ Rejects(b)
    <3>1. Types'  BY <1>0, <2>3, <2>5, <2>9, <2>11, <2>14, BlankRecords DEF Types, NotStored, Rejects
    <3>2. \A c \in Batches : batches'[c].upload # 0 =>
            c # b /\ batches'[c].upload = batches[c].upload
      BY <1>0, <2>14 DEF Types, Rejects, NoBatch
    <3>3. \A v \in Writes : v # w => writes'[v] = writes[v]
      BY <1>0, <2>14 DEF Types, NotStored
    <3>4. QED  BY <1>0, <2>7, <3>1, <3>2, <3>3, StillAwaited DEF Types
  <2>15. QED  BY <2>10, <2>12, <2>13, <2>14
<1>3. ASSUME NEW b \in Batches, NEW w \in Writes,
             UploadAcknowledged(b, w) \/ UploadFallsBack(b, w)
      PROVE  TypeOK'
  <2>1. batches[b].upload = w /\ UNCHANGED <<configured, cloud, reads>>
    BY <1>3 DEF UploadAcknowledged, UploadFallsBack
  <2>2. /\ writes[w] \in WriteType /\ writes[w].key \in Keys
        /\ Settled(writes[w], "local") \in WriteType
        /\ Settled(writes[w], "cloud") \in WriteType
        /\ [writes[w] EXCEPT !.at = "failed"] \in WriteType
    BY StoreTypes
  <2>3. /\ local' \in {local, [local EXCEPT ![writes[w].key] = w]}
        /\ \E c \in WriteType : writes' = [writes EXCEPT ![w] = c]
    BY <1>3, <2>2
       DEF UploadAcknowledged, UploadFallsBack, StoreLocally, Stored, NotStored
  <2>4. Continues(b) \/ Rejects(b)
    BY <1>3 DEF UploadAcknowledged, UploadFallsBack, StoreLocally
  <2>5. \E todo \in Seq(Markets) :
          batches' = [batches EXCEPT ![b] = [todo |-> todo, upload |-> 0]]
    <3>1. batches[b] \in [todo : Seq(Markets), upload : {0} \cup Writes]  BY <1>0 DEF Types
    <3>2. CASE Continues(b)
      <4>1. [batches[b] EXCEPT !.upload = 0] = [todo |-> batches[b].todo, upload |-> 0]
        BY <3>1
      <4>2. batches' = [batches EXCEPT ![b] = [batches[b] EXCEPT !.upload = 0]]
        BY <1>0, <3>2 DEF Continues, Types
      <4>3. QED  BY <3>1, <4>1, <4>2
    <3>3. CASE Rejects(b)
      <4>1. <<>> \in Seq(Markets)  OBVIOUS
      <4>2. QED  BY <3>3, <4>1 DEF Rejects, NoBatch
    <3>4. QED  BY <2>4, <3>2, <3>3
  <2>6. Types'  BY <1>0, <2>1, <2>2, <2>3, <2>5 DEF Types
  <2>7. \A c \in Batches : batches'[c].upload # 0 =>
          c # b /\ batches'[c].upload = batches[c].upload
    BY <1>0, <2>5 DEF Types
  <2>8. \A v \in Writes : v # w => writes'[v] = writes[v]
    BY <1>0, <2>3 DEF Types
  <2>9. \A c \in Batches : c # b => batches[c].upload # w
    BY <1>0, <2>1 DEF Awaited, Writes
  <2>10. QED  BY <1>0, <2>6, <2>7, <2>8, <2>9, StillAwaited DEF Types
<1>4. ASSUME NEW w \in Writes, writes[w].at # "waiting" \/ writes[w].op # "put",
             NEW c \in WriteType, NEW k \in Keys,
             writes' = [writes EXCEPT ![w] = c],
             local' \in {local, [local EXCEPT ![k] = w]},
             UNCHANGED <<configured, cloud, reads, batches>>
      PROVE  TypeOK'
  <2>1. \A d \in Batches : batches[d].upload # w  BY <1>4, NotAwaited
  <2>2. Types'  BY <1>0, <1>4 DEF Types
  <2>3. QED  BY <1>0, <1>4, <2>1, <2>2, StillAwaited DEF Types
<1>5. ASSUME NEW k \in Keys, NEW w \in Writes, DeleteFile(k, w)
      PROVE  TypeOK'
  <2>. DEFINE call == NewWrite("delete", k)
  <2>1. call \in WriteType  BY NewWriteType
  <2>2. call.key = k  BY DEF NewWrite
  <2>3. Settled(call, "local") \in WriteType /\ [call EXCEPT !.at = "failed"] \in WriteType
    BY <2>1, StoreTypes
  <2>4. writes[w].at = "unused" /\ UNCHANGED <<configured, cloud, reads, batches>>
    BY <1>5 DEF DeleteFile, IsNext
  <2>5. \/ writes' = [writes EXCEPT ![w] = call] /\ local' = local
        \/ DeleteLocally(w, call)
    BY <1>5 DEF DeleteFile
  <2>. HIDE DEF call
  <2>6. QED  BY <1>4, <2>1, <2>2, <2>3, <2>4, <2>5 DEF DeleteLocally
<1>6. ASSUME NEW w \in Writes, DeleteAcknowledged(w)
      PROVE  TypeOK'
  <2>1. Settled(writes[w], "cloud") \in WriteType /\ writes[w].key \in Keys  BY StoreTypes
  <2>2. QED  BY <1>4, <1>6, <2>1 DEF DeleteAcknowledged
<1>7. ASSUME NEW w \in Writes, DeleteFallsBack(w)
      PROVE  TypeOK'
  <2>1. /\ Settled(writes[w], "local") \in WriteType
        /\ [writes[w] EXCEPT !.at = "failed"] \in WriteType
        /\ writes[w].key \in Keys
    BY StoreTypes
  <2>2. QED  BY <1>4, <1>7, <2>1 DEF DeleteFallsBack, DeleteLocally
<1>8. ASSUME NEW w \in Writes, CloudApplies(w)
      PROVE  TypeOK'
  <2>1. writes[w] \in WriteType /\ writes[w].key \in Keys  OBVIOUS
  <2>. DEFINE call == [writes[w] EXCEPT !.request = "applied"]
  <2>2. call \in WriteType /\ call.at = writes[w].at /\ call.op = writes[w].op
    BY <2>1 DEF WriteType
  <2>3. writes' = [writes EXCEPT ![w] = call]  BY <1>8 DEF CloudApplies
  <2>. HIDE DEF call
  <2>4. writes' \in [Writes -> WriteType]  BY <1>0, <2>2, <2>3 DEF Types
  <2>5. Types'  BY <1>0, <1>8, <2>1, <2>4 DEF CloudApplies, Types
  <2>6. \A v \in Writes : writes'[v].at = writes[v].at /\ writes'[v].op = writes[v].op
    BY <1>0, <2>2, <2>3 DEF Types
  <2>7. batches' = batches  BY <1>8 DEF CloudApplies
  <2>8. QED  BY <1>0, <2>5, <2>6, <2>7, StillAwaited DEF Types
<1>9. ASSUME NEW r \in Reads, NEW c \in ReadType, reads' = [reads EXCEPT ![r] = c],
             UNCHANGED <<configured, cloud, local, writes, batches>>
      PROVE  TypeOK'
  <2>1. Types'  BY <1>0, <1>9 DEF Types
  <2>2. QED  BY <1>9, <2>1, StillAwaited
<1>10. ASSUME NEW k \in Keys, NEW r \in Reads, DownloadFile(k, r)
       PROVE  TypeOK'
  <2>1. Done \in SUBSET Writes  BY DEF Done
  <2>3. NewRead(k) \in ReadType  BY <2>1 DEF NewRead, ReadType
  <2>4. FromDisk(NewRead(k)) \in ReadType  BY <2>3, FromDiskType
  <2>5. QED  BY <1>9, <1>10, <2>3, <2>4 DEF DownloadFile
<1>11. ASSUME NEW r \in Reads, Downloaded(r)
       PROVE  TypeOK'
  <2>. DEFINE call == [reads[r] EXCEPT !.answered = TRUE]
  <2>1. reads[r] \in ReadType  OBVIOUS
  <2>2. call \in ReadType  BY <2>1 DEF ReadType
  <2>3. FromDisk(call) \in ReadType  BY <2>2, FromDiskType
  <2>4. [call EXCEPT !.at = "done", !.from = "cloud", !.value = call.saw] \in ReadType
    BY <2>2 DEF ReadType, Places
  <2>5. reads' = [reads EXCEPT ![r] =
           IF Exists(call.saw)
           THEN [call EXCEPT !.at = "done", !.from = "cloud", !.value = call.saw]
           ELSE FromDisk(call)]
    BY <1>11 DEF Downloaded
  <2>6. UNCHANGED <<configured, cloud, local, writes, batches>>  BY <1>11 DEF Downloaded
  <2>. HIDE DEF call
  <2>7. QED  BY <1>9, <2>3, <2>4, <2>5, <2>6
<1>12. ASSUME NEW r \in Reads, DownloadFallsBack(r)
       PROVE  TypeOK'
  <2>1. FromDisk(reads[r]) \in ReadType  BY FromDiskType
  <2>2. QED  BY <1>9, <1>12, <2>1 DEF DownloadFallsBack
<1>13. ASSUME NEW r \in Reads, CloudServes(r)
       PROVE  TypeOK'
  <2>1. cloud[reads[r].key] \in {0} \cup Writes  BY <1>0 DEF Types
  <2>. DEFINE v == cloud[reads[r].key]
              call == [reads[r] EXCEPT !.at = "served", !.saw = v]
  <2>2. reads[r] \in ReadType  OBVIOUS
  <2>3. call \in ReadType
    <3>. HIDE DEF v
    <3>1. v \in {0} \cup Writes  BY <2>1 DEF v
    <3>2. QED  BY <2>2, <3>1 DEF ReadType
  <2>4. reads' = [reads EXCEPT ![r] = call]  BY <1>0, <1>13 DEF CloudServes, Types
  <2>5. QED  BY <1>9, <1>13, <2>3, <2>4 DEF CloudServes
<1>14. CASE Restart
  <2>1. ASSUME NEW w \in Writes
        PROVE  writes'[w] \in WriteType
    <3>1. writes[w] \in WriteType  OBVIOUS
    <3>2. [writes[w] EXCEPT !.at = "failed"] \in WriteType  BY <3>1 DEF WriteType
    <3>3. [writes[w] EXCEPT !.at = writes[w].at] = writes[w]  BY <3>1 DEF WriteType
    <3>4. writes'[w] = IF writes[w].at = "waiting"
                       THEN [writes[w] EXCEPT !.at = "failed"] ELSE writes[w]
      BY <1>14, <3>3 DEF Restart
    <3>5. QED  BY <3>1, <3>2, <3>4
  <2>2. writes' \in [Writes -> WriteType]  BY <1>14, <2>1 DEF Restart
  <2>3. batches' = [b \in Batches |-> [todo |-> <<>>, upload |-> 0]]
    BY <1>14 DEF Restart, NoBatch
  <2>4. Types'  BY <1>0, <1>14, <2>2, BlankRecords DEF Restart, Types
  <2>5. QED  BY <2>3, <2>4, StillAwaited
<1>15. CASE UNCHANGED vars
  BY <1>15 DEF vars, TypeOK
<1>16. QED
  BY <1>1, <1>2, <1>3, <1>5, <1>6, <1>7, <1>8, <1>10, <1>11, <1>12, <1>13, <1>14,
     <1>15 DEF Next

\* Whatever calls, outages and restarts come in which order, every value keeps its
\* type, and the upload a batch awaits is under way and its own.
THEOREM TypeCorrect == Spec => []TypeOK
<1>1. Init => TypeOK  BY InitTypeOK
<1>2. TypeOK /\ [Next]_vars => TypeOK'  BY StepTypeOK
<1>3. QED  BY <1>1, <1>2, PTL DEF Spec
-----------------------------------------------------------------------------
(* What calls report stands *)

\* What the records of calls say of each other.
WriteHistory ==
  \A w \in Writes :
    /\ writes[w].before \subseteq Done
    /\ writes[w].at = "done" <=> writes[w].place \in Places
    /\ writes[w].at = "unused" => writes[w].request = "none"
    /\ writes[w].place = "cloud" => writes[w].request = "applied"

\* A place holds effects of calls on the key.
PlaceHistory ==
  \A k \in Keys :
    /\ cloud[k] # 0 => writes[cloud[k]].key = k /\ writes[cloud[k]].at # "unused"
    /\ local[k] # 0 => writes[local[k]].key = k /\ writes[local[k]].at # "unused"

\* What took effect in a place stands there.
Landed ==
  \A w \in Writes :
    /\ writes[w].request = "applied" =>
         cloud[writes[w].key] # 0 /\ MayFollow(cloud[writes[w].key], w, "cloud")
    /\ writes[w].place = "local" =>
         local[writes[w].key] # 0 /\ MayFollow(local[writes[w].key], w, "local")

StoreInv == TypeOK /\ WriteHistory /\ PlaceHistory /\ Landed

\* What every step does to calls and places.
Evolves ==
  /\ \A w \in Writes : writes[w].at # "unused" =>
       /\ writes'[w].at # "unused"
       /\ writes'[w].op = writes[w].op /\ writes'[w].key = writes[w].key
       /\ writes'[w].before = writes[w].before
  /\ \A w \in Writes : writes[w].at = "unused" =>
       writes'[w] = writes[w] \/ writes'[w].before = Done
  /\ \A w \in Writes : writes[w].at = "done" =>
       writes'[w].at = "done" /\ writes'[w].place = writes[w].place
  /\ \A w \in Writes :
       /\ writes'[w].at = "done" <=> writes'[w].place \in Places
       /\ writes'[w].at = "unused" => writes'[w].request = "none"
       /\ writes'[w].place = "cloud" => writes'[w].request = "applied"
       /\ writes[w].request = "applied" => writes'[w].request = "applied"
       /\ writes'[w].request = "applied" =>
            writes[w].request = "applied" \/ cloud'[writes'[w].key] = w
       /\ writes'[w].place = "local" =>
            writes[w].place = "local" \/ local'[writes'[w].key] = w
  /\ \A k \in Keys : cloud'[k] # cloud[k] =>
       /\ cloud'[k] \in Writes
       /\ writes'[cloud'[k]].key = k /\ writes'[cloud'[k]].at # "unused"
       /\ writes[cloud'[k]].request # "applied"
  /\ \A k \in Keys : local'[k] # local[k] =>
       /\ local'[k] \in Writes
       /\ writes'[local'[k]].key = k /\ writes'[local'[k]].at # "unused"
       /\ writes[local'[k]].at # "done"

\* One call moves on, with its effect on a place.
MovesOn(w, c) ==
  /\ c.at # "unused"
  /\ IF writes[w].at = "unused" THEN c.before = Done
     ELSE c.op = writes[w].op /\ c.key = writes[w].key /\ c.before = writes[w].before
  /\ writes[w].at = "done" => c.at = "done" /\ c.place = writes[w].place
  /\ c.at = "done" <=> c.place \in Places
  /\ c.place = "cloud" => c.request = "applied"
  /\ writes[w].request = "applied" => c.request = "applied"
  /\ \/ cloud' = cloud /\ (c.request = "applied" => writes[w].request = "applied")
     \/ cloud' = [cloud EXCEPT ![c.key] = w] /\ writes[w].request # "applied"
  /\ \/ local' = local /\ (c.place = "local" => writes[w].place = "local")
     \/ local' = [local EXCEPT ![c.key] = w] /\ writes[w].at # "done"

LEMMA OneMoves ==
  ASSUME TypeOK, WriteHistory, NEW w \in Writes, NEW c \in WriteType, MovesOn(w, c),
         writes' = [writes EXCEPT ![w] = c]
  PROVE  Evolves
<1>1. /\ writes \in [Writes -> WriteType] /\ cloud \in [Keys -> {0} \cup Writes]
      /\ local \in [Keys -> {0} \cup Writes]
  BY DEF TypeOK
<1>2. writes'[w] = c /\ \A v \in Writes : v # w => writes'[v] = writes[v]
  BY <1>1
<1>3. c.key \in Keys  BY DEF WriteType
<1>4. \A k \in Keys : cloud'[k] # cloud[k] =>
        k = c.key /\ cloud'[k] = w /\ writes[w].request # "applied"
  BY <1>1, <1>3 DEF MovesOn
<1>5. \A k \in Keys : local'[k] # local[k] =>
        k = c.key /\ local'[k] = w /\ writes[w].at # "done"
  BY <1>1, <1>3 DEF MovesOn
<1>6. c.request = "applied" => writes[w].request = "applied" \/ cloud'[c.key] = w
  BY <1>1, <1>3 DEF MovesOn
<1>7. c.place = "local" => writes[w].place = "local" \/ local'[c.key] = w
  BY <1>1, <1>3 DEF MovesOn
<1>8. \A v \in Writes :
        /\ writes[v].at = "done" <=> writes[v].place \in Places
        /\ writes[v].at = "unused" => writes[v].request = "none"
        /\ writes[v].place = "cloud" => writes[v].request = "applied"
  BY DEF WriteHistory
<1>9. QED  BY <1>2, <1>4, <1>5, <1>6, <1>7, <1>8 DEF MovesOn, Evolves

LEMMA NoneMoves ==
  ASSUME TypeOK, WriteHistory, UNCHANGED <<cloud, local, writes>>
  PROVE  Evolves
BY DEF Evolves, WriteHistory

\* The outcomes of the local path for a call under way, or just begun.
LEMMA LocalMoves ==
  ASSUME TypeOK, WriteHistory, NEW w \in Writes, NEW c \in WriteType,
         c.at = "waiting", c.place = "none", writes[w].at # "done",
         c.request = "applied" <=> writes[w].request = "applied",
         IF writes[w].at = "unused" THEN c.before = Done
         ELSE c.op = writes[w].op /\ c.key = writes[w].key /\ c.before = writes[w].before,
         cloud' = cloud,
         \/ Stored(w, c) \/ NotStored(w, c) \/ DeleteLocally(w, c)
         \/ writes' = [writes EXCEPT ![w] = c] /\ local' = local
  PROVE  Evolves
<1>. DEFINE stored == Settled(c, "local")
            failed == [c EXCEPT !.at = "failed"]
<1>1. stored \in WriteType /\ failed \in WriteType  BY StoreTypes
<1>2. /\ stored.at = "done" /\ stored.place = "local" /\ stored.request = c.request
      /\ stored.op = c.op /\ stored.key = c.key /\ stored.before = c.before
  BY DEF Settled, WriteType
<1>3. /\ failed.at = "failed" /\ failed.place = "none" /\ failed.request = c.request
      /\ failed.op = c.op /\ failed.key = c.key /\ failed.before = c.before
  BY DEF WriteType
<1>4. \/ writes' = [writes EXCEPT ![w] = stored] /\ local' = [local EXCEPT ![c.key] = w]
      \/ writes' = [writes EXCEPT ![w] = failed]
         /\ local' \in {local, [local EXCEPT ![c.key] = w]}
      \/ writes' = [writes EXCEPT ![w] = c] /\ local' = local
  BY DEF Stored, NotStored, DeleteLocally
<1>. HIDE DEF stored, failed
<1>5. CASE writes' = [writes EXCEPT ![w] = stored] /\ local' = [local EXCEPT ![c.key] = w]
  <2>1. MovesOn(w, stored)  BY <1>2, <1>5 DEF MovesOn, Places
  <2>2. QED  BY <1>1, <1>5, <2>1, OneMoves
<1>6. CASE writes' = [writes EXCEPT ![w] = failed]
           /\ local' \in {local, [local EXCEPT ![c.key] = w]}
  <2>1. MovesOn(w, failed)  BY <1>3, <1>6 DEF MovesOn, Places
  <2>2. QED  BY <1>1, <1>6, <2>1, OneMoves
<1>7. CASE writes' = [writes EXCEPT ![w] = c] /\ local' = local
  <2>1. MovesOn(w, c)  BY <1>7 DEF MovesOn, Places
  <2>2. QED  BY <1>7, <2>1, OneMoves
<1>8. QED  BY <1>4, <1>5, <1>6, <1>7

LEMMA AcknowledgedMoves ==
  ASSUME TypeOK, WriteHistory, NEW w \in Writes, writes[w].at = "waiting",
         writes[w].request = "applied", UNCHANGED <<cloud, local>>,
         writes' = [writes EXCEPT ![w] = Settled(writes[w], "cloud")]
  PROVE  Evolves
<1>. DEFINE c == Settled(writes[w], "cloud")
<1>1. writes[w] \in WriteType  BY OneOfEach
<1>2. c \in WriteType  BY <1>1, StoreTypes
<1>3. /\ c.at = "done" /\ c.place = "cloud" /\ c.request = "applied"
      /\ c.op = writes[w].op /\ c.key = writes[w].key /\ c.before = writes[w].before
  BY <1>1 DEF Settled, WriteType
<1>. HIDE DEF c
<1>4. MovesOn(w, c)  BY <1>3 DEF MovesOn, Places
<1>5. QED  BY <1>2, <1>4, OneMoves DEF c

LEMMA NextEvolves ==
  ASSUME StoreInv, [Next]_vars
  PROVE  Evolves
<1>. USE DEF StoreInv
<1>1. \A w \in Writes : writes[w].at = "unused" =>
        writes[w].request # "applied" /\ writes[w].at # "done"
  BY DEF WriteHistory
<1>2. \A w \in Writes : writes[w].at = "waiting" => writes[w].place = "none"
  BY OneOfEach DEF WriteHistory, WriteType, Places
<1>3. ASSUME NEW op \in {"put", "delete"}, NEW k \in Keys
      PROVE  /\ NewWrite(op, k) \in WriteType
             /\ NewWrite(op, k).at = "waiting" /\ NewWrite(op, k).place = "none"
             /\ NewWrite(op, k).request # "applied" /\ NewWrite(op, k).before = Done
  <2>1. NewWrite(op, k) \in WriteType  BY NewWriteType
  <2>2. QED  BY <2>1 DEF NewWrite
<1>4. ASSUME NEW b \in Batches, NEW w \in Writes, Archive24HourTicks(b, w)
      PROVE  Evolves
  <2>. DEFINE k == KeyOf[Head(batches[b].todo)]
              c == NewWrite("put", k)
  <2>1. batches[b].todo \in Seq(Markets)  BY DEF TypeOK
  <2>2. k \in Keys  BY <1>4, <2>1, StoreAssumption DEF Archive24HourTicks
  <2>3. writes[w].at = "unused"  BY <1>4 DEF Archive24HourTicks, IsNext
  <2>4. \/ Stored(w, c) \/ NotStored(w, c)
        \/ writes' = [writes EXCEPT ![w] = c] /\ local' = local
    BY <1>4 DEF Archive24HourTicks
  <2>5. cloud' = cloud  BY <1>4 DEF Archive24HourTicks
  <2>6. c \in WriteType /\ c.at = "waiting" /\ c.place = "none"
        /\ c.request # "applied" /\ c.before = Done
    BY <1>3, <2>2
  <2>. HIDE DEF c, k
  <2>7. QED  BY <1>1, <2>3, <2>4, <2>5, <2>6, LocalMoves
<1>5. ASSUME NEW k \in Keys, NEW w \in Writes, DeleteFile(k, w)
      PROVE  Evolves
  <2>. DEFINE c == NewWrite("delete", k)
  <2>1. writes[w].at = "unused" /\ cloud' = cloud  BY <1>5 DEF DeleteFile, IsNext
  <2>2. \/ DeleteLocally(w, c)
        \/ writes' = [writes EXCEPT ![w] = c] /\ local' = local
    BY <1>5 DEF DeleteFile
  <2>3. c \in WriteType /\ c.at = "waiting" /\ c.place = "none"
        /\ c.request # "applied" /\ c.before = Done
    BY <1>3
  <2>. HIDE DEF c
  <2>4. QED  BY <1>1, <2>1, <2>2, <2>3, LocalMoves
<1>6. ASSUME NEW b \in Batches, NEW w \in Writes, UploadAcknowledged(b, w)
      PROVE  Evolves
  <2>1. writes[w].at = "waiting"  BY <1>6 DEF UploadAcknowledged, TypeOK, Writes
  <2>2. writes' = [writes EXCEPT ![w] = Settled(writes[w], "cloud")]
    BY <1>6 DEF UploadAcknowledged, TypeOK
  <2>3. QED  BY <1>6, <2>1, <2>2, AcknowledgedMoves DEF UploadAcknowledged
<1>7. ASSUME NEW b \in Batches, NEW w \in Writes, UploadFallsBack(b, w)
      PROVE  Evolves
  <2>1. writes[w].at = "waiting"  BY <1>7 DEF UploadFallsBack, TypeOK, Writes
  <2>2. Stored(w, writes[w]) \/ NotStored(w, writes[w])
    BY <1>7 DEF UploadFallsBack, StoreLocally
  <2>3. QED  BY <1>2, <1>7, <2>1, <2>2, OneOfEach, LocalMoves DEF UploadFallsBack
<1>8. ASSUME NEW w \in Writes, DeleteAcknowledged(w)
      PROVE  Evolves
  <2>1. writes' = [writes EXCEPT ![w] = Settled(writes[w], "cloud")]
    BY <1>8 DEF DeleteAcknowledged, TypeOK
  <2>2. QED  BY <1>8, <2>1, AcknowledgedMoves DEF DeleteAcknowledged
<1>9. ASSUME NEW w \in Writes, DeleteFallsBack(w)
      PROVE  Evolves
  BY <1>2, <1>9, OneOfEach, LocalMoves DEF DeleteFallsBack
<1>10. ASSUME NEW w \in Writes, CloudApplies(w)
       PROVE  Evolves
  <2>. DEFINE c == [writes[w] EXCEPT !.request = "applied"]
  <2>1. writes[w] \in WriteType  BY OneOfEach
  <2>2. /\ c \in WriteType /\ c.request = "applied" /\ c.at = writes[w].at
        /\ c.op = writes[w].op /\ c.key = writes[w].key /\ c.before = writes[w].before
        /\ c.place = writes[w].place
    BY <2>1 DEF WriteType
  <2>3. /\ writes' = [writes EXCEPT ![w] = c] /\ local' = local
        /\ cloud' = [cloud EXCEPT ![writes[w].key] = w] /\ writes[w].request = "sent"
    BY <1>10 DEF CloudApplies, TypeOK
  <2>4. writes[w].at # "unused" /\ (writes[w].at = "done" <=> writes[w].place \in Places)
    BY <2>3 DEF WriteHistory
  <2>. HIDE DEF c
  <2>5. MovesOn(w, c)  BY <2>2, <2>3, <2>4 DEF MovesOn
  <2>6. QED  BY <2>2, <2>3, <2>5, OneMoves
<1>11. CASE Restart
  <2>1. ASSUME NEW w \in Writes
        PROVE  /\ writes'[w].at = IF writes[w].at = "waiting" THEN "failed" ELSE writes[w].at
               /\ writes'[w].op = writes[w].op /\ writes'[w].key = writes[w].key
               /\ writes'[w].before = writes[w].before /\ writes'[w].place = writes[w].place
               /\ writes'[w].request = writes[w].request
               /\ writes[w].at = "unused" => writes'[w] = writes[w]
    <3>1. writes[w] \in WriteType  BY OneOfEach
    <3>2. writes'[w] = [writes[w] EXCEPT !.at =
                          IF writes[w].at = "waiting" THEN "failed" ELSE writes[w].at]
      BY <1>11 DEF Restart
    <3>3. QED  BY <3>1, <3>2 DEF WriteType
  <2>2. UNCHANGED <<cloud, local>>  BY <1>11 DEF Restart
  <2>3. QED  BY <2>1, <2>2 DEF WriteHistory, Evolves
<1>12. ASSUME UNCHANGED <<cloud, local, writes>>
       PROVE  Evolves
  BY <1>12, NoneMoves
<1>13. QED
  BY <1>4, <1>5, <1>6, <1>7, <1>8, <1>9, <1>10, <1>11, <1>12
     DEF Next, vars, RunDailyArchiveBatch, DownloadFile, Downloaded, DownloadFallsBack,
         CloudServes

LEMMA StoreInvStep ==
  ASSUME StoreInv, Evolves, TypeOK'
  PROVE  StoreInv'
<1>. USE DEF StoreInv
<1>1. /\ \A w \in Writes : writes[w].key \in Keys /\ writes'[w].key \in Keys
      /\ \A k \in Keys : cloud[k] \in {0} \cup Writes /\ local[k] \in {0} \cup Writes
      /\ \A k \in Keys : cloud'[k] \in {0} \cup Writes /\ local'[k] \in {0} \cup Writes
  <2>1. \A w \in Writes : writes[w].key \in Keys  BY OneOfEach
  <2>2. writes' \in [Writes -> WriteType]  BY DEF TypeOK
  <2>3. \A w \in Writes : writes'[w].key \in Keys  BY <2>2 DEF WriteType
  <2>4. QED  BY <2>1, <2>3 DEF TypeOK
<1>2. Done \subseteq Done'  BY DEF Evolves, Done
<1>3. \A w \in Writes : writes'[w].before \subseteq Done  BY DEF Evolves, WriteHistory
<1>4. WriteHistory'  BY <1>2, <1>3 DEF Evolves, WriteHistory
<1>5. PlaceHistory'
  <2>1. ASSUME NEW k \in Keys, cloud'[k] # 0
        PROVE  writes'[cloud'[k]].key = k /\ writes'[cloud'[k]].at # "unused"
    BY <1>1, <2>1 DEF Evolves, PlaceHistory
  <2>2. ASSUME NEW k \in Keys, local'[k] # 0
        PROVE  writes'[local'[k]].key = k /\ writes'[local'[k]].at # "unused"
    BY <1>1, <2>2 DEF Evolves, PlaceHistory
  <2>3. QED  BY <2>1, <2>2 DEF PlaceHistory
<1>6. ASSUME NEW w \in Writes, writes'[w].request = "applied"
      PROVE  /\ cloud'[writes'[w].key] # 0
             /\ ~(/\ cloud'[writes'[w].key] \in writes'[w].before
                  /\ writes'[cloud'[writes'[w].key]].place = "cloud")
  <2>. DEFINE k == writes'[w].key
              v == cloud'[k]
  <2>1. k \in Keys  BY <1>1
  <2>2. CASE writes[w].request # "applied"
    <3>1. v = w  BY <1>6, <2>2 DEF Evolves
    <3>2. w \in writes'[w].before => writes[w].at = "done" /\ writes[w].place # "cloud"
      BY <1>3, <2>2 DEF Done, WriteHistory
    <3>3. w \in writes'[w].before => writes'[w].place # "cloud"  BY <3>2 DEF Evolves
    <3>4. QED  BY <3>1, <3>3 DEF MayFollow, Writes
  <2>3. CASE writes[w].request = "applied"
    <3>1. writes[w].at # "unused"  BY <2>3 DEF WriteHistory
    <3>2. k = writes[w].key /\ writes'[w].before = writes[w].before  BY <3>1 DEF Evolves
    <3>3. CASE v = cloud[k]
      <4>1. v # 0 /\ MayFollow(v, w, "cloud")  BY <2>3, <3>2, <3>3 DEF Landed
      <4>2. v \in Writes  BY <1>1, <2>1, <3>3, <4>1
      <4>3. v \in writes[w].before =>
              writes[v].at = "done" /\ writes'[v].place = writes[v].place
        BY <4>2 DEF WriteHistory, Done, Evolves
      <4>4. QED  BY <3>2, <4>1, <4>3 DEF MayFollow
    <3>4. CASE v # cloud[k]
      <4>1. v \in Writes /\ writes[v].request # "applied"  BY <2>1, <3>4 DEF Evolves
      <4>2. writes[v].place # "cloud"  BY <4>1 DEF WriteHistory
      <4>3. v \in writes[w].before => writes'[v].place # "cloud"
        BY <4>1, <4>2 DEF WriteHistory, Done, Evolves
      <4>4. QED  BY <3>2, <4>1, <4>3 DEF MayFollow, Writes
    <3>5. QED  BY <3>3, <3>4
  <2>4. QED  BY <2>2, <2>3
<1>7. ASSUME NEW w \in Writes, writes'[w].place = "local"
      PROVE  /\ local'[writes'[w].key] # 0
             /\ ~(/\ local'[writes'[w].key] \in writes'[w].before
                  /\ writes'[local'[writes'[w].key]].place = "local")
  <2>. DEFINE k == writes'[w].key
              v == local'[k]
  <2>1. k \in Keys  BY <1>1
  <2>2. CASE writes[w].place # "local"
    <3>1. v = w  BY <1>7, <2>2 DEF Evolves
    <3>2. w \in writes'[w].before => writes[w].at = "done" /\ writes[w].place # "local"
      BY <1>3, <2>2 DEF Done
    <3>3. w \in writes'[w].before => writes'[w].place # "local"  BY <3>2 DEF Evolves
    <3>4. QED  BY <3>1, <3>3 DEF MayFollow, Writes
  <2>3. CASE writes[w].place = "local"
    <3>1. writes[w].at # "unused"  BY <2>3 DEF WriteHistory, Places
    <3>2. k = writes[w].key /\ writes'[w].before = writes[w].before  BY <3>1 DEF Evolves
    <3>3. CASE v = local[k]
      <4>1. v # 0 /\ MayFollow(v, w, "local")  BY <2>3, <3>2, <3>3 DEF Landed
      <4>2. v \in Writes  BY <1>1, <2>1, <3>3, <4>1
      <4>3. v \in writes[w].before =>
              writes[v].at = "done" /\ writes'[v].place = writes[v].place
        BY <4>2 DEF WriteHistory, Done, Evolves
      <4>4. QED  BY <3>2, <4>1, <4>3 DEF MayFollow
    <3>4. CASE v # local[k]
      <4>1. v \in Writes /\ writes[v].at # "done"  BY <2>1, <3>4 DEF Evolves
      <4>2. v \notin writes[w].before  BY <4>1 DEF WriteHistory, Done
      <4>3. QED  BY <3>2, <4>1, <4>2 DEF MayFollow, Writes
    <3>5. QED  BY <3>3, <3>4
  <2>4. QED  BY <2>2, <2>3
<1>8. Landed'  BY <1>6, <1>7 DEF Landed, MayFollow
<1>9. QED  BY <1>4, <1>5, <1>8

LEMMA InitStoreInv ==
  ASSUME Init
  PROVE  StoreInv
<1>1. TypeOK  BY InitTypeOK
<1>2. \A w \in Writes : writes[w].at = "unused" /\ writes[w].request = "none"
                       /\ writes[w].place = "none" /\ writes[w].before = {}
  BY DEF Init, NoWrite
<1>3. WriteHistory /\ Landed  BY <1>2 DEF WriteHistory, Landed, Places
<1>4. PlaceHistory  BY DEF Init, PlaceHistory
<1>5. QED  BY <1>1, <1>3, <1>4 DEF StoreInv

LEMMA ReportsFollow ==
  ASSUME StoreInv
  PROVE  ReportsHold
<1>1. \A w \in Done : writes[w].place \in Places  BY DEF StoreInv, WriteHistory, Done
<1>2. \A w \in Done : writes[w].place = "cloud" => writes[w].request = "applied"
  BY DEF StoreInv, WriteHistory, Done
<1>3. QED  BY <1>1, <1>2 DEF ReportsHold, Held, StoreInv, Landed, Places, Done

\* Whatever requests are lost, late or repeated by other callers, and however often
\* the process restarts: the place that uploadFile or deleteFile reported holds the
\* effect of that call, or of one that was not over there when it began.
THEOREM ReportsCorrect == Spec => []ReportsHold
<1>1. Init => StoreInv  BY InitStoreInv
<1>2. StoreInv /\ [Next]_vars => StoreInv'
  <2>1. SUFFICES ASSUME StoreInv, [Next]_vars
                 PROVE  StoreInv'
    OBVIOUS
  <2>2. TypeOK'  BY <2>1, StepTypeOK DEF StoreInv
  <2>3. QED  BY <2>1, <2>2, NextEvolves, StoreInvStep
<1>3. StoreInv => ReportsHold  BY ReportsFollow
<1>4. QED  BY <1>1, <1>2, <1>3, PTL DEF Spec

-----------------------------------------------------------------------------
(* What downloads return *)

\* The answer on its way to a download is no older than what was reported from the
\* cloud when the download began.
ServedOK(c) ==
  /\ c.saw # 0 => writes[c.saw].key = c.key /\ writes[c.saw].at # "unused"
  /\ \A w \in c.before :
       writes[w].key = c.key /\ writes[w].place = "cloud" =>
         c.saw # 0 /\ MayFollow(c.saw, w, "cloud")

StaleOK(c) ==
  \A w \in c.before :
    (c.value # 0 /\ writes[w].key = c.key /\ c.value \in writes[w].before) =>
      CASE writes[w].place = c.from -> writes[c.value].place # c.from
        [] c.from = "local" /\ writes[w].place = "cloud" ->
             ~c.answered \/ DeletedAfter(w, "cloud")
        [] OTHER -> TRUE

AbsentOK(c) ==
  c.value = 0 =>
    \A w \in c.before :
      writes[w].op = "put" /\ writes[w].key = c.key =>
        \/ DeletedAfter(w, writes[w].place)
        \/ writes[w].place = "cloud" /\ ~c.answered

ReadOK(c) ==
  /\ c.before \subseteq Done
  /\ c.at \in {"waiting", "served"} => c.answered = FALSE
  /\ c.at = "served" => ServedOK(c)
  /\ c.at = "done" => StaleOK(c) /\ AbsentOK(c)

ReadHistory == \A r \in Reads : ReadOK(reads[r])

LEMMA DeletedStays ==
  ASSUME StoreInv, Evolves, NEW w \in Done, NEW place, DeletedAfter(w, place)
  PROVE  DeletedAfter(w, place)'
<1>1. PICK d \in Writes : /\ writes[d].at # "unused" /\ writes[d].op = "delete"
                          /\ writes[d].key = writes[w].key
                          /\ MayFollow(d, w, place)
  BY DEF DeletedAfter
<1>2. w \in Writes /\ writes[w].at # "unused"  BY DEF Done
<1>3. writes'[w].before = writes[w].before /\ writes'[w].key = writes[w].key
  BY <1>2 DEF Evolves
<1>4. d \in writes[w].before => writes'[d].place = writes[d].place
  BY <1>1, <1>2 DEF StoreInv, WriteHistory, Done, Evolves
<1>5. ~(d \in writes'[w].before /\ writes'[d].place = place)
  BY <1>1, <1>3, <1>4 DEF MayFollow
<1>6. /\ writes'[d].at # "unused" /\ writes'[d].op = "delete"
      /\ writes'[d].key = writes'[w].key
  BY <1>1, <1>3 DEF Evolves
<1>7. QED  BY <1>5, <1>6 DEF DeletedAfter, MayFollow

\* What a download may rely on stays so while other calls go on.
LEMMA ReadStays ==
  ASSUME StoreInv, Evolves, NEW c \in ReadType, ReadOK(c)
  PROVE  ReadOK(c)'
<1>1. c.before \subseteq Done /\ c.before \subseteq Writes  BY DEF ReadOK, Done
<1>2. c.before \subseteq Done'  BY <1>1 DEF Evolves, Done
<1>3. \A w \in c.before :
        /\ writes'[w].place = writes[w].place /\ writes'[w].key = writes[w].key
        /\ writes'[w].op = writes[w].op /\ writes'[w].before = writes[w].before
  BY <1>1 DEF Done, Evolves
<1>4. \A w \in c.before : \A v \in writes[w].before :
        v \in Writes /\ writes'[v].place = writes[v].place
  BY <1>1 DEF StoreInv, WriteHistory, Done, Evolves
<1>5. \A w \in c.before : \A p \in Places : DeletedAfter(w, p) => DeletedAfter(w, p)'
  BY <1>1, DeletedStays
<1>6. \A w \in c.before : writes[w].place \in Places
  BY <1>1 DEF StoreInv, WriteHistory, Done
<1>7. c.saw \in {0} \cup Writes  BY DEF ReadType
<1>8. ServedOK(c) => ServedOK(c)'
  <2>1. SUFFICES ASSUME ServedOK(c)
                 PROVE  ServedOK(c)'
    OBVIOUS
  <2>2. c.saw # 0 => writes'[c.saw].key = c.key /\ writes'[c.saw].at # "unused"
    BY <1>7, <2>1 DEF ServedOK, Evolves
  <2>3. ASSUME NEW w \in c.before, writes'[w].key = c.key, writes'[w].place = "cloud"
        PROVE  c.saw # 0 /\ ~(c.saw \in writes'[w].before /\ writes'[c.saw].place = "cloud")
    BY <1>3, <1>4, <2>1, <2>3 DEF ServedOK, MayFollow
  <2>4. QED  BY <2>2, <2>3 DEF ServedOK, MayFollow
<1>9. StaleOK(c) => StaleOK(c)'
  <2>1. SUFFICES ASSUME StaleOK(c), NEW w \in c.before, c.value # 0,
                        writes'[w].key = c.key, c.value \in writes'[w].before
                 PROVE  CASE writes'[w].place = c.from -> writes'[c.value].place # c.from
                          [] c.from = "local" /\ writes'[w].place = "cloud" ->
                               ~c.answered \/ DeletedAfter(w, "cloud")'
                          [] OTHER -> TRUE
    BY DEF StaleOK
  <2>2. writes'[c.value].place = writes[c.value].place /\ c.value \in writes[w].before
    BY <1>3, <1>4, <2>1
  <2>3. CASE writes[w].place = c.from
    BY <1>3, <2>1, <2>2, <2>3 DEF StaleOK
  <2>4. CASE writes[w].place # c.from /\ c.from = "local" /\ writes[w].place = "cloud"
    <3>1. ~c.answered \/ DeletedAfter(w, "cloud")
      BY <1>3, <2>1, <2>2, <2>4 DEF StaleOK
    <3>2. ~c.answered \/ DeletedAfter(w, "cloud")'  BY <1>5, <3>1 DEF Places
    <3>3. QED  BY <1>3, <2>4, <3>2
  <2>5. CASE writes[w].place # c.from /\ ~(c.from = "local" /\ writes[w].place = "cloud")
    BY <1>3, <2>5
  <2>6. QED  BY <2>3, <2>4, <2>5
<1>10. AbsentOK(c) => AbsentOK(c)'
  BY <1>3, <1>5, <1>6 DEF AbsentOK
<1>11. QED  BY <1>2, <1>8, <1>9, <1>10 DEF ReadOK

\* The local copy, or its absence, is explained when the cloud did not answer or
\* served no object.
LEMMA FromDiskOK ==
  ASSUME StoreInv, NEW c \in ReadType, c.before \subseteq Done,
         c.answered = TRUE => ServedOK(c) /\ ~Exists(c.saw)
  PROVE  ReadOK(FromDisk(c))
<1>. DEFINE d == FromDisk(c)
            v == local[c.key]
<1>1. /\ d.at = "done" /\ d.from = "local" /\ d.key = c.key /\ d.before = c.before
      /\ d.answered = c.answered /\ d.value = IF Exists(v) THEN v ELSE 0
  BY DEF FromDisk, ReadType
<1>2. c.key \in Keys /\ c.answered \in BOOLEAN /\ c.saw \in {0} \cup Writes  BY DEF ReadType
<1>3. v \in {0} \cup Writes  BY <1>2 DEF StoreInv, TypeOK
<1>4. \A w \in c.before :
        /\ w \in Writes /\ writes[w].place \in Places /\ writes[w].at = "done"
        /\ writes[w].place = "cloud" => writes[w].request = "applied"
  BY DEF StoreInv, WriteHistory, Done
<1>5. \A w \in c.before :
        writes[w].key = c.key /\ writes[w].place = "local" => v # 0 /\ MayFollow(v, w, "local")
  BY <1>4 DEF StoreInv, Landed
<1>6. ASSUME NEW w \in c.before, writes[w].key = c.key, writes[w].place = "cloud",
             c.answered = TRUE
      PROVE  DeletedAfter(w, "cloud")
  <2>1. /\ c.saw # 0 /\ MayFollow(c.saw, w, "cloud") /\ writes[c.saw].key = c.key
        /\ writes[c.saw].at # "unused"
    BY <1>6 DEF ServedOK
  <2>2. c.saw \in Writes  BY <1>2, <2>1
  <2>3. writes[c.saw].op = "delete"
    <3>1. writes[c.saw] \in WriteType  BY <2>2, OneOfEach DEF StoreInv
    <3>2. writes[c.saw].op # "put"  BY <1>6, <2>1 DEF Exists
    <3>3. QED  BY <3>1, <3>2 DEF WriteType
  <2>4. QED  BY <1>6, <2>1, <2>2, <2>3 DEF DeletedAfter
<1>. HIDE DEF d
<1>7. StaleOK(d)
  <2>1. SUFFICES ASSUME NEW w \in c.before, d.value # 0, writes[w].key = c.key,
                        d.value \in writes[w].before
                 PROVE  CASE writes[w].place = "local" -> writes[d.value].place # "local"
                          [] "local" = "local" /\ writes[w].place = "cloud" ->
                               ~c.answered \/ DeletedAfter(w, "cloud")
                          [] OTHER -> TRUE
    BY <1>1 DEF StaleOK
  <2>2. d.value = v  BY <1>1, <2>1
  <2>3. CASE writes[w].place = "local"
    BY <1>5, <2>1, <2>2, <2>3 DEF MayFollow
  <2>4. CASE writes[w].place = "cloud"
    <3>1. ~c.answered \/ DeletedAfter(w, "cloud")  BY <1>2, <1>6, <2>1, <2>4
    <3>2. QED  BY <2>4, <3>1
  <2>5. QED  BY <1>4, <2>3, <2>4 DEF Places
<1>8. AbsentOK(d)
  <2>1. SUFFICES ASSUME d.value = 0, NEW w \in c.before, writes[w].op = "put",
                        writes[w].key = c.key
                 PROVE  \/ DeletedAfter(w, writes[w].place)
                        \/ writes[w].place = "cloud" /\ ~c.answered
    BY <1>1 DEF AbsentOK
  <2>2. ~Exists(v)  BY <1>1, <2>1 DEF Exists
  <2>3. CASE writes[w].place = "local"
    <3>1. v # 0 /\ MayFollow(v, w, "local")  BY <1>5, <2>1, <2>3
    <3>2. v \in Writes  BY <1>3, <3>1
    <3>3. writes[v].op = "delete"
      <4>1. writes[v] \in WriteType  BY <3>2, OneOfEach DEF StoreInv
      <4>2. writes[v].op # "put"  BY <2>2, <3>1 DEF Exists
      <4>3. QED  BY <4>1, <4>2 DEF WriteType
    <3>4. writes[v].key = c.key /\ writes[v].at # "unused"
      BY <1>2, <3>1 DEF StoreInv, PlaceHistory
    <3>5. QED  BY <2>1, <2>3, <3>1, <3>2, <3>3, <3>4 DEF DeletedAfter
  <2>4. CASE writes[w].place = "cloud"
    BY <1>2, <1>6, <2>1, <2>4
  <2>5. QED  BY <1>4, <2>3, <2>4 DEF Places
<1>9. ReadOK(d)  BY <1>1, <1>7, <1>8 DEF ReadOK
<1>10. QED  BY <1>9 DEF d

LEMMA FromCloudOK ==
  ASSUME StoreInv, NEW c \in ReadType, c.before \subseteq Done, ServedOK(c), c.saw # 0
  PROVE  ReadOK([c EXCEPT !.at = "done", !.from = "cloud", !.value = c.saw])
<1>. DEFINE d == [c EXCEPT !.at = "done", !.from = "cloud", !.value = c.saw]
<1>1. /\ d.at = "done" /\ d.from = "cloud" /\ d.key = c.key /\ d.before = c.before
      /\ d.value = c.saw
  BY DEF ReadType
<1>. HIDE DEF d
<1>2. StaleOK(d)
  BY <1>1 DEF StaleOK, ServedOK, MayFollow
<1>3. AbsentOK(d)  BY <1>1 DEF AbsentOK
<1>4. QED  BY <1>1, <1>2, <1>3 DEF ReadOK, d

LEMMA ReadStep ==
  ASSUME StoreInv, ReadHistory, [Next]_vars, Evolves, TypeOK'
  PROVE  ReadHistory'
<1>. USE DEF StoreInv
<1>0. reads \in [Reads -> ReadType]  BY DEF TypeOK
<1>1. \A c \in ReadType : ReadOK(c) => ReadOK(c)'  BY ReadStays
<1>2. CASE reads' = reads
  BY <1>0, <1>1, <1>2 DEF ReadHistory
<1>3. ASSUME NEW r \in Reads, NEW c \in ReadType, ReadOK(c), reads' = [reads EXCEPT ![r] = c]
      PROVE  ReadHistory'
  BY <1>0, <1>1, <1>3 DEF ReadHistory
<1>4. ASSUME NEW k \in Keys, NEW r \in Reads, DownloadFile(k, r)
      PROVE  ReadHistory'
  <2>1. Done \in SUBSET Writes  BY DEF Done
  <2>2. NewRead(k) \in ReadType  BY <2>1 DEF NewRead, ReadType
  <2>3. ReadOK(NewRead(k))  BY DEF NewRead, ReadOK
  <2>4. NewRead(k).before \subseteq Done /\ NewRead(k).answered = FALSE  BY DEF NewRead
  <2>5. ReadOK(FromDisk(NewRead(k)))  BY <2>2, <2>4, FromDiskOK
  <2>6. FromDisk(NewRead(k)) \in ReadType  BY <2>2, FromDiskType
  <2>7. QED  BY <1>3, <1>4, <2>2, <2>3, <2>5, <2>6 DEF DownloadFile
<1>5. ASSUME NEW r \in Reads, Downloaded(r)
      PROVE  ReadHistory'
  <2>. DEFINE old == reads[r]
              c == [old EXCEPT !.answered = TRUE]
              d == [c EXCEPT !.at = "done", !.from = "cloud", !.value = c.saw]
  <2>1. old \in ReadType /\ ReadOK(old) /\ old.at = "served"
    BY <1>0, <1>5 DEF ReadHistory, Downloaded
  <2>2. c \in ReadType /\ c.saw = old.saw /\ c.key = old.key /\ c.before = old.before
        /\ c.answered = TRUE
    BY <2>1 DEF ReadType
  <2>3. ServedOK(old) /\ old.before \subseteq Done  BY <2>1 DEF ReadOK
  <2>4. reads' = [reads EXCEPT ![r] = IF Exists(c.saw) THEN d ELSE FromDisk(c)]
    BY <1>5 DEF Downloaded
  <2>. HIDE DEF c, old
  <2>5. ServedOK(c)  BY <2>2, <2>3 DEF ServedOK
  <2>6. d \in ReadType
    BY <2>2 DEF ReadType, Places
  <2>7. FromDisk(c) \in ReadType  BY <2>2, FromDiskType
  <2>8. CASE Exists(c.saw)
    <3>1. ReadOK(d)  BY <2>2, <2>3, <2>5, <2>8, FromCloudOK DEF Exists
    <3>. HIDE DEF d
    <3>2. QED  BY <1>3, <2>4, <2>6, <2>8, <3>1
  <2>9. CASE ~Exists(c.saw)
    <3>1. ReadOK(FromDisk(c))  BY <2>2, <2>3, <2>5, <2>9, FromDiskOK
    <3>. HIDE DEF d
    <3>2. QED  BY <1>3, <2>4, <2>7, <2>9, <3>1
  <2>10. QED  BY <2>8, <2>9
<1>6. ASSUME NEW r \in Reads, DownloadFallsBack(r)
      PROVE  ReadHistory'
  <2>1. reads[r] \in ReadType /\ ReadOK(reads[r])  BY <1>0 DEF ReadHistory
  <2>2. reads[r].before \subseteq Done /\ reads[r].answered = FALSE
    BY <1>6, <2>1 DEF ReadOK, DownloadFallsBack
  <2>3. ReadOK(FromDisk(reads[r]))  BY <2>1, <2>2, FromDiskOK
  <2>4. FromDisk(reads[r]) \in ReadType  BY <2>1, FromDiskType
  <2>5. reads' = [reads EXCEPT ![r] = FromDisk(reads[r])]
    BY <1>0, <1>6 DEF DownloadFallsBack
  <2>6. QED  BY <1>3, <2>3, <2>4, <2>5
<1>7. ASSUME NEW r \in Reads, CloudServes(r)
      PROVE  ReadHistory'
  <2>. DEFINE old == reads[r]
              v == cloud[old.key]
              c == [old EXCEPT !.at = "served", !.saw = v]
  <2>1. old \in ReadType /\ ReadOK(old) /\ old.at = "waiting" /\ old.key \in Keys
    BY <1>0, <1>7, OneOfEach DEF ReadHistory, CloudServes
  <2>2. v \in {0} \cup Writes  BY <2>1 DEF TypeOK
  <2>3. reads' = [reads EXCEPT ![r] = c]  BY <1>0, <1>7 DEF CloudServes
  <2>4. v # 0 => writes[v].key = old.key /\ writes[v].at # "unused"
    BY <2>1 DEF PlaceHistory
  <2>5. \A w \in old.before :
          writes[w].key = old.key /\ writes[w].place = "cloud" =>
            v # 0 /\ MayFollow(v, w, "cloud")
    BY <2>1 DEF ReadOK, Done, WriteHistory, Landed
  <2>. HIDE DEF v, old
  <2>6. /\ c \in ReadType /\ c.at = "served" /\ c.saw = v /\ c.key = old.key
        /\ c.before = old.before /\ c.answered = old.answered
    BY <2>1, <2>2 DEF ReadType
  <2>. HIDE DEF c
  <2>7. ReadOK(c)  BY <2>1, <2>4, <2>5, <2>6 DEF ReadOK, ServedOK
  <2>8. QED  BY <1>3, <2>3, <2>6, <2>7
<1>8. CASE Restart
  <2>1. \A r \in Reads : reads'[r] = NoRead  BY <1>8 DEF Restart
  <2>2. NoRead \in ReadType /\ ReadOK(NoRead)  BY BlankRecords DEF NoRead, ReadOK
  <2>3. QED  BY <1>1, <2>1, <2>2 DEF ReadHistory
<1>9. QED
  BY <1>2, <1>4, <1>5, <1>6, <1>7, <1>8
     DEF Next, vars, RunDailyArchiveBatch, Archive24HourTicks, UploadAcknowledged,
         UploadFallsBack, DeleteFile, DeleteAcknowledged, DeleteFallsBack, CloudApplies

LEMMA ReadInvariant == Spec => [](StoreInv /\ ReadHistory)
<1>1. Init => StoreInv /\ ReadHistory
  <2>1. NoRead.at = "idle" /\ NoRead.before = {}  BY DEF NoRead
  <2>2. ReadOK(NoRead)  BY <2>1 DEF ReadOK
  <2>3. Init => \A r \in Reads : reads[r] = NoRead  BY DEF Init
  <2>4. QED  BY <2>2, <2>3, InitStoreInv DEF ReadHistory
<1>2. StoreInv /\ ReadHistory /\ [Next]_vars => StoreInv' /\ ReadHistory'
  <2>1. SUFFICES ASSUME StoreInv, ReadHistory, [Next]_vars
                 PROVE  StoreInv' /\ ReadHistory'
    OBVIOUS
  <2>2. TypeOK'  BY <2>1, StepTypeOK DEF StoreInv
  <2>3. Evolves  BY <2>1, NextEvolves
  <2>4. StoreInv'  BY <2>1, <2>2, <2>3, StoreInvStep
  <2>5. QED  BY <2>1, <2>2, <2>3, <2>4, ReadStep
<1>3. QED  BY <1>1, <1>2, PTL DEF Spec

\* A download returns superseded content only after a fallback, a late request or a
\* delete, or when the cloud did not answer it.
THEOREM StaleReadsCorrect == Spec => []StaleReadsExplained
<1>1. ReadHistory => StaleReadsExplained  BY DEF ReadHistory, ReadOK, StaleOK, StaleReadsExplained
<1>2. QED  BY <1>1, ReadInvariant, PTL

\* A download misses an object whose upload was reported only after a delete, or when
\* the object is in a cloud that did not answer it.
THEOREM AbsenceCorrect == Spec => []AbsenceExplained
<1>1. ReadHistory => AbsenceExplained  BY DEF ReadHistory, ReadOK, AbsentOK, AbsenceExplained
<1>2. QED  BY <1>1, ReadInvariant, PTL
=============================================================================
