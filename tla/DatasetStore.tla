------------------------------ MODULE DatasetStore ------------------------------
(***************************************************************************)
(* R2StorageProvider (packages/market-data/src/adapters) and the            *)
(* R2ArchiverService of the data engine.  An object lives in the cloud      *)
(* bucket, or in a local directory that takes over whenever a request to    *)
(* the cloud fails or no credentials are configured; nothing ever brings    *)
(* the two into line again.                                                 *)
(*                                                                          *)
(* Content is a write's number: uploads and deletes are numbered in the     *)
(* order in which they began, and a place remembers the last write that     *)
(* took effect there on a key, 0 when there was none.  The cloud is         *)
(* external: it may execute a request before or after the client has given  *)
(* it up, or not at all.                                                    *)
(***************************************************************************)
EXTENDS Naturals, Sequences

CONSTANTS
  Keys,            \* object keys
  Markets,         \* (exchange, symbol) pairs
  KeyOf,           \* the key a day's archive of a market gets
  Batches,         \* callers of runDailyArchiveBatch
  MarketLists,     \* the lists of markets they pass
  MaxWrites,       \* bound: uploads and deletes ever begun
  Reads            \* slots for downloads

ASSUME StoreAssumption ==
  /\ Keys # {}
  /\ KeyOf \in [Markets -> Keys]      \* not injective: case and separators are dropped
  /\ MarketLists \subseteq Seq(Markets)
  /\ MaxWrites \in Nat

Writes == 1..MaxWrites
Places == {"cloud", "local"}

-----------------------------------------------------------------------------

VARIABLES
  configured,    \* whether the process has credentials for the cloud
  cloud, local,  \* the last write to take effect on each key
  writes,        \* uploadFile and deleteFile calls
  reads,         \* downloadFile calls
  batches        \* what is left of each batch, and the upload it awaits

vars == <<configured, cloud, local, writes, reads, batches>>

WriteType ==
  [op : {"put", "delete"}, key : Keys,
   at : {"unused", "waiting", "done", "failed"},
   request : {"none", "sent", "applied"},   \* of the cloud request
   place : {"none"} \cup Places,            \* where the call reported success
   before : SUBSET Writes]                  \* history: writes done when it began

ReadType ==
  [key : Keys,
   at : {"idle", "waiting", "served", "done"},
   saw : {0} \cup Writes,                   \* what the cloud served
   answered : BOOLEAN,                      \* whether its answer was used
   from : {"none"} \cup Places,
   value : {0} \cup Writes,                 \* whose content it returned, 0: not found
   before : SUBSET Writes]                  \* history: writes done when it began

NoWrite == [op |-> "put", key |-> CHOOSE k \in Keys : TRUE, at |-> "unused",
            request |-> "none", place |-> "none", before |-> {}]
NoRead == [key |-> CHOOSE k \in Keys : TRUE, at |-> "idle", saw |-> 0,
           answered |-> FALSE, from |-> "none", value |-> 0, before |-> {}]
NoBatch == [todo |-> <<>>, upload |-> 0]

Init ==
  /\ configured \in BOOLEAN
  /\ cloud = [k \in Keys |-> 0]
  /\ local = [k \in Keys |-> 0]
  /\ writes = [w \in Writes |-> NoWrite]
  /\ reads = [r \in Reads |-> NoRead]
  /\ batches = [b \in Batches |-> NoBatch]

-----------------------------------------------------------------------------
(* What the calls share *)

Done == {w \in Writes : writes[w].at = "done"}

IsNext(w) ==
  /\ writes[w].at = "unused"
  /\ \A v \in Writes : v < w => writes[v].at # "unused"

\* A place holds an object if its last write there was an upload.
Exists(w) == w # 0 /\ writes[w].op = "put"

NewWrite(op, k) ==
  [op |-> op, key |-> k, at |-> "waiting",
   request |-> IF configured THEN "sent" ELSE "none",
   place |-> "none", before |-> Done]

Settled(call, place) == [call EXCEPT !.at = "done", !.place = place]

\* writeFileSync replaces the file; when it throws, the old file may be
\* untouched or already truncated.
Stored(w, call) ==
  /\ local' = [local EXCEPT ![call.key] = w]
  /\ writes' = [writes EXCEPT ![w] = Settled(call, "local")]
NotStored(w, call) ==
  /\ local' \in {local, [local EXCEPT ![call.key] = w]}
  /\ writes' = [writes EXCEPT ![w] = [call EXCEPT !.at = "failed"]]

\* The batch goes on with its next market, or its promise rejects.
Continues(b) == batches' = [batches EXCEPT ![b].upload = 0]
Rejects(b) == batches' = [batches EXCEPT ![b] = NoBatch]

\* uploadFile, on the local path.
StoreLocally(w, call, b) ==
  \/ Stored(w, call) /\ Continues(b)
  \/ NotStored(w, call) /\ Rejects(b)

\* deleteFile, on the local path: a file that is not there is not unlinked, and
\* an unlink that throws leaves it.
DeleteLocally(w, call) ==
  \/ /\ local' = [local EXCEPT ![call.key] = w]
     /\ writes' = [writes EXCEPT ![w] = Settled(call, "local")]
  \/ /\ Exists(local[call.key])
     /\ local' = local
     /\ writes' = [writes EXCEPT ![w] = [call EXCEPT !.at = "failed"]]

-----------------------------------------------------------------------------
(* The archiver and its uploads *)

RunDailyArchiveBatch(b, list) ==
  /\ batches[b] = NoBatch
  /\ batches' = [batches EXCEPT ![b].todo = list]
  /\ UNCHANGED <<configured, cloud, local, writes, reads>>

\* The next market of the batch, up to the first await.
Archive24HourTicks(b, w) ==
  /\ batches[b].todo # <<>> /\ batches[b].upload = 0
  /\ IsNext(w)
  /\ LET call == NewWrite("put", KeyOf[Head(batches[b].todo)])
         rest == [todo |-> Tail(batches[b].todo), upload |-> w]
     IN IF configured
        THEN /\ writes' = [writes EXCEPT ![w] = call]
             /\ batches' = [batches EXCEPT ![b] = rest]
             /\ local' = local
        ELSE \/ /\ Stored(w, call)
                /\ batches' = [batches EXCEPT ![b] = [rest EXCEPT !.upload = 0]]
             \/ NotStored(w, call) /\ Rejects(b)
  /\ UNCHANGED <<configured, cloud, reads>>

\* Mutant: the upload is reported without awaiting the cloud.
UploadNotAwaited(b, w) ==
  /\ batches[b].upload = w
  /\ writes' = [writes EXCEPT ![w] = Settled(@, "cloud")]
  /\ Continues(b)
  /\ UNCHANGED <<configured, cloud, local, reads>>

UploadAcknowledged(b, w) ==
  /\ batches[b].upload = w
  /\ writes[w].request = "applied"
  /\ writes' = [writes EXCEPT ![w] = Settled(@, "cloud")]
  /\ Continues(b)
  /\ UNCHANGED <<configured, cloud, local, reads>>

\* The request failed, or its answer was lost.
UploadFallsBack(b, w) ==
  /\ batches[b].upload = w
  /\ StoreLocally(w, writes[w], b)
  /\ UNCHANGED <<configured, cloud, reads>>

-----------------------------------------------------------------------------
(* Deletes *)

DeleteFile(k, w) ==
  /\ IsNext(w)
  /\ IF configured
     THEN /\ writes' = [writes EXCEPT ![w] = NewWrite("delete", k)]
          /\ local' = local
     ELSE DeleteLocally(w, NewWrite("delete", k))
  /\ UNCHANGED <<configured, cloud, reads, batches>>

\* The call returns without looking at the local directory.
DeleteAcknowledged(w) ==
  /\ writes[w].at = "waiting" /\ writes[w].op = "delete"
  /\ writes[w].request = "applied"
  /\ writes' = [writes EXCEPT ![w] = Settled(@, "cloud")]
  /\ UNCHANGED <<configured, cloud, local, reads, batches>>

DeleteFallsBack(w) ==
  /\ writes[w].at = "waiting" /\ writes[w].op = "delete"
  /\ DeleteLocally(w, writes[w])
  /\ UNCHANGED <<configured, cloud, reads, batches>>

-----------------------------------------------------------------------------
(* Downloads *)

\* The local copy, or the error when there is none.
FromDisk(call) ==
  [call EXCEPT !.at = "done", !.from = "local",
               !.value = IF Exists(local[call.key]) THEN local[call.key] ELSE 0]

NewRead(k) == [key |-> k, at |-> "waiting", saw |-> 0, answered |-> FALSE,
               from |-> "none", value |-> 0, before |-> Done]

DownloadFile(k, r) ==
  /\ reads[r].at \in {"idle", "done"}
  /\ reads' = [reads EXCEPT ![r] = IF configured THEN NewRead(k) ELSE FromDisk(NewRead(k))]
  /\ UNCHANGED <<configured, cloud, local, writes, batches>>

\* Mutant: a local copy is preferred to what the cloud served.
DownloadedLocalFirst(r) ==
  /\ reads[r].at = "served"
  /\ reads' = [reads EXCEPT ![r] =
       LET call == [@ EXCEPT !.answered = TRUE]
       IN IF Exists(call.saw) /\ ~Exists(local[call.key])
          THEN [call EXCEPT !.at = "done", !.from = "cloud", !.value = call.saw]
          ELSE FromDisk(call)]
  /\ UNCHANGED <<configured, cloud, local, writes, batches>>

\* Mutant: the cloud's answer that there is no object is final.
DownloadedOrMissing(r) ==
  /\ reads[r].at = "served"
  /\ reads' = [reads EXCEPT ![r] =
       [@ EXCEPT !.at = "done", !.answered = TRUE, !.from = "cloud",
                 !.value = IF Exists(reads[r].saw) THEN reads[r].saw ELSE 0]]
  /\ UNCHANGED <<configured, cloud, local, writes, batches>>

\* The answer reaches the client: content, or an error for a missing object.
Downloaded(r) ==
  /\ reads[r].at = "served"
  /\ reads' = [reads EXCEPT ![r] =
       LET call == [@ EXCEPT !.answered = TRUE]
       IN IF Exists(call.saw)
          THEN [call EXCEPT !.at = "done", !.from = "cloud", !.value = call.saw]
          ELSE FromDisk(call)]
  /\ UNCHANGED <<configured, cloud, local, writes, batches>>

DownloadFallsBack(r) ==
  /\ reads[r].at \in {"waiting", "served"}
  /\ reads' = [reads EXCEPT ![r] = FromDisk(@)]
  /\ UNCHANGED <<configured, cloud, local, writes, batches>>

-----------------------------------------------------------------------------
(* The cloud, and the process *)

CloudApplies(w) ==
  /\ writes[w].request = "sent"
  /\ cloud' = [cloud EXCEPT ![writes[w].key] = w]
  /\ writes' = [writes EXCEPT ![w].request = "applied"]
  /\ UNCHANGED <<configured, local, reads, batches>>

CloudServes(r) ==
  /\ reads[r].at = "waiting"
  /\ reads' = [reads EXCEPT ![r].at = "served", ![r].saw = cloud[reads[r].key]]
  /\ UNCHANGED <<configured, cloud, local, writes, batches>>

\* Mutant: the batches survive the process.
RestartMidBatch ==
  /\ configured' \in BOOLEAN
  /\ writes' = [w \in Writes |->
       [writes[w] EXCEPT !.at = IF @ = "waiting" THEN "failed" ELSE @]]
  /\ reads' = [r \in Reads |-> NoRead]
  /\ UNCHANGED <<cloud, local, batches>>

\* Calls under way are gone, their requests are not.  The new process may find
\* other credentials in its environment.
Restart ==
  /\ configured' \in BOOLEAN
  /\ writes' = [w \in Writes |->
       [writes[w] EXCEPT !.at = IF @ = "waiting" THEN "failed" ELSE @]]
  /\ reads' = [r \in Reads |-> NoRead]
  /\ batches' = [b \in Batches |-> NoBatch]
  /\ UNCHANGED <<cloud, local>>

Next ==
  \/ \E b \in Batches :
       \/ \E list \in MarketLists : RunDailyArchiveBatch(b, list)
       \/ \E w \in Writes : \/ Archive24HourTicks(b, w)
                            \/ UploadAcknowledged(b, w)
                            \/ UploadFallsBack(b, w)
  \/ \E w \in Writes : \/ \E k \in Keys : DeleteFile(k, w)
                       \/ DeleteAcknowledged(w) \/ DeleteFallsBack(w)
                       \/ CloudApplies(w)
  \/ \E r \in Reads : \/ \E k \in Keys : DownloadFile(k, r)
                      \/ Downloaded(r) \/ DownloadFallsBack(r) \/ CloudServes(r)
  \/ Restart

Spec == Init /\ [][Next]_vars

-----------------------------------------------------------------------------
(* Properties *)

\* Types; and the upload that a batch awaits is under way, and its own.
TypeOK ==
  /\ configured \in BOOLEAN
  /\ cloud \in [Keys -> {0} \cup Writes]
  /\ local \in [Keys -> {0} \cup Writes]
  /\ writes \in [Writes -> WriteType]
  /\ reads \in [Reads -> ReadType]
  /\ batches \in [Batches -> [todo : Seq(Markets), upload : {0} \cup Writes]]
  /\ \A b \in Batches : batches[b].upload # 0 =>
       writes[batches[b].upload].at = "waiting" /\ writes[batches[b].upload].op = "put"
  /\ \A b, c \in Batches :
       batches[b].upload # 0 /\ batches[b].upload = batches[c].upload => b = c

Held(place, k) == IF place = "cloud" THEN cloud[k] ELSE local[k]

\* v may have taken effect at a place after w did: it was not reported from there
\* when w began.
MayFollow(v, w, place) == ~(v \in writes[w].before /\ writes[v].place = place)

\* What uploadFile or deleteFile reported stands: the place it names holds the
\* effect of that call, or of one that was not over there when the call began.
\* So of two archives in one batch that share a key the later stands, whatever
\* outages, late requests, other batches and restarts come between.
ReportsHold ==
  \A w \in Done :
    LET v == Held(writes[w].place, writes[w].key)
    IN v # 0 /\ MayFollow(v, w, writes[w].place)

\* A delete of the key that may have reached a place after w.
DeletedAfter(w, place) ==
  \E d \in Writes :
    /\ writes[d].at # "unused" /\ writes[d].op = "delete"
    /\ writes[d].key = writes[w].key
    /\ MayFollow(d, w, place)

\* downloadFile returns content that was superseded before it began only for one
\* of these reasons: the newer upload fell back to the directory and the cloud
\* still has the older one; a request its caller had given up came late; or the
\* local copy was read, as the cloud did not answer or the object was deleted
\* there.
StaleReadsExplained ==
  \A r \in Reads :
    reads[r].at = "done" =>
      LET v == reads[r].value
          from == reads[r].from
      IN \A w \in reads[r].before :
           (v # 0 /\ writes[w].key = reads[r].key /\ v \in writes[w].before) =>
             CASE writes[w].place = from -> writes[v].place # from
               [] from = "local" /\ writes[w].place = "cloud" ->
                    ~reads[r].answered \/ DeletedAfter(w, "cloud")
               [] OTHER -> TRUE

\* downloadFile reports a missing object although an upload of it was reported
\* before only if the object may have been deleted since, or if it is in the cloud
\* and the cloud did not answer.
AbsenceExplained ==
  \A r \in Reads :
    reads[r].at = "done" /\ reads[r].value = 0 =>
      \A w \in reads[r].before :
        writes[w].op = "put" /\ writes[w].key = reads[r].key =>
          \/ DeletedAfter(w, writes[w].place)
          \/ writes[w].place = "cloud" /\ ~reads[r].answered
=============================================================================
