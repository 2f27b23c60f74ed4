-------------------------- MODULE FirestoreClient --------------------------
(***************************************************************************)
(* The Firestore client of the devices signed in to one account, and the   *)
(* habit collection on the server.                                         *)
(*                                                                         *)
(* A write is queued on the device, shows at once in the local view and    *)
(* goes out on the write stream, which answers in order.  The watch stream *)
(* brings snapshots of the collection.  The two streams are independent: a *)
(* snapshot may be older or newer than an answer that overtakes it.        *)
(* Queue and cache are on disk; completion blocks and streams are not.     *)
(***************************************************************************)
EXTENDS HabitDocument, Naturals, Sequences

CONSTANTS
  Device,        \* the installations signed in to one account
  Name,          \* the names of habits, which are the document ids
  MaxPipeline,   \* kMaxPendingWrites: batches on the write stream at once
  WatchWindow,   \* bound: snapshots in flight to a device
  MaxWrites,     \* bound: writes made by all devices
  MaxFailures    \* bound: lost connections and killed processes

ASSUME ClientAssumption ==
  /\ MaxPipeline \in Nat \ {0}
  /\ WatchWindow \in Nat \ {0}
  /\ MaxWrites \in Nat
  /\ MaxFailures \in Nat

VARIABLES
  server,        \* name -> the document and the version it got it at
  commits,       \* the last version the server gave
  cache,         \* device -> name -> the remote document cache
  queue,         \* device -> the mutation queue
  nextBatchId,   \* device -> the id of the next batch
  callbacks,     \* device -> the batches with a registered user callback
  answers,       \* device -> the answers on the write stream
  snapshots,     \* device -> the snapshots on the watch stream
  writes,        \* writes made so far, against MaxWrites
  failures       \* failures so far, against MaxFailures

vars == <<server, commits, cache, queue, nextBatchId, callbacks, answers,
          snapshots, writes, failures>>

disk == <<cache, queue>>
streams == <<answers, snapshots>>

Batch == [id : Nat, name : Name, mutation : Mutation]

\* `batch' is not in the answer the client reads: it records which batch the
\* server answered, for AnswersMatchQueue.
Answer == [ok : BOOLEAN, version : Nat, batch : Nat]

Versioned == [doc : MaybeDocument, version : Nat]

Init ==
  /\ server = [n \in Name |-> [doc |-> NoDocument, version |-> 0]]
  /\ commits = 0
  /\ cache = [d \in Device |-> [n \in Name |->
                 [doc |-> NoDocument, version |-> 0, committed |-> FALSE]]]
  /\ queue = [d \in Device |-> <<>>]
  /\ nextBatchId = [d \in Device |-> 1]
  /\ callbacks = [d \in Device |-> {}]
  /\ answers = [d \in Device |-> <<>>]
  /\ snapshots = [d \in Device |-> <<>>]
  /\ writes = 0
  /\ failures = 0

\* What a queued write makes of a document, if it is to that document.
Under(batch, n, doc) ==
  IF batch.name = n THEN ApplyToLocalView(batch.mutation, doc) ELSE doc

\* A document under the writes to it that are queued, one after the other.
View(base, batches, n) ==
  LET view[i \in 0 .. Len(batches)] ==
        IF i = 0 THEN base ELSE Under(batches[i], n, view[i - 1])
  IN view[Len(batches)]

\* LocalDocumentsView: the cached document under the queued writes.
LocalView(d, n) == View(cache[d][n].doc, queue[d], n)

(***************************************************************************)
(* The app writes.                                                         *)
(***************************************************************************)
WriteMutation(d, n, m) ==
  /\ writes < MaxWrites
  /\ queue' = [queue EXCEPT ![d] =
                 Append(@, [id |-> nextBatchId[d], name |-> n, mutation |-> m])]
  /\ callbacks' = [callbacks EXCEPT ![d] = @ \cup {nextBatchId[d]}]
  /\ nextBatchId' = [nextBatchId EXCEPT ![d] = @ + 1]
  /\ writes' = writes + 1
  /\ UNCHANGED <<server, commits, cache, streams, failures>>

\* Seeded fault: the server goes on after a refusal.
AlwaysOpen(d) == TRUE

\* A refusal closes the write stream.
StreamOpen(d) == \A j \in 1 .. Len(answers[d]) : answers[d][j].ok

\* A write that changes nothing leaves the update time as it was.
VersionOf(m, old, doc) ==
  IF m.op # "delete" /\ doc = old.doc THEN old.version ELSE commits + 1

(***************************************************************************)
(* The server takes the next batch of the pipeline, the head of the queue  *)
(* when the stream is new, and answers.                                    *)
(***************************************************************************)
ServerCommits(d) ==
  LET i == Len(answers[d]) + 1   \* the pipeline is a prefix of the queue
      batch == queue[d][i]
      n == batch.name
      m == batch.mutation
      doc == ApplyToLocalView(m, server[n].doc)
      version == VersionOf(m, server[n], doc)
  IN
  /\ i <= Len(queue[d]) /\ i <= MaxPipeline
  /\ StreamOpen(d)
  /\ IF IsValidFor(m, server[n].doc)
     THEN /\ server' = [server EXCEPT ![n] = [doc |-> doc, version |-> version]]
          /\ commits' = IF version > commits THEN version ELSE commits
          /\ answers' = [answers EXCEPT ![d] =
               Append(@, [ok |-> TRUE, version |-> version, batch |-> batch.id])]
     ELSE /\ answers' = [answers EXCEPT ![d] =
               Append(@, [ok |-> FALSE, version |-> 0, batch |-> batch.id])]
          /\ UNCHANGED <<server, commits>>
  /\ UNCHANGED <<disk, nextBatchId, callbacks, snapshots, writes, failures>>

\* Seeded fault: the cached document passes for the server's.
AcknowledgedAsSynced(m, cached, answer) ==
  [doc |-> ApplyToRemoteDocument(m, cached.doc), version |-> answer.version,
   committed |-> FALSE]

\* The cached document with an acknowledged write, until the watch stream
\* brings the server's own.
Acknowledged(m, cached, answer) ==
  [doc |-> ApplyToRemoteDocument(m, cached.doc), version |-> answer.version,
   committed |-> TRUE]

\* Seeded fault: the acknowledged batch is not removed from the queue.
AcknowledgeKeepingBatch(d) ==
  /\ answers[d] # <<>> /\ Head(answers[d]).ok
  /\ answers' = [answers EXCEPT ![d] = Tail(@)]
  /\ UNCHANGED <<server, commits, disk, nextBatchId, callbacks, snapshots,
                 writes, failures>>

(***************************************************************************)
(* An answer arrives; it is matched with the head of the queue.  The user  *)
(* callback is called first.  The acknowledged write is then applied to    *)
(* the cached document unless the watch stream is already past it, and     *)
(* leaves the queue.                                                       *)
(***************************************************************************)
HandleSuccessfulWrite(d) ==
  LET batch == Head(queue[d])
      answer == Head(answers[d])
  IN
  /\ answers[d] # <<>> /\ answer.ok
  /\ callbacks' = [callbacks EXCEPT ![d] = @ \ {batch.id}]
  /\ cache' = [cache EXCEPT ![d][batch.name] =
                  IF @.version < answer.version
                  THEN Acknowledged(batch.mutation, @, answer) ELSE @]
  /\ queue' = [queue EXCEPT ![d] = Tail(@)]
  /\ answers' = [answers EXCEPT ![d] = Tail(@)]
  /\ UNCHANGED <<server, commits, nextBatchId, snapshots, writes, failures>>

\* Seeded fault: a permanent error is retried like a transient one.
RetryRejectedWrite(d) ==
  /\ answers[d] # <<>> /\ ~Head(answers[d]).ok
  /\ answers' = [answers EXCEPT ![d] = <<>>]
  /\ UNCHANGED <<server, commits, disk, nextBatchId, callbacks, snapshots,
                 writes, failures>>

\* A permanent error: the head of the queue is dropped, the stream restarts.
HandleRejectedWrite(d) ==
  /\ answers[d] # <<>> /\ ~Head(answers[d]).ok
  /\ callbacks' = [callbacks EXCEPT ![d] = @ \ {Head(queue[d]).id}]
  /\ queue' = [queue EXCEPT ![d] = Tail(@)]
  /\ answers' = [answers EXCEPT ![d] = <<>>]
  /\ UNCHANGED <<server, commits, cache, nextBatchId, snapshots, writes, failures>>

(***************************************************************************)
(* The watch stream: a consistent snapshot of the collection is sent when  *)
(* it has news for the device, and later applied document by document, the *)
(* outdated ones ignored.                                                  *)
(***************************************************************************)
\* Seeded fault: an outdated document is not ignored.
AcceptsAny(cached, update) == update.version > 0

\* Seeded fault: a document at the version of the acknowledgement is ignored.
AcceptsNewer(cached, update) == update.version > cached.version

Accepts(cached, update) ==
  \/ update.version > cached.version
  \/ update.version = cached.version /\ cached.committed

ServerSendsSnapshot(d) ==
  /\ Len(snapshots[d]) < WatchWindow
  /\ \E n \in Name : Accepts(cache[d][n], server[n])
  /\ snapshots' = [snapshots EXCEPT ![d] = Append(@, server)]
  /\ UNCHANGED <<server, commits, disk, nextBatchId, callbacks, answers,
                 writes, failures>>

ApplyRemoteEvent(d) ==
  LET snapshot == Head(snapshots[d]) IN
  /\ snapshots[d] # <<>>
  /\ cache' = [cache EXCEPT ![d] = [n \in Name |->
       IF Accepts(@[n], snapshot[n])
       THEN [doc |-> snapshot[n].doc, version |-> snapshot[n].version,
             committed |-> FALSE]
       ELSE @[n]]]
  /\ snapshots' = [snapshots EXCEPT ![d] = Tail(@)]
  /\ UNCHANGED <<server, commits, queue, nextBatchId, callbacks, answers,
                 writes, failures>>

(***************************************************************************)
(* Failures.  When the write stream is opened again the whole pipeline is  *)
(* sent again, and what the server had committed without the client        *)
(* hearing of it is committed twice.                                       *)
(***************************************************************************)
CloseWriteStream(d) == answers' = [answers EXCEPT ![d] = <<>>]

CloseWatchStream(d) == snapshots' = [snapshots EXCEPT ![d] = <<>>]

\* Each stream closes for itself, or both do with the connection under them.
LoseConnection(d) ==
  /\ failures < MaxFailures
  /\ \/ CloseWriteStream(d) /\ CloseWatchStream(d)
     \/ CloseWriteStream(d) /\ UNCHANGED snapshots
     \/ CloseWatchStream(d) /\ UNCHANGED answers
  /\ failures' = failures + 1
  /\ UNCHANGED <<server, commits, disk, nextBatchId, callbacks, writes>>

\* Seeded fault: the queue on disk is not looked at.
FirstBatchId(q) == 1

\* One more than the largest batch id still queued.
NextBatchIdFrom(q) == IF q = <<>> THEN 1 ELSE q[Len(q)].id + 1

\* The app is killed and launched again.  The callbacks are gone.
Restart(d) ==
  /\ failures < MaxFailures
  /\ CloseWriteStream(d) /\ CloseWatchStream(d)
  /\ callbacks' = [callbacks EXCEPT ![d] = {}]
  /\ nextBatchId' = [nextBatchId EXCEPT ![d] = NextBatchIdFrom(queue[d])]
  /\ failures' = failures + 1
  /\ UNCHANGED <<server, commits, disk, writes>>

ClientStep(d) ==
  \/ ServerCommits(d)
  \/ HandleSuccessfulWrite(d)
  \/ HandleRejectedWrite(d)
  \/ ServerSendsSnapshot(d)
  \/ ApplyRemoteEvent(d)

Next ==
  \E d \in Device :
    \/ \E n \in Name, m \in Mutation : WriteMutation(d, n, m)
    \/ ClientStep(d)
    \/ LoseConnection(d)
    \/ Restart(d)

\* The streams are retried until they are open, and both ends keep serving
\* them; nobody has to write, and nothing has to fail.
Fairness ==
  \A d \in Device :
    /\ WF_vars(ServerCommits(d))
    /\ WF_vars(HandleSuccessfulWrite(d))
    /\ WF_vars(HandleRejectedWrite(d))
    /\ WF_vars(ServerSendsSnapshot(d))
    /\ WF_vars(ApplyRemoteEvent(d))

Spec == Init /\ [][Next]_vars

FairSpec == Spec /\ Fairness

-----------------------------------------------------------------------------
(* Type invariant                                                          *)

TypeOK ==
  /\ server \in [Name -> Versioned]
  /\ commits \in Nat
  /\ cache \in [Device -> [Name -> [doc : MaybeDocument, version : Nat,
                                    committed : BOOLEAN]]]
  /\ queue \in [Device -> Seq(Batch)]
  /\ nextBatchId \in [Device -> Nat]
  /\ callbacks \in [Device -> SUBSET Nat]
  /\ answers \in [Device -> Seq(Answer)]
  /\ snapshots \in [Device -> Seq([Name -> Versioned])]
  /\ writes \in Nat
  /\ failures \in Nat

-----------------------------------------------------------------------------
(* Safety                                                                  *)

\* The answers in flight are those of the first batches of the queue, in its
\* order, although the client only matches them by position: no restart, lost
\* connection or refusal makes it take one batch's answer for another's.
AnswersMatchQueue ==
  \A d \in Device :
    /\ Len(answers[d]) <= Len(queue[d])
    /\ \A i \in 1 .. Len(answers[d]) : answers[d][i].batch = queue[d][i].id

\* Batch ids are never reused while they are queued, also across a restart
\* that recomputes them, so a callback belongs to one queued write and the
\* write of a callback that is still to be called is still queued.
CallbacksNameQueuedWrites ==
  \A d \in Device :
    /\ \A i, j \in 1 .. Len(queue[d]) : i < j => queue[d][i].id < queue[d][j].id
    /\ \A i \in 1 .. Len(queue[d]) : queue[d][i].id < nextBatchId[d]
    /\ \A id \in callbacks[d] : \E i \in 1 .. Len(queue[d]) : queue[d][i].id = id

\* A copy of a document no newer than the server's, and equal to it if as new.
OldOrCurrent(copy, n) ==
  /\ copy.version <= server[n].version
  /\ copy.version = server[n].version => copy.doc = server[n].doc

\* What a device caches of a document is never ahead of the server, and is the
\* server's document if it has the server's version; only a cached document
\* that holds an acknowledged write, applied to a base that may be old, can
\* differ.
CacheCoherent ==
  \A d \in Device, n \in Name :
    /\ cache[d][n].version <= server[n].version
    /\ ~cache[d][n].committed => OldOrCurrent(cache[d][n], n)

-----------------------------------------------------------------------------
(* Action properties                                                       *)

\* The cache never goes back to an older document, whatever the order in
\* which answers and snapshots arrive.
CacheAdvances ==
  [][\A d \in Device, n \in Name :
       cache'[d][n].version >= cache[d][n].version]_vars

\* An answer newer than the cached document, which the watch stream has thus not
\* brought up to date, does not change what the app sees of any habit.
AnswerChangesNothing(d) ==
  (/\ answers[d] # <<>> /\ Head(answers[d]).ok
   /\ queue'[d] = Tail(queue[d])
   /\ cache[d][Head(queue[d]).name].version < Head(answers[d]).version)
    => \A n \in Name : LocalView(d, n)'.data = LocalView(d, n).data

NoFlicker == [][\A d \in Device : AnswerChangesNothing(d)]_vars

-----------------------------------------------------------------------------
(* Liveness                                                                *)

\* Every write is resolved at last, also after a restart or a lost answer.
EveryWriteResolves ==
  \A d \in Device : (queue[d] # <<>>) ~> (queue[d] = <<>>)

\* Once the writing is over every device shows the server's collection.
Converges ==
  <>[](\A d \in Device, n \in Name :
         /\ LocalView(d, n) = server[n].doc
         /\ ~cache[d][n].committed)

-----------------------------------------------------------------------------
(* The client keeps the promise of WriteLog: the write streams, the cache  *)
(* and the watch stream are its own affair.                                *)

Log == INSTANCE WriteLog WITH
  BatchId <- 1 .. MaxWrites,
  documents <- [n \in Name |-> server[n].doc],
  pending <- queue,
  applied <- [d \in Device |-> Len(answers[d])],
  waiting <- callbacks

KeepsWriteLog == Log!LogSpec
=============================================================================
