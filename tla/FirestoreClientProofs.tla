----------------------- MODULE FirestoreClientProofs -----------------------
(***************************************************************************)
(* Proofs about FirestoreClient, for any number of devices, habits, days,  *)
(* writes and failures.                                                    *)
(***************************************************************************)
EXTENDS FirestoreClient, Counting

-----------------------------------------------------------------------------
(* The documents                                                           *)

\* A write turns a document into a document, as the app sees it and as the
\* cache stores it.
LEMMA MutationType ==
  ASSUME NEW m \in Mutation, NEW doc \in MaybeDocument
  PROVE  /\ ApplyToLocalView(m, doc) \in MaybeDocument
         /\ ApplyToRemoteDocument(m, doc) \in MaybeDocument
<1>1. doc.data \in Data
  BY DEF MaybeDocument, NoDocument, UnknownDocument, EmptyData, Data
<1>2. m.op # "delete" => Written(m, doc.data) \in Data
  BY <1>1 DEF Written, Mutation, Data
<1>3. Result(m, doc) \in MaybeDocument
  BY <1>2 DEF Result, Document, MaybeDocument
<1> QED BY <1>3 DEF ApplyToLocalView, ApplyToRemoteDocument, MaybeDocument

-----------------------------------------------------------------------------
(* Type correctness                                                        *)

LEMMA TypeInit == Init => TypeOK
BY ClientAssumption DEF Init, TypeOK, Versioned, MaybeDocument, Batch, Answer

\* The types alone are not inductive: that the queue has a head when an answer
\* arrives, which the code asserts, is AnswersMatchQueue.
LEMMA AnswerHasBatch ==
  ASSUME TypeOK, AnswersMatchQueue, NEW d \in Device, answers[d] # <<>>
  PROVE  /\ queue[d] # <<>>
         /\ Head(queue[d]) \in Batch
         /\ Tail(queue[d]) \in Seq(Batch)
         /\ Head(answers[d]) \in Answer
         /\ Tail(answers[d]) \in Seq(Answer)
BY DEF TypeOK, AnswersMatchQueue

LEMMA TypeNext == TypeOK /\ AnswersMatchQueue /\ [Next]_vars => TypeOK'
<1> SUFFICES ASSUME TypeOK, AnswersMatchQueue, [Next]_vars PROVE TypeOK'
  OBVIOUS
<1> USE DEF TypeOK
<1>1. ASSUME NEW d \in Device, NEW n \in Name, NEW m \in Mutation,
             WriteMutation(d, n, m)
      PROVE  TypeOK'
  <2>1. [id |-> nextBatchId[d], name |-> n, mutation |-> m] \in Batch
    BY DEF Batch
  <2> QED BY <1>1, <2>1 DEF WriteMutation, disk, streams
<1>2. ASSUME NEW d \in Device, ServerCommits(d)
      PROVE  TypeOK'
  <2> DEFINE i == Len(answers[d]) + 1
             batch == queue[d][i]
             doc == ApplyToLocalView(batch.mutation, server[batch.name].doc)
             version == VersionOf(batch.mutation, server[batch.name], doc)
  <2>1. batch \in Batch
    <3>1. i <= Len(queue[d]) /\ Len(answers[d]) \in Nat
      BY <1>2 DEF ServerCommits
    <3> QED BY <3>1
  <2>2. batch.name \in Name /\ batch.id \in Nat /\ batch.mutation \in Mutation
    BY <2>1 DEF Batch
  <2>3. doc \in MaybeDocument /\ version \in Nat
    BY <2>2, MutationType DEF Versioned, VersionOf
  <2>4. [doc |-> doc, version |-> version] \in Versioned
    BY <2>3 DEF Versioned
  <2>5. /\ [ok |-> TRUE, version |-> version, batch |-> batch.id] \in Answer
        /\ [ok |-> FALSE, version |-> 0, batch |-> batch.id] \in Answer
    BY <2>2, <2>3 DEF Answer
  <2>f. UNCHANGED <<cache, queue, nextBatchId, callbacks, snapshots, writes, failures>>
    BY <1>2 DEF ServerCommits, disk
  <2> HIDE DEF version, doc, batch, i
  <2>6. CASE IsValidFor(batch.mutation, server[batch.name].doc)
    <3>1. /\ server' = [server EXCEPT ![batch.name] = [doc |-> doc, version |-> version]]
          /\ commits' = IF version > commits THEN version ELSE commits
          /\ answers' = [answers EXCEPT ![d] =
               Append(@, [ok |-> TRUE, version |-> version, batch |-> batch.id])]
      BY <1>2, <2>6 DEF ServerCommits, version, doc, batch, i
    <3>2. server' \in [Name -> Versioned] /\ commits' \in Nat
      BY <2>2, <2>3, <2>4, <3>1
    <3>3. answers' \in [Device -> Seq(Answer)]
      BY <2>5, <3>1
    <3> QED BY <2>f, <3>2, <3>3
  <2>7. CASE ~IsValidFor(batch.mutation, server[batch.name].doc)
    <3>1. /\ answers' = [answers EXCEPT ![d] =
               Append(@, [ok |-> FALSE, version |-> 0, batch |-> batch.id])]
          /\ UNCHANGED <<server, commits>>
      BY <1>2, <2>7 DEF ServerCommits, batch, i
    <3>2. answers' \in [Device -> Seq(Answer)]
      BY <2>5, <3>1
    <3> QED BY <2>f, <3>1, <3>2
  <2> QED BY <2>6, <2>7
<1>3. ASSUME NEW d \in Device, HandleSuccessfulWrite(d)
      PROVE  TypeOK'
  <2> DEFINE batch == Head(queue[d])
             answer == Head(answers[d])
  <2>1. /\ batch \in Batch /\ Tail(queue[d]) \in Seq(Batch)
        /\ answer \in Answer /\ Tail(answers[d]) \in Seq(Answer)
    BY <1>3, AnswerHasBatch DEF HandleSuccessfulWrite
  <2>2. \A cached \in [doc : MaybeDocument, version : Nat, committed : BOOLEAN] :
          Acknowledged(batch.mutation, cached, answer)
            \in [doc : MaybeDocument, version : Nat, committed : BOOLEAN]
    BY <2>1, MutationType DEF Acknowledged, Batch, Answer
  <2>3. cache' \in [Device -> [Name -> [doc : MaybeDocument, version : Nat,
                                       committed : BOOLEAN]]]
    BY <1>3, <2>1, <2>2 DEF HandleSuccessfulWrite, Batch
  <2>4. queue' \in [Device -> Seq(Batch)] /\ answers' \in [Device -> Seq(Answer)]
    BY <1>3, <2>1 DEF HandleSuccessfulWrite
  <2> QED BY <1>3, <2>3, <2>4 DEF HandleSuccessfulWrite
<1>4. ASSUME NEW d \in Device, HandleRejectedWrite(d)
      PROVE  TypeOK'
  <2>1. Tail(queue[d]) \in Seq(Batch)
    BY <1>4, AnswerHasBatch DEF HandleRejectedWrite
  <2> QED BY <1>4, <2>1 DEF HandleRejectedWrite
<1>5. ASSUME NEW d \in Device, ServerSendsSnapshot(d)
      PROVE  TypeOK'
  BY <1>5 DEF ServerSendsSnapshot, disk
<1>6. ASSUME NEW d \in Device, ApplyRemoteEvent(d)
      PROVE  TypeOK'
  <2> DEFINE snapshot == Head(snapshots[d])
  <2>1. snapshot \in [Name -> Versioned] /\ Tail(snapshots[d]) \in Seq([Name -> Versioned])
    BY <1>6 DEF ApplyRemoteEvent
  <2>2. cache' \in [Device -> [Name -> [doc : MaybeDocument, version : Nat,
                                       committed : BOOLEAN]]]
    BY <1>6, <2>1 DEF ApplyRemoteEvent, Versioned
  <2> QED BY <1>6, <2>1, <2>2 DEF ApplyRemoteEvent
<1>7. ASSUME NEW d \in Device, LoseConnection(d)
      PROVE  TypeOK'
  <2>1. answers' = answers \/ answers' = [answers EXCEPT ![d] = <<>>]
    BY <1>7 DEF LoseConnection, CloseWriteStream
  <2>2. snapshots' = snapshots \/ snapshots' = [snapshots EXCEPT ![d] = <<>>]
    BY <1>7 DEF LoseConnection, CloseWatchStream
  <2>3. answers' \in [Device -> Seq(Answer)]
    <3>1. [answers EXCEPT ![d] = <<>>] \in [Device -> Seq(Answer)]
      OBVIOUS
    <3>. QED
      BY <2>1, <3>1
  <2>4. snapshots' \in [Device -> Seq([Name -> Versioned])]
    <3>1. [snapshots EXCEPT ![d] = <<>>] \in [Device -> Seq([Name -> Versioned])]
      OBVIOUS
    <3>. QED
      BY <2>2, <3>1
  <2>. QED
    BY <1>7, <2>3, <2>4 DEF LoseConnection, disk
<1>8. ASSUME NEW d \in Device, Restart(d)
      PROVE  TypeOK'
  <2>1. queue[d] # <<>> => queue[d][Len(queue[d])] \in Batch
    OBVIOUS
  <2>2. NextBatchIdFrom(queue[d]) \in Nat
    BY <2>1 DEF NextBatchIdFrom, Batch
  <2> QED BY <1>8, <2>2 DEF Restart, CloseWriteStream, CloseWatchStream, disk
<1>9. CASE UNCHANGED vars
  BY <1>9 DEF vars
<1> QED BY <1>1, <1>2, <1>3, <1>4, <1>5, <1>6, <1>7, <1>8, <1>9 DEF Next, ClientStep

-----------------------------------------------------------------------------
(* The order of the streams                                                *)

\* The first answer is the head's, and the rest answer the rest.
LEMMA OrderInit == Init => AnswersMatchQueue
BY DEF Init, AnswersMatchQueue

\* One device's part of AnswersMatchQueue.
Matched(d) ==
  /\ Len(answers[d]) <= Len(queue[d])
  /\ \A i \in 1 .. Len(answers[d]) : answers[d][i].batch = queue[d][i].id

LEMMA OrderNext == TypeOK /\ AnswersMatchQueue /\ [Next]_vars => AnswersMatchQueue'
<1> SUFFICES ASSUME TypeOK, AnswersMatchQueue, [Next]_vars,
                    NEW e \in Device
             PROVE  Matched(e)'
  BY DEF AnswersMatchQueue, Matched
<1>0. Matched(e)
  BY DEF AnswersMatchQueue, Matched
<1>a. queue \in [Device -> Seq(Batch)] /\ answers \in [Device -> Seq(Answer)]
  BY DEF TypeOK
<1>1. ASSUME NEW d \in Device, NEW n \in Name, NEW m \in Mutation,
             WriteMutation(d, n, m)
      PROVE  Matched(e)'
  <2>1. queue'[e] = queue[e] \/ \E b \in Batch : queue'[e] = Append(queue[e], b)
    <3>1. [id |-> nextBatchId[d], name |-> n, mutation |-> m] \in Batch
      BY DEF Batch, TypeOK
    <3> QED BY <1>1, <1>a, <3>1 DEF WriteMutation
  <2>2. /\ Len(queue[e]) <= Len(queue'[e])
        /\ \A i \in 1 .. Len(queue[e]) : queue'[e][i] = queue[e][i]
    BY <1>a, <2>1
  <2>3. answers'[e] = answers[e] /\ Len(answers[e]) \in Nat /\ Len(queue[e]) \in Nat
        /\ Len(queue'[e]) \in Nat
    BY <1>1, <1>a, <2>1 DEF WriteMutation, streams
  <2> QED BY <1>0, <2>2, <2>3 DEF Matched
<1>2. ASSUME NEW d \in Device, ServerCommits(d)
      PROVE  Matched(e)'
  <2>1. /\ queue' = queue
        /\ Len(answers[d]) + 1 <= Len(queue[d])
        /\ \E a : /\ answers' = [answers EXCEPT ![d] = Append(@, a)]
                  /\ a.batch = queue[d][Len(answers[d]) + 1].id
    <3> DEFINE b == queue[d][Len(answers[d]) + 1]
               doc == ApplyToLocalView(b.mutation, server[b.name].doc)
               version == VersionOf(b.mutation, server[b.name], doc)
               ok == [ok |-> TRUE, version |-> version, batch |-> b.id]
               refused == [ok |-> FALSE, version |-> 0, batch |-> b.id]
    <3>1. queue' = queue /\ Len(answers[d]) + 1 <= Len(queue[d])
      BY <1>2 DEF ServerCommits, disk
    <3>2. CASE IsValidFor(b.mutation, server[b.name].doc)
      <4>1. answers' = [answers EXCEPT ![d] = Append(@, ok)]
        BY <1>2, <3>2 DEF ServerCommits
      <4>2. ok.batch = b.id
        OBVIOUS
      <4> HIDE DEF ok
      <4> QED BY <3>1, <4>1, <4>2
    <3>3. CASE ~IsValidFor(b.mutation, server[b.name].doc)
      <4>1. answers' = [answers EXCEPT ![d] = Append(@, refused)]
        BY <1>2, <3>3 DEF ServerCommits
      <4>2. refused.batch = b.id
        OBVIOUS
      <4> HIDE DEF refused
      <4> QED BY <3>1, <4>1, <4>2
    <3> QED BY <3>2, <3>3
  <2>2. CASE e # d
    <3>1. answers'[e] = answers[e]
      BY <1>a, <2>1, <2>2
    <3> QED BY <1>0, <2>1, <3>1 DEF Matched
  <2>3. CASE e = d
    <3>1. PICK a : /\ answers'[e] = Append(answers[e], a)
                   /\ a.batch = queue[e][Len(answers[e]) + 1].id
      BY <1>a, <2>1, <2>3
    <3>2. /\ Len(answers'[e]) = Len(answers[e]) + 1
          /\ answers'[e][Len(answers[e]) + 1] = a
          /\ \A i \in 1 .. Len(answers[e]) : answers'[e][i] = answers[e][i]
          /\ Len(answers[e]) \in Nat
      BY <1>a, <3>1
    <3> QED BY <1>0, <2>1, <2>3, <3>1, <3>2 DEF Matched
  <2> QED BY <2>2, <2>3
<1>3. ASSUME NEW d \in Device, HandleSuccessfulWrite(d)
      PROVE  Matched(e)'
  <2>1. /\ queue' = [queue EXCEPT ![d] = Tail(@)]
        /\ answers' = [answers EXCEPT ![d] = Tail(@)]
        /\ answers[d] # <<>> /\ queue[d] # <<>>
    BY <1>3, AnswerHasBatch DEF HandleSuccessfulWrite
  <2> QED BY <1>0, <1>a, <2>1 DEF Matched
<1>4. ASSUME NEW d \in Device, HandleRejectedWrite(d)
      PROVE  Matched(e)'
  <2>1. /\ queue' = [queue EXCEPT ![d] = Tail(@)]
        /\ answers' = [answers EXCEPT ![d] = <<>>]
        /\ queue[d] # <<>>
    BY <1>4, AnswerHasBatch DEF HandleRejectedWrite
  <2> QED BY <1>0, <1>a, <2>1 DEF Matched
<1>5. ASSUME NEW d \in Device, ServerSendsSnapshot(d) \/ ApplyRemoteEvent(d)
      PROVE  Matched(e)'
  BY <1>0, <1>5 DEF ServerSendsSnapshot, ApplyRemoteEvent, disk, Matched
<1>6. ASSUME NEW d \in Device, LoseConnection(d) \/ Restart(d)
      PROVE  Matched(e)'
  <2>1. /\ queue' = queue
        /\ \/ answers' = answers
           \/ answers' = [answers EXCEPT ![d] = <<>>]
    BY <1>6 DEF LoseConnection, Restart, CloseWriteStream, disk
  <2> QED BY <1>0, <1>a, <2>1 DEF Matched
<1>7. CASE UNCHANGED vars
  BY <1>0, <1>7 DEF vars, Matched
<1> QED BY <1>1, <1>2, <1>3, <1>4, <1>5, <1>6, <1>7 DEF Next, ClientStep

\* THEOREM: in every behaviour the variables have their types, and the client
\* never takes the answer to one write for the answer to another.
THEOREM TypeAndOrder == Spec => [](TypeOK /\ AnswersMatchQueue)
<1>1. Init => TypeOK /\ AnswersMatchQueue
  BY TypeInit, OrderInit
<1>2. TypeOK /\ AnswersMatchQueue /\ [Next]_vars => (TypeOK /\ AnswersMatchQueue)'
  BY TypeNext, OrderNext
<1> QED BY <1>1, <1>2, PTL DEF Spec

-----------------------------------------------------------------------------
(* Batch ids and callbacks                                                 *)

\* One device's part of CallbacksNameQueuedWrites, of a queue, the next id and
\* the callbacks.
Named(q, next, waiting) ==
  /\ \A i, j \in 1 .. Len(q) : i < j => q[i].id < q[j].id
  /\ \A i \in 1 .. Len(q) : q[i].id < next
  /\ \A id \in waiting : \E i \in 1 .. Len(q) : q[i].id = id

LEMMA QueuedIds ==
  ASSUME NEW q \in Seq(Batch)
  PROVE  \A i \in 1 .. Len(q) : q[i].id \in Nat
<1>1. ASSUME NEW i \in 1 .. Len(q) PROVE q[i] \in Batch
  OBVIOUS
<1>2. \A b \in Batch : b.id \in Nat
  BY DEF Batch
<1> QED BY <1>1, <1>2

\* A batch with the next id keeps them named.
LEMMA NamedAppend ==
  ASSUME NEW q \in Seq(Batch), NEW next \in Nat, NEW waiting, Named(q, next, waiting),
         NEW b \in Batch, b.id = next
  PROVE  Named(Append(q, b), next + 1, waiting \cup {next})
<1> DEFINE p == Append(q, b)
<1>1. /\ Len(p) = Len(q) + 1 /\ Len(q) \in Nat
      /\ p[Len(p)] = b
      /\ \A i \in 1 .. Len(q) : p[i] = q[i]
  OBVIOUS
<1>0. \A i \in 1 .. Len(q) : q[i].id \in Nat
  BY QueuedIds
<1> HIDE DEF p
<1>2. \A i, j \in 1 .. Len(p) : i < j => p[i].id < p[j].id
  BY <1>0, <1>1 DEF Named
<1>3. \A i \in 1 .. Len(p) : p[i].id < next + 1
  BY <1>0, <1>1 DEF Named
<1>4. \A id \in waiting \cup {next} : \E i \in 1 .. Len(p) : p[i].id = id
  BY <1>1 DEF Named
<1> QED BY <1>2, <1>3, <1>4 DEF Named, p

\* So does taking the head off, and its callback with it.
LEMMA NamedTail ==
  ASSUME NEW q \in Seq(Batch), NEW next \in Nat, NEW waiting, Named(q, next, waiting),
         q # <<>>
  PROVE  Named(Tail(q), next, waiting \ {Head(q).id})
<1> DEFINE p == Tail(q)
<1>1. /\ Len(p) = Len(q) - 1 /\ Len(q) \in Nat \ {0}
      /\ \A i \in 1 .. Len(p) : p[i] = q[i + 1]
      /\ Head(q) = q[1]
  OBVIOUS
<1> HIDE DEF p
<1>2. \A i, j \in 1 .. Len(p) : i < j => p[i].id < p[j].id
  BY <1>1 DEF Named
<1>3. \A i \in 1 .. Len(p) : p[i].id < next
  BY <1>1 DEF Named
<1>4. ASSUME NEW id \in waiting \ {Head(q).id}
      PROVE  \E i \in 1 .. Len(p) : p[i].id = id
  <2>1. PICK i \in 1 .. Len(q) : q[i].id = id
    BY DEF Named
  <2>2. i # 1
    BY <1>1, <2>1
  <2>3. i - 1 \in 1 .. Len(p) /\ p[i - 1] = q[i]
    BY <1>1, <2>2
  <2> QED BY <2>1, <2>3
<1> QED BY <1>2, <1>3, <1>4 DEF Named, p

\* What a restart computes is above every id in the queue.
LEMMA NamedRestart ==
  ASSUME NEW q \in Seq(Batch), NEW next, NEW waiting, Named(q, next, waiting)
  PROVE  Named(q, NextBatchIdFrom(q), {})
<1>1. \A i \in 1 .. Len(q) : q[i].id \in Nat
  BY QueuedIds
<1>2. ASSUME NEW i \in 1 .. Len(q) PROVE q[i].id < NextBatchIdFrom(q)
  <2>1. q # <<>> /\ Len(q) \in 1 .. Len(q)
    OBVIOUS
  <2>2. q[i].id <= q[Len(q)].id
    BY <1>1, <2>1 DEF Named
  <2> QED BY <1>1, <2>1, <2>2 DEF NextBatchIdFrom
<1> QED BY <1>2 DEF Named

LEMMA CallbacksInit == Init => CallbacksNameQueuedWrites
BY DEF Init, CallbacksNameQueuedWrites

LEMMA CallbacksNext ==
  /\ TypeOK /\ AnswersMatchQueue /\ CallbacksNameQueuedWrites
  /\ [Next]_vars
  => CallbacksNameQueuedWrites'
<1> SUFFICES ASSUME TypeOK, AnswersMatchQueue, CallbacksNameQueuedWrites, [Next]_vars,
                    NEW e \in Device
             PROVE  Named(queue'[e], nextBatchId'[e], callbacks'[e])
  BY DEF CallbacksNameQueuedWrites, Named
<1>0. Named(queue[e], nextBatchId[e], callbacks[e])
  BY DEF CallbacksNameQueuedWrites, Named
<1>a. /\ queue \in [Device -> Seq(Batch)]
      /\ nextBatchId \in [Device -> Nat]
      /\ callbacks \in [Device -> SUBSET Nat]
  BY DEF TypeOK
<1>1. ASSUME NEW d \in Device, NEW n \in Name, NEW m \in Mutation,
             WriteMutation(d, n, m)
      PROVE  Named(queue'[e], nextBatchId'[e], callbacks'[e])
  <2> DEFINE b == [id |-> nextBatchId[d], name |-> n, mutation |-> m]
  <2>1. b \in Batch /\ b.id = nextBatchId[d]
    BY <1>a DEF Batch
  <2>2. /\ queue' = [queue EXCEPT ![d] = Append(@, b)]
        /\ nextBatchId' = [nextBatchId EXCEPT ![d] = @ + 1]
        /\ callbacks' = [callbacks EXCEPT ![d] = @ \cup {nextBatchId[d]}]
    BY <1>1 DEF WriteMutation
  <2> HIDE DEF b
  <2>3. CASE e = d
    <3>1. /\ queue'[e] = Append(queue[e], b)
          /\ nextBatchId'[e] = nextBatchId[e] + 1
          /\ callbacks'[e] = callbacks[e] \cup {nextBatchId[e]}
      BY <1>a, <2>2, <2>3
    <3> QED BY <1>0, <1>a, <2>1, <2>3, <3>1, NamedAppend
  <2>4. CASE e # d
    BY <1>0, <1>a, <2>2, <2>4
  <2> QED BY <2>3, <2>4
<1>2. ASSUME NEW d \in Device, HandleSuccessfulWrite(d) \/ HandleRejectedWrite(d)
      PROVE  Named(queue'[e], nextBatchId'[e], callbacks'[e])
  <2>1. /\ queue' = [queue EXCEPT ![d] = Tail(@)]
        /\ callbacks' = [callbacks EXCEPT ![d] = @ \ {Head(queue[d]).id}]
        /\ nextBatchId' = nextBatchId
        /\ queue[d] # <<>>
    BY <1>2, AnswerHasBatch DEF HandleSuccessfulWrite, HandleRejectedWrite
  <2>2. CASE e = d
    <3>1. /\ queue'[e] = Tail(queue[e])
          /\ callbacks'[e] = callbacks[e] \ {Head(queue[e]).id}
          /\ nextBatchId'[e] = nextBatchId[e]
      BY <1>a, <2>1, <2>2
    <3> QED BY <1>0, <1>a, <2>1, <2>2, <3>1, NamedTail
  <2>3. CASE e # d
    BY <1>0, <1>a, <2>1, <2>3
  <2> QED BY <2>2, <2>3
<1>3. ASSUME NEW d \in Device, ServerCommits(d) \/ ServerSendsSnapshot(d)
                                 \/ ApplyRemoteEvent(d) \/ LoseConnection(d)
      PROVE  Named(queue'[e], nextBatchId'[e], callbacks'[e])
  BY <1>0, <1>3 DEF ServerCommits, ServerSendsSnapshot, ApplyRemoteEvent, LoseConnection,
                    disk
<1>4. ASSUME NEW d \in Device, Restart(d)
      PROVE  Named(queue'[e], nextBatchId'[e], callbacks'[e])
  <2>1. /\ queue' = queue
        /\ callbacks' = [callbacks EXCEPT ![d] = {}]
        /\ nextBatchId' = [nextBatchId EXCEPT ![d] = NextBatchIdFrom(queue[d])]
    BY <1>4 DEF Restart, disk
  <2>2. CASE e = d
    <3>1. /\ queue'[e] = queue[e] /\ callbacks'[e] = {}
          /\ nextBatchId'[e] = NextBatchIdFrom(queue[e])
      BY <1>a, <2>1, <2>2
    <3> QED BY <1>0, <1>a, <3>1, NamedRestart
  <2>3. CASE e # d
    BY <1>0, <1>a, <2>1, <2>3
  <2> QED BY <2>2, <2>3
<1>5. CASE UNCHANGED vars
  BY <1>0, <1>5 DEF vars
<1> QED BY <1>1, <1>2, <1>3, <1>4, <1>5 DEF Next, ClientStep

\* THEOREM: no restart ever gives a new write the id of one that is queued, so
\* a completion block is only ever called for the write it was given with.
THEOREM CallbacksAreNamed == Spec => []CallbacksNameQueuedWrites
<1>1. CallbacksNameQueuedWrites /\ TypeOK /\ AnswersMatchQueue /\ [Next]_vars
        => CallbacksNameQueuedWrites'
  BY CallbacksNext
<1> QED BY CallbacksInit, <1>1, TypeAndOrder, PTL DEF Spec

-----------------------------------------------------------------------------
(* The cache and the server                                                *)

\* What is on its way to a device is no newer than the server's either: the
\* documents of a snapshot are old or current ones, and no answer names an update
\* time the server has not given its document.
StreamsCoherent ==
  /\ \A n \in Name : server[n].version <= commits
  /\ \A d \in Device, n \in Name : \A i \in 1 .. Len(snapshots[d]) :
       OldOrCurrent(snapshots[d][i][n], n)
  /\ \A d \in Device : \A i \in 1 .. Len(answers[d]) :
       answers[d][i].version <= server[queue[d][i].name].version

\* Neither of the two is inductive without the other, nor without the order of
\* the answers: an answer's version becomes the cached document's.
Coherent == CacheCoherent /\ StreamsCoherent

LEMMA CoherentInit == Init => Coherent
BY DEF Init, Coherent, CacheCoherent, StreamsCoherent, OldOrCurrent

\* A new state of the server is coherent with every copy of the old one.
LEMMA CommitKeepsCopies ==
  ASSUME TypeOK, Coherent, NEW d \in Device, ServerCommits(d)
  PROVE  /\ \A n \in Name : server'[n].version <= commits'
         /\ \A n \in Name : server[n].version <= server'[n].version
         /\ \A n \in Name :
              server'[n].version = server[n].version => server'[n] = server[n]
         /\ \E a : /\ answers' = [answers EXCEPT ![d] = Append(@, a)]
                   /\ a.version <= server'[queue[d][Len(answers[d]) + 1].name].version
<1> DEFINE i == Len(answers[d]) + 1
           batch == queue[d][i]
           old == server[batch.name]
           doc == ApplyToLocalView(batch.mutation, old.doc)
           version == VersionOf(batch.mutation, old, doc)
           ok == [ok |-> TRUE, version |-> version, batch |-> batch.id]
           refused == [ok |-> FALSE, version |-> 0, batch |-> batch.id]
           Committed ==
             /\ server' = [server EXCEPT ![batch.name] = [doc |-> doc, version |-> version]]
             /\ commits' = IF version > commits THEN version ELSE commits
             /\ answers' = [answers EXCEPT ![d] = Append(@, ok)]
           Refused ==
             /\ answers' = [answers EXCEPT ![d] = Append(@, refused)]
             /\ UNCHANGED <<server, commits>>
           Grown == \A n \in Name :
             /\ server'[n].version <= commits'
             /\ server[n].version <= server'[n].version
             /\ server'[n].version = server[n].version => server'[n] = server[n]
           Answered == \E a :
             /\ answers' = [answers EXCEPT ![d] = Append(@, a)]
             /\ a.version <= server'[batch.name].version
<1>1. batch.name \in Name
  <2>1. queue[d] \in Seq(Batch) /\ Len(answers[d]) \in Nat
    BY DEF TypeOK
  <2>2. i <= Len(queue[d])
    BY DEF ServerCommits
  <2>3. batch \in Batch
    BY <2>1, <2>2
  <2> QED BY <2>3 DEF Batch
<1>2. /\ commits \in Nat
      /\ \A n \in Name : server[n] \in Versioned /\ server[n].version \in Nat
                       /\ server[n].version <= commits
      /\ server = [n \in Name |-> server[n]]
  BY DEF TypeOK, Versioned, Coherent, StreamsCoherent
<1>3. \/ version = commits + 1
      \/ version = old.version /\ doc = old.doc
  BY DEF VersionOf
<1>4. Committed \/ Refused
  BY DEF ServerCommits
<1>5. old = [doc |-> old.doc, version |-> old.version]
  BY <1>1, <1>2 DEF Versioned
<1>6. ok.version = version /\ refused.version = 0
  OBVIOUS
<1> HIDE DEF version, doc, ok, refused, Grown, Answered
<1>7. ASSUME Committed PROVE Grown /\ Answered
  <2>0. /\ server' = [server EXCEPT ![batch.name] = [doc |-> doc, version |-> version]]
        /\ commits' = IF version > commits THEN version ELSE commits
    BY <1>7
  <2> HIDE DEF batch, Committed
  <2>1. /\ \A n \in Name : n # batch.name => server'[n] = server[n]
        /\ server'[batch.name] = [doc |-> doc, version |-> version]
        /\ server'[batch.name].version = version
    BY <1>1, <1>2, <2>0
  <2>2. version \in Nat /\ version <= commits' /\ commits <= commits'
        /\ commits' \in Nat /\ old.version <= version
    BY <1>1, <1>2, <1>3, <2>0
  <2>3. version = old.version => server'[batch.name] = old
    BY <1>1, <1>2, <1>3, <1>5, <2>1
  <2>4. \A n \in Name : /\ server'[n].version <= commits'
                        /\ server[n].version <= server'[n].version
                        /\ server'[n].version = server[n].version
                             => server'[n] = server[n]
    BY <1>2, <2>1, <2>2, <2>3
  <2>5. Answered
    <3>1. /\ answers' = [answers EXCEPT ![d] = Append(@, ok)]
          /\ ok.version <= server'[batch.name].version
      BY <1>6, <1>7, <2>1, <2>2 DEF Committed
    <3> QED BY <3>1 DEF Answered
  <2> QED BY <2>4, <2>5 DEF Grown
<1>8. ASSUME Refused PROVE Grown /\ Answered
  <2>1. /\ answers' = [answers EXCEPT ![d] = Append(@, refused)]
        /\ refused.version <= server'[batch.name].version
    BY <1>1, <1>2, <1>6, <1>8
  <2>2. Answered
    BY <2>1 DEF Answered
  <2>3. Grown
    BY <1>2, <1>8 DEF Grown
  <2> QED BY <2>2, <2>3
<1> HIDE DEF Committed, Refused
<1>9. Grown /\ Answered
  BY <1>4, <1>7, <1>8
<1> QED BY <1>9 DEF Grown, Answered

\* One device's part of Coherent.
CopyFine(copy, n) ==
  /\ copy.version <= server[n].version
  /\ ~copy.committed => OldOrCurrent(copy, n)

CopiesFine(d) ==
  /\ \A n \in Name : CopyFine(cache[d][n], n)
  /\ \A n \in Name : \A i \in 1 .. Len(snapshots[d]) : OldOrCurrent(snapshots[d][i][n], n)

AnswersFine(d) ==
  \A i \in 1 .. Len(answers[d]) :
    answers[d][i].version <= server[queue[d][i].name].version

\* A step that leaves the server alone is judged device by device.
LEMMA CoherentNext ==
  TypeOK /\ AnswersMatchQueue /\ Coherent /\ [Next]_vars => Coherent'
<1> SUFFICES ASSUME TypeOK, AnswersMatchQueue, Coherent, [Next]_vars
             PROVE  Coherent'
  OBVIOUS
<1>a. /\ queue \in [Device -> Seq(Batch)] /\ answers \in [Device -> Seq(Answer)]
      /\ snapshots \in [Device -> Seq([Name -> Versioned])]
      /\ \A n \in Name : server[n].version \in Nat
      /\ cache \in [Device -> [Name -> [doc : MaybeDocument, version : Nat,
                                        committed : BOOLEAN]]]
  BY DEF TypeOK, Versioned
<1>b. \A e \in Device : CopiesFine(e) /\ AnswersFine(e)
  BY DEF Coherent, CacheCoherent, StreamsCoherent, CopiesFine, CopyFine, AnswersFine
<1>c. \A n \in Name : server[n].version <= commits
  BY DEF Coherent, StreamsCoherent
<1> SUFFICES /\ \A n \in Name : server'[n].version <= commits'
             /\ \A e \in Device : CopiesFine(e)' /\ AnswersFine(e)'
  BY DEF Coherent, CacheCoherent, StreamsCoherent, CopiesFine, CopyFine, AnswersFine
<1> DEFINE Quiet == server' = server /\ commits' = commits
           Goal == /\ \A n \in Name : server'[n].version <= commits'
                   /\ \A e \in Device : CopiesFine(e)' /\ AnswersFine(e)'
<1>d. ASSUME NEW e \in Device, Quiet, cache'[e] = cache[e], snapshots'[e] = snapshots[e]
      PROVE  CopiesFine(e)'
  BY <1>b, <1>d DEF CopiesFine, CopyFine, OldOrCurrent
<1>e. ASSUME NEW e \in Device, Quiet, cache'[e] = cache[e], snapshots'[e] = <<>>
      PROVE  CopiesFine(e)'
  BY <1>b, <1>e DEF CopiesFine, CopyFine, OldOrCurrent
<1>f. ASSUME NEW e \in Device, Quiet, answers'[e] = answers[e], queue'[e] = queue[e]
      PROVE  AnswersFine(e)'
  BY <1>b, <1>f DEF AnswersFine
<1>g. ASSUME NEW e \in Device, answers'[e] = <<>>
      PROVE  AnswersFine(e)'
  BY <1>g DEF AnswersFine
<1>1. ASSUME NEW d \in Device, NEW n \in Name, NEW m \in Mutation,
             WriteMutation(d, n, m)
      PROVE  Goal
  <2>1. Quiet /\ cache' = cache /\ snapshots' = snapshots /\ answers' = answers
    BY <1>1 DEF WriteMutation, streams
  <2>2. ASSUME NEW e \in Device PROVE AnswersFine(e)'
    <3>1. \A i \in 1 .. Len(queue[e]) : queue'[e][i] = queue[e][i]
      <4>1. [id |-> nextBatchId[d], name |-> n, mutation |-> m] \in Batch
        BY DEF Batch, TypeOK
      <4>2. queue'[e] = queue[e] \/ \E b \in Batch : queue'[e] = Append(queue[e], b)
        BY <1>1, <1>a, <4>1 DEF WriteMutation
      <4> QED BY <1>a, <4>2
    <3>2. Len(answers[e]) <= Len(queue[e]) /\ Len(answers[e]) \in Nat /\ Len(queue[e]) \in Nat
      BY <1>a DEF AnswersMatchQueue
    <3>3. \A i \in 1 .. Len(answers[e]) : queue'[e][i] = queue[e][i]
      BY <3>1, <3>2
    <3> QED BY <1>b, <2>1, <3>3 DEF AnswersFine
  <2> QED BY <1>c, <1>d, <2>1, <2>2
<1>2. ASSUME NEW d \in Device, ServerCommits(d)
      PROVE  Goal
  <2>1. queue' = queue /\ cache' = cache /\ snapshots' = snapshots
    BY <1>2 DEF ServerCommits, disk
  <2>2. /\ \A n \in Name : server'[n].version <= commits'
        /\ \A n \in Name : server[n].version <= server'[n].version
        /\ \A n \in Name :
             server'[n].version = server[n].version => server'[n] = server[n]
    BY <1>2, CommitKeepsCopies
  <2>3. \A n \in Name : server'[n].version \in Nat
    <3>1. TypeOK'
      BY TypeNext
    <3> QED BY <3>1 DEF TypeOK, Versioned
  <2>4. ASSUME NEW e \in Device PROVE CopiesFine(e)'
    <3>1. ASSUME NEW n \in Name, NEW copy, copy.version \in Nat, OldOrCurrent(copy, n)
          PROVE  /\ copy.version <= server'[n].version
                 /\ copy.version = server'[n].version => copy.doc = server'[n].doc
      BY <1>a, <2>2, <2>3, <3>1 DEF OldOrCurrent
    <3>2. ASSUME NEW n \in Name PROVE CopyFine(cache[e][n], n)'
      <4>1. cache[e][n].version \in Nat
        BY <1>a
      <4>2. cache[e][n].version <= server'[n].version
        <5>1. cache[e][n].version <= server[n].version
          BY <1>b DEF CopiesFine, CopyFine
        <5>2. server[n].version <= server'[n].version
          BY <2>2
        <5> QED BY <1>a, <2>3, <4>1, <5>1, <5>2
      <4> QED BY <1>b, <2>1, <3>1, <4>1, <4>2 DEF CopiesFine, CopyFine, OldOrCurrent
    <3>3. ASSUME NEW n \in Name, NEW i \in 1 .. Len(snapshots[e])
          PROVE  OldOrCurrent(snapshots[e][i][n], n)'
      <4>1. snapshots[e][i][n].version \in Nat
        BY <1>a DEF Versioned
      <4> QED BY <1>b, <2>1, <3>1, <4>1 DEF CopiesFine, OldOrCurrent
    <3> QED BY <2>1, <3>2, <3>3 DEF CopiesFine
  <2>5. ASSUME NEW e \in Device PROVE AnswersFine(e)'
    <3>1. \A i \in 1 .. Len(answers[e]) :
            answers[e][i].version <= server'[queue[e][i].name].version
      <4> SUFFICES ASSUME NEW i \in 1 .. Len(answers[e])
                   PROVE  answers[e][i].version <= server'[queue[e][i].name].version
        OBVIOUS
      <4>1. answers[e][i] \in Answer /\ queue[e][i] \in Batch
        BY <1>a DEF AnswersMatchQueue
      <4>2. answers[e][i].version \in Nat /\ queue[e][i].name \in Name
        BY <4>1 DEF Answer, Batch
      <4> DEFINE n == queue[e][i].name
      <4>3. answers[e][i].version <= server[n].version
        BY <1>b DEF AnswersFine
      <4>4. server[n].version <= server'[n].version
        BY <2>2, <4>2
      <4>5. server[n].version \in Nat /\ server'[n].version \in Nat
        BY <1>a, <2>3, <4>2
      <4> HIDE DEF n
      <4>6. answers[e][i].version <= server'[n].version
        BY <4>2, <4>3, <4>4, <4>5
      <4> QED BY <4>6 DEF n
    <3>2. CASE e # d
      <4>1. answers'[e] = answers[e]
        BY <1>2, <1>a, <3>2, CommitKeepsCopies
      <4> QED BY <2>1, <3>1, <4>1 DEF AnswersFine
    <3>3. CASE e = d
      <4>1. PICK a : /\ answers'[e] = Append(answers[e], a)
                     /\ a.version <= server'[queue[e][Len(answers[e]) + 1].name].version
        BY <1>2, <1>a, <3>3, CommitKeepsCopies
      <4>2. /\ Len(answers'[e]) = Len(answers[e]) + 1
            /\ answers'[e][Len(answers[e]) + 1] = a
            /\ \A i \in 1 .. Len(answers[e]) : answers'[e][i] = answers[e][i]
            /\ Len(answers[e]) \in Nat
        BY <1>a, <4>1
      <4> QED BY <2>1, <3>1, <4>1, <4>2 DEF AnswersFine
    <3> QED BY <3>2, <3>3
  <2> QED BY <2>2, <2>4, <2>5
<1>3. ASSUME NEW d \in Device, HandleSuccessfulWrite(d)
      PROVE  Goal
  <2> DEFINE batch == Head(queue[d])
             answer == Head(answers[d])
  <2>1. /\ Quiet /\ snapshots' = snapshots
        /\ queue' = [queue EXCEPT ![d] = Tail(@)]
        /\ answers' = [answers EXCEPT ![d] = Tail(@)]
        /\ answers[d] # <<>> /\ queue[d] # <<>>
    BY <1>3, AnswerHasBatch DEF HandleSuccessfulWrite
  <2>2. ASSUME NEW e \in Device PROVE AnswersFine(e)'
    <3>1. CASE e = d
      BY <1>a, <1>b, <2>1, <3>1 DEF AnswersFine, AnswersMatchQueue
    <3>2. CASE e # d
      BY <1>a, <1>f, <2>1, <3>2
    <3> QED BY <3>1, <3>2
  <2>3. answer.version <= server[batch.name].version
    BY <1>a, <1>b, <2>1 DEF AnswersFine
  <2>4. ASSUME NEW e \in Device, NEW n \in Name PROVE CopyFine(cache'[e][n], n)
    <3>1. CASE cache'[e][n] = cache[e][n]
      BY <1>b, <3>1 DEF CopiesFine
    <3>2. CASE /\ n = batch.name
               /\ cache'[e][n] = Acknowledged(batch.mutation, cache[d][batch.name], answer)
      BY <2>3, <3>2 DEF CopyFine, Acknowledged
    <3>3. \/ cache'[e][n] = cache[e][n]
          \/ /\ n = batch.name
             /\ cache'[e][n] = Acknowledged(batch.mutation, cache[d][batch.name], answer)
      BY <1>3, <1>a DEF HandleSuccessfulWrite
    <3> QED BY <3>1, <3>2, <3>3
  <2>5. ASSUME NEW e \in Device PROVE CopiesFine(e)'
    BY <1>b, <2>1, <2>4 DEF CopiesFine, CopyFine, OldOrCurrent
  <2> QED BY <1>c, <2>1, <2>2, <2>5
<1>4. ASSUME NEW d \in Device, HandleRejectedWrite(d)
      PROVE  Goal
  <2>1. /\ Quiet /\ cache' = cache /\ snapshots' = snapshots
        /\ queue' = [queue EXCEPT ![d] = Tail(@)]
        /\ answers' = [answers EXCEPT ![d] = <<>>]
    BY <1>4 DEF HandleRejectedWrite
  <2>2. ASSUME NEW e \in Device PROVE AnswersFine(e)'
    BY <1>a, <1>f, <1>g, <2>1
  <2> QED BY <1>c, <1>d, <2>1, <2>2
<1>5. ASSUME NEW d \in Device, ServerSendsSnapshot(d)
      PROVE  Goal
  <2>1. /\ Quiet /\ cache' = cache /\ queue' = queue /\ answers' = answers
        /\ snapshots' = [snapshots EXCEPT ![d] = Append(@, server)]
    BY <1>5 DEF ServerSendsSnapshot, disk
  <2>2. ASSUME NEW e \in Device, NEW n \in Name, NEW i \in 1 .. Len(snapshots'[e])
        PROVE  OldOrCurrent(snapshots'[e][i][n], n)
    <3>1. \/ i \in 1 .. Len(snapshots[e]) /\ snapshots'[e][i] = snapshots[e][i]
          \/ snapshots'[e][i] = server
      <4>1. CASE e = d
        <5>1. server \in [Name -> Versioned]
          BY DEF TypeOK
        <5>2. snapshots'[e] = Append(snapshots[e], server)
          BY <1>a, <2>1, <4>1
        <5>3. i \in 1 .. Len(snapshots[e]) \/ i = Len(snapshots[e]) + 1
          BY <1>a, <5>1, <5>2
        <5> QED BY <1>a, <5>1, <5>2, <5>3
      <4>2. CASE e # d
        BY <1>a, <2>1, <4>2
      <4> QED BY <4>1, <4>2
    <3> QED BY <1>a, <1>b, <3>1 DEF CopiesFine, OldOrCurrent
  <2>3. ASSUME NEW e \in Device PROVE CopiesFine(e)'
    BY <1>b, <2>1, <2>2 DEF CopiesFine, CopyFine, OldOrCurrent
  <2> QED BY <1>c, <1>f, <2>1, <2>3
<1>6. ASSUME NEW d \in Device, ApplyRemoteEvent(d)
      PROVE  Goal
  <2>1. /\ Quiet /\ queue' = queue /\ answers' = answers
        /\ snapshots[d] # <<>>
        /\ snapshots' = [snapshots EXCEPT ![d] = Tail(@)]
    BY <1>6 DEF ApplyRemoteEvent
  <2>2. ASSUME NEW e \in Device, NEW n \in Name PROVE CopyFine(cache'[e][n], n)
    <3>1. \/ cache'[e][n] = cache[e][n]
          \/ /\ e = d
             /\ cache'[e][n] = [doc |-> Head(snapshots[d])[n].doc,
                                version |-> Head(snapshots[d])[n].version,
                                committed |-> FALSE]
      BY <1>6, <1>a DEF ApplyRemoteEvent
    <3>2. Head(snapshots[d]) = snapshots[d][1] /\ 1 \in 1 .. Len(snapshots[d])
      BY <1>a, <2>1
    <3>3. OldOrCurrent(snapshots[d][1][n], n)
      BY <1>b, <3>2 DEF CopiesFine
    <3> QED BY <1>b, <3>1, <3>2, <3>3 DEF CopiesFine, CopyFine, OldOrCurrent
  <2>3. ASSUME NEW e \in Device, NEW n \in Name, NEW i \in 1 .. Len(snapshots'[e])
        PROVE  OldOrCurrent(snapshots'[e][i][n], n)
    <3>1. \E j \in 1 .. Len(snapshots[e]) : snapshots'[e][i] = snapshots[e][j]
      <4>1. CASE e = d
        <5>1. i + 1 \in 1 .. Len(snapshots[e]) /\ snapshots'[e][i] = snapshots[e][i + 1]
          BY <1>a, <2>1, <4>1
        <5> QED BY <5>1
      <4>2. CASE e # d
        BY <1>a, <2>1, <4>2
      <4> QED BY <4>1, <4>2
    <3> QED BY <1>b, <3>1 DEF CopiesFine
  <2>4. ASSUME NEW e \in Device PROVE CopiesFine(e)'
    <3>1. \A n \in Name : CopyFine(cache[e][n], n)'
      BY <2>1, <2>2 DEF CopyFine, OldOrCurrent
    <3>2. ASSUME NEW n \in Name, NEW i \in 1 .. Len(snapshots'[e])
          PROVE  OldOrCurrent(snapshots[e][i][n], n)'
      <4>1. OldOrCurrent(snapshots'[e][i][n], n)
        BY <2>3
      <4> QED BY <2>1, <4>1 DEF OldOrCurrent
    <3> QED BY <3>1, <3>2 DEF CopiesFine
  <2> QED BY <1>c, <1>f, <2>1, <2>4
<1>7. ASSUME NEW d \in Device, LoseConnection(d) \/ Restart(d)
      PROVE  Goal
  <2>1. /\ Quiet /\ cache' = cache /\ queue' = queue
        /\ answers' \in {answers, [answers EXCEPT ![d] = <<>>]}
        /\ snapshots' \in {snapshots, [snapshots EXCEPT ![d] = <<>>]}
    BY <1>7 DEF LoseConnection, Restart, CloseWriteStream, CloseWatchStream, disk
  <2>2. ASSUME NEW e \in Device PROVE CopiesFine(e)' /\ AnswersFine(e)'
    BY <1>a, <1>d, <1>e, <1>f, <1>g, <2>1
  <2> QED BY <1>c, <2>1, <2>2
<1>8. CASE UNCHANGED vars
  BY <1>8, <1>b, <1>c DEF vars, CopiesFine, CopyFine, AnswersFine, OldOrCurrent
<1> QED BY <1>1, <1>2, <1>3, <1>4, <1>5, <1>6, <1>7, <1>8 DEF Next, ClientStep

\* THEOREM: whatever is lost, repeated or overtaken, nothing a device has cached
\* is newer than the server's document or differs from it at the same version.
THEOREM CacheIsCoherent == Spec => []CacheCoherent
<1>1. TypeOK /\ AnswersMatchQueue /\ Coherent /\ [Next]_vars => Coherent'
  BY CoherentNext
<1>2. Coherent => CacheCoherent
  BY DEF Coherent
<1> QED BY CoherentInit, <1>1, <1>2, TypeAndOrder, PTL DEF Spec

-----------------------------------------------------------------------------
(* The cache only advances                                                 *)

LEMMA AdvancesNext ==
  ASSUME TypeOK, AnswersMatchQueue, [Next]_vars, NEW e \in Device, NEW n \in Name
  PROVE  cache'[e][n].version >= cache[e][n].version
<1>a. /\ cache \in [Device -> [Name -> [doc : MaybeDocument, version : Nat,
                                        committed : BOOLEAN]]]
      /\ cache[e][n].version \in Nat
  BY DEF TypeOK
<1>b. CASE cache' = cache
  BY <1>a, <1>b
<1>1. ASSUME NEW d \in Device, HandleSuccessfulWrite(d)
      PROVE  cache'[e][n].version >= cache[e][n].version
  <2> DEFINE batch == Head(queue[d])
             answer == Head(answers[d])
  <2>1. answer.version \in Nat
    BY <1>1, AnswerHasBatch DEF HandleSuccessfulWrite, Answer
  <2>2. \/ cache'[e][n] = cache[e][n]
        \/ /\ cache[e][n].version < answer.version
           /\ cache'[e][n] = Acknowledged(batch.mutation, cache[e][n], answer)
    BY <1>1, <1>a DEF HandleSuccessfulWrite
  <2>3. Acknowledged(batch.mutation, cache[e][n], answer).version = answer.version
    BY DEF Acknowledged
  <2> QED BY <1>a, <2>1, <2>2, <2>3
<1>2. ASSUME NEW d \in Device, ApplyRemoteEvent(d)
      PROVE  cache'[e][n].version >= cache[e][n].version
  <2> DEFINE update == Head(snapshots[d])[n]
  <2>1. update.version \in Nat
    BY <1>2 DEF ApplyRemoteEvent, TypeOK, Versioned
  <2>2. \/ cache'[e][n] = cache[e][n]
        \/ /\ Accepts(cache[e][n], update)
           /\ cache'[e][n].version = update.version
    BY <1>2, <1>a DEF ApplyRemoteEvent
  <2> QED BY <1>a, <2>1, <2>2 DEF Accepts
<1>3. ASSUME NEW d \in Device,
             \/ \E m \in Name, u \in Mutation : WriteMutation(d, m, u)
             \/ ServerCommits(d) \/ HandleRejectedWrite(d) \/ ServerSendsSnapshot(d)
             \/ LoseConnection(d) \/ Restart(d)
      PROVE  cache'[e][n].version >= cache[e][n].version
  BY <1>b, <1>3 DEF WriteMutation, ServerCommits, HandleRejectedWrite,
                    ServerSendsSnapshot, LoseConnection, Restart, disk
<1>4. CASE UNCHANGED vars
  BY <1>b, <1>4 DEF vars
<1> QED BY <1>1, <1>2, <1>3, <1>4 DEF Next, ClientStep

\* THEOREM: no answer or snapshot, however late, takes a device back to an older
\* document.
THEOREM CacheNeverGoesBack == Spec => CacheAdvances
<1> DEFINE Advances == \A d \in Device, n \in Name :
                         cache'[d][n].version >= cache[d][n].version
<1>1. TypeOK /\ AnswersMatchQueue /\ [Next]_vars => [Advances]_vars
  BY AdvancesNext
<1>2. Spec => [][Advances]_vars
  BY <1>1, TypeAndOrder, PTL DEF Spec
<1> QED BY <1>2 DEF CacheAdvances

-----------------------------------------------------------------------------
(* An acknowledgement does not make the screen flicker                     *)

\* v has the document before the first queued write and after every one.
IsWalk(v, base, q, n) ==
  /\ v \in [0 .. Len(q) -> MaybeDocument]
  /\ v[0] = base
  /\ \A i \in 1 .. Len(q) : v[i] = Under(q[i], n, v[i - 1])

\* The view is what such a walk along the queue ends with.
LEMMA ViewIsWalk ==
  ASSUME NEW base \in MaybeDocument, NEW q \in Seq(Batch), NEW n
  PROVE  \E v : IsWalk(v, base, q, n) /\ View(base, q, n) = v[Len(q)]
<1>1. PICK l \in Nat : l = Len(q)
  OBVIOUS
<1>2. \A i \in 1 .. l, doc \in MaybeDocument : Under(q[i], n, doc) \in MaybeDocument
  <2>1. TAKE i \in 1 .. l, doc \in MaybeDocument
  <2>2. q[i] \in Batch
    BY <1>1
  <2>3. q[i].mutation \in Mutation
    BY <2>2 DEF Batch
  <2>. QED
    BY <2>3, MutationType DEF Under
<1> DEFINE Walk(v) ==
      v = [i \in 0 .. l |-> IF i = 0 THEN base ELSE Under(q[i], n, v[i - 1])]
<1>3. \E v : Walk(v)
  <2>1. PICK turn : turn = [i \in 1 .. l |-> [doc \in MaybeDocument |-> Under(q[i], n, doc)]]
    OBVIOUS
  <2>2. turn \in [1 .. l -> [MaybeDocument -> MaybeDocument]]
    BY <1>2, <2>1
  <2>3. PICK g \in [0 .. l -> MaybeDocument] : Turns(g, l, base, turn)
    BY <2>2, LoopRuns
  <2>4. g[0] = base
    BY <2>3 DEF Turns
  <2>5. \A i \in 1 .. l : g[i] = Under(q[i], n, g[i - 1])
    <3>1. TAKE i \in 1 .. l
    <3>2. g[i] = turn[i][g[i - 1]] /\ g[i - 1] \in MaybeDocument
      BY <2>3 DEF Turns
    <3>3. turn[i] = [doc \in MaybeDocument |-> Under(q[i], n, doc)]
      BY <2>1
    <3>. QED
      BY <3>2, <3>3
  <2>. QED
    BY <2>4, <2>5
<1>4. View(base, q, n) = (CHOOSE v : Walk(v))[l]
  BY <1>1 DEF View
<1>5. PICK v : v = (CHOOSE w : Walk(w)) /\ Walk(v)
  BY <1>3
<1>6. v[0] = base /\ \A i \in 1 .. l : v[i] = Under(q[i], n, v[i - 1])
  <2>1. v = [i \in 0 .. l |-> IF i = 0 THEN base ELSE Under(q[i], n, v[i - 1])]
    BY <1>5
  <2>2. v[0] = base
    BY <2>1
  <2>3. ASSUME NEW i \in 1 .. l PROVE v[i] = Under(q[i], n, v[i - 1])
    <3>1. i \in 0 .. l /\ i # 0
      OBVIOUS
    <3>. QED
      BY <2>1, <3>1
  <2>. QED
    BY <2>2, <2>3
<1>7. v \in [0 .. l -> MaybeDocument]
  <2>1. PICK T : T = {i \in 0 .. l : v[i] \in MaybeDocument}
    OBVIOUS
  <2>2. 0 \in T
    BY <1>6, <2>1
  <2>3. \A i \in 1 .. l : i - 1 \in T => i \in T
    BY <1>2, <1>6, <2>1
  <2>4. \A i \in 0 .. l : v[i] \in MaybeDocument
    BY <2>1, <2>2, <2>3, Throughout
  <2>. QED
    BY <1>5, <2>4
<1>. HIDE DEF Walk
<1>. QED
  BY <1>1, <1>4, <1>5, <1>6, <1>7 DEF IsWalk

\* Documents a screen cannot tell apart: only the cache knows the document that
\* is not there from the unknown one.
Alike(a, b) == a.data = b.data /\ (IsDocument(a) <=> IsDocument(b))

LEMMA UnderAlike ==
  ASSUME NEW a, NEW b, Alike(a, b), NEW batch, NEW n
  PROVE  Alike(Under(batch, n, a), Under(batch, n, b))
<1>1. IsValidFor(batch.mutation, a) <=> IsValidFor(batch.mutation, b)
  BY DEF Alike, IsValidFor
<1>2. Result(batch.mutation, a) = Result(batch.mutation, b)
  BY DEF Alike, Result
<1>. QED
  BY <1>1, <1>2 DEF Under, ApplyToLocalView, Alike

\* What the cache makes of an acknowledged write is what the view had made of it.
LEMMA AcknowledgedAlike ==
  ASSUME NEW m \in Mutation, NEW doc \in MaybeDocument
  PROVE  Alike(ApplyToRemoteDocument(m, doc), ApplyToLocalView(m, doc))
BY DEF Alike, ApplyToRemoteDocument, ApplyToLocalView, IsValidFor, IsDocument,
       MaybeDocument, Document, NoDocument, UnknownDocument

\* The head of the queue may as well be in the document below.
LEMMA ViewOfTail ==
  ASSUME NEW old \in MaybeDocument, NEW new \in MaybeDocument,
         NEW q \in Seq(Batch), q # <<>>, NEW n, Alike(new, Under(Head(q), n, old))
  PROVE  View(new, Tail(q), n).data = View(old, q, n).data
<1>1. PICK v : IsWalk(v, old, q, n) /\ View(old, q, n) = v[Len(q)]
  BY ViewIsWalk
<1>2. /\ Tail(q) \in Seq(Batch) /\ Len(q) \in Nat /\ Len(q) > 0
      /\ Len(Tail(q)) = Len(q) - 1 /\ Head(q) = q[1]
      /\ \A i \in 1 .. Len(q) - 1 : Tail(q)[i] = q[i + 1]
  OBVIOUS
<1>3. PICK w : IsWalk(w, new, Tail(q), n) /\ View(new, Tail(q), n) = w[Len(Tail(q))]
  BY <1>2, ViewIsWalk
<1>4. PICK l \in Nat : l = Len(q) - 1
  <2>1. Len(q) - 1 \in Nat
    BY <1>2
  <2>. QED
    BY <2>1
<1>5. PICK T : T = {i \in 0 .. l : Alike(w[i], v[i + 1])}
  OBVIOUS
<1>6. 0 \in T
  <2>1. v[1] = Under(Head(q), n, old)
    BY <1>1, <1>2 DEF IsWalk
  <2>. QED
    BY <1>3, <1>5, <2>1 DEF IsWalk
<1>7. ASSUME NEW i \in 1 .. l, i - 1 \in T PROVE i \in T
  <2>1. Alike(w[i - 1], v[i])
    BY <1>5, <1>7
  <2>2. w[i] = Under(q[i + 1], n, w[i - 1])
    BY <1>2, <1>3, <1>4 DEF IsWalk
  <2>3. v[i + 1] = Under(q[i + 1], n, v[i])
    BY <1>1, <1>2, <1>4 DEF IsWalk
  <2>4. Alike(w[i], v[i + 1])
    BY <2>1, <2>2, <2>3, UnderAlike
  <2>. QED
    BY <1>5, <2>4
<1>8. l \in T
  <2>1. 0 .. l \subseteq T
    BY <1>6, <1>7, Throughout
  <2>. QED
    BY <2>1
<1>9. Alike(w[l], v[l + 1])
  BY <1>5, <1>8
<1>. QED
  BY <1>1, <1>2, <1>3, <1>4, <1>9 DEF Alike

LEMMA AnswerChanges ==
  ASSUME TypeOK, AnswersMatchQueue, NEW d \in Device, HandleSuccessfulWrite(d),
         cache[d][Head(queue[d]).name].version < Head(answers[d]).version,
         NEW n \in Name
  PROVE  LocalView(d, n)'.data = LocalView(d, n).data
<1> DEFINE batch == Head(queue[d])
           answer == Head(answers[d])
<1>1. /\ queue[d] \in Seq(Batch) /\ queue[d] # <<>> /\ batch \in Batch
      /\ queue'[d] = Tail(queue[d])
  BY AnswerHasBatch DEF TypeOK, HandleSuccessfulWrite
<1>2. cache'[d][n] = IF n = batch.name THEN Acknowledged(batch.mutation, cache[d][n], answer)
                     ELSE cache[d][n]
  BY DEF HandleSuccessfulWrite, TypeOK
<1>3. /\ cache[d][n].doc \in MaybeDocument
      /\ batch.mutation \in Mutation
  BY <1>1 DEF TypeOK, Batch
<1>4. Alike(cache'[d][n].doc, Under(batch, n, cache[d][n].doc))
  <2>1. CASE n = batch.name
    <3>1. cache'[d][n].doc = ApplyToRemoteDocument(batch.mutation, cache[d][n].doc)
      BY <1>2, <2>1 DEF Acknowledged
    <3>. QED
      BY <1>3, <2>1, <3>1, AcknowledgedAlike DEF Under
  <2>2. CASE n # batch.name
    BY <1>2, <2>2 DEF Under, Alike
  <2>. QED
    BY <2>1, <2>2
<1>5. cache'[d][n].doc \in MaybeDocument
  BY <1>2, <1>3, MutationType DEF Acknowledged
<1>. HIDE DEF batch
<1>6. View(cache'[d][n].doc, Tail(queue[d]), n).data = View(cache[d][n].doc, queue[d], n).data
  BY <1>1, <1>3, <1>4, <1>5, ViewOfTail DEF batch
<1>. QED
  BY <1>1, <1>6 DEF LocalView

\* Only an answer that is a success takes the head out of the queue and is one.
LEMMA OnlyAnswers ==
  ASSUME TypeOK, AnswersMatchQueue, [Next]_vars, NEW d \in Device,
         answers[d] # <<>>, Head(answers[d]).ok, queue'[d] = Tail(queue[d])
  PROVE  HandleSuccessfulWrite(d)
<1>1. /\ queue \in [Device -> Seq(Batch)] /\ queue[d] # <<>>
      /\ Len(queue'[d]) = Len(queue[d]) - 1 /\ Len(queue[d]) \in Nat
  BY AnswerHasBatch DEF TypeOK
<1>2. queue'[d] # queue[d]
  <2>1. Len(queue'[d]) # Len(queue[d])
    <3>1. \A k \in Nat : k - 1 # k
      OBVIOUS
    <3>. QED
      BY <1>1, <3>1
  <2>. QED
    BY <2>1
<1>3. ASSUME NEW e \in Device, NEW m \in Name, NEW u \in Mutation, WriteMutation(e, m, u)
      PROVE  FALSE
  <2>1. /\ nextBatchId[e] \in Nat
        /\ [id |-> nextBatchId[e], name |-> m, mutation |-> u] \in Batch
    BY DEF TypeOK, Batch
  <2>2. \/ queue'[d] = queue[d]
        \/ queue'[d] = Append(queue[d], [id |-> nextBatchId[e], name |-> m, mutation |-> u])
    BY <1>1, <1>3 DEF WriteMutation
  <2>3. Len(queue'[d]) >= Len(queue[d])
    <3>1. PICK q \in Seq(Batch) : q = queue[d]
      BY <1>1
    <3>2. \A b \in Batch : Len(Append(q, b)) >= Len(q) /\ Len(q) >= Len(q)
      OBVIOUS
    <3>. QED
      BY <2>1, <2>2, <3>1, <3>2
  <2>. QED
    BY <1>1, <2>3
<1>4. ASSUME NEW e \in Device, HandleSuccessfulWrite(e) \/ HandleRejectedWrite(e)
      PROVE  HandleSuccessfulWrite(d)
  <2>1. e = d
    BY <1>1, <1>2, <1>4 DEF HandleSuccessfulWrite, HandleRejectedWrite
  <2>. QED
    BY <1>4, <2>1 DEF HandleRejectedWrite
<1>5. ASSUME NEW e \in Device,
             \/ ServerCommits(e) \/ ServerSendsSnapshot(e) \/ ApplyRemoteEvent(e)
             \/ LoseConnection(e) \/ Restart(e)
      PROVE  FALSE
  BY <1>2, <1>5 DEF ServerCommits, ServerSendsSnapshot, ApplyRemoteEvent,
                    LoseConnection, Restart, disk
<1>6. CASE UNCHANGED vars
  BY <1>2, <1>6 DEF vars
<1>. QED
  BY <1>3, <1>4, <1>5, <1>6 DEF Next, ClientStep

\* THEOREM: an answer that arrives before the watch stream brings the document
\* changes nothing the app sees, however many writes are queued behind it.
THEOREM AnswersDoNotFlicker == Spec => NoFlicker
<1> DEFINE Steady == \A d \in Device : AnswerChangesNothing(d)
<1>1. TypeOK /\ AnswersMatchQueue /\ [Next]_vars => [Steady]_vars
  BY OnlyAnswers, AnswerChanges DEF AnswerChangesNothing
<1>. HIDE DEF Steady
<1>2. Spec => [][Steady]_vars
  BY <1>1, TypeAndOrder, PTL DEF Spec
<1> QED BY <1>2 DEF NoFlicker, Steady

-----------------------------------------------------------------------------
(* The client implements the write log: every step of the client is a step *)
(* of the log or leaves it alone                                           *)

\* The two modules mean the same by the effect of a write.
LEMMA SameEffect ==
  ASSUME NEW m, NEW doc
  PROVE  Log!ApplyToLocalView(m, doc) = ApplyToLocalView(m, doc)
BY DEF Log!ApplyToLocalView, ApplyToLocalView, Log!IsValidFor, IsValidFor,
       Log!IsDocument, IsDocument, Log!Result, Result, Log!Written, Written,
       Log!Document, Document, Log!NoDocument, NoDocument, Log!EmptyData, EmptyData

LEMMA SameMutations == Log!Mutation = Mutation
BY DEF Log!Mutation, Mutation

-----------------------------------------------------------------------------
(* What the log needs to know of the client                                *)

\* A device never numbers more writes than were made, and the server says
\* nothing on a stream after a refusal.
Disciplined(d) ==
  /\ nextBatchId[d] \in 1 .. writes + 1
  /\ \A i \in 1 .. Len(answers[d]) : answers[d][i].ok \/ i = Len(answers[d])

LEMMA DisciplineInit == Init => \A d \in Device : Disciplined(d)
BY DEF Init, Disciplined

LEMMA DisciplineNext ==
  ASSUME TypeOK, AnswersMatchQueue, CallbacksNameQueuedWrites, [Next]_vars,
         NEW e \in Device, Disciplined(e)
  PROVE  Disciplined(e)'
<1>a. /\ queue \in [Device -> Seq(Batch)] /\ answers \in [Device -> Seq(Answer)]
      /\ nextBatchId \in [Device -> Nat] /\ writes \in Nat
  BY DEF TypeOK
<1>b. /\ nextBatchId[e] \in 1 .. writes + 1
      /\ \A i \in 1 .. Len(answers[e]) : answers[e][i].ok \/ i = Len(answers[e])
  BY DEF Disciplined
<1>1. ASSUME NEW d \in Device, NEW n \in Name, NEW m \in Mutation,
             WriteMutation(d, n, m)
      PROVE  Disciplined(e)'
  <2>1. /\ nextBatchId' = [nextBatchId EXCEPT ![d] = @ + 1]
        /\ writes' = writes + 1 /\ answers' = answers
    BY <1>1 DEF WriteMutation, streams
  <2> QED BY <1>a, <1>b, <2>1 DEF Disciplined
<1>2. ASSUME NEW d \in Device, ServerCommits(d)
      PROVE  Disciplined(e)'
  <2>1. /\ StreamOpen(d) /\ nextBatchId' = nextBatchId /\ writes' = writes
        /\ \E a : answers' = [answers EXCEPT ![d] = Append(@, a)]
    BY <1>2 DEF ServerCommits
  <2>2. CASE e = d
    <3>1. PICK a : answers'[e] = Append(answers[e], a)
      BY <1>a, <2>1, <2>2
    <3>2. /\ Len(answers'[e]) = Len(answers[e]) + 1
          /\ \A i \in 1 .. Len(answers[e]) : answers'[e][i] = answers[e][i]
          /\ Len(answers[e]) \in Nat
      BY <1>a, <3>1
    <3> QED BY <1>b, <2>1, <2>2, <3>2 DEF Disciplined, StreamOpen
  <2>3. CASE e # d
    BY <1>a, <1>b, <2>1, <2>3 DEF Disciplined
  <2> QED BY <2>2, <2>3
<1>3. ASSUME NEW d \in Device, HandleSuccessfulWrite(d)
      PROVE  Disciplined(e)'
  <2>1. /\ answers' = [answers EXCEPT ![d] = Tail(@)] /\ answers[d] # <<>>
        /\ nextBatchId' = nextBatchId /\ writes' = writes
    BY <1>3 DEF HandleSuccessfulWrite
  <2> QED BY <1>a, <1>b, <2>1 DEF Disciplined
<1>4. ASSUME NEW d \in Device, HandleRejectedWrite(d) \/ LoseConnection(d)
      PROVE  Disciplined(e)'
  <2>1. /\ \/ answers' = answers
           \/ answers' = [answers EXCEPT ![d] = <<>>]
        /\ nextBatchId' = nextBatchId /\ writes' = writes
    BY <1>4 DEF HandleRejectedWrite, LoseConnection, CloseWriteStream
  <2> QED BY <1>a, <1>b, <2>1 DEF Disciplined
<1>5. ASSUME NEW d \in Device, Restart(d)
      PROVE  Disciplined(e)'
  <2>1. /\ answers' = [answers EXCEPT ![d] = <<>>]
        /\ nextBatchId' = [nextBatchId EXCEPT ![d] = NextBatchIdFrom(queue[d])]
        /\ writes' = writes
    BY <1>5 DEF Restart, CloseWriteStream
  <2>2. NextBatchIdFrom(queue[e]) \in 1 .. writes + 1
    <3>1. CASE queue[e] = <<>>
      BY <1>a, <3>1 DEF NextBatchIdFrom
    <3>2. CASE queue[e] # <<>>
      <4>1. Len(queue[e]) \in 1 .. Len(queue[e])
        BY <1>a, <3>2
      <4>2. queue[e][Len(queue[e])].id \in Nat
        BY <1>a, <4>1, QueuedIds
      <4>3. queue[e][Len(queue[e])].id < nextBatchId[e]
        BY <4>1 DEF CallbacksNameQueuedWrites
      <4> QED BY <1>a, <1>b, <3>2, <4>2, <4>3 DEF NextBatchIdFrom
    <3> QED BY <3>1, <3>2
  <2> QED BY <1>a, <1>b, <2>1, <2>2 DEF Disciplined
<1>6. ASSUME NEW d \in Device, ServerSendsSnapshot(d) \/ ApplyRemoteEvent(d)
      PROVE  Disciplined(e)'
  BY <1>6, <1>b DEF ServerSendsSnapshot, ApplyRemoteEvent, Disciplined
<1>7. CASE UNCHANGED vars
  BY <1>7, <1>b DEF vars, Disciplined
<1> QED BY <1>1, <1>2, <1>3, <1>4, <1>5, <1>6, <1>7 DEF Next, ClientStep

-----------------------------------------------------------------------------
(* The refinement                                                          *)

LEMMA LogInitially == Init => Log!LogInit
BY DEF Init, Log!LogInit, Log!NoDocument, NoDocument, Log!EmptyData, EmptyData

\* The invariant the simulation rests on.
ClientInv ==
  /\ TypeOK /\ AnswersMatchQueue /\ CallbacksNameQueuedWrites
  /\ \A d \in Device : Disciplined(d)

LEMMA LogStep == ClientInv /\ [Next]_vars => [Log!LogNext]_(Log!logVars)
<1> SUFFICES ASSUME ClientInv, [Next]_vars PROVE [Log!LogNext]_(Log!logVars)
  OBVIOUS
<1>a. /\ queue \in [Device -> Seq(Batch)] /\ answers \in [Device -> Seq(Answer)]
      /\ nextBatchId \in [Device -> Nat] /\ writes \in Nat
      /\ server \in [Name -> Versioned]
      /\ callbacks \in [Device -> SUBSET Nat]
      /\ TypeOK /\ AnswersMatchQueue
  BY DEF ClientInv, TypeOK
<1>b. ASSUME server' = server, queue' = queue, answers' = answers, callbacks' = callbacks
      PROVE  UNCHANGED Log!logVars
  BY <1>b DEF Log!logVars
<1>1. ASSUME NEW d \in Device, NEW n \in Name, NEW m \in Mutation,
             WriteMutation(d, n, m)
      PROVE  Log!LogNext
  <2> DEFINE w == [id |-> nextBatchId[d], name |-> n, mutation |-> m]
  <2>1. nextBatchId[d] \in 1 .. MaxWrites
    BY <1>1, <1>a, ClientAssumption DEF WriteMutation, ClientInv, Disciplined
  <2>2. w \in Log!Write
    BY <2>1, SameMutations DEF Log!Write
  <2>3. Log!Issue(d, w)
    <3>1. \A i \in 1 .. Len(queue[d]) : queue[d][i].id < w.id
      BY DEF ClientInv, CallbacksNameQueuedWrites
    <3>2. /\ queue' = [queue EXCEPT ![d] = Append(@, w)]
          /\ callbacks' = [callbacks EXCEPT ![d] = @ \cup {w.id}]
          /\ server' = server /\ answers' = answers
      BY <1>1 DEF WriteMutation, streams
    <3> QED BY <3>1, <3>2 DEF Log!Issue
  <2> QED BY <2>2, <2>3 DEF Log!LogNext
<1>2. ASSUME NEW d \in Device, ServerCommits(d)
      PROVE  Log!LogNext
  <2> DEFINE batch == queue[d][Len(answers[d]) + 1]
             old == [n \in Name |-> server[n].doc]
             new == [n \in Name |-> server'[n].doc]
             doc == ApplyToLocalView(batch.mutation, server[batch.name].doc)
  <2>1. /\ queue' = queue /\ callbacks' = callbacks
        /\ Len(answers[d]) + 1 <= Len(queue[d])
        /\ \E a : answers' = [answers EXCEPT ![d] = Append(@, a)]
    BY <1>2 DEF ServerCommits, disk
  <2>2. batch.name \in Name
    <3>1. batch \in Batch
      BY <1>a, <2>1
    <3> QED BY <3>1 DEF Batch
  <2>3. new = [old EXCEPT ![batch.name] = doc]
    <3>1. CASE IsValidFor(batch.mutation, server[batch.name].doc)
      <4>1. PICK v : server' = [server EXCEPT ![batch.name] = [doc |-> doc, version |-> v]]
        BY <1>2, <3>1 DEF ServerCommits
      <4> HIDE DEF doc, batch
      <4> QED BY <1>a, <2>2, <4>1
    <3>2. CASE ~IsValidFor(batch.mutation, server[batch.name].doc)
      <4>1. server' = server
        BY <1>2, <3>2 DEF ServerCommits
      <4>2. doc = server[batch.name].doc
        BY <3>2 DEF ApplyToLocalView
      <4> HIDE DEF doc, batch
      <4> QED BY <2>2, <4>1, <4>2
    <3> QED BY <3>1, <3>2
  <2>4. old[batch.name] = server[batch.name].doc
    BY <2>2
  <2>5. [e \in Device |-> Len(answers'[e])]
          = [[e \in Device |-> Len(answers[e])] EXCEPT ![d] = @ + 1]
    <3>1. PICK a : answers' = [answers EXCEPT ![d] = Append(answers[d], a)]
      BY <2>1
    <3>2. Len(Append(answers[d], a)) = Len(answers[d]) + 1
      BY <1>a
    <3> QED BY <1>a, <3>1, <3>2
  <2>6. Log!TakeEffect(d)
    <3>1. doc = Log!ApplyToLocalView(batch.mutation, old[batch.name])
      BY <2>4, SameEffect
    <3>2. [e \in Device |-> Len(answers[e])][d] < Len(queue[d])
      BY <1>a, <2>1
    <3>3. queue[d][[e \in Device |-> Len(answers[e])][d] + 1] = batch
      OBVIOUS
    <3> HIDE DEF doc, batch
    <3>4. new = [old EXCEPT ![batch.name] = Log!ApplyToLocalView(batch.mutation, @)]
      BY <2>3, <3>1
    <3> QED BY <2>1, <2>5, <3>2, <3>3, <3>4 DEF Log!TakeEffect
  <2> QED BY <2>6 DEF Log!LogNext
<1>3. ASSUME NEW d \in Device, HandleSuccessfulWrite(d) \/ HandleRejectedWrite(d)
      PROVE  Log!LogNext
  <2>1. /\ answers[d] # <<>> /\ server' = server
        /\ queue' = [queue EXCEPT ![d] = Tail(@)]
        /\ callbacks' = [callbacks EXCEPT ![d] = @ \ {Head(queue[d]).id}]
    BY <1>3 DEF HandleSuccessfulWrite, HandleRejectedWrite
  <2>2. \E s : /\ answers' = [answers EXCEPT ![d] = s]
               /\ Len(s) = Len(answers[d]) - 1
    <3>1. CASE HandleSuccessfulWrite(d)
      <4>1. answers' = [answers EXCEPT ![d] = Tail(answers[d])]
        BY <3>1 DEF HandleSuccessfulWrite
      <4>2. Len(Tail(answers[d])) = Len(answers[d]) - 1
        BY <1>a, <2>1
      <4> QED BY <4>1, <4>2
    <3>2. CASE HandleRejectedWrite(d)
      <4>1. answers' = [answers EXCEPT ![d] = <<>>] /\ ~Head(answers[d]).ok
        BY <3>2 DEF HandleRejectedWrite
      <4>2. Head(answers[d]) = answers[d][1] /\ 1 \in 1 .. Len(answers[d])
        BY <1>a, <2>1
      <4>3. Len(answers[d]) = 1
        BY <4>1, <4>2 DEF ClientInv, Disciplined
      <4>4. Len(<<>>) = Len(answers[d]) - 1
        BY <4>3
      <4> QED BY <4>1, <4>4
    <3> QED BY <1>3, <3>1, <3>2
  <2>3. [e \in Device |-> Len(answers'[e])]
          = [[e \in Device |-> Len(answers[e])] EXCEPT ![d] = @ - 1]
    BY <1>a, <2>2
  <2>4. Len(answers[d]) > 0
    BY <1>a, <2>1
  <2>5. Log!Resolve(d)
    BY <2>1, <2>3, <2>4 DEF Log!Resolve
  <2> QED BY <2>5 DEF Log!LogNext
<1>4. ASSUME NEW d \in Device, ServerSendsSnapshot(d) \/ ApplyRemoteEvent(d)
      PROVE  UNCHANGED Log!logVars
  BY <1>4, <1>b DEF ServerSendsSnapshot, ApplyRemoteEvent, disk
<1>5. ASSUME NEW d \in Device, LoseConnection(d) \/ Restart(d)
      PROVE  Log!LogNext \/ UNCHANGED Log!logVars
  <2>1. server' = server /\ queue' = queue
    BY <1>5 DEF LoseConnection, Restart, disk
  <2>2. ASSUME answers' = [answers EXCEPT ![d] = <<>>]
        PROVE  [e \in Device |-> Len(answers'[e])]
                 = [[e \in Device |-> Len(answers[e])] EXCEPT ![d] = 0]
    BY <1>a, <2>2
  <2>3. CASE LoseConnection(d)
    <3>1. callbacks' = callbacks
      BY <2>3 DEF LoseConnection
    <3>2. CASE answers' = [answers EXCEPT ![d] = <<>>]
      <4>1. Log!LoseConnection(d)
        BY <2>1, <2>2, <3>1, <3>2 DEF Log!LoseConnection
      <4> QED BY <4>1 DEF Log!LogNext
    <3>3. CASE answers' = answers
      BY <1>b, <2>1, <3>1, <3>3
    <3> QED BY <2>3, <3>2, <3>3 DEF LoseConnection, CloseWriteStream
  <2>4. CASE Restart(d)
    <3>1. /\ callbacks' = [callbacks EXCEPT ![d] = {}]
          /\ answers' = [answers EXCEPT ![d] = <<>>]
      BY <2>4 DEF Restart, CloseWriteStream
    <3>2. Log!LoseProcess(d)
      BY <2>1, <2>2, <3>1 DEF Log!LoseProcess
    <3> QED BY <3>2 DEF Log!LogNext
  <2> QED BY <1>5, <2>3, <2>4
<1>6. CASE UNCHANGED vars
  BY <1>6, <1>b DEF vars
<1> QED BY <1>1, <1>2, <1>3, <1>4, <1>5, <1>6 DEF Next, ClientStep

\* THEOREM: the client is a write log: it makes the writes take effect in the
\* order of the queue, never forgets one that is not resolved, and calls the
\* completion block of a write only when it resolves it.
THEOREM ClientImplementsWriteLog == Spec => KeepsWriteLog
<1> DEFINE Inv == \A d \in Device : Disciplined(d)
<1>1. /\ TypeOK /\ AnswersMatchQueue /\ CallbacksNameQueuedWrites
      /\ Inv /\ [Next]_vars
      => Inv'
  BY DisciplineNext
<1>2. Spec => []Inv
  BY DisciplineInit, <1>1, TypeAndOrder, CallbacksAreNamed, PTL DEF Spec
<1>3. TypeOK /\ AnswersMatchQueue /\ CallbacksNameQueuedWrites /\ Inv => ClientInv
  BY DEF ClientInv
<1>4. Spec => []ClientInv
  BY <1>2, <1>3, TypeAndOrder, CallbacksAreNamed, PTL
<1>5. Spec => Log!LogSpec
  BY LogInitially, LogStep, <1>4, PTL DEF Spec, Log!LogSpec
<1> QED BY <1>5 DEF KeepsWriteLog
=============================================================================
