----------------------- MODULE WatchConnectionProofs -----------------------
(***************************************************************************)
(* No assertion of the watch side of the client fails, and the client      *)
(* waits for exactly the responses that are to come, for any listeners and *)
(* queries, any number of failures and logins, and any order of tokens,    *)
(* timers, messages and failures.                                          *)
(***************************************************************************)
EXTENDS WatchConnection, Counting

-----------------------------------------------------------------------------
(* The parts of a step                                                     *)

LEMMA TrackerTyped ==
  ASSUME TypeOK, NEW state \in {"Unknown", "Online", "Offline"},
         NEW k \in [state : {"Unknown", "Online", "Offline"}, failed : BOOLEAN,
                    timer : BOOLEAN]
  PROVE  LET Tracker == [state : {"Unknown", "Online", "Offline"}, failed : BOOLEAN,
                         timer : BOOLEAN]
         IN AfterStart(k) \in Tracker /\ AfterFailure(k) \in Tracker
              /\ AfterUpdate(k, state) \in Tracker
BY DEF AfterStart, AfterFailure, AfterUpdate

LEMMA EmptyTyped ==
  /\ NewAggregator \in [pending : [Target -> Int], current : SUBSET Target,
                        changed : SUBSET Target]
  /\ NewServer \in [watching : SUBSET Target, served : SUBSET Target,
                    due : SUBSET Target]
  /\ <<>> \in Seq(Request) /\ <<>> \in Seq(Response)
BY DEF NewAggregator, NewServer

\* The part of the type invariant an action on the stream can disturb.
StreamTyped ==
  /\ stream \in {"Initial", "Starting", "Open", "Error", "Backoff"}
  /\ closeCount \in Nat
  /\ tokens \subseteq 0 .. closeCount
  /\ idle \in BOOLEAN

WireTyped ==
  /\ aggregator \in [pending : [Target -> Int], current : SUBSET Target,
                     changed : SUBSET Target]
  /\ requests \in Seq(Request) /\ responses \in Seq(Response)
  /\ server \in [watching : SUBSET Target, served : SUBSET Target,
                 due : SUBSET Target]

ViewsTyped ==
  /\ tracker \in [state : {"Unknown", "Online", "Offline"}, failed : BOOLEAN,
                  timer : BOOLEAN]
  /\ targets \subseteq Target /\ synced \subseteq Target /\ cached \subseteq Target
  /\ listeners \in [Listener -> {"new", "waiting", "heard", "failed", "gone"}]

BoundsTyped == failures \in Nat /\ users \in Nat

LEMMA TypeParts == TypeOK <=> StreamTyped /\ WireTyped /\ ViewsTyped /\ BoundsTyped
BY DEF TypeOK, StreamTyped, WireTyped, ViewsTyped, BoundsTyped

LEMMA BroadcastTyped ==
  ASSUME TypeOK, Broadcast, ViewsTyped!1'
  PROVE  ViewsTyped'
BY DEF TypeOK, ViewsTyped, Broadcast, Notified

LEMMA CountsTyped ==
  ASSUME TypeOK, NEW rest \in SUBSET tokens
  PROVE  /\ tokens \cup {closeCount} \subseteq 0 .. closeCount
         /\ rest \subseteq 0 .. closeCount
         /\ closeCount + 1 \in Nat
         /\ rest \cup {closeCount + 1} \subseteq 0 .. (closeCount + 1)
         /\ rest \subseteq 0 .. (closeCount + 1)
         /\ closeCount + 1 \notin rest
<1>1. closeCount \in Nat /\ rest \subseteq 0 .. closeCount /\ tokens \subseteq 0 .. closeCount
  BY DEF TypeOK
<1>2. 0 .. closeCount \subseteq 0 .. (closeCount + 1) /\ closeCount \in 0 .. closeCount
  BY <1>1
<1>3. closeCount + 1 \in 0 .. (closeCount + 1) /\ closeCount + 1 \notin 0 .. closeCount
  BY <1>1
<1>. QED
  BY <1>1, <1>2, <1>3

LEMMA AggregatorTyped ==
  ASSUME TypeOK, NEW t \in Target
  PROVE  /\ aggregator.pending \in [Target -> Int]
         /\ aggregator.current \subseteq Target /\ aggregator.changed \subseteq Target
         /\ Answered(t) \in [Target -> Int]
         /\ [aggregator EXCEPT !.pending[t] = @ + 1]
              \in [pending : [Target -> Int], current : SUBSET Target,
                   changed : SUBSET Target]
<1>1. aggregator.pending \in [Target -> Int]
  BY DEF TypeOK
<1>2. aggregator.pending[t] + 1 \in Int /\ aggregator.pending[t] - 1 \in Int
  BY <1>1
<1>. QED
  BY <1>1, <1>2 DEF TypeOK, Answered

LEMMA SendTyped ==
  ASSUME TypeOK, NEW t \in Target, NEW op \in {"watch", "unwatch"}, Send(op, t)
  PROVE  WireTyped!1' /\ requests' \in Seq(Request)
<1>1. [op |-> op, target |-> t] \in Request
  BY DEF Request
<1>2. requests' \in Seq(Request)
  BY <1>1 DEF TypeOK, Send
<1>3. WireTyped!1'
  BY AggregatorTyped DEF Send
<1>. QED
  BY <1>2, <1>3

-----------------------------------------------------------------------------
(* Types                                                                   *)

LEMMA AddTyped ==
  ASSUME ConnectionAssumption, TypeOK, NEW l \in Listener, AddQueryListener(l)
  PROVE  TypeOK'
<1> DEFINE t == TargetOf[l]
<1>1. t \in Target
  BY DEF ConnectionAssumption
<1>2. BoundsTyped'
  BY DEF TypeOK, BoundsTyped, AddQueryListener, bounds
<1>3. StreamTyped'
  BY CountsTyped DEF TypeOK, StreamTyped, AddQueryListener, Listen, StartWatchStream, Send
<1>4. WireTyped'
  <2>1. Send("watch", t) => WireTyped!1' /\ requests' \in Seq(Request)
    BY <1>1, SendTyped
  <2>2. \/ Send("watch", t)
        \/ aggregator' = NewAggregator /\ UNCHANGED requests
        \/ UNCHANGED <<aggregator, requests>>
    BY DEF AddQueryListener, Listen, StartWatchStream
  <2>3. WireTyped!1' /\ requests' \in Seq(Request)
    BY <2>1, <2>2, EmptyTyped DEF TypeOK
  <2>. QED
    BY <2>3 DEF TypeOK, WireTyped, AddQueryListener
<1>5. ViewsTyped'
  <2>1. ViewsTyped!1'
    BY TrackerTyped DEF TypeOK, AddQueryListener, Listen, StartWatchStream
  <2>. QED
    BY <2>1, <1>1 DEF TypeOK, ViewsTyped, AddQueryListener
<1>. QED
  BY <1>2, <1>3, <1>4, <1>5, TypeParts DEF TypeOK, StreamTyped, WireTyped, ViewsTyped, BoundsTyped

LEMMA RemoveTyped ==
  ASSUME ConnectionAssumption, TypeOK, NEW l \in Listener, RemoveQueryListener(l)
  PROVE  TypeOK'
<1> DEFINE t == TargetOf[l]
<1>1. t \in Target
  BY DEF ConnectionAssumption
<1>2. BoundsTyped' /\ StreamTyped'
  BY DEF TypeOK, BoundsTyped, StreamTyped, RemoveQueryListener, StopListening, bounds
<1>3. WireTyped'
  <2>1. Send("unwatch", t) => WireTyped!1' /\ requests' \in Seq(Request)
    BY <1>1, SendTyped
  <2>2. Send("unwatch", t) \/ UNCHANGED <<aggregator, requests>>
    BY DEF RemoveQueryListener, StopListening
  <2>3. WireTyped!1' /\ requests' \in Seq(Request)
    BY <2>1, <2>2 DEF TypeOK
  <2>. QED
    BY <2>3 DEF TypeOK, WireTyped, RemoveQueryListener
<1>4. ViewsTyped'
  <2>1. ViewsTyped!1'
    BY TrackerTyped DEF TypeOK, RemoveQueryListener, StopListening
  <2>. QED
    BY <2>1 DEF TypeOK, ViewsTyped, RemoveQueryListener
<1>. QED
  BY <1>2, <1>3, <1>4 DEF TypeOK, StreamTyped, WireTyped, ViewsTyped, BoundsTyped

LEMMA CloseTyped ==
  ASSUME TypeOK, NEW rest \in SUBSET tokens, CloseWithError(rest)
  PROVE  StreamTyped' /\ WireTyped' /\ ViewsTyped'
<1>1. StreamTyped'
  BY CountsTyped
  DEF TypeOK, StreamTyped, CloseWithError, StreamGone, StartWatchStream, RestStream
<1>2. WireTyped'
  BY EmptyTyped
  DEF TypeOK, WireTyped, CloseWithError, StreamGone, StartWatchStream, RestStream
<1>3. ViewsTyped!1'
  <2>1. AfterFailure(tracker) \in [state : {"Unknown", "Online", "Offline"},
                                  failed : BOOLEAN, timer : BOOLEAN]
    BY TrackerTyped DEF TypeOK
  <2>. QED
    BY <2>1, TrackerTyped DEF TypeOK, CloseWithError, StartWatchStream, RestStream
<1>. QED
  BY <1>1, <1>2, <1>3, BroadcastTyped DEF CloseWithError

LEMMA TokenTyped ==
  ASSUME ConnectionAssumption, TypeOK, NEW c \in tokens, TokenArrives(c)
  PROVE  TypeOK'
<1>1. BoundsTyped' /\ StreamTyped' /\ ViewsTyped'
  BY DEF TypeOK, BoundsTyped, StreamTyped, ViewsTyped, TokenArrives, bounds, views
<1>2. ASSUME WatchAgain
      PROVE  WireTyped!1' /\ requests' \in Seq(Request)
  <2>1. IsFiniteSet(targets) /\ Cardinality(targets) \in Nat
    BY FS_Subset, FS_CardinalityType DEF TypeOK, ConnectionAssumption
  <2>2. PICK order \in [1 .. Cardinality(targets) -> targets] :
          requests' = [i \in DOMAIN order |-> [op |-> "watch", target |-> order[i]]]
    BY <1>2 DEF WatchAgain
  <2>3. requests' \in [1 .. Cardinality(targets) -> Request]
    BY <2>2 DEF TypeOK, Request
  <2>4. requests' \in Seq(Request)
    BY <2>1, <2>3
  <2>5. WireTyped!1'
    <3> DEFINE counts == [t \in Target |-> aggregator.pending[t]
                                             + IF t \in targets THEN 1 ELSE 0]
    <3>1. aggregator.pending \in [Target -> Int]
      BY DEF TypeOK
    <3>2. counts \in [Target -> Int]
      BY <3>1
    <3>3. aggregator' = [aggregator EXCEPT !.pending = counts]
      BY <1>2 DEF WatchAgain
    <3>. HIDE DEF counts
    <3>. QED
      BY <3>2, <3>3 DEF TypeOK
  <2>. QED
    BY <2>4, <2>5
<1>3. WireTyped'
  BY <1>2 DEF TypeOK, WireTyped, TokenArrives
<1>. QED
  BY <1>1, <1>3 DEF TypeOK, StreamTyped, WireTyped, ViewsTyped, BoundsTyped

LEMMA FailuresTyped ==
  ASSUME TypeOK, TokenFails \/ ConnectionFails
  PROVE  TypeOK'
<1>1. tokens \in SUBSET tokens /\ tokens \ {closeCount} \in SUBSET tokens
  OBVIOUS
<1>2. StreamTyped' /\ WireTyped' /\ ViewsTyped'
  BY <1>1, CloseTyped DEF TokenFails, ConnectionFails
<1>3. BoundsTyped'
  BY DEF TypeOK, BoundsTyped, TokenFails, ConnectionFails
<1>. QED
  BY <1>2, <1>3 DEF TypeOK, StreamTyped, WireTyped, ViewsTyped, BoundsTyped

LEMMA TimersTyped ==
  ASSUME TypeOK, BackoffElapsed \/ OnlineTimeout \/ IdleTimeout
  PROVE  TypeOK'
<1>1. CASE BackoffElapsed
  BY <1>1 DEF TypeOK, BackoffElapsed, views, wire, bounds
<1>2. CASE OnlineTimeout
  <2>1. ViewsTyped!1'
    BY <1>2 DEF TypeOK, OnlineTimeout
  <2>2. ViewsTyped'
    BY <1>2, <2>1, BroadcastTyped DEF OnlineTimeout
  <2>. QED
    BY <1>2, <2>2 DEF TypeOK, ViewsTyped, OnlineTimeout, wire, bounds
<1>3. CASE IdleTimeout
  <2>1. tokens \in SUBSET tokens
    OBVIOUS
  <2>2. StreamTyped'
    BY <1>3, <2>1, CountsTyped DEF StreamTyped, IdleTimeout, StreamGone, RestStream
  <2>3. WireTyped'
    BY <1>3, EmptyTyped DEF WireTyped, IdleTimeout, StreamGone, RestStream
  <2>4. ViewsTyped' /\ BoundsTyped'
    BY <1>3, TrackerTyped
    DEF TypeOK, ViewsTyped, BoundsTyped, IdleTimeout, RestStream, views, bounds
  <2>. QED
    BY <2>2, <2>3, <2>4 DEF TypeOK, StreamTyped, WireTyped, ViewsTyped, BoundsTyped
<1>. QED
  BY <1>1, <1>2, <1>3

LEMMA CredentialTyped ==
  ASSUME TypeOK, HandleCredentialChange
  PROVE  TypeOK'
<1>1. BoundsTyped' /\ StreamTyped'
  <2>1. BoundsTyped'
    BY DEF TypeOK, BoundsTyped, HandleCredentialChange
  <2>2. tokens \in SUBSET tokens /\ stream \in {"Initial", "Starting", "Open", "Error", "Backoff"}
    BY DEF TypeOK
  <2>3. closeCount' \in {closeCount, closeCount + 1} /\ closeCount' \in Nat /\ idle' \in BOOLEAN
    BY <2>2, CountsTyped DEF TypeOK, HandleCredentialChange, StreamGone
  <2>4. stream' \in {"Initial", "Starting", "Open", "Error", "Backoff"}
    BY <2>2 DEF HandleCredentialChange, StartWatchStream, RestStream
  <2>5. tokens' \in {tokens, tokens \cup {closeCount'}}
    BY DEF HandleCredentialChange, StartWatchStream, RestStream
  <2>6. tokens' \subseteq 0 .. closeCount'
    BY <2>2, <2>3, <2>5, CountsTyped
  <2>. QED
    BY <2>1, <2>3, <2>4, <2>6 DEF StreamTyped
<1>2. WireTyped'
  BY EmptyTyped
  DEF TypeOK, WireTyped, HandleCredentialChange, StreamGone, StartWatchStream,
      RestStream, wire
<1>3. ViewsTyped'
  <2>1. AfterUpdate(tracker, "Unknown") \in [state : {"Unknown", "Online", "Offline"},
                                            failed : BOOLEAN, timer : BOOLEAN]
    BY TrackerTyped DEF TypeOK
  <2>2. ViewsTyped!1'
    BY <2>1, TrackerTyped DEF HandleCredentialChange, StartWatchStream, RestStream
  <2>. QED
    BY <2>2 DEF TypeOK, ViewsTyped, HandleCredentialChange, views
<1>. QED
  BY <1>1, <1>2, <1>3 DEF TypeOK, StreamTyped, WireTyped, ViewsTyped, BoundsTyped

LEMMA ReceiveTyped ==
  ASSUME TypeOK, NEW kind, Receive(kind)
  PROVE  /\ BoundsTyped' /\ StreamTyped' /\ ViewsTyped!1'
         /\ requests' \in Seq(Request) /\ responses' \in Seq(Response)
         /\ UNCHANGED server
         /\ Head(responses) \in Response /\ Head(responses).kind = kind
<1>1. responses \in Seq(Response) /\ responses # <<>>
  BY DEF TypeOK, Receive
<1>2. Head(responses) \in Response /\ Tail(responses) \in Seq(Response)
  BY <1>1
<1>3. ViewsTyped!1'
  BY TrackerTyped DEF TypeOK, Receive
<1>. QED
  BY <1>2, <1>3 DEF TypeOK, BoundsTyped, StreamTyped, Receive, bounds

LEMMA ResponseTarget ==
  ASSUME NEW r \in Response, r.kind # "snapshot"
  PROVE  r.target \in Target
BY DEF Response

LEMMA ResponseTyped ==
  ASSUME TypeOK, HandleResponse
  PROVE  TypeOK'
<1> DEFINE t == Head(responses).target
<1>1. CASE TargetAdded
  <2>1. t \in Target
    BY <1>1, ReceiveTyped, ResponseTarget DEF TargetAdded
  <2>2. WireTyped!1'
    BY <1>1, <2>1, AggregatorTyped DEF TargetAdded
  <2>. QED
    BY <1>1, <2>2, ReceiveTyped DEF TypeOK, StreamTyped, BoundsTyped, TargetAdded, views
<1>2. CASE TargetRemoved
  <2>1. t \in Target
    BY <1>2, ReceiveTyped, ResponseTarget DEF TargetRemoved
  <2>2. WireTyped!1'
    BY <1>2, <2>1, AggregatorTyped DEF TargetRemoved
  <2>. QED
    BY <1>2, <2>2, ReceiveTyped DEF TypeOK, StreamTyped, BoundsTyped, TargetRemoved, views
<1>3. CASE TargetCurrent
  <2>1. t \in Target
    BY <1>3, ReceiveTyped, ResponseTarget DEF TargetCurrent
  <2>2. WireTyped!1'
    BY <1>3, <2>1 DEF TypeOK, TargetCurrent
  <2>. QED
    BY <1>3, <2>2, ReceiveTyped DEF TypeOK, StreamTyped, BoundsTyped, TargetCurrent, views
<1>4. CASE SnapshotRaised
  <2>1. WireTyped!1' /\ ViewsTyped!2'
    BY <1>4 DEF TypeOK, SnapshotRaised, ConnectionAssumption
  <2>2. synced' \subseteq Target /\ cached' \subseteq Target
    BY <1>4 DEF TypeOK, SnapshotRaised
  <2>3. listeners' \in [Listener -> {"new", "waiting", "heard", "failed", "gone"}]
    BY <1>4 DEF TypeOK, SnapshotRaised, Notified
  <2>. QED
    BY <1>4, <2>1, <2>2, <2>3, ReceiveTyped DEF TypeOK, StreamTyped, BoundsTyped, SnapshotRaised
<1>5. CASE TargetRefused
  <2>1. t \in Target
    BY <1>5, ReceiveTyped, ResponseTarget DEF TargetRefused
  <2>2. WireTyped!1'
    BY <1>5, <2>1 DEF TypeOK, TargetRefused
  <2>3. /\ targets' \subseteq Target /\ synced' \subseteq Target /\ cached' \subseteq Target
        /\ listeners' \in [Listener -> {"new", "waiting", "heard", "failed", "gone"}]
    BY <1>5 DEF TypeOK, TargetRefused
  <2>. QED
    BY <1>5, <2>2, <2>3, ReceiveTyped DEF TypeOK, StreamTyped, BoundsTyped, TargetRefused
<1>. QED
  BY <1>1, <1>2, <1>3, <1>4, <1>5 DEF HandleResponse

LEMMA ServerTyped ==
  ASSUME TypeOK, ServerStep
  PROVE  TypeOK'
<1>1. UNCHANGED <<stream, closeCount, tokens, idle, tracker, aggregator, targets,
                  synced, cached, listeners, failures, users>>
  BY DEF ServerStep, ServerWatches, ServerRefuses, ServerUnwatches, ServerMakesCurrent,
         ServerSendsSnapshot, TakeRequest, Untouched, views, bounds
<1>2. ASSUME NEW op, TakeRequest(op)
      PROVE  requests' \in Seq(Request) /\ Head(requests).target \in Target
  <2>1. requests \in Seq(Request) /\ requests # <<>>
    BY <1>2 DEF TypeOK, TakeRequest
  <2>2. Head(requests) \in Request /\ Tail(requests) \in Seq(Request)
    BY <2>1
  <2>. QED
    BY <1>2, <2>2 DEF TakeRequest, Request
<1>3. ASSUME NEW r \in Response, responses' = Append(responses, r)
      PROVE  responses' \in Seq(Response)
  BY <1>3 DEF TypeOK
<1>31. ASSUME NEW t \in Target, NEW kind \in {"added", "removed", "current", "refused"}
       PROVE  [kind |-> kind, target |-> t] \in Response
  BY DEF Response
<1>4. CASE ServerWatches
  <2>1. requests' \in Seq(Request) /\ responses' \in Seq(Response)
    BY <1>4, <1>2, <1>3, <1>31 DEF ServerWatches, Respond
  <2>2. WireTyped!3'
    BY <1>4, <1>2 DEF TypeOK, ServerWatches
  <2>. QED
    BY <1>1, <2>1, <2>2 DEF TypeOK
<1>5. CASE ServerRefuses
  <2>1. requests' \in Seq(Request) /\ responses' \in Seq(Response)
    BY <1>5, <1>2, <1>3, <1>31 DEF ServerRefuses, Respond
  <2>. QED
    BY <1>1, <1>5, <2>1 DEF TypeOK, ServerRefuses
<1>6. CASE ServerUnwatches
  <2>1. requests' \in Seq(Request) /\ responses' \in Seq(Response)
    BY <1>6, <1>2, <1>3, <1>31 DEF ServerUnwatches, Respond
  <2>2. WireTyped!3'
    BY <1>6 DEF TypeOK, ServerUnwatches
  <2>. QED
    BY <1>1, <2>1, <2>2 DEF TypeOK
<1>7. ASSUME NEW t \in Target, ServerMakesCurrent(t)
      PROVE  TypeOK'
  <2>1. requests' \in Seq(Request) /\ responses' \in Seq(Response)
    BY <1>7, <1>3, <1>31 DEF TypeOK, ServerMakesCurrent, Respond
  <2>2. WireTyped!3'
    BY <1>7 DEF TypeOK, ServerMakesCurrent
  <2>. QED
    BY <1>1, <2>1, <2>2 DEF TypeOK
<1>8. CASE ServerSendsSnapshot
  <2>1. [kind |-> "snapshot"] \in Response
    BY DEF Response
  <2>2. requests' \in Seq(Request) /\ responses' \in Seq(Response)
    BY <1>3, <1>8, <2>1 DEF TypeOK, ServerSendsSnapshot
  <2>3. WireTyped!3'
    BY <1>8 DEF TypeOK, ServerSendsSnapshot
  <2>. QED
    BY <1>1, <2>2, <2>3 DEF TypeOK
<1>. QED
  BY <1>4, <1>5, <1>6, <1>7, <1>8 DEF ServerStep
LEMMA StepTyped ==
  ASSUME ConnectionAssumption, TypeOK, [Next]_vars
  PROVE  TypeOK'
<1>1. CASE UNCHANGED vars
  BY <1>1 DEF TypeOK, vars
<1>. QED
  BY <1>1, AddTyped, RemoveTyped, TokenTyped, FailuresTyped, TimersTyped,
     CredentialTyped, ResponseTyped, ServerTyped DEF Next, TokenStep

\* The state of the connection is always of its type.
THEOREM ConnectionTyped == Spec => []TypeOK
<1>1. ASSUME Init
      PROVE  TypeOK
  <2>1. StreamTyped /\ BoundsTyped
    BY <1>1 DEF Init, StreamTyped, BoundsTyped
  <2>2. WireTyped
    BY <1>1, EmptyTyped DEF Init, WireTyped
  <2>3. ViewsTyped
    BY <1>1 DEF Init, ViewsTyped
  <2>. QED
    BY <2>1, <2>2, <2>3, TypeParts
<1>. QED
  BY <1>1, StepTyped, ConnectionAssumption, PTL DEF Spec

-----------------------------------------------------------------------------
(* The assertions of the tracker                                           *)

\* What the tracker asserts of itself, apart from the views.
TrackerSound(k, started) ==
  /\ k.timer => k.state = "Unknown" /\ ~k.failed /\ started
  /\ k.state = "Online" => ~k.failed

LEMMA TrackerStarts ==
  ASSUME NEW k \in [state : {"Unknown", "Online", "Offline"}, failed : BOOLEAN,
                    timer : BOOLEAN],
         NEW started \in BOOLEAN, TrackerSound(k, started)
  PROVE  /\ TrackerSound(AfterStart(k), TRUE)
         /\ TrackerSound(AfterFailure(k), TRUE)
         /\ AfterStart(k).state = "Offline" => k.state = "Offline"
         /\ AfterFailure(k) \in [state : {"Unknown", "Online", "Offline"},
                                 failed : BOOLEAN, timer : BOOLEAN]
BY DEF TrackerSound, AfterStart, AfterFailure

LEMMA TrackerUpdates ==
  ASSUME NEW k, NEW state \in {"Unknown", "Online"}
  PROVE  /\ TrackerSound(AfterUpdate(k, state), FALSE)
         /\ AfterUpdate(k, state).state = state
BY DEF TrackerSound, AfterUpdate

LEMMA TrackerKept ==
  ASSUME TypeOK, AssertsHold, [Next]_vars
  PROVE  TrackerAsserts'
<1>1. TrackerSound(tracker, IsStarted) /\ IsStarted \in BOOLEAN
      /\ tracker \in [state : {"Unknown", "Online", "Offline"}, failed : BOOLEAN,
                      timer : BOOLEAN]
      /\ (tracker.state = "Offline" => synced = {})
  BY DEF TypeOK, AssertsHold, TrackerAsserts, TrackerSound, IsStarted
<1>2. SUFFICES TrackerSound(tracker', IsStarted') /\ (tracker'.state = "Offline" => synced' = {})
  BY DEF TrackerAsserts, TrackerSound
<1>3. ASSUME NEW l \in Listener, AddQueryListener(l)
      PROVE  TrackerSound(tracker', IsStarted') /\ (tracker'.state = "Offline" => synced' = {})
  <2>1. \/ tracker' = tracker /\ stream' = stream
        \/ tracker' = AfterStart(tracker) /\ IsStarted'
    BY <1>3 DEF AddQueryListener, Listen, StartWatchStream, IsStarted
  <2>2. synced' = synced
    BY <1>3 DEF AddQueryListener
  <2>. QED
    BY <1>1, <2>1, <2>2, TrackerStarts, TrackerUpdates DEF TrackerSound, IsStarted
<1>4. ASSUME NEW l \in Listener, RemoveQueryListener(l)
      PROVE  TrackerSound(tracker', IsStarted') /\ (tracker'.state = "Offline" => synced' = {})
  <2>1. stream' = stream /\ tracker' \in {tracker, AfterUpdate(tracker, "Unknown")}
    BY <1>4 DEF RemoveQueryListener, StopListening
  <2>2. synced' \subseteq synced
    BY <1>4 DEF RemoveQueryListener
  <2>. QED
    BY <1>1, <2>1, <2>2, TrackerStarts, TrackerUpdates DEF TrackerSound, IsStarted
<1>5. ASSUME NEW rest, CloseWithError(rest)
      PROVE  TrackerSound(tracker', IsStarted') /\ (tracker'.state = "Offline" => synced' = {})
  <2>1. \/ tracker' = AfterStart(AfterFailure(tracker)) /\ IsStarted'
        \/ tracker' = AfterUpdate(tracker, "Unknown")
    BY <1>5 DEF CloseWithError, StartWatchStream, RestStream, IsStarted
  <2>2. tracker'.state = "Offline" => synced' = {}
    BY <1>5 DEF CloseWithError, Broadcast
  <2>3. TrackerSound(AfterStart(AfterFailure(tracker)), TRUE)
    <3>1. /\ TrackerSound(AfterFailure(tracker), TRUE)
          /\ AfterFailure(tracker) \in [state : {"Unknown", "Online", "Offline"},
                                        failed : BOOLEAN, timer : BOOLEAN]
      BY <1>1, TrackerStarts, TrackerUpdates
    <3>. QED
      BY <3>1, TrackerStarts, TrackerUpdates
  <2>. QED
    BY <1>1, <2>1, <2>2, <2>3, TrackerStarts, TrackerUpdates DEF TrackerSound
<1>6. CASE TokenStep
  <2>1. UNCHANGED <<tracker, synced>> /\ (IsStarted => IsStarted')
    BY <1>6 DEF TokenStep, TokenArrives, IsStarted, views
  <2>. QED
    BY <1>1, <2>1 DEF TrackerSound
<1>7. CASE BackoffElapsed
  BY <1>1, <1>7 DEF BackoffElapsed, TrackerSound, IsStarted, views
<1>8. CASE OnlineTimeout
  <2>1. tracker' = [state |-> "Offline", failed |-> tracker.failed, timer |-> FALSE]
    BY <1>1, <1>8 DEF OnlineTimeout
  <2>2. tracker'.state = "Offline" => synced' = {}
    BY <1>8 DEF OnlineTimeout, Broadcast
  <2>. QED
    BY <2>1, <2>2 DEF TrackerSound
<1>9. CASE IdleTimeout
  BY <1>1, <1>9, TrackerStarts, TrackerUpdates DEF IdleTimeout, RestStream, TrackerSound
<1>10. CASE HandleCredentialChange
  <2>1. \/ tracker' = AfterStart(AfterUpdate(tracker, "Unknown")) /\ IsStarted'
        \/ tracker' = AfterUpdate(tracker, "Unknown")
    BY <1>10 DEF HandleCredentialChange, StartWatchStream, RestStream, IsStarted
  <2>2. /\ AfterUpdate(tracker, "Unknown").state = "Unknown"
        /\ TrackerSound(AfterUpdate(tracker, "Unknown"), FALSE)
        /\ TrackerSound(AfterStart(AfterUpdate(tracker, "Unknown")), TRUE)
        /\ AfterStart(AfterUpdate(tracker, "Unknown")).state = "Unknown"
    BY DEF AfterStart, AfterUpdate, TrackerSound
  <2>. QED
    BY <2>1, <2>2 DEF TrackerSound
<1>11. CASE HandleResponse
  <2>1. tracker' = AfterUpdate(tracker, "Online")
    BY <1>11 DEF HandleResponse, TargetAdded, TargetRemoved, TargetCurrent,
                 SnapshotRaised, TargetRefused, Receive
  <2>. QED
    BY <1>1, <2>1, TrackerStarts, TrackerUpdates DEF TrackerSound
<1>12. CASE ServerStep
  <2>1. UNCHANGED <<tracker, synced, stream>>
    BY <1>12 DEF ServerStep, ServerWatches, ServerRefuses, ServerUnwatches,
                 ServerMakesCurrent, ServerSendsSnapshot, TakeRequest, Untouched, views
  <2>. QED
    BY <1>1, <2>1 DEF IsStarted
<1>13. CASE UNCHANGED vars
  BY <1>1, <1>13 DEF vars, IsStarted
<1>. QED
  BY <1>3, <1>4, <1>5, <1>6, <1>7, <1>8, <1>9, <1>10, <1>11, <1>12, <1>13
  DEF Next, TokenFails, ConnectionFails

-----------------------------------------------------------------------------
(* The assertions of the stream                                            *)

\* A wire on which nothing is: the stream is not open.
Silent == /\ requests = <<>> /\ responses = <<>>
          /\ aggregator = NewAggregator /\ server = NewServer

StreamRules ==
  /\ closeCount \in tokens <=> stream = "Starting"
  /\ idle => stream = "Open" /\ targets = {}
  /\ stream \in {"Initial", "Error"} => targets = {}
  /\ stream # "Open" => Silent

LEMMA StreamParts == (StreamAsserts <=> StreamRules) /\ (StreamAsserts' <=> StreamRules')
BY DEF StreamAsserts, StreamRules, Silent

\* A stream that is gone takes its token's count with it.
LEMMA GoneKept ==
  ASSUME TypeOK, NEW rest \in SUBSET tokens, NEW from \in {"Initial", "Error"}, NEW k,
         StreamGone, targets' = targets,
         \/ targets # {} /\ StartWatchStream(from, closeCount', rest, k)
         \/ targets = {} /\ RestStream(from, rest)
  PROVE  StreamAsserts'
<1>1. closeCount' \notin rest /\ Silent' /\ idle' = FALSE
  BY CountsTyped DEF StreamGone, Silent, StartWatchStream, RestStream
<1>2. CASE targets # {} /\ StartWatchStream(from, closeCount', rest, k)
  BY <1>1, <1>2, StreamParts DEF StreamRules, StartWatchStream
<1>3. CASE targets = {} /\ RestStream(from, rest)
  BY <1>1, <1>3, StreamParts DEF StreamRules, RestStream
<1>. QED
  BY <1>2, <1>3

LEMMA StreamKept ==
  ASSUME TypeOK, AssertsHold, [Next]_vars
  PROVE  StreamAsserts'
<1>1. /\ closeCount \in tokens <=> stream = "Starting"
      /\ idle => stream = "Open" /\ targets = {}
      /\ stream \in {"Initial", "Error"} => targets = {}
      /\ stream # "Open" => Silent
      /\ stream \in {"Initial", "Starting", "Open", "Error", "Backoff"}
      /\ idle \in BOOLEAN
  BY StreamParts DEF StreamRules, AssertsHold, TypeOK
<1>2. tokens \in SUBSET tokens /\ tokens \ {closeCount} \in SUBSET tokens
  OBVIOUS
<1>3. ASSUME NEW l \in Listener, AddQueryListener(l)
      PROVE  StreamAsserts'
  <2> DEFINE t == TargetOf[l]
  <2>1. /\ targets' = targets \cup {t} /\ closeCount' = closeCount
        /\ UNCHANGED <<responses, server>>
    BY <1>3 DEF AddQueryListener
  <2>2. CASE t \in targets
    <3>1. UNCHANGED <<stream, closeCount, tokens, aggregator, idle, requests, targets,
                      responses, server>>
      BY <1>3, <2>1, <2>2 DEF AddQueryListener
    <3>. QED
      BY <1>1, <3>1, StreamParts DEF StreamRules, Silent
  <2>3. CASE t \notin targets /\ ~IsStarted
    <3>1. /\ StartWatchStream(stream, closeCount, tokens, tracker)
          /\ UNCHANGED <<idle, requests>>
      BY <1>3, <2>3 DEF AddQueryListener, Listen, IsStarted
    <3>2. stream # "Open" /\ stream # "Starting" /\ ~idle
      BY <1>1, <2>3 DEF IsStarted
    <3>3. Silent'
      BY <1>1, <2>1, <3>1, <3>2 DEF Silent, StartWatchStream
    <3>. QED
      BY <1>1, <2>1, <3>1, <3>2, <3>3, StreamParts DEF StreamRules, StartWatchStream
  <2>4. CASE t \notin targets /\ stream = "Open"
    <3>1. idle' = FALSE /\ UNCHANGED <<stream, tokens>>
      BY <1>3, <2>4 DEF AddQueryListener, Listen, IsStarted
    <3>. QED
      BY <1>1, <2>1, <2>4, <3>1, StreamParts DEF StreamRules
  <2>5. CASE t \notin targets /\ stream \in {"Starting", "Backoff"}
    <3>1. UNCHANGED <<stream, tokens, aggregator, idle, requests>>
      BY <1>3, <2>5 DEF AddQueryListener, Listen, IsStarted
    <3>2. Silent'
      BY <1>1, <2>1, <2>5, <3>1 DEF Silent
    <3>. QED
      BY <1>1, <2>1, <2>5, <3>1, <3>2, StreamParts DEF StreamRules
  <2>. QED
    BY <1>1, <2>2, <2>3, <2>4, <2>5 DEF IsStarted
<1>4. ASSUME NEW l \in Listener, RemoveQueryListener(l)
      PROVE  StreamAsserts'
  <2>1. /\ targets' \subseteq targets
        /\ UNCHANGED <<stream, closeCount, tokens, responses, server>>
        /\ stream # "Open" => UNCHANGED <<aggregator, requests, idle>>
        /\ stream = "Open" => idle' = (targets' = {}) \/ UNCHANGED <<idle, targets>>
    BY <1>4 DEF RemoveQueryListener, StopListening
  <2>2. stream # "Open" => Silent'
    BY <1>1, <2>1 DEF Silent
  <2>. QED
    BY <1>1, <2>1, <2>2, StreamParts DEF StreamRules
<1>5. ASSUME NEW rest \in SUBSET tokens, CloseWithError(rest)
      PROVE  StreamAsserts'
  BY <1>5, GoneKept DEF CloseWithError, Broadcast
<1>6. ASSUME NEW c \in tokens, TokenArrives(c)
      PROVE  StreamAsserts'
  <2>1. UNCHANGED <<closeCount, idle, targets, responses, server>> /\ tokens' = tokens \ {c}
    BY <1>6 DEF TokenArrives, views
  <2>2. CASE c = closeCount
    <3>1. stream' = "Open" /\ stream = "Starting"
      BY <1>1, <1>6, <2>2 DEF TokenArrives, TokenIsCurrent
    <3>. QED
      BY <1>1, <2>1, <2>2, <3>1, StreamParts DEF StreamRules
  <2>3. CASE c # closeCount
    <3>1. UNCHANGED <<stream, requests, aggregator>>
      BY <1>6, <2>3 DEF TokenArrives, TokenIsCurrent
    <3>2. Silent' <=> Silent
      BY <2>1, <3>1 DEF Silent
    <3>. QED
      BY <1>1, <2>1, <2>3, <3>1, <3>2, StreamParts DEF StreamRules
  <2>. QED
    BY <2>2, <2>3
<1>7. CASE BackoffElapsed
  <2>1. /\ stream = "Backoff" /\ stream' = "Starting" /\ tokens' = tokens \cup {closeCount}
        /\ UNCHANGED <<closeCount, idle, targets>> /\ Silent' = Silent
    BY <1>7 DEF BackoffElapsed, views, wire, Silent
  <2>. QED
    BY <1>1, <2>1, StreamParts DEF StreamRules
<1>8. CASE OnlineTimeout
  <2>1. UNCHANGED <<stream, closeCount, tokens, idle, targets>> /\ Silent' = Silent
    BY <1>8 DEF OnlineTimeout, Broadcast, wire, Silent
  <2>. QED
    BY <1>1, <2>1, StreamParts DEF StreamRules
<1>9. CASE IdleTimeout
  <2>1. targets = {} /\ targets' = targets /\ StreamGone /\ RestStream("Initial", tokens)
    BY <1>1, <1>9 DEF IdleTimeout, views
  <2>. QED
    BY <1>2, <2>1, GoneKept
<1>10. CASE HandleCredentialChange /\ IsStarted
  <2>1. /\ targets' = targets /\ StreamGone
        /\ \/ targets # {} /\ StartWatchStream("Initial", closeCount', tokens,
                                              AfterUpdate(tracker, "Unknown"))
           \/ targets = {} /\ RestStream("Initial", tokens)
    BY <1>10 DEF HandleCredentialChange, views
  <2>. QED
    BY <1>2, <2>1, GoneKept
<1>11. CASE HandleCredentialChange /\ ~IsStarted
  <2>1. /\ targets = {} /\ targets' = targets /\ ~idle /\ stream \notin {"Open", "Starting"}
    BY <1>1, <1>11 DEF HandleCredentialChange, views, IsStarted
  <2>2. /\ UNCHANGED <<closeCount, idle, requests, responses, server>>
        /\ RestStream(stream, tokens)
    BY <1>11, <2>1 DEF HandleCredentialChange, wire
  <2>3. Silent'
    BY <1>1, <2>1, <2>2 DEF Silent, RestStream
  <2>. QED
    BY <1>1, <2>1, <2>2, <2>3, StreamParts DEF StreamRules, RestStream
<1>12. CASE HandleResponse
  <2>1. /\ responses # <<>> /\ targets' \subseteq targets
        /\ UNCHANGED <<stream, closeCount, tokens, idle>>
    BY <1>12 DEF HandleResponse, TargetAdded, TargetRemoved, TargetCurrent,
                 SnapshotRaised, TargetRefused, Receive, views
  <2>2. stream = "Open"
    BY <1>1, <2>1 DEF Silent
  <2>. QED
    BY <1>1, <2>1, <2>2, StreamParts DEF StreamRules
<1>13. CASE ServerStep
  <2>1. UNCHANGED <<stream, closeCount, tokens, idle, targets>>
    BY <1>13 DEF ServerStep, ServerWatches, ServerRefuses, ServerUnwatches,
                 ServerMakesCurrent, ServerSendsSnapshot, TakeRequest, Untouched, views
  <2>2. requests # <<>> \/ server.watching # {} \/ server.due # {}
    BY <1>13 DEF ServerStep, ServerWatches, ServerRefuses, ServerUnwatches,
                 ServerMakesCurrent, ServerSendsSnapshot, TakeRequest
  <2>3. stream = "Open"
    BY <1>1, <2>2 DEF Silent, NewServer
  <2>. QED
    BY <1>1, <2>1, <2>3, StreamParts DEF StreamRules
<1>14. CASE UNCHANGED vars
  <2>1. UNCHANGED <<stream, closeCount, tokens, idle, targets>> /\ Silent' = Silent
    BY <1>14 DEF vars, Silent
  <2>. QED
    BY <1>1, <2>1, StreamParts DEF StreamRules
<1>. QED
  BY <1>2, <1>3, <1>4, <1>5, <1>6, <1>7, <1>8, <1>9, <1>10, <1>11, <1>12, <1>13, <1>14
  DEF Next, TokenStep, TokenFails, ConnectionFails

-----------------------------------------------------------------------------
(* The assertions of the listens                                           *)

\* A target is listened to exactly as long as a listener is attached to it.
Matched(attached, listened) ==
  \A t \in Target : t \in listened <=> \E l \in attached : TargetOf[l] = t

Listening == {l \in Listener : Attached(l)}

LEMMA ListenParts ==
  /\ ListenAsserts <=> Matched(Listening, targets) /\ synced \subseteq targets
  /\ ListenAsserts' <=> Matched(Listening', targets') /\ synced' \subseteq targets'
BY DEF ListenAsserts, Matched, Listening, Attached

LEMMA NotifiedKeeps ==
  ASSUME Notified
  PROVE  Listening' = Listening
BY DEF Notified, Listening, Attached

LEMMA ListenKept ==
  ASSUME TypeOK, AssertsHold, [Next]_vars
  PROVE  ListenAsserts'
<1>1. /\ Matched(Listening, targets) /\ synced \subseteq targets
      /\ synced \subseteq Target /\ targets \subseteq Target
      /\ listeners \in [Listener -> {"new", "waiting", "heard", "failed", "gone"}]
  BY ListenParts DEF AssertsHold, TypeOK
<1>2. ASSUME NEW l \in Listener, AddQueryListener(l)
      PROVE  ListenAsserts'
  <2>1. Listening' = Listening \cup {l}
    BY <1>1, <1>2 DEF AddQueryListener, Listening, Attached
  <2>2. targets' = targets \cup {TargetOf[l]} /\ synced' = synced
    BY <1>2 DEF AddQueryListener
  <2>. QED
    BY <1>1, <2>1, <2>2, ListenParts DEF Matched
<1>3. ASSUME NEW l \in Listener, RemoveQueryListener(l)
      PROVE  ListenAsserts'
  <2>1. Listening' = Listening \ {l} /\ l \in Listening
    BY <1>1, <1>3 DEF RemoveQueryListener, Listening, Attached
  <2>2. CASE \E k \in Listening \ {l} : TargetOf[k] = TargetOf[l]
    <3>1. UNCHANGED <<targets, synced>>
      BY <1>3, <2>2 DEF RemoveQueryListener, Listening
    <3>. QED
      BY <1>1, <2>1, <2>2, <3>1, ListenParts DEF Matched
  <2>3. CASE \A k \in Listening \ {l} : TargetOf[k] # TargetOf[l]
    <3>1. targets' = targets \ {TargetOf[l]} /\ synced' = synced \ {TargetOf[l]}
      BY <1>3, <2>3 DEF RemoveQueryListener, Listening
    <3>. QED
      BY <1>1, <2>1, <2>3, <3>1, ListenParts DEF Matched
  <2>. QED
    BY <2>2, <2>3
<1>4. ASSUME Broadcast
      PROVE  ListenAsserts'
  <2>1. targets' = targets /\ synced' \subseteq synced /\ Listening' = Listening
    BY <1>4, NotifiedKeeps DEF Broadcast
  <2>. QED
    BY <1>1, <2>1, ListenParts
<1>5. ASSUME UNCHANGED views
      PROVE  ListenAsserts'
  <2>1. UNCHANGED <<targets, synced>> /\ Listening' = Listening
    BY <1>5 DEF views, Listening, Attached
  <2>. QED
    BY <1>1, <2>1, ListenParts
<1>6. CASE SnapshotRaised
  <2>1. targets' = targets /\ synced' \subseteq synced \cup targets
    BY <1>6 DEF SnapshotRaised, IsActive
  <2>2. Listening' = Listening
    BY <1>6, NotifiedKeeps DEF SnapshotRaised
  <2>. QED
    BY <1>1, <2>1, <2>2, ListenParts
<1>7. CASE TargetRefused
  <2> DEFINE t == Head(responses).target
  <2>1. CASE t \in targets
    <3>1. /\ targets' = targets \ {t} /\ synced' = synced \ {t}
          /\ listeners' = [l \in Listener |->
               IF TargetOf[l] = t /\ Attached(l) THEN "failed" ELSE listeners[l]]
      BY <1>7, <2>1 DEF TargetRefused
    <3>2. Listening' = {l \in Listening : TargetOf[l] # t}
      BY <3>1 DEF Listening, Attached
    <3>. QED
      BY <1>1, <3>1, <3>2, ListenParts DEF Matched
  <2>2. CASE t \notin targets
    <3>1. UNCHANGED <<targets, synced, listeners>>
      BY <1>7, <2>2 DEF TargetRefused
    <3>2. Listening' = Listening
      BY <3>1 DEF Listening, Attached
    <3>. QED
      BY <1>1, <3>1, <3>2, ListenParts
  <2>. QED
    BY <2>1, <2>2
<1>8. CASE ServerStep
  <2>1. UNCHANGED views
    BY <1>8 DEF ServerStep, ServerWatches, ServerRefuses, ServerUnwatches,
                ServerMakesCurrent, ServerSendsSnapshot, TakeRequest, Untouched
  <2>. QED
    BY <1>5, <2>1
<1>9. CASE \/ TokenStep \/ BackoffElapsed \/ IdleTimeout \/ HandleCredentialChange
           \/ TargetAdded \/ TargetRemoved \/ TargetCurrent \/ UNCHANGED vars
  <2>1. UNCHANGED views
    BY <1>9 DEF TokenStep, TokenArrives, BackoffElapsed, IdleTimeout,
                HandleCredentialChange, TargetAdded, TargetRemoved, TargetCurrent,
                vars, views
  <2>. QED
    BY <1>5, <2>1
<1>10. CASE TokenFails \/ ConnectionFails \/ OnlineTimeout
  BY <1>4, <1>10 DEF TokenFails, ConnectionFails, OnlineTimeout, CloseWithError
<1>. QED
  BY <1>2, <1>3, <1>6, <1>7, <1>8, <1>9, <1>10 DEF Next, HandleResponse

-----------------------------------------------------------------------------
(* The theorem                                                             *)

\* Whatever comes in whatever order, no assertion of the tracker, of the stream or
\* of the listens fails.
THEOREM AssertionsHold == Spec => []AssertsHold
<1>1. Init => AssertsHold
  BY DEF Init, AssertsHold, TrackerAsserts, StreamAsserts, ListenAsserts, Attached
<1>2. TypeOK /\ AssertsHold /\ [Next]_vars => AssertsHold'
  BY TrackerKept, StreamKept, ListenKept DEF AssertsHold
<1>. QED
  BY <1>1, <1>2, ConnectionTyped, PTL DEF Spec
-----------------------------------------------------------------------------
(* What is outstanding about a target                                      *)

About(t) == {r \in Request : r.target = t}
Acks(t) == {r \in Response : Acknowledging(r, t)}

\* The responses the client waits for are those to come.
Balanced ==
  \A t \in Target :
    aggregator.pending[t] = Occurs(requests, About(t)) + Occurs(responses, Acks(t))

Asked(t) == \E i \in DOMAIN requests : requests[i].target = t
Refusal(t) == [kind |-> "refused", target |-> t]
RefusalOf(t) == \E i \in DOMAIN responses : responses[i] = Refusal(t)

LastAbout(t, i) ==
  requests[i].target = t /\ \A j \in DOMAIN requests : j > i => requests[j].target # t

\* The last request about a target is what the client wants of it; without any the
\* server watches what the client listens to, unless it has refused it.
Wanted ==
  \A t \in Target :
    /\ \A i \in DOMAIN requests :
         LastAbout(t, i) => (t \in targets <=> requests[i].op = "watch")
    /\ ~Asked(t) => (t \in targets <=> t \in server.watching \/ RefusalOf(t))

\* A query that may be refused is asked for once and is not given up.
RefusedAlone ==
  /\ \A t \in Target : RefusalOf(t) => t \in Refusable
  /\ \A t \in Refusable :
       /\ \A i \in DOMAIN requests : requests[i].target = t => requests[i].op = "watch"
       /\ aggregator.pending[t] > 0 => aggregator.pending[t] = 1 /\ t \in targets
       /\ Asked(t) \/ RefusalOf(t) => t \notin server.watching

TakenBack(t, i) ==
  \E j \in DOMAIN responses : j > i /\ responses[j] = [kind |-> "removed", target |-> t]

\* What the server has called current it serves, or has taken back since.
ServedOrTaken ==
  /\ \A t \in Target : \A i \in DOMAIN responses :
       responses[i] = [kind |-> "current", target |-> t]
         => t \in server.served \/ TakenBack(t, i)
  /\ \A t \in aggregator.changed : t \in server.served \/ aggregator.pending[t] > 0

Outstanding == Balanced /\ Wanted /\ RefusedAlone /\ ServedOrTaken

CountInv == stream = "Open" => Outstanding

\* No query that is looked up is refused: a refusal that crosses the unwatch of its
\* query is ignored and not counted as a response.
LookupsServed == \A l \in OneShot : TargetOf[l] \notin Refusable

LEMMA CountTypes ==
  ASSUME TypeOK
  PROVE  /\ requests \in Seq(Request) /\ responses \in Seq(Response)
         /\ DOMAIN requests = 1 .. Len(requests) /\ DOMAIN responses = 1 .. Len(responses)
         /\ Len(requests) \in Nat /\ Len(responses) \in Nat
         /\ \A i \in DOMAIN requests : requests[i] \in Request
         /\ \A i \in DOMAIN responses : responses[i] \in Response
         /\ aggregator.pending \in [Target -> Int]
         /\ aggregator.current \subseteq Target /\ aggregator.changed \subseteq Target
BY DEF TypeOK

\* A target nothing is outstanding about.
LEMMA NothingOutstanding ==
  ASSUME TypeOK, Balanced, NEW t \in Target
  PROVE  /\ aggregator.pending[t] \in Nat
         /\ Occurs(requests, About(t)) \in Nat /\ Occurs(responses, Acks(t)) \in Nat
         /\ Asked(t) <=> Occurs(requests, About(t)) > 0
         /\ (\E i \in DOMAIN responses : Acknowledging(responses[i], t))
              <=> Occurs(responses, Acks(t)) > 0
         /\ RefusalOf(t) => Occurs(responses, Acks(t)) > 0
<1>1. /\ Occurs(requests, About(t)) \in Nat
      /\ Occurs(requests, About(t)) = 0 <=> \A i \in DOMAIN requests : requests[i] \notin About(t)
      /\ Occurs(responses, Acks(t)) \in Nat
      /\ Occurs(responses, Acks(t)) = 0 <=> \A i \in DOMAIN responses : responses[i] \notin Acks(t)
  BY CountTypes, OccursFinite
<1>2. aggregator.pending[t] = Occurs(requests, About(t)) + Occurs(responses, Acks(t))
  BY DEF Balanced
<1>3. \A i \in DOMAIN requests : requests[i] \in About(t) <=> requests[i].target = t
  BY CountTypes DEF About
<1>4. \A i \in DOMAIN responses : responses[i] \in Acks(t) <=> Acknowledging(responses[i], t)
  BY CountTypes DEF Acks
<1>5. Acknowledging(Refusal(t), t)
  BY DEF Acknowledging, Refusal
<1>6. RefusalOf(t) => \E i \in DOMAIN responses : Acknowledging(responses[i], t)
  BY <1>5 DEF RefusalOf
<1>7. Asked(t) <=> Occurs(requests, About(t)) > 0
  BY <1>1, <1>3 DEF Asked
<1>8. (\E i \in DOMAIN responses : Acknowledging(responses[i], t))
        <=> Occurs(responses, Acks(t)) > 0
  BY <1>1, <1>4
<1>9. aggregator.pending[t] \in Nat
  BY <1>1, <1>2
<1>. QED
  BY <1>1, <1>6, <1>7, <1>8, <1>9

-----------------------------------------------------------------------------
(* Requests                                                                *)

LEMMA SendCounts ==
  ASSUME TypeOK, ConnectionAssumption, Outstanding,
         NEW t \in Target, NEW op \in {"watch", "unwatch"}, Send(op, t),
         UNCHANGED <<responses, server>>,
         op = "watch" => t \notin targets /\ targets' = targets \cup {t},
         op = "unwatch" => t \notin Refusable /\ targets' = targets \ {t}
  PROVE  Outstanding'
<1> DEFINE r == [op |-> op, target |-> t]
           n == Len(requests)
<1>1. r \in Request
  BY DEF Request
<1>2. /\ requests' = Append(requests, r) /\ n \in Nat
      /\ DOMAIN requests = 1 .. n /\ DOMAIN requests' = 1 .. n + 1
      /\ \A i \in 1 .. n : requests'[i] = requests[i]
      /\ requests'[n + 1] = r
  BY <1>1, CountTypes, AppendFacts DEF Send
<1>3. /\ aggregator'.pending \in [Target -> Int]
      /\ \A u \in Target : aggregator'.pending[u]
                             = aggregator.pending[u] + IF u = t THEN 1 ELSE 0
      /\ aggregator'.changed = aggregator.changed
  <2>1. /\ aggregator \in [pending : [Target -> Int], current : SUBSET Target,
                           changed : SUBSET Target]
        /\ aggregator' = [aggregator EXCEPT !.pending[t] = @ + 1]
    BY DEF TypeOK, Send
  <2>2. aggregator'.pending = [aggregator.pending EXCEPT ![t] = @ + 1]
        /\ aggregator'.changed = aggregator.changed
    BY <2>1
  <2>. QED
    BY <2>1, <2>2
<1>4. Balanced'
  <2>1. SUFFICES ASSUME NEW u \in Target
                 PROVE  aggregator'.pending[u]
                          = Occurs(requests', About(u)) + Occurs(responses', Acks(u))
    BY DEF Balanced
  <2>2. Occurs(requests', About(u)) = Occurs(requests, About(u)) + IF r \in About(u) THEN 1 ELSE 0
    BY <1>1, <1>2, CountTypes, OccursAppend
  <2>3. r \in About(u) <=> u = t
    BY <1>1 DEF About
  <2>4. Occurs(responses', Acks(u)) = Occurs(responses, Acks(u))
    OBVIOUS
  <2>5. aggregator.pending[u] = Occurs(requests, About(u)) + Occurs(responses, Acks(u))
        /\ Occurs(requests, About(u)) \in Nat /\ Occurs(responses, Acks(u)) \in Nat
    BY NothingOutstanding DEF Balanced, Outstanding
  <2>. QED
    BY <1>3, <2>2, <2>3, <2>4, <2>5
<1>5. Asked(t)' /\ \A u \in Target : u # t => Asked(u)' = Asked(u)
  BY <1>2 DEF Asked
<1>6. \A u \in Target : RefusalOf(u)' = RefusalOf(u)
  BY DEF RefusalOf
<1>7. Wanted'
  <2>1. ASSUME NEW u \in Target, NEW i \in DOMAIN requests', LastAbout(u, i)'
        PROVE  u \in targets' <=> requests'[i].op = "watch"
    <3>1. CASE i = n + 1
      BY <1>2, <2>1, <3>1 DEF LastAbout
    <3>2. CASE i # n + 1
      <4>1. i \in 1 .. n /\ n + 1 \in DOMAIN requests' /\ n + 1 > i
        BY <1>2, <3>2
      <4>2. u # t
        BY <1>2, <2>1, <4>1 DEF LastAbout
      <4>3. LastAbout(u, i)
        BY <1>2, <2>1, <4>1 DEF LastAbout
      <4>4. u \in targets <=> requests[i].op = "watch"
        BY <1>2, <4>1, <4>3 DEF Outstanding, Wanted
      <4>5. u \in targets' <=> u \in targets
        BY <4>2
      <4>. QED
        BY <1>2, <4>1, <4>4, <4>5
    <3>. QED
      BY <3>1, <3>2
  <2>2. ASSUME NEW u \in Target, ~Asked(u)'
        PROVE  u \in targets' <=> u \in server'.watching \/ RefusalOf(u)'
    <3>1. u # t /\ ~Asked(u)
      BY <1>5, <2>2
    <3>2. u \in targets' <=> u \in targets
      BY <3>1
    <3>. QED
      BY <1>6, <3>1, <3>2 DEF Outstanding, Wanted
  <2>. QED
    BY <2>1, <2>2 DEF Wanted
<1>8. RefusedAlone'
  <2>1. \A u \in Target : RefusalOf(u)' => u \in Refusable
    BY <1>6 DEF Outstanding, RefusedAlone
  <2>2. ASSUME NEW u \in Refusable
        PROVE  /\ \A i \in DOMAIN requests' : requests'[i].target = u => requests'[i].op = "watch"
               /\ aggregator'.pending[u] > 0 => aggregator'.pending[u] = 1 /\ u \in targets'
               /\ Asked(u)' \/ RefusalOf(u)' => u \notin server'.watching
    <3>1. /\ u \in Target
          /\ \A i \in DOMAIN requests : requests[i].target = u => requests[i].op = "watch"
          /\ aggregator.pending[u] > 0 => aggregator.pending[u] = 1 /\ u \in targets
          /\ Asked(u) \/ RefusalOf(u) => u \notin server.watching
      BY DEF Outstanding, RefusedAlone, ConnectionAssumption
    <3>2. CASE u # t
      <4>1. u \in targets => u \in targets'
        BY <3>2
      <4>2. ASSUME NEW i \in DOMAIN requests', requests'[i].target = u
            PROVE  requests'[i].op = "watch"
        <5>1. i \in 1 .. n /\ requests'[i] = requests[i]
          BY <1>2, <3>2, <4>2
        <5>. QED
          BY <1>2, <3>1, <4>2, <5>1
      <4>3. aggregator'.pending[u] = aggregator.pending[u]
        BY <1>3, <3>1, <3>2, CountTypes
      <4>. QED
        BY <1>5, <1>6, <3>1, <3>2, <4>1, <4>2, <4>3
    <3>3. CASE u = t
      <4>1. op = "watch" /\ t \notin targets /\ targets' = targets \cup {t}
        BY <3>3
      <4>2. aggregator.pending[t] = 0
        BY <3>1, <3>3, <4>1, NothingOutstanding DEF Outstanding
      <4>3. ~Asked(t) /\ ~RefusalOf(t)
        BY <4>2, NothingOutstanding DEF Outstanding, Balanced
      <4>4. t \notin server.watching
        BY <4>1, <4>3 DEF Outstanding, Wanted
      <4>5. \A i \in DOMAIN requests' : requests'[i].target = t => requests'[i].op = "watch"
        BY <1>2, <3>1, <3>3, <4>1
      <4>. QED
        BY <1>3, <3>3, <4>1, <4>2, <4>4, <4>5
    <3>. QED
      BY <3>2, <3>3
  <2>. QED
    BY <2>1, <2>2 DEF RefusedAlone
<1>9. ServedOrTaken'
  <2>1. \A u \in Target : \A i : TakenBack(u, i)' = TakenBack(u, i)
    BY DEF TakenBack
  <2>2. ASSUME NEW u \in aggregator'.changed
        PROVE  u \in server'.served \/ aggregator'.pending[u] > 0
    <3>1. u \in Target /\ u \in aggregator.changed
      BY <1>3, <2>2, CountTypes
    <3>2. u \in server.served \/ aggregator.pending[u] > 0
      BY <3>1 DEF Outstanding, ServedOrTaken
    <3>3. aggregator.pending[u] \in Int /\ aggregator'.pending[u] >= aggregator.pending[u]
      BY <1>3, <3>1, CountTypes
    <3>. QED
      BY <1>3, <3>1, <3>2, <3>3, CountTypes
  <2>. QED
    BY <2>1, <2>2 DEF Outstanding, ServedOrTaken
<1>. QED
  BY <1>4, <1>7, <1>8, <1>9 DEF Outstanding

\* The stream opens: every target is asked for, once.
LEMMA WatchAgainCounts ==
  ASSUME TypeOK, ConnectionAssumption, WatchAgain, UNCHANGED <<targets, responses, server>>,
         requests = <<>>, responses = <<>>, aggregator = NewAggregator, server = NewServer
  PROVE  Outstanding'
<1> DEFINE n == Cardinality(targets)
<1>1. IsFiniteSet(targets) /\ n \in Nat /\ targets \subseteq Target
  BY FS_Subset, FS_CardinalityType DEF TypeOK, ConnectionAssumption
<1>2. PICK order \in [1 .. n -> targets] :
        /\ \A t \in targets : \E i \in DOMAIN order : order[i] = t
        /\ requests' = [i \in DOMAIN order |-> [op |-> "watch", target |-> order[i]]]
  BY DEF WatchAgain
<1>3. \A i, j \in 1 .. n : order[i] = order[j] => i = j
  <2>1. order \in Surjection(1 .. n, targets)
    BY <1>2 DEF Surjection
  <2>2. IsFiniteSet(1 .. n) /\ Cardinality(1 .. n) = n
    BY <1>1, FS_Interval
  <2>3. order \in Injection(1 .. n, targets)
    BY <2>1, <2>2, FS_SurjSameCardinalityImpliesInj
  <2>. QED
    BY <2>3 DEF Injection, IsInjective
<1>4. /\ DOMAIN requests' = 1 .. n
      /\ \A i \in 1 .. n : requests'[i].op = "watch" /\ requests'[i].target = order[i]
                           /\ requests'[i] \in Request
  BY <1>1, <1>2 DEF Request
<1>5. \A u \in Target : aggregator'.pending[u] = IF u \in targets THEN 1 ELSE 0
  <2>1. aggregator' = [NewAggregator EXCEPT !.pending =
                         [u \in Target |-> @[u] + IF u \in targets THEN 1 ELSE 0]]
    BY DEF WatchAgain
  <2>2. aggregator'.pending = [u \in Target |-> 0 + IF u \in targets THEN 1 ELSE 0]
    BY <2>1 DEF NewAggregator
  <2>. QED
    BY <2>2
<1>6. aggregator'.changed = {}
  BY DEF WatchAgain, NewAggregator
<1>7. Balanced'
  <2>1. SUFFICES ASSUME NEW u \in Target
                 PROVE  aggregator'.pending[u]
                          = Occurs(requests', About(u)) + Occurs(responses', Acks(u))
    BY DEF Balanced
  <2>2. Occurs(responses', Acks(u)) = 0
    BY FS_EmptySet DEF Occurs, Occurrences
  <2>3. Occurrences(requests', About(u)) = {i \in 1 .. n : order[i] = u}
    BY <1>4 DEF Occurrences, About
  <2>4. CASE u \in targets
    <3>1. PICK i \in 1 .. n : order[i] = u
      BY <1>2, <2>4
    <3>2. Occurrences(requests', About(u)) = {i}
      BY <1>3, <2>3, <3>1
    <3>3. Occurs(requests', About(u)) = 1
      BY <3>2, FS_Singleton DEF Occurs
    <3>. QED
      BY <1>5, <2>2, <2>4, <3>3
  <2>5. CASE u \notin targets
    <3>1. Occurrences(requests', About(u)) = {}
      BY <1>2, <2>3, <2>5
    <3>2. Occurs(requests', About(u)) = 0
      BY <3>1, FS_EmptySet DEF Occurs
    <3>. QED
      BY <1>5, <2>2, <2>5, <3>2
  <2>. QED
    BY <2>4, <2>5
<1>8. \A u \in Target : ~RefusalOf(u)'
  BY DEF RefusalOf
<1>9. \A u \in Target : Asked(u)' <=> u \in targets
  BY <1>2, <1>4 DEF Asked
<1>10. Wanted'
  <2>1. ASSUME NEW u \in Target, NEW i \in DOMAIN requests', LastAbout(u, i)'
        PROVE  u \in targets' <=> requests'[i].op = "watch"
    BY <1>2, <1>4, <2>1 DEF LastAbout
  <2>. QED
    BY <1>8, <1>9, <2>1 DEF Wanted, NewServer
<1>11. RefusedAlone'
  BY <1>4, <1>5, <1>8 DEF RefusedAlone, ConnectionAssumption, NewServer
<1>12. ServedOrTaken'
  BY <1>6 DEF ServedOrTaken
<1>. QED
  BY <1>7, <1>10, <1>11, <1>12 DEF Outstanding

-----------------------------------------------------------------------------
(* Responses                                                               *)

\* The next response is read, and the count of its target is what is still to come.
LEMMA ReadFacts ==
  ASSUME TypeOK, NEW kind, Receive(kind)
  PROVE  LET n == Len(responses) IN
         /\ responses # <<>> /\ responses' = Tail(responses)
         /\ n \in Nat /\ n > 0 /\ DOMAIN responses = 1 .. n /\ DOMAIN responses' = 1 .. n - 1
         /\ \A i \in 1 .. n - 1 : responses'[i] = responses[i + 1]
         /\ \A i \in 1 .. n - 1 : i + 1 \in 1 .. n
         /\ \A i \in 1 .. n : i = 1 \/ (i - 1 \in 1 .. n - 1 /\ (i - 1) + 1 = i)
         /\ Head(responses) = responses[1] /\ responses[1] \in Response
         /\ responses[1].kind = kind
         /\ UNCHANGED <<requests, server, stream>>
<1>1. responses \in Seq(Response) /\ responses # <<>>
  BY DEF TypeOK, Receive
<1>2. /\ Len(responses) \in Nat /\ Len(responses) > 0 /\ DOMAIN responses = 1 .. Len(responses)
      /\ DOMAIN Tail(responses) = 1 .. Len(responses) - 1
      /\ \A i \in 1 .. Len(responses) - 1 : Tail(responses)[i] = responses[i + 1]
      /\ Head(responses) = responses[1] /\ Head(responses) \in Response
  BY <1>1, TailFacts
<1>3. \A i \in 1 .. Len(responses) - 1 : i + 1 \in 1 .. Len(responses)
  BY <1>2
<1>4. \A i \in 1 .. Len(responses) :
        i = 1 \/ (i - 1 \in 1 .. Len(responses) - 1 /\ (i - 1) + 1 = i)
  BY <1>2
<1>. QED
  BY <1>1, <1>2, <1>3, <1>4 DEF Receive

\* What is said of other targets stays.
LEMMA ReadKeeps ==
  ASSUME TypeOK, Outstanding, NEW kind, Receive(kind)
  PROVE  /\ \A t \in Target : RefusalOf(t)' => RefusalOf(t)
         /\ \A t \in Target : RefusalOf(t) /\ responses[1] # Refusal(t) => RefusalOf(t)'
         /\ \A t \in Target : Asked(t)' = Asked(t)
         /\ \A t \in Target : \A i \in DOMAIN responses' :
              responses'[i] = [kind |-> "current", target |-> t]
                => t \in server'.served \/ TakenBack(t, i)'
<1> DEFINE n == Len(responses)
<1>1. /\ n \in Nat /\ DOMAIN responses = 1 .. n /\ DOMAIN responses' = 1 .. n - 1
      /\ \A i \in 1 .. n - 1 : responses'[i] = responses[i + 1]
      /\ \A i \in 1 .. n - 1 : i + 1 \in 1 .. n
      /\ \A i \in 1 .. n : i = 1 \/ (i - 1 \in 1 .. n - 1 /\ (i - 1) + 1 = i)
      /\ UNCHANGED <<requests, server>>
  BY ReadFacts
<1>2. ASSUME NEW t \in Target, RefusalOf(t)'
      PROVE  RefusalOf(t)
  BY <1>1, <1>2 DEF RefusalOf, Refusal
<1>3. ASSUME NEW t \in Target, RefusalOf(t), responses[1] # Refusal(t)
      PROVE  RefusalOf(t)'
  <2>1. PICK i \in 1 .. n : responses[i] = Refusal(t)
    BY <1>1, <1>3 DEF RefusalOf
  <2>2. i - 1 \in 1 .. n - 1 /\ (i - 1) + 1 = i
    BY <1>1, <1>3, <2>1
  <2>3. responses'[i - 1] = Refusal(t)'
    BY <1>1, <2>1, <2>2 DEF Refusal
  <2>. QED
    BY <1>1, <2>2, <2>3 DEF RefusalOf
<1>4. \A t \in Target : Asked(t)' = Asked(t)
  BY <1>1 DEF Asked
<1>5. ASSUME NEW t \in Target, NEW i \in DOMAIN responses',
             responses'[i] = [kind |-> "current", target |-> t]
      PROVE  t \in server'.served \/ TakenBack(t, i)'
  <2>1. i \in 1 .. n - 1 /\ i + 1 \in DOMAIN responses
        /\ responses[i + 1] = [kind |-> "current", target |-> t]
    BY <1>1, <1>5
  <2>2. t \in server.served \/ TakenBack(t, i + 1)
    BY <2>1 DEF Outstanding, ServedOrTaken
  <2>3. ASSUME TakenBack(t, i + 1)
        PROVE  TakenBack(t, i)'
    <3>1. PICK j \in 1 .. n : j > i + 1 /\ responses[j] = [kind |-> "removed", target |-> t]
      BY <1>1, <2>3 DEF TakenBack
    <3>2. j - 1 \in 1 .. n - 1 /\ (j - 1) + 1 = j /\ j - 1 > i
      BY <1>1, <2>1, <3>1
    <3>3. responses'[j - 1] = [kind |-> "removed", target |-> t]
      BY <1>1, <3>1, <3>2
    <3>. QED
      BY <1>1, <3>2, <3>3 DEF TakenBack
  <2>. QED
    BY <1>1, <2>2, <2>3
<1>. QED
  BY <1>2, <1>3, <1>4, <1>5

\* A response that does not end a request changes no count.
LEMMA SilentRead ==
  ASSUME TypeOK, Outstanding, NEW kind \in {"current", "snapshot"}, Receive(kind),
         aggregator'.pending = aggregator.pending, targets' = targets,
         \A t \in aggregator'.changed : t \in aggregator.changed \/ t \in server.served
  PROVE  Outstanding'
<1>1. /\ responses \in Seq(Response) /\ responses # <<>> /\ responses' = Tail(responses)
      /\ Head(responses) = responses[1] /\ responses[1].kind = kind
      /\ UNCHANGED <<requests, server>>
  BY ReadFacts, CountTypes
<1>2. Balanced'
  <2>1. ASSUME NEW t \in Target
        PROVE  Occurs(responses', Acks(t)) = Occurs(responses, Acks(t))
    <3>1. Head(responses) \notin Acks(t)
      BY <1>1 DEF Acks, Acknowledging
    <3>2. Occurs(responses, Acks(t)) = Occurs(Tail(responses), Acks(t)) + 0
      BY <1>1, <3>1, OccursTail
    <3>3. responses' \in Seq(Response)
      BY <1>1
    <3>4. Occurs(responses', Acks(t)) \in Nat
      BY <3>3, OccursFinite
    <3>. QED
      BY <1>1, <3>2, <3>4
  <2>. QED
    BY <1>1, <2>1 DEF Outstanding, Balanced
<1>3. \A t \in Target : RefusalOf(t)' = RefusalOf(t) /\ Asked(t)' = Asked(t)
  <2>1. \A t \in Target : responses[1] # Refusal(t)
    BY <1>1 DEF Refusal
  <2>. QED
    BY <2>1, ReadKeeps DEF RefusalOf
<1>4. Wanted'
  <2>1. \A t \in Target : \A i : LastAbout(t, i)' = LastAbout(t, i)
    BY <1>1 DEF LastAbout
  <2>. QED
    BY <1>1, <1>3, <2>1 DEF Outstanding, Wanted
<1>5. RefusedAlone'
  BY <1>1, <1>3, ConnectionAssumption DEF Outstanding, RefusedAlone, ConnectionAssumption
<1>6. ServedOrTaken'
  <2>1. \A t \in aggregator'.changed : t \in server'.served \/ aggregator'.pending[t] > 0
    BY <1>1 DEF Outstanding, ServedOrTaken
  <2>. QED
    BY <2>1, ReadKeeps DEF ServedOrTaken
<1>. QED
  BY <1>2, <1>4, <1>5, <1>6 DEF Outstanding

\* A response that ends a request.
LEMMA AnswerRead ==
  ASSUME TypeOK, ConnectionAssumption, Outstanding,
         NEW kind \in {"added", "removed"}, Receive(kind),
         NEW t \in Target, t = Head(responses).target, targets' = targets,
         aggregator'.pending = Answered(t),
         aggregator'.changed = aggregator.changed \ (IF Answered(t)[t] = 0 THEN {t} ELSE {})
  PROVE  Outstanding'
<1>1. /\ responses \in Seq(Response) /\ responses # <<>> /\ responses' = Tail(responses)
      /\ Head(responses) = responses[1] /\ responses[1].kind = kind
      /\ Head(responses) \in Response
      /\ UNCHANGED <<requests, server>>
  BY ReadFacts, CountTypes
<1>2. \A u \in Target : aggregator'.pending[u] = aggregator.pending[u] - IF u = t THEN 1 ELSE 0
  BY CountTypes DEF Answered
<1>3. Balanced'
  <2>1. ASSUME NEW u \in Target
        PROVE  Occurs(responses, Acks(u)) = Occurs(responses', Acks(u)) + IF u = t THEN 1 ELSE 0
    <3>1. Head(responses) \in Acks(u) <=> u = t
      BY <1>1 DEF Acks, Acknowledging
    <3>2. Occurs(responses, Acks(u))
            = Occurs(responses', Acks(u)) + IF Head(responses) \in Acks(u) THEN 1 ELSE 0
      BY <1>1, OccursTail
    <3>. QED
      BY <3>1, <3>2
  <2>2. responses' \in Seq(Response)
    BY <1>1
  <2>3. ASSUME NEW u \in Target
        PROVE  aggregator'.pending[u]
                 = Occurs(requests', About(u)) + Occurs(responses', Acks(u))
    <3>1. /\ aggregator.pending[u] = Occurs(requests, About(u)) + Occurs(responses, Acks(u))
          /\ Occurs(requests, About(u)) \in Nat
      BY NothingOutstanding DEF Outstanding, Balanced
    <3>2. Occurs(responses', Acks(u)) \in Nat /\ requests' = requests
      BY <1>1, <2>2, OccursFinite
    <3>. QED
      BY <1>2, <2>1, <3>1, <3>2
  <2>. QED
    BY <2>3 DEF Balanced
<1>4. \A u \in Target : RefusalOf(u)' = RefusalOf(u) /\ Asked(u)' = Asked(u)
  <2>1. \A u \in Target : responses[1] # Refusal(u)
    BY <1>1 DEF Refusal
  <2>. QED
    BY <2>1, ReadKeeps DEF RefusalOf
<1>5. Wanted'
  <2>1. \A u \in Target : \A i : LastAbout(u, i)' = LastAbout(u, i)
    BY <1>1 DEF LastAbout
  <2>. QED
    BY <1>1, <1>4, <2>1 DEF Outstanding, Wanted
<1>6. aggregator'.pending[t] \in Nat
  <2>1. responses' \in Seq(Response) /\ requests' \in Seq(Request)
    BY <1>1, CountTypes
  <2>2. Occurs(responses', Acks(t)) \in Nat /\ Occurs(requests', About(t)) \in Nat
    BY <2>1, OccursFinite
  <2>. QED
    BY <1>3, <2>2 DEF Balanced
<1>7. RefusedAlone'
  <2>1. ASSUME NEW u \in Refusable
        PROVE  aggregator'.pending[u] > 0 => aggregator'.pending[u] = 1 /\ u \in targets'
    <3>1. u \in Target /\ aggregator.pending[u] \in Nat
      BY NothingOutstanding DEF Outstanding, ConnectionAssumption
    <3>2. aggregator.pending[u] > 0 => aggregator.pending[u] = 1 /\ u \in targets
      BY DEF Outstanding, RefusedAlone
    <3>. QED
      BY <1>2, <3>1, <3>2
  <2>. QED
    BY <1>1, <1>4, <2>1 DEF Outstanding, RefusedAlone, ConnectionAssumption
<1>8. ServedOrTaken'
  <2>1. ASSUME NEW u \in aggregator'.changed
        PROVE  u \in server'.served \/ aggregator'.pending[u] > 0
    <3>1. u \in aggregator.changed /\ u \in Target
      BY CountTypes
    <3>2. u \in server.served \/ aggregator.pending[u] > 0
      BY <3>1 DEF Outstanding, ServedOrTaken
    <3>3. CASE u = t
      <4>1. aggregator'.pending[t] # 0
        BY <3>3, <2>1
      <4>. QED
        BY <1>6, <3>3, <4>1
    <3>4. CASE u # t
      BY <1>1, <1>2, <3>1, <3>2, <3>4, CountTypes
    <3>. QED
      BY <3>3, <3>4
  <2>. QED
    BY <2>1, ReadKeeps DEF ServedOrTaken
<1>. QED
  BY <1>3, <1>5, <1>7, <1>8 DEF Outstanding

\* A refusal: it was all that was outstanding about its target.
LEMMA RefusalRead ==
  ASSUME TypeOK, ConnectionAssumption, Outstanding, TargetRefused
  PROVE  Outstanding'
<1>0. PICK t : t = Head(responses).target
  OBVIOUS
<1>1. /\ responses \in Seq(Response) /\ responses # <<>> /\ responses' = Tail(responses)
      /\ DOMAIN responses = 1 .. Len(responses) /\ Len(responses) > 0
      /\ Head(responses) = responses[1] /\ responses[1].kind = "refused"
      /\ Head(responses) \in Response /\ Len(responses) \in Nat
      /\ UNCHANGED <<requests, server>>
  BY ReadFacts, CountTypes DEF TargetRefused
<1>2. t \in Target /\ responses[1] = Refusal(t)
  BY <1>0, <1>1, ResponseTarget DEF Response, Refusal
<1>3. RefusalOf(t) /\ t \in Refusable
  BY <1>1, <1>2 DEF RefusalOf, Outstanding, RefusedAlone
<1>4. aggregator.pending[t] > 0
  BY <1>2, <1>3, NothingOutstanding DEF Outstanding, Balanced
<1>5. aggregator.pending[t] = 1 /\ t \in targets /\ t \notin server.watching
  BY <1>3, <1>4 DEF Outstanding, RefusedAlone
<1>6. /\ targets' = targets \ {t}
      /\ aggregator' = [pending |-> [aggregator.pending EXCEPT ![t] = 0],
                        current |-> aggregator.current \ {t},
                        changed |-> aggregator.changed \ {t}]
  BY <1>0, <1>5 DEF TargetRefused
<1>7. \A u \in Target : aggregator'.pending[u] = IF u = t THEN 0 ELSE aggregator.pending[u]
  BY <1>6, CountTypes
<1>8. \A u \in Target :
        Occurs(responses, Acks(u)) = Occurs(responses', Acks(u)) + IF u = t THEN 1 ELSE 0
  <2>1. TAKE u \in Target
  <2>2. Head(responses) \in Acks(u) <=> u = t
    BY <1>0, <1>1 DEF Acks, Acknowledging
  <2>3. Occurs(responses, Acks(u))
          = Occurs(responses', Acks(u)) + IF Head(responses) \in Acks(u) THEN 1 ELSE 0
    BY <1>1, OccursTail
  <2>. QED
    BY <2>2, <2>3
<1>9. \A u \in Target : Occurs(responses', Acks(u)) \in Nat
  <2>1. responses' \in Seq(Response)
    BY <1>1
  <2>. QED
    BY <2>1, OccursFinite
<1>10. \A u \in Target : /\ Occurs(requests, About(u)) \in Nat
                         /\ aggregator.pending[u] = Occurs(requests, About(u))
                                                    + Occurs(responses, Acks(u))
  BY NothingOutstanding DEF Outstanding, Balanced
<1>11. Occurs(requests, About(t)) = 0 /\ Occurs(responses', Acks(t)) = 0
  <2>1. 1 = Occurs(requests, About(t)) + (Occurs(responses', Acks(t)) + 1)
    BY <1>2, <1>5, <1>8, <1>10
  <2>. QED
    BY <1>2, <1>9, <1>10, <2>1
<1>12. Balanced'
  <2>1. ASSUME NEW u \in Target
        PROVE  aggregator'.pending[u]
                 = Occurs(requests', About(u)) + Occurs(responses', Acks(u))
    BY <1>1, <1>7, <1>8, <1>9, <1>10, <1>11
  <2>. QED
    BY <2>1 DEF Balanced
<1>13. ~Asked(t) /\ ~RefusalOf(t)'
  <2>1. ~Asked(t)
    BY <1>2, <1>11, NothingOutstanding DEF Outstanding
  <2>2. \A i \in DOMAIN responses' : responses'[i] \notin Acks(t)
    <3>1. responses' \in Seq(Response)
      BY <1>1
    <3>. QED
      BY <1>11, <3>1, OccursFinite
  <2>3. Refusal(t) \in Acks(t)
    BY <1>2 DEF Acks, Refusal, Response, Acknowledging
  <2>. QED
    BY <2>1, <2>2, <2>3 DEF RefusalOf, Refusal
<1>14. \A u \in Target : /\ Asked(u)' = Asked(u)
                         /\ u # t => RefusalOf(u)' = RefusalOf(u)
                         /\ RefusalOf(u)' => RefusalOf(u)
  <2>1. \A u \in Target : u # t => responses[1] # Refusal(u)
    BY <1>2 DEF Refusal
  <2>. QED
    BY <2>1, ReadKeeps DEF RefusalOf, TargetRefused
<1>15. Wanted'
  <2>1. \A u \in Target : \A i : LastAbout(u, i)' = LastAbout(u, i)
    BY <1>1 DEF LastAbout
  <2>2. ASSUME NEW u \in Target, u # t
        PROVE  /\ u \in targets' <=> u \in targets
               /\ RefusalOf(u)' = RefusalOf(u) /\ Asked(u)' = Asked(u)
    BY <1>6, <1>14, <2>2
  <2>3. ASSUME NEW i \in DOMAIN requests
        PROVE  ~LastAbout(t, i)
    BY <1>13, <2>3 DEF LastAbout, Asked
  <2>4. t \notin targets' /\ t \notin server'.watching /\ ~RefusalOf(t)'
    BY <1>1, <1>5, <1>6, <1>13
  <2>. QED
    BY <1>1, <2>1, <2>2, <2>3, <2>4 DEF Outstanding, Wanted
<1>16. RefusedAlone'
  <2>1. ASSUME NEW u \in Refusable
        PROVE  aggregator'.pending[u] > 0 => aggregator'.pending[u] = 1 /\ u \in targets'
    BY <1>6, <1>7 DEF Outstanding, RefusedAlone, ConnectionAssumption
  <2>. QED
    BY <1>1, <1>14, <2>1 DEF Outstanding, RefusedAlone, ConnectionAssumption
<1>17. ServedOrTaken'
  <2>1. \A u \in aggregator'.changed : u \in server'.served \/ aggregator'.pending[u] > 0
    <3>1. \A u \in aggregator'.changed : u \in aggregator.changed /\ u # t /\ u \in Target
      BY <1>6, CountTypes
    <3>. QED
      BY <1>1, <1>7, <3>1 DEF Outstanding, ServedOrTaken
  <2>. QED
    BY <2>1, ReadKeeps DEF ServedOrTaken, TargetRefused
<1>. QED
  BY <1>12, <1>15, <1>16, <1>17 DEF Outstanding

-----------------------------------------------------------------------------
(* The server                                                              *)

\* A request is taken and answered.
LEMMA AnswerCounts ==
  ASSUME TypeOK, Outstanding, NEW t \in Target, requests # <<>>,
         Head(requests).target = t, requests' = Tail(requests),
         NEW kind \in {"added", "removed", "refused"}, Respond(kind, t),
         aggregator' = aggregator
  PROVE  /\ Balanced'
         /\ LET n == Len(responses) IN
            /\ n \in Nat /\ DOMAIN responses = 1 .. n /\ DOMAIN responses' = 1 .. n + 1
            /\ \A i \in 1 .. n : responses'[i] = responses[i]
            /\ responses'[n + 1] = [kind |-> kind, target |-> t]
         /\ \/ LastAbout(t, 1) /\ 1 \in DOMAIN requests
            \/ Asked(t)'
         /\ Asked(t) /\ requests[1] = Head(requests) /\ 1 \in DOMAIN requests
         /\ \A u \in Target : Asked(u)' => Asked(u)
         /\ \A u \in Target : u # t => Asked(u)' = Asked(u)
         /\ \A i \in DOMAIN requests' : i + 1 \in DOMAIN requests /\ requests'[i] = requests[i + 1]
         /\ \A u \in Target : \A i \in DOMAIN requests' : LastAbout(u, i)' => LastAbout(u, i + 1)
<1> DEFINE r == [kind |-> kind, target |-> t]
           n == Len(responses)
           m == Len(requests)
<1>1. /\ m \in Nat /\ m > 0 /\ DOMAIN requests = 1 .. m /\ DOMAIN requests' = 1 .. m - 1
      /\ \A i \in 1 .. m - 1 : requests'[i] = requests[i + 1]
      /\ Head(requests) = requests[1] /\ Head(requests) \in Request
      /\ requests' \in Seq(Request)
  BY CountTypes, TailFacts
<1>2. \A i \in 1 .. m - 1 : i + 1 \in 1 .. m
  BY <1>1
<1>3. \A i \in 1 .. m : i = 1 \/ (i - 1 \in 1 .. m - 1 /\ (i - 1) + 1 = i)
  BY <1>1
<1>4. 1 \in 1 .. m
  BY <1>1
<1>5. r \in Response
  BY DEF Response
<1>6. /\ responses' = Append(responses, r) /\ n \in Nat
      /\ DOMAIN responses = 1 .. n /\ DOMAIN responses' = 1 .. n + 1
      /\ \A i \in 1 .. n : responses'[i] = responses[i]
      /\ responses'[n + 1] = r
  BY <1>5, CountTypes, AppendFacts DEF Respond
<1>7. Balanced'
  <2>1. SUFFICES ASSUME NEW u \in Target
                 PROVE  aggregator'.pending[u]
                          = Occurs(requests', About(u)) + Occurs(responses', Acks(u))
    BY DEF Balanced
  <2>2. Occurs(requests, About(u))
          = Occurs(requests', About(u)) + IF Head(requests) \in About(u) THEN 1 ELSE 0
    BY CountTypes, OccursTail
  <2>3. Occurs(responses', Acks(u)) = Occurs(responses, Acks(u)) + IF r \in Acks(u) THEN 1 ELSE 0
    BY <1>5, <1>6, CountTypes, OccursAppend
  <2>4. (Head(requests) \in About(u) <=> u = t) /\ (r \in Acks(u) <=> u = t)
    BY <1>1, <1>5 DEF About, Acks, Acknowledging
  <2>5. /\ aggregator.pending[u] = Occurs(requests, About(u)) + Occurs(responses, Acks(u))
        /\ Occurs(responses, Acks(u)) \in Nat
    BY NothingOutstanding DEF Balanced, Outstanding
  <2>6. Occurs(requests', About(u)) \in Nat
    BY <1>1, OccursFinite
  <2>7. aggregator'.pending[u] = aggregator.pending[u]
    OBVIOUS
  <2>. HIDE DEF r
  <2>. QED
    BY <2>2, <2>3, <2>4, <2>5, <2>6, <2>7
<1>8. Asked(t) /\ requests[1] = Head(requests) /\ 1 \in DOMAIN requests
  BY <1>1, <1>4 DEF Asked
<1>9. ASSUME NEW u \in Target, Asked(u)'
      PROVE  Asked(u)
  BY <1>1, <1>2, <1>9 DEF Asked
<1>10. ASSUME NEW u \in Target, u # t, Asked(u)
       PROVE  Asked(u)'
  <2>1. PICK i \in 1 .. m : requests[i].target = u
    BY <1>1, <1>10 DEF Asked
  <2>2. i - 1 \in 1 .. m - 1 /\ (i - 1) + 1 = i
    BY <1>1, <1>3, <1>10, <2>1
  <2>. QED
    BY <1>1, <2>1, <2>2 DEF Asked
<1>11. ASSUME ~Asked(t)'
       PROVE  LastAbout(t, 1)
  <2>1. ASSUME NEW j \in 1 .. m, j > 1
        PROVE  requests[j].target # t
    <3>1. j - 1 \in 1 .. m - 1 /\ (j - 1) + 1 = j
      BY <1>3, <2>1
    <3>. QED
      BY <1>1, <1>11, <3>1 DEF Asked
  <2>. QED
    BY <1>1, <2>1 DEF LastAbout
<1>12. ASSUME NEW u \in Target, NEW i \in DOMAIN requests', LastAbout(u, i)'
       PROVE  LastAbout(u, i + 1)
  <2>1. i \in 1 .. m - 1 /\ requests[i + 1].target = u
    BY <1>1, <1>12 DEF LastAbout
  <2>2. ASSUME NEW j \in 1 .. m, j > i + 1
        PROVE  requests[j].target # u
    <3>1. j - 1 \in 1 .. m - 1 /\ (j - 1) + 1 = j /\ j - 1 > i
      BY <1>1, <2>1, <2>2
    <3>. QED
      BY <1>1, <1>12, <3>1 DEF LastAbout
  <2>. QED
    BY <1>1, <2>1, <2>2 DEF LastAbout
<1>13. \A u \in Target : u # t => Asked(u)' = Asked(u)
  BY <1>9, <1>10 DEF Asked
<1>. HIDE DEF r
<1>. QED
  BY <1>1, <1>2, <1>6, <1>7, <1>8, <1>9, <1>11, <1>12, <1>13 DEF r

\* What the server answers of one target changes nothing for another.
LEMMA AnswerKeeps ==
  ASSUME TypeOK, Outstanding, ConnectionAssumption, NEW t \in Target, requests # <<>>,
         Head(requests).target = t, requests' = Tail(requests),
         NEW kind \in {"added", "removed", "refused"}, Respond(kind, t),
         UNCHANGED <<aggregator, targets>>,
         kind = "refused" => t \in Refusable,
         \A u \in Target \ {t} : /\ u \in server'.watching <=> u \in server.watching
                                 /\ u \in server'.served <=> u \in server.served,
         kind # "removed" => (t \in server.served => t \in server'.served),
         ~Asked(t)' => (t \in targets <=> t \in server'.watching \/ RefusalOf(t)'),
         t \in Refusable => ~Asked(t)' /\ (RefusalOf(t)' => t \notin server'.watching)
  PROVE  Outstanding'
<1> DEFINE n == Len(responses)
<1>1. /\ Balanced'
      /\ n \in Nat /\ DOMAIN responses = 1 .. n /\ DOMAIN responses' = 1 .. n + 1
      /\ \A i \in 1 .. n : responses'[i] = responses[i]
      /\ responses'[n + 1] = [kind |-> kind, target |-> t]
      /\ Asked(t)
      /\ \A u \in Target : u # t => Asked(u)' = Asked(u)
      /\ \A i \in DOMAIN requests' : i + 1 \in DOMAIN requests /\ requests'[i] = requests[i + 1]
      /\ \A u \in Target : \A i \in DOMAIN requests' : LastAbout(u, i)' => LastAbout(u, i + 1)
  BY AnswerCounts
<1>2. /\ 1 .. n \subseteq 1 .. n + 1 /\ n + 1 \in 1 .. n + 1
      /\ \A i \in 1 .. n : n + 1 > i
      /\ \A i \in 1 .. n + 1 : i = n + 1 \/ i \in 1 .. n
  BY <1>1
<1>3. ASSUME NEW u \in Target, u # t
      PROVE  RefusalOf(u)' = RefusalOf(u)
  BY <1>1, <1>2, <1>3 DEF RefusalOf, Refusal
<1>4. Wanted'
  <2>1. ASSUME NEW u \in Target, NEW i \in DOMAIN requests', LastAbout(u, i)'
        PROVE  u \in targets' <=> requests'[i].op = "watch"
    <3>1. /\ i + 1 \in DOMAIN requests /\ requests'[i] = requests[i + 1]
          /\ LastAbout(u, i + 1)
      BY <1>1, <2>1
    <3>. QED
      BY <3>1 DEF Outstanding, Wanted
  <2>2. ASSUME NEW u \in Target, ~Asked(u)'
        PROVE  u \in targets' <=> u \in server'.watching \/ RefusalOf(u)'
    <3>1. CASE u = t
      BY <2>2, <3>1
    <3>2. CASE u # t
      BY <1>1, <1>3, <2>2, <3>2 DEF Outstanding, Wanted
    <3>. QED
      BY <3>1, <3>2
  <2>. QED
    BY <2>1, <2>2 DEF Wanted
<1>5. RefusedAlone'
  <2>1. ASSUME NEW u \in Target, RefusalOf(u)'
        PROVE  u \in Refusable
    <3>1. CASE u # t
      BY <1>3, <2>1, <3>1 DEF Outstanding, RefusedAlone
    <3>2. CASE u = t
      <4>1. CASE kind = "refused"
        BY <3>2, <4>1
      <4>2. CASE kind # "refused"
        <5>1. RefusalOf(t)
          BY <1>1, <1>2, <2>1, <3>2, <4>2 DEF RefusalOf, Refusal
        <5>. QED
          BY <3>2, <5>1 DEF Outstanding, RefusedAlone
      <4>. QED
        BY <4>1, <4>2
    <3>. QED
      BY <3>1, <3>2
  <2>2. ASSUME NEW u \in Refusable
        PROVE  /\ \A i \in DOMAIN requests' : requests'[i].target = u => requests'[i].op = "watch"
               /\ aggregator'.pending[u] > 0 => aggregator'.pending[u] = 1 /\ u \in targets'
               /\ Asked(u)' \/ RefusalOf(u)' => u \notin server'.watching
    <3>1. u \in Target
      BY DEF ConnectionAssumption
    <3>2. /\ \A i \in DOMAIN requests : requests[i].target = u => requests[i].op = "watch"
          /\ aggregator.pending[u] > 0 => aggregator.pending[u] = 1 /\ u \in targets
          /\ Asked(u) \/ RefusalOf(u) => u \notin server.watching
      BY DEF Outstanding, RefusedAlone
    <3>3. \A i \in DOMAIN requests' : requests'[i].target = u => requests'[i].op = "watch"
      BY <1>1, <3>2
    <3>4. Asked(u)' \/ RefusalOf(u)' => u \notin server'.watching
      <4>1. CASE u = t
        BY <4>1
      <4>2. CASE u # t
        BY <1>1, <1>3, <3>1, <3>2, <4>2
      <4>. QED
        BY <4>1, <4>2
    <3>. QED
      BY <3>2, <3>3, <3>4
  <2>. QED
    BY <2>1, <2>2 DEF RefusedAlone
<1>6. ServedOrTaken'
  <2>1. ASSUME NEW u \in Target, NEW i \in DOMAIN responses',
               responses'[i] = [kind |-> "current", target |-> u]
        PROVE  u \in server'.served \/ TakenBack(u, i)'
    <3>1. i \in 1 .. n /\ responses[i] = [kind |-> "current", target |-> u]
      BY <1>1, <1>2, <2>1
    <3>2. u \in server.served \/ TakenBack(u, i)
      BY <1>1, <3>1 DEF Outstanding, ServedOrTaken
    <3>3. TakenBack(u, i) => TakenBack(u, i)'
      BY <1>1, <1>2 DEF TakenBack
    <3>4. CASE kind = "removed" /\ u = t
      <4>1. TakenBack(t, i)'
        BY <1>1, <1>2, <3>1, <3>4 DEF TakenBack
      <4>. QED
        BY <3>4, <4>1
    <3>. QED
      BY <3>2, <3>3, <3>4
  <2>2. ASSUME NEW u \in aggregator'.changed
        PROVE  u \in server'.served \/ aggregator'.pending[u] > 0
    <3>1. u \in Target /\ (u \in server.served \/ aggregator.pending[u] > 0)
      BY <2>2, CountTypes DEF Outstanding, ServedOrTaken
    <3>2. aggregator.pending[t] > 0
      BY <1>1, NothingOutstanding DEF Outstanding, Balanced
    <3>. QED
      BY <3>1, <3>2
  <2>. QED
    BY <2>1, <2>2 DEF ServedOrTaken
<1>. QED
  BY <1>1, <1>4, <1>5, <1>6 DEF Outstanding

\* Before the answer, a query that may be refused is not listened to unless asked for.
LEMMA WatchAnswered ==
  ASSUME TypeOK, ConnectionAssumption, Outstanding,
         NEW kind \in {"added", "refused"}, TakeRequest("watch"),
         NEW t \in Target, t = Head(requests).target, Respond(kind, t),
         kind = "refused" => t \in Refusable /\ UNCHANGED server,
         kind = "added" => server' = [server EXCEPT !.watching = @ \cup {t}]
  PROVE  Outstanding'
<1>1. /\ requests # <<>> /\ requests' = Tail(requests) /\ Head(requests).op = "watch"
      /\ UNCHANGED <<aggregator, targets>>
  BY DEF TakeRequest, Untouched, views
<1>2. LET n == Len(responses) IN
      /\ Balanced' /\ n \in Nat
      /\ DOMAIN responses = 1 .. n /\ DOMAIN responses' = 1 .. n + 1
      /\ \A i \in 1 .. n : responses'[i] = responses[i]
      /\ responses'[n + 1] = [kind |-> kind, target |-> t]
      /\ \/ LastAbout(t, 1) /\ 1 \in DOMAIN requests
         \/ Asked(t)'
      /\ Asked(t) /\ requests[1] = Head(requests)
  BY <1>1, AnswerCounts
<1>3. server \in [watching : SUBSET Target, served : SUBSET Target, due : SUBSET Target]
  BY DEF TypeOK
<1>4. /\ \A u \in Target \ {t} : /\ u \in server'.watching <=> u \in server.watching
                                 /\ u \in server'.served <=> u \in server.served
      /\ t \in server.served => t \in server'.served
      /\ kind = "added" => t \in server'.watching
      /\ kind = "refused" => server'.watching = server.watching
  <2>1. CASE kind = "added"
    BY <1>3, <2>1
  <2>2. CASE kind = "refused"
    BY <2>2
  <2>. QED
    BY <2>1, <2>2
<1>5. RefusalOf(t)' <=> RefusalOf(t) \/ kind = "refused"
  <2>1. Len(responses) \in Nat /\ Len(responses) + 1 \in 1 .. Len(responses) + 1
        /\ 1 .. Len(responses) \subseteq 1 .. Len(responses) + 1
        /\ \A i \in 1 .. Len(responses) + 1 : i = Len(responses) + 1 \/ i \in 1 .. Len(responses)
    BY <1>2
  <2>2. kind = "refused" <=> [kind |-> kind, target |-> t] = Refusal(t)
    BY DEF Refusal
  <2>. QED
    BY <1>2, <2>1, <2>2 DEF RefusalOf
<1>6. ASSUME ~Asked(t)'
      PROVE  t \in targets /\ (t \in server'.watching \/ RefusalOf(t)')
  <2>1. t \in targets
    BY <1>1, <1>2, <1>6 DEF Outstanding, Wanted
  <2>. QED
    BY <1>4, <1>5, <2>1
<1>7. ASSUME t \in Refusable
      PROVE  ~Asked(t)' /\ (RefusalOf(t)' => t \notin server'.watching)
  <2>1. t \notin server.watching /\ aggregator.pending[t] = 1
    <3>1. aggregator.pending[t] > 0
      BY <1>2, NothingOutstanding DEF Outstanding, Balanced
    <3>. QED
      BY <1>2, <1>7, <3>1 DEF Outstanding, RefusedAlone
  <2>2. /\ Occurs(requests, About(t)) \in Nat /\ Occurs(requests, About(t)) > 0
        /\ Occurs(responses, Acks(t)) \in Nat
        /\ aggregator.pending[t] = Occurs(requests, About(t)) + Occurs(responses, Acks(t))
    BY <1>2, NothingOutstanding DEF Outstanding, Balanced
  <2>3. Occurs(responses, Acks(t)) = 0 /\ Occurs(requests, About(t)) = 1
    BY <2>1, <2>2
  <2>4. ~RefusalOf(t)
    BY <2>3, NothingOutstanding DEF Outstanding
  <2>5. ~Asked(t)'
    <3>1. requests' \in Seq(Request)
      BY <1>1, TailFacts, CountTypes
    <3>2. Head(requests) \in Request
      BY <1>1, TailFacts, CountTypes
    <3>3. Occurs(requests, About(t)) = Occurs(requests', About(t)) + 1
      BY <1>1, <3>2, OccursTail, CountTypes DEF About
    <3>4. Occurs(requests', About(t)) \in Nat
      BY <3>1, OccursFinite
    <3>5. Occurs(requests', About(t)) = 0
      BY <2>3, <3>3, <3>4
    <3>6. \A i \in DOMAIN requests' : requests'[i] \notin About(t) /\ requests'[i] \in Request
      BY <3>1, <3>5, OccursFinite
    <3>. QED
      BY <3>6 DEF Asked, About
  <2>. QED
    BY <1>4, <1>5, <2>1, <2>4, <2>5
<1>. QED
  BY <1>1, <1>4, <1>6, <1>7, AnswerKeeps

LEMMA UnwatchAnswered ==
  ASSUME TypeOK, ConnectionAssumption, Outstanding, ServerUnwatches
  PROVE  Outstanding'
<1>0. PICK t : t = Head(requests).target
  OBVIOUS
<1>1. /\ requests # <<>> /\ requests' = Tail(requests) /\ Head(requests).op = "unwatch"
      /\ Respond("removed", t) /\ UNCHANGED <<aggregator, targets>>
      /\ server' = [watching |-> server.watching \ {t}, served |-> server.served \ {t},
                    due |-> server.due \ {t}]
  BY <1>0 DEF ServerUnwatches, TakeRequest, Untouched, views
<1>2. Head(requests) \in Request /\ t \in Target
  BY <1>0, <1>1, TailFacts, CountTypes DEF Request
<1>3. LET n == Len(responses) IN
      /\ n \in Nat
      /\ DOMAIN responses = 1 .. n /\ DOMAIN responses' = 1 .. n + 1
      /\ \A i \in 1 .. n : responses'[i] = responses[i]
      /\ responses'[n + 1] = [kind |-> "removed", target |-> t]
      /\ \/ LastAbout(t, 1) /\ 1 \in DOMAIN requests
         \/ Asked(t)'
      /\ Asked(t) /\ requests[1] = Head(requests) /\ 1 \in DOMAIN requests
  BY <1>0, <1>1, <1>2, AnswerCounts
<1>4. t \notin Refusable
  BY <1>0, <1>1, <1>3 DEF Outstanding, RefusedAlone
<1>5. ~RefusalOf(t)'
  <2>1. ~RefusalOf(t)
    BY <1>2, <1>4 DEF Outstanding, RefusedAlone
  <2>2. \A i \in 1 .. Len(responses) + 1 : i = Len(responses) + 1 \/ i \in 1 .. Len(responses)
    BY <1>3
  <2>3. responses'[Len(responses) + 1] # Refusal(t)
    BY <1>3 DEF Refusal
  <2>. QED
    BY <1>3, <2>1, <2>2, <2>3 DEF RefusalOf
<1>6. ~Asked(t)' => t \notin targets
  BY <1>1, <1>2, <1>3 DEF Outstanding, Wanted
<1>7. t \notin server'.watching
  BY <1>1
<1>8. \A u \in Target \ {t} : /\ u \in server'.watching <=> u \in server.watching
                              /\ u \in server'.served <=> u \in server.served
  BY <1>1
<1>. QED
  BY <1>0, <1>1, <1>2, <1>4, <1>5, <1>6, <1>7, <1>8, AnswerKeeps

\* What the server says of itself: a target it serves is current, or the snapshot.
LEMMA ServerSpeaks ==
  ASSUME TypeOK, Outstanding, NEW r \in Response,
         \/ r = [kind |-> "snapshot"]
         \/ \E u \in server'.served : r = [kind |-> "current", target |-> u],
         responses' = Append(responses, r), UNCHANGED <<requests, aggregator, targets>>,
         server'.watching = server.watching, server.served \subseteq server'.served
  PROVE  Outstanding'
<1> DEFINE n == Len(responses)
<1>1. /\ n \in Nat /\ DOMAIN responses = 1 .. n /\ DOMAIN responses' = 1 .. n + 1
      /\ \A i \in 1 .. n : responses'[i] = responses[i]
      /\ responses'[n + 1] = r
  BY CountTypes, AppendFacts
<1>2. /\ 1 .. n \subseteq 1 .. n + 1
      /\ \A i \in 1 .. n + 1 : i = n + 1 \/ i \in 1 .. n
  BY <1>1
<1>3. r.kind \in {"snapshot", "current"}
  OBVIOUS
<1>4. ASSUME NEW t \in Target
      PROVE  Occurs(responses', Acks(t)) = Occurs(responses, Acks(t))
  <2>1. r \notin Acks(t)
    BY <1>3 DEF Acks, Acknowledging
  <2>2. Occurs(responses, Acks(t)) \in Nat
    BY CountTypes, OccursFinite
  <2>3. Occurs(responses', Acks(t)) = Occurs(responses, Acks(t)) + IF r \in Acks(t) THEN 1 ELSE 0
    BY CountTypes, OccursAppend
  <2>. QED
    BY <2>1, <2>2, <2>3
<1>5. \A t \in Target : RefusalOf(t)' = RefusalOf(t)
  <2>1. \A t \in Target : r # Refusal(t)
    BY <1>3 DEF Refusal
  <2>. QED
    BY <1>1, <1>2, <2>1 DEF RefusalOf
<1>6. \A t \in Target : Asked(t)' = Asked(t) /\ \A i : LastAbout(t, i)' = LastAbout(t, i)
  BY DEF Asked, LastAbout
<1>7. Balanced'
  BY <1>4 DEF Outstanding, Balanced
<1>8. Wanted'
  BY <1>5, <1>6 DEF Outstanding, Wanted
<1>9. RefusedAlone'
  BY <1>5, <1>6, ConnectionAssumption DEF Outstanding, RefusedAlone, ConnectionAssumption
<1>10. ServedOrTaken'
  <2>1. ASSUME NEW t \in Target, NEW i \in DOMAIN responses',
               responses'[i] = [kind |-> "current", target |-> t]
        PROVE  t \in server'.served \/ TakenBack(t, i)'
    <3>1. CASE i = n + 1
      BY <1>1, <2>1, <3>1
    <3>2. CASE i \in 1 .. n
      <4>1. t \in server.served \/ TakenBack(t, i)
        BY <1>1, <2>1, <3>2 DEF Outstanding, ServedOrTaken
      <4>2. TakenBack(t, i) => TakenBack(t, i)'
        BY <1>1, <1>2 DEF TakenBack
      <4>. QED
        BY <4>1, <4>2
    <3>. QED
      BY <1>1, <1>2, <2>1, <3>1, <3>2
  <2>2. \A t \in aggregator'.changed : t \in server'.served \/ aggregator'.pending[t] > 0
    BY DEF Outstanding, ServedOrTaken
  <2>. QED
    BY <2>1, <2>2 DEF ServedOrTaken
<1>. QED
  BY <1>7, <1>8, <1>9, <1>10 DEF Outstanding

LEMMA ServerCounts ==
  ASSUME TypeOK, ConnectionAssumption, Outstanding, ServerStep
  PROVE  Outstanding'
<1>1. ASSUME NEW op, TakeRequest(op)
      PROVE  Head(requests).target \in Target
  BY <1>1, TailFacts, CountTypes DEF TakeRequest, Request
<1>2. CASE ServerWatches
  BY <1>1, <1>2, WatchAnswered DEF ServerWatches
<1>3. CASE ServerRefuses
  BY <1>1, <1>3, WatchAnswered DEF ServerRefuses
<1>4. CASE ServerUnwatches
  BY <1>4, UnwatchAnswered
<1>5. ASSUME NEW t \in Target, ServerMakesCurrent(t)
      PROVE  Outstanding'
  <2>1. /\ server \in [watching : SUBSET Target, served : SUBSET Target, due : SUBSET Target]
        /\ server' = [server EXCEPT !.served = @ \cup {t}, !.due = @ \cup {t}]
        /\ responses' = Append(responses, [kind |-> "current", target |-> t])
        /\ UNCHANGED <<requests, aggregator, targets>>
    BY <1>5 DEF TypeOK, ServerMakesCurrent, Untouched, views, Respond
  <2>2. server'.watching = server.watching /\ server'.served = server.served \cup {t}
    BY <2>1
  <2>3. [kind |-> "current", target |-> t] \in Response
    BY DEF Response
  <2>. QED
    BY <2>1, <2>2, <2>3, ServerSpeaks
<1>6. CASE ServerSendsSnapshot
  <2>1. /\ server \in [watching : SUBSET Target, served : SUBSET Target, due : SUBSET Target]
        /\ server' = [server EXCEPT !.due = {}]
        /\ responses' = Append(responses, [kind |-> "snapshot"])
        /\ UNCHANGED <<requests, aggregator, targets>>
    BY <1>6 DEF TypeOK, ServerSendsSnapshot, Untouched, views
  <2>2. server'.watching = server.watching /\ server'.served = server.served
    BY <2>1
  <2>3. [kind |-> "snapshot"] \in Response
    BY DEF Response
  <2>. QED
    BY <2>1, <2>2, <2>3, ServerSpeaks
<1>. QED
  BY <1>2, <1>3, <1>4, <1>5, <1>6 DEF ServerStep

LEMMA OutstandingSame ==
  ASSUME Outstanding, UNCHANGED <<targets, requests, responses, aggregator, server>>
  PROVE  Outstanding'
<1>1. Balanced'
  BY DEF Outstanding, Balanced
<1>2. \A t, i : LastAbout(t, i)' = LastAbout(t, i) /\ TakenBack(t, i)' = TakenBack(t, i)
  BY DEF LastAbout, TakenBack
<1>3. \A t : Asked(t)' = Asked(t) /\ RefusalOf(t)' = RefusalOf(t)
  BY DEF Asked, RefusalOf
<1>. QED
  BY <1>1, <1>2, <1>3 DEF Outstanding, Wanted, RefusedAlone, ServedOrTaken

-----------------------------------------------------------------------------
(* The steps of the client                                                 *)

LEMMA ResponseCounts ==
  ASSUME TypeOK, ConnectionAssumption, Outstanding, HandleResponse
  PROVE  Outstanding'
<1>1. ASSUME NEW kind, Receive(kind)
      PROVE  /\ Head(responses) = responses[1] /\ 1 \in DOMAIN responses
             /\ responses[1] \in Response /\ responses[1].kind = kind
             /\ kind # "snapshot" => Head(responses).target \in Target
  <2>1. /\ Head(responses) = responses[1] /\ 1 \in DOMAIN responses
        /\ responses[1] \in Response /\ responses[1].kind = kind
    BY <1>1, ReadFacts
  <2>. QED
    BY <2>1, ResponseTarget
<1>2. CASE TargetAdded
  <2>1. /\ Receive("added") /\ targets' = targets
        /\ aggregator'.pending = Answered(Head(responses).target)
        /\ aggregator'.changed = aggregator.changed \
             (IF Answered(Head(responses).target)[Head(responses).target] = 0
              THEN {Head(responses).target} ELSE {})
    BY <1>2 DEF TargetAdded, views
  <2>. QED
    BY <1>1, <2>1, AnswerRead
<1>3. CASE TargetRemoved
  <2>1. /\ Receive("removed") /\ targets' = targets
        /\ aggregator'.pending = Answered(Head(responses).target)
        /\ aggregator'.changed = aggregator.changed \
             (IF Answered(Head(responses).target)[Head(responses).target] = 0
              THEN {Head(responses).target} ELSE {})
    BY <1>3 DEF TargetRemoved, views
  <2>. QED
    BY <1>1, <2>1, AnswerRead
<1>4. CASE TargetCurrent
  <2>1. PICK t : t = Head(responses).target
    OBVIOUS
  <2>2. /\ Receive("current") /\ targets' = targets
        /\ aggregator' = IF IsActive(t)
                         THEN [aggregator EXCEPT !.current = @ \cup {t},
                                                 !.changed = @ \cup {t}]
                         ELSE aggregator
    BY <1>4, <2>1 DEF TargetCurrent, views
  <2>3. /\ t \in Target /\ 1 \in DOMAIN responses
        /\ responses[1] = [kind |-> "current", target |-> t]
    BY <1>1, <2>1, <2>2 DEF Response
  <2>4. ASSUME IsActive(t)
        PROVE  t \in server.served
    <3>1. aggregator.pending[t] = 0
      BY <2>4 DEF IsActive
    <3>2. ~\E i \in DOMAIN responses : Acknowledging(responses[i], t)
      BY <2>3, <3>1, NothingOutstanding DEF Outstanding, Balanced
    <3>3. ~TakenBack(t, 1)
      BY <3>2 DEF TakenBack, Acknowledging
    <3>. QED
      BY <2>3, <3>3 DEF Outstanding, ServedOrTaken
  <2>5. /\ aggregator \in [pending : [Target -> Int], current : SUBSET Target,
                           changed : SUBSET Target]
    BY DEF TypeOK
  <2>6. aggregator'.pending = aggregator.pending
        /\ \A u \in aggregator'.changed : u \in aggregator.changed \/ u \in server.served
    BY <2>2, <2>4, <2>5
  <2>. QED
    BY <2>2, <2>6, SilentRead
<1>5. CASE SnapshotRaised
  <2>1. /\ Receive("snapshot") /\ targets' = targets
        /\ \E changed : aggregator' = [aggregator EXCEPT !.changed = @ \ changed]
    BY <1>5 DEF SnapshotRaised
  <2>2. /\ aggregator \in [pending : [Target -> Int], current : SUBSET Target,
                           changed : SUBSET Target]
    BY DEF TypeOK
  <2>3. aggregator'.pending = aggregator.pending
        /\ \A u \in aggregator'.changed : u \in aggregator.changed
    BY <2>1, <2>2
  <2>. QED
    BY <2>1, <2>3, SilentRead
<1>6. CASE TargetRefused
  BY <1>6, RefusalRead
<1>. QED
  BY <1>2, <1>3, <1>4, <1>5, <1>6 DEF HandleResponse

\* On an open stream the last wish of the client is on its way, and no response it
\* waits for is missing or one too many.
LEMMA CountKept ==
  ASSUME TypeOK, ConnectionAssumption, LookupsServed, AssertsHold, CountInv, [Next]_vars
  PROVE  CountInv'
<1>1. SUFFICES ASSUME stream' = "Open"
               PROVE  Outstanding'
  BY DEF CountInv
<1>2. stream # "Open" => requests = <<>> /\ responses = <<>>
                         /\ aggregator = NewAggregator /\ server = NewServer
  BY DEF AssertsHold, StreamAsserts
<1>3. ASSUME NEW l \in Listener, AddQueryListener(l)
      PROVE  Outstanding'
  <2>1. TargetOf[l] \in Target /\ targets' = targets \cup {TargetOf[l]}
        /\ UNCHANGED <<responses, server>>
    BY <1>3 DEF AddQueryListener, ConnectionAssumption
  <2>2. CASE TargetOf[l] \in targets
    <3>1. UNCHANGED <<stream, targets, requests, responses, aggregator, server>>
      BY <1>3, <2>1, <2>2 DEF AddQueryListener
    <3>2. Outstanding
      BY <1>1, <3>1 DEF CountInv
    <3>. QED
      BY <3>1, <3>2, OutstandingSame
  <2>3. CASE TargetOf[l] \notin targets
    <3>1. stream = "Open" /\ Send("watch", TargetOf[l])
      BY <1>1, <1>3, <2>3 DEF AddQueryListener, Listen, StartWatchStream
    <3>2. Outstanding
      BY <3>1 DEF CountInv
    <3>. QED
      BY <2>1, <2>3, <3>1, <3>2, SendCounts
  <2>. QED
    BY <2>2, <2>3
<1>4. ASSUME NEW l \in Listener, RemoveQueryListener(l)
      PROVE  Outstanding'
  <2>1. /\ TargetOf[l] \in Target /\ TargetOf[l] \notin Refusable
        /\ UNCHANGED <<stream, responses, server>>
    BY <1>4 DEF RemoveQueryListener, ConnectionAssumption, LookupsServed
  <2>2. Outstanding
    BY <1>1, <2>1 DEF CountInv
  <2>3. \/ UNCHANGED <<targets, requests, aggregator>>
        \/ targets' = targets \ {TargetOf[l]} /\ Send("unwatch", TargetOf[l])
    BY <1>1, <1>4, <2>1 DEF RemoveQueryListener, StopListening
  <2>. QED
    BY <2>1, <2>2, <2>3, SendCounts, OutstandingSame
<1>5. ASSUME NEW c \in tokens, TokenArrives(c)
      PROVE  Outstanding'
  <2>1. UNCHANGED <<targets, responses, server>>
    BY <1>5 DEF TokenArrives, views
  <2>2. CASE TokenIsCurrent(c)
    <3>1. WatchAgain /\ stream = "Starting"
      BY <1>5, <2>2 DEF TokenArrives, TokenIsCurrent, AssertsHold, StreamAsserts
    <3>. QED
      BY <1>2, <2>1, <3>1, WatchAgainCounts
  <2>3. CASE ~TokenIsCurrent(c)
    <3>1. UNCHANGED <<stream, requests, aggregator>>
      BY <1>5, <2>3 DEF TokenArrives
    <3>. QED
      BY <1>1, <2>1, <3>1, OutstandingSame DEF CountInv
  <2>. QED
    BY <2>2, <2>3
<1>6. CASE HandleResponse
  <2>1. stream' = stream
    BY <1>6 DEF HandleResponse, TargetAdded, TargetRemoved, TargetCurrent,
                SnapshotRaised, TargetRefused, Receive
  <2>. QED
    BY <1>1, <1>6, <2>1, ResponseCounts DEF CountInv
<1>7. CASE ServerStep
  <2>1. stream' = stream
    BY <1>7 DEF ServerStep, ServerWatches, ServerRefuses, ServerUnwatches,
                ServerMakesCurrent, ServerSendsSnapshot, TakeRequest, Untouched
  <2>. QED
    BY <1>1, <1>7, <2>1, ServerCounts DEF CountInv
<1>8. CASE OnlineTimeout \/ UNCHANGED vars
  <2>1. UNCHANGED <<stream, targets, requests, responses, aggregator, server>>
    BY <1>8 DEF OnlineTimeout, Broadcast, wire, vars
  <2>. QED
    BY <1>1, <2>1, OutstandingSame DEF CountInv
<1>9. CASE TokenFails \/ ConnectionFails \/ BackoffElapsed \/ IdleTimeout
  BY <1>1, <1>9 DEF TokenFails, ConnectionFails, BackoffElapsed, IdleTimeout,
                    CloseWithError, StartWatchStream, RestStream
<1>10. CASE HandleCredentialChange
  <2>1. stream' # "Open"
    BY <1>10 DEF HandleCredentialChange, StartWatchStream, RestStream, IsStarted
  <2>. QED
    BY <1>1, <2>1
<1>. QED
  BY <1>3, <1>4, <1>5, <1>6, <1>7, <1>8, <1>9, <1>10 DEF Next, TokenStep

\* Requests and responses about a target, counted as the property counts them.
LEMMA CountedAlike ==
  ASSUME TypeOK, NEW t \in Target
  PROVE  /\ Requested(t) = Occurs(requests, About(t))
         /\ Cardinality({i \in DOMAIN responses : Acknowledging(responses[i], t)})
              = Occurs(responses, Acks(t))
<1>1. {i \in DOMAIN requests : requests[i].target = t} = Occurrences(requests, About(t))
  BY CountTypes DEF Occurrences, About
<1>2. {i \in DOMAIN responses : Acknowledging(responses[i], t)}
        = Occurrences(responses, Acks(t))
  BY CountTypes DEF Occurrences, Acks
<1>. QED
  BY <1>1, <1>2 DEF Requested, Occurs

LEMMA CountsProperty ==
  ASSUME TypeOK, CountInv
  PROVE  PendingCounts
<1>1. SUFFICES ASSUME Outstanding, NEW t \in Target
      PROVE  /\ aggregator.pending[t] = Requested(t)
                  + Cardinality({i \in DOMAIN responses : Acknowledging(responses[i], t)})
             /\ aggregator.pending[t] = 0 => (t \in targets <=> t \in server.watching)
  BY DEF PendingCounts, CountInv
<1>2. aggregator.pending[t] = Requested(t)
        + Cardinality({i \in DOMAIN responses : Acknowledging(responses[i], t)})
  BY <1>1, CountedAlike DEF Outstanding, Balanced
<1>3. ASSUME aggregator.pending[t] = 0
      PROVE  ~Asked(t) /\ ~RefusalOf(t)
  BY <1>1, <1>3, NothingOutstanding DEF Outstanding, Balanced
<1>. QED
  BY <1>1, <1>2, <1>3 DEF Outstanding, Wanted

\* As long as no query that is looked up may be refused, the client waits for
\* exactly the responses that are on their way or still to be given, in whatever
\* order streams fail, users change and lookups come and go.
THEOREM ResponsesCounted == ASSUME LookupsServed PROVE Spec => []PendingCounts
<1>1. Init => CountInv
  BY DEF Init, CountInv
<1>2. TypeOK /\ AssertsHold /\ CountInv /\ [Next]_vars => CountInv'
  BY CountKept, ConnectionAssumption
<1>3. TypeOK /\ CountInv => PendingCounts
  BY CountsProperty
<1>. QED
  BY <1>1, <1>2, <1>3, ConnectionTyped, AssertionsHold, PTL DEF Spec

\* Under the same condition no view becomes current that the server does not serve
\* at that moment.
THEOREM CurrentIsServed == ASSUME LookupsServed PROVE Spec => SyncedIsServed
<1>1. Init => CountInv
  BY DEF Init, CountInv
<1>2. TypeOK /\ AssertsHold /\ CountInv /\ [Next]_vars => CountInv'
  BY CountKept, ConnectionAssumption
<1>3. ASSUME TypeOK, AssertsHold, CountInv, [Next]_vars
      PROVE  \A t \in Target : t \in synced' \ synced => t \in server.served
  <2>1. SUFFICES ASSUME SnapshotRaised, NEW t \in Target, t \in synced' \ synced
                 PROVE  t \in server.served
    <3>1. ASSUME ~SnapshotRaised
          PROVE  synced' \subseteq synced
      BY <1>3, <3>1 DEF Next, vars, AddQueryListener, RemoveQueryListener, TokenStep,
        TokenArrives, TokenFails, ConnectionFails, CloseWithError, Broadcast,
        BackoffElapsed, OnlineTimeout, IdleTimeout, HandleCredentialChange,
        HandleResponse, TargetAdded, TargetRemoved, TargetCurrent, TargetRefused,
        ServerStep, ServerWatches, ServerRefuses, ServerUnwatches, ServerMakesCurrent,
        ServerSendsSnapshot, TakeRequest, Untouched, views
    <3>. QED
      BY <3>1
  <2>2. t \in aggregator.changed /\ aggregator.pending[t] = 0
    BY <2>1 DEF SnapshotRaised, IsActive
  <2>3. stream = "Open"
    BY <1>3, <2>1 DEF SnapshotRaised, Receive, AssertsHold, StreamAsserts
  <2>. QED
    BY <1>3, <2>2, <2>3 DEF CountInv, Outstanding, ServedOrTaken
<1>. QED
  BY <1>1, <1>2, <1>3, ConnectionTyped, AssertionsHold, PTL DEF Spec, SyncedIsServed
=============================================================================
