-------------------------- MODULE WatchConnection --------------------------
(***************************************************************************)
(* How the Firestore client keeps its listeners in touch with the server:  *)
(* the watch stream and its restarts, the online state, the requests and   *)
(* responses about each target, and the first event of every listener,     *)
(* which is where the app's listeners, getDocument and getDocuments wait.  *)
(*                                                                         *)
(* A step is a block of the client's worker queue.  A stream that is open  *)
(* need not reach anybody: gRPC opens it before the first answer.  The     *)
(* documents of a target are one bit: whether it has any.                  *)
(***************************************************************************)
EXTENDS Integers, Sequences, FiniteSets

CONSTANTS
  Listener,      \* the listeners the app adds, each once
  Target,        \* the queries they listen to
  TargetOf,      \* listener -> its query
  OneShot,       \* the listeners of getDocument and getDocuments
  First,         \* the listeners added before any other
  Stored,        \* the targets that have documents on the server
  Refusable,     \* the targets the server's rules may refuse
  MaxFailures,   \* bound: lost connections and failed tokens
  MaxUsers       \* bound: changes of the signed-in user

ASSUME ConnectionAssumption ==
  /\ IsFiniteSet(Target)
  /\ TargetOf \in [Listener -> Target]
  /\ OneShot \subseteq Listener /\ First \subseteq Listener
  /\ Stored \subseteq Target /\ Refusable \subseteq Target
  /\ MaxFailures \in Nat /\ MaxUsers \in Nat

VARIABLES
  stream,        \* the state of the watch stream
  closeCount,    \* how often it was closed
  tokens,        \* the close counts of the requests for a token under way
  idle,          \* whether the idleness timer runs
  tracker,       \* the online state, failed or not since it, and its timer
  aggregator,    \* what the client knows of its targets on this stream
  targets,       \* listen_targets_, which are also the query views
  synced,        \* the views that are current
  cached,        \* the targets with documents in the local cache
  listeners,     \* listener -> how far it is
  requests,      \* to the server: watch and unwatch
  responses,     \* from the server
  server,        \* what the server knows of the targets on this stream
  failures,      \* against MaxFailures
  users          \* against MaxUsers

vars == <<stream, closeCount, tokens, idle, tracker, aggregator, targets, synced,
          cached, listeners, requests, responses, server, failures, users>>

views == <<targets, synced, cached, listeners>>
wire == <<requests, responses, server>>
bounds == <<failures, users>>

Request == [op : {"watch", "unwatch"}, target : Target]
Response == [kind : {"added", "removed", "current", "refused"}, target : Target]
              \cup [kind : {"snapshot"}]

NewAggregator ==
  [pending |-> [t \in Target |-> 0], current |-> {}, changed |-> {}]
NewServer == [watching |-> {}, served |-> {}, due |-> {}]

Init ==
  /\ stream = "Initial" /\ closeCount = 0 /\ tokens = {} /\ idle = FALSE
  /\ tracker = [state |-> "Unknown", failed |-> FALSE, timer |-> FALSE]
  /\ aggregator = NewAggregator
  /\ targets = {} /\ synced = {} /\ cached \in SUBSET Target
  /\ listeners = [l \in Listener |-> "new"]
  /\ requests = <<>> /\ responses = <<>> /\ server = NewServer
  /\ failures = 0 /\ users = 0

IsStarted == stream \in {"Starting", "Backoff", "Open"}

-----------------------------------------------------------------------------
(* The online state tracker                                                *)

\* HandleWatchStreamStart: the state is to be known within ten seconds.
AfterStart(k) ==
  IF k.failed THEN k ELSE [k EXCEPT !.state = "Unknown", !.timer = TRUE]

\* HandleWatchStreamFailure: one failure and the client is offline.
AfterFailure(k) ==
  IF k.state = "Online" THEN [k EXCEPT !.state = "Unknown"]
  ELSE [state |-> "Offline", failed |-> TRUE, timer |-> FALSE]

\* Seeded fault: the timer is left running.
AfterUpdateKeepingTimer(k, state) == [k EXCEPT !.state = state, !.failed = FALSE]

\* UpdateState
AfterUpdate(k, state) == [state |-> state, failed |-> FALSE, timer |-> FALSE]

-----------------------------------------------------------------------------
(* The first event of a listener                                           *)

Attached(l) == listeners[l] \in {"waiting", "heard"}

\* Seeded fault: a listener that waits for the server is not told it is offline.
RaisesWhenOnline(l, current, state, docs) ==
  \/ TargetOf[l] \in current
  \/ l \notin OneShot /\ (TargetOf[l] \in docs \/ state = "Offline")

\* ShouldRaiseInitialEvent
Raises(l, current, state, docs) ==
  \/ TargetOf[l] \in current
  \/ state = "Offline"
  \/ l \notin OneShot /\ TargetOf[l] \in docs

\* The listeners hear of the views and of the online state, which are new.
Notified ==
  listeners' = [l \in Listener |->
    IF listeners[l] = "waiting" /\ Raises(l, synced', tracker'.state, cached')
    THEN "heard" ELSE listeners[l]]

\* Offline, no view is current any more.
Broadcast ==
  /\ synced' = IF tracker'.state = "Offline" THEN {} ELSE synced
  /\ UNCHANGED <<targets, cached>>
  /\ Notified

-----------------------------------------------------------------------------
(* Starting and closing the watch stream                                   *)

\* StartWatchStream: a stream that ended in an error backs off first.
StartWatchStream(from, count, rest, k) ==
  /\ stream' = IF from = "Error" THEN "Backoff" ELSE "Starting"
  /\ tokens' = IF from = "Error" THEN rest ELSE rest \cup {count}
  /\ aggregator' = NewAggregator
  /\ tracker' = AfterStart(k)

\* The stream rests: nothing is to be listened to.
RestStream(state, rest) ==
  /\ stream' = state
  /\ tokens' = rest
  /\ aggregator' = NewAggregator
  /\ tracker' = AfterUpdate(tracker, "Unknown")

\* The pending calls, timers and messages of the stream are void.
StreamGone ==
  /\ closeCount' = closeCount + 1
  /\ idle' = FALSE
  /\ requests' = <<>> /\ responses' = <<>> /\ server' = NewServer

\* Seeded fault: after a failure the stream is only started by the next listener.
CloseWithoutRestart(rest) ==
  /\ StreamGone
  /\ stream' = "Error" /\ tokens' = rest /\ aggregator' = NewAggregator
  /\ tracker' = IF targets # {} THEN AfterFailure(tracker)
                ELSE AfterUpdate(tracker, "Unknown")
  /\ Broadcast

\* Stream::Close with an error and OnWatchStreamClose.
CloseWithError(rest) ==
  /\ StreamGone
  /\ \/ targets # {} /\ StartWatchStream("Error", closeCount', rest, AfterFailure(tracker))
     \/ targets = {} /\ RestStream("Error", rest)
  /\ Broadcast

\* A token asked for before the stream was last closed is dropped.
TokenIsCurrent(c) == c = closeCount

\* OnWatchStreamOpen: every target is watched again, in any order.
WatchAgain ==
  \E order \in [1 .. Cardinality(targets) -> targets] :
    /\ \A t \in targets : \E i \in DOMAIN order : order[i] = t
    /\ requests' = [i \in DOMAIN order |-> [op |-> "watch", target |-> order[i]]]
    /\ aggregator' = [aggregator EXCEPT !.pending =
                        [t \in Target |-> @[t] + IF t \in targets THEN 1 ELSE 0]]

\* ResumeStartWithCredentials: the stream opens without a word from the server.
TokenArrives(c) ==
  /\ c \in tokens
  /\ tokens' = tokens \ {c}
  /\ \/ TokenIsCurrent(c) /\ stream' = "Open" /\ WatchAgain
     \/ ~TokenIsCurrent(c) /\ UNCHANGED <<stream, requests, aggregator>>
  /\ UNCHANGED <<closeCount, idle, tracker, views, responses, server, bounds>>

TokenFails ==
  /\ closeCount \in tokens /\ failures < MaxFailures
  /\ failures' = failures + 1
  /\ CloseWithError(tokens \ {closeCount})
  /\ UNCHANGED users

ConnectionFails ==
  /\ stream = "Open" /\ failures < MaxFailures
  /\ failures' = failures + 1
  /\ CloseWithError(tokens)
  /\ UNCHANGED users

BackoffElapsed ==
  /\ stream = "Backoff"
  /\ stream' = "Starting" /\ tokens' = tokens \cup {closeCount}
  /\ UNCHANGED <<closeCount, idle, tracker, aggregator, views, wire, bounds>>

\* Ten seconds without a message: the client is taken to be offline.
OnlineTimeout ==
  /\ tracker.timer
  /\ tracker' = [tracker EXCEPT !.state = "Offline", !.timer = FALSE]
  /\ Broadcast
  /\ UNCHANGED <<stream, closeCount, tokens, idle, aggregator, wire, bounds>>

\* A minute without targets: the stream is stopped.
IdleTimeout ==
  /\ idle
  /\ StreamGone
  /\ RestStream("Initial", tokens)
  /\ UNCHANGED <<views, bounds>>

\* A login or logout: the streams are stopped and, if needed, started again.
HandleCredentialChange ==
  LET stopped == IF IsStarted THEN "Initial" ELSE stream IN
  /\ users < MaxUsers /\ users' = users + 1
  /\ \/ IsStarted /\ StreamGone
     \/ ~IsStarted /\ UNCHANGED <<closeCount, idle, wire>>
  /\ \/ /\ targets # {}
        /\ StartWatchStream(stopped, closeCount', tokens, AfterUpdate(tracker, "Unknown"))
     \/ targets = {} /\ RestStream(stopped, tokens)
  /\ UNCHANGED <<views, failures>>

-----------------------------------------------------------------------------
(* Listening                                                               *)

\* Seeded fault: a request is sent without expecting its response.
SendUnrecorded(op, t) ==
  /\ requests' = Append(requests, [op |-> op, target |-> t])
  /\ UNCHANGED aggregator

\* SendWatchRequest and SendUnwatchRequest
Send(op, t) ==
  /\ requests' = Append(requests, [op |-> op, target |-> t])
  /\ aggregator' = [aggregator EXCEPT !.pending[t] = @ + 1]

\* RemoteStore::Listen
Listen(t) ==
  \/ /\ ~IsStarted
     /\ StartWatchStream(stream, closeCount, tokens, tracker)
     /\ UNCHANGED <<idle, requests>>
  \/ /\ stream = "Open"
     /\ Send("watch", t) /\ idle' = FALSE
     /\ UNCHANGED <<stream, tokens, tracker>>
  \/ /\ stream \in {"Starting", "Backoff"}
     /\ UNCHANGED <<stream, tokens, tracker, aggregator, idle, requests>>

\* AddQueryListener: the view is new unless others listen to the same query; the
\* first event is raised before the remote store is told.
AddQueryListener(l) ==
  LET t == TargetOf[l] IN
  /\ listeners[l] = "new"
  /\ l \in First \/ \A k \in First : listeners[k] # "new"
  /\ listeners' = [listeners EXCEPT ![l] =
                     IF Raises(l, synced, tracker.state, cached)
                     THEN "heard" ELSE "waiting"]
  /\ targets' = targets \cup {t}
  /\ \/ t \notin targets /\ Listen(t)
     \/ t \in targets /\ UNCHANGED <<stream, tokens, tracker, aggregator, idle, requests>>
  /\ UNCHANGED <<closeCount, synced, cached, responses, server, bounds>>

\* RemoteStore::StopListening
StopListening(t) ==
  \/ /\ stream = "Open"
     /\ Send("unwatch", t) /\ idle' = (targets' = {})
     /\ UNCHANGED tracker
  \/ /\ stream # "Open"
     /\ tracker' = IF targets' = {} THEN AfterUpdate(tracker, "Unknown") ELSE tracker
     /\ UNCHANGED <<aggregator, idle, requests>>

\* getDocument takes its listener away when it has heard.
RemoveQueryListener(l) ==
  LET t == TargetOf[l] IN
  /\ l \in OneShot /\ listeners[l] = "heard"
  /\ listeners' = [listeners EXCEPT ![l] = "gone"]
  /\ \/ /\ \E k \in Listener \ {l} : TargetOf[k] = t /\ Attached(k)
        /\ UNCHANGED <<targets, synced, tracker, aggregator, idle, requests>>
     \/ /\ \A k \in Listener \ {l} : ~(TargetOf[k] = t /\ Attached(k))
        /\ targets' = targets \ {t} /\ synced' = synced \ {t}
        /\ StopListening(t)
  /\ UNCHANGED <<stream, closeCount, tokens, cached, responses, server, bounds>>

-----------------------------------------------------------------------------
(* Responses                                                               *)

\* OnWatchStreamChange: whatever the message, the client is online.
Receive(kind) ==
  /\ responses # <<>> /\ Head(responses).kind = kind
  /\ responses' = Tail(responses)
  /\ tracker' = AfterUpdate(tracker, "Online")
  /\ UNCHANGED <<stream, closeCount, tokens, idle, requests, server, bounds>>

\* Seeded fault: responses of a former watch of the target count.
ActiveThoughPending(t) == t \in targets

\* IsActiveTarget: no response to a request about the target is outstanding.
IsActive(t) == t \in targets /\ aggregator.pending[t] = 0

\* RecordTargetResponse
Answered(t) == [aggregator.pending EXCEPT ![t] = @ - 1]

\* With nothing outstanding any more the changes heard of so far are forgotten.
TargetAdded ==
  LET t == Head(responses).target
      forgotten == IF Answered(t)[t] = 0 THEN {t} ELSE {}
  IN
  /\ Receive("added")
  /\ aggregator' = [pending |-> Answered(t), current |-> aggregator.current,
                    changed |-> aggregator.changed \ forgotten]
  /\ UNCHANGED views

\* RemoveTarget, if nothing is outstanding any more
TargetRemoved ==
  LET t == Head(responses).target
      forgotten == IF Answered(t)[t] = 0 THEN {t} ELSE {}
  IN
  /\ Receive("removed")
  /\ aggregator' = [pending |-> Answered(t), current |-> aggregator.current \ forgotten,
                    changed |-> aggregator.changed \ forgotten]
  /\ UNCHANGED views

TargetCurrent ==
  LET t == Head(responses).target IN
  /\ Receive("current")
  /\ aggregator' = IF IsActive(t)
                   THEN [aggregator EXCEPT !.current = @ \cup {t},
                                           !.changed = @ \cup {t}]
                   ELSE aggregator
  /\ UNCHANGED views

\* RaiseWatchSnapshot: the views take over what has changed for their targets.
SnapshotRaised ==
  LET changed == {t \in aggregator.changed : IsActive(t)} IN
  /\ Receive("snapshot")
  /\ aggregator' = [aggregator EXCEPT !.changed = @ \ changed]
  /\ synced' = (synced \ changed) \cup (changed \cap aggregator.current)
  /\ cached' = (cached \ changed) \cup (changed \cap Stored)
  /\ Notified
  /\ UNCHANGED targets

\* ProcessTargetError and HandleRejectedListen: the listeners are told and gone.
TargetRefused ==
  LET t == Head(responses).target IN
  /\ Receive("refused")
  /\ \/ /\ t \in targets
        /\ targets' = targets \ {t} /\ synced' = synced \ {t}
        /\ aggregator' = [pending |-> [aggregator.pending EXCEPT ![t] = 0],
                          current |-> aggregator.current \ {t},
                          changed |-> aggregator.changed \ {t}]
        /\ listeners' = [l \in Listener |->
             IF TargetOf[l] = t /\ Attached(l) THEN "failed" ELSE listeners[l]]
     \/ t \notin targets /\ UNCHANGED <<targets, synced, aggregator, listeners>>
  /\ UNCHANGED cached

HandleResponse ==
  TargetAdded \/ TargetRemoved \/ TargetCurrent \/ SnapshotRaised \/ TargetRefused

-----------------------------------------------------------------------------
(* The server                                                              *)

Respond(kind, t) == responses' = Append(responses, [kind |-> kind, target |-> t])

Untouched == UNCHANGED <<stream, closeCount, tokens, idle, tracker, aggregator,
                         views, bounds>>

TakeRequest(op) ==
  /\ requests # <<>> /\ Head(requests).op = op
  /\ requests' = Tail(requests)
  /\ Untouched

ServerWatches ==
  LET t == Head(requests).target IN
  /\ TakeRequest("watch")
  /\ Respond("added", t)
  /\ server' = [server EXCEPT !.watching = @ \cup {t}]

ServerRefuses ==
  LET t == Head(requests).target IN
  /\ TakeRequest("watch") /\ t \in Refusable
  /\ Respond("refused", t)
  /\ UNCHANGED server

ServerUnwatches ==
  LET t == Head(requests).target IN
  /\ TakeRequest("unwatch")
  /\ Respond("removed", t)
  /\ server' = [watching |-> server.watching \ {t}, served |-> server.served \ {t},
                due |-> server.due \ {t}]

ServerMakesCurrent(t) ==
  /\ t \in server.watching \ server.served
  /\ Respond("current", t)
  /\ server' = [server EXCEPT !.served = @ \cup {t}, !.due = @ \cup {t}]
  /\ Untouched /\ UNCHANGED requests

\* A snapshot of the whole stream, when every target watched is current.
ServerSendsSnapshot ==
  /\ server.due # {} /\ server.watching \subseteq server.served
  /\ responses' = Append(responses, [kind |-> "snapshot"])
  /\ server' = [server EXCEPT !.due = {}]
  /\ Untouched /\ UNCHANGED requests

ServerStep ==
  \/ ServerWatches
  \/ ServerRefuses
  \/ ServerUnwatches
  \/ \E t \in Target : ServerMakesCurrent(t)
  \/ ServerSendsSnapshot

TokenStep == \E c \in tokens : TokenArrives(c)

Next ==
  \/ \E l \in Listener : AddQueryListener(l) \/ RemoveQueryListener(l)
  \/ TokenStep \/ TokenFails \/ ConnectionFails
  \/ BackoffElapsed \/ OnlineTimeout \/ IdleTimeout
  \/ HandleCredentialChange
  \/ HandleResponse
  \/ ServerStep

Spec == Init /\ [][Next]_vars

\* The timers fire and the worker queue goes on.  A token may never come, and a
\* stream may be open to nobody; a server that has answered goes on answering.
Fairness ==
  /\ WF_vars(OnlineTimeout)
  /\ WF_vars(BackoffElapsed)
  /\ WF_vars(HandleResponse)
  /\ WF_vars(tracker.state = "Online" /\ ServerStep)
  /\ WF_vars(\E l \in Listener : RemoveQueryListener(l))

FairSpec == Spec /\ Fairness

-----------------------------------------------------------------------------
(* Properties                                                              *)

TypeOK ==
  /\ stream \in {"Initial", "Starting", "Open", "Error", "Backoff"}
  /\ closeCount \in Nat
  /\ tokens \subseteq 0 .. closeCount
  /\ idle \in BOOLEAN
  /\ tracker \in [state : {"Unknown", "Online", "Offline"}, failed : BOOLEAN,
                  timer : BOOLEAN]
  /\ aggregator \in [pending : [Target -> Int], current : SUBSET Target,
                     changed : SUBSET Target]
  /\ targets \subseteq Target /\ synced \subseteq Target /\ cached \subseteq Target
  /\ listeners \in [Listener -> {"new", "waiting", "heard", "failed", "gone"}]
  /\ requests \in Seq(Request) /\ responses \in Seq(Response)
  /\ server \in [watching : SUBSET Target, served : SUBSET Target,
                 due : SUBSET Target]
  /\ failures \in Nat /\ users \in Nat

\* The assertions of the tracker: no timer runs when one is started, and the state
\* is unknown when it fires; online, nothing has failed and no timer runs.
TrackerAsserts ==
  /\ tracker.timer => tracker.state = "Unknown" /\ ~tracker.failed /\ IsStarted
  /\ tracker.state = "Online" => ~tracker.failed
  /\ tracker.state = "Offline" => synced = {}

\* Those of the stream: the token that counts finds it starting; it is stopped for
\* idleness only when nothing is listened to; what is read is of an open stream.
StreamAsserts ==
  /\ closeCount \in tokens <=> stream = "Starting"
  /\ idle => stream = "Open" /\ targets = {}
  /\ stream \in {"Initial", "Error"} => targets = {}
  /\ stream # "Open" => /\ requests = <<>> /\ responses = <<>>
                        /\ aggregator = NewAggregator /\ server = NewServer

\* Those of the listens: a target is listened to exactly as long as a listener is
\* attached to it, so a listen that ends, or is refused, is found.
ListenAsserts ==
  /\ \A t \in Target : t \in targets <=> \E l \in Listener : TargetOf[l] = t /\ Attached(l)
  /\ synced \subseteq targets

\* No assertion of the watch side of the client fails, in whatever order tokens,
\* timers, messages, failures, logins and listeners come.
AssertsHold == TrackerAsserts /\ StreamAsserts /\ ListenAsserts

Requested(t) == Cardinality({i \in DOMAIN requests : requests[i].target = t})

Acknowledging(r, t) == r.kind \in {"added", "removed", "refused"} /\ r.target = t

\* The responses the client waits for are those on their way or still to be given,
\* and a target nothing is outstanding about is listened to at both ends or neither.
PendingCounts ==
  stream = "Open" =>
    \A t \in Target :
      /\ aggregator.pending[t] = Requested(t)
           + Cardinality({i \in DOMAIN responses : Acknowledging(responses[i], t)})
      /\ aggregator.pending[t] = 0 => (t \in targets <=> t \in server.watching)

\* A view becomes current only for a watch the server has made current: never by
\* what was said of a former watch of the same query, or on a former stream.
SyncedIsServed ==
  [][\A t \in Target : t \in synced' \ synced => t \in server.served]_vars

Refused == \E l \in Listener : listeners[l] = "failed"

Hears(l) == listeners[l] # "waiting"

\* Every listener hears something, from the server or the cache, whether or not
\* the device is connected, as long as no listener that stays is refused: no
\* screen of the app waits for ever for its data.
EveryListenerHears == \A l \in Listener : ~Hears(l) ~> (Hears(l) \/ Refused)

\* What the comment on kOnlineStateTimeout says: if the timeout is reached the
\* client is taken to be offline rather than waiting indefinitely, also when
\* nothing is listened to but documents that are looked up.
NeverWaitsForever == \A l \in Listener : ~Hears(l) ~> Hears(l)

\* When tokens come and the server serves, all that is listened to is brought up
\* to date in the end, whatever failed before.
ComesOnline ==
  (WF_vars(ServerStep) /\ WF_vars(TokenStep)) => <>[](targets \subseteq synced)
=============================================================================
