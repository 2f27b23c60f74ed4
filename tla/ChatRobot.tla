----------------------------- MODULE ChatRobot -----------------------------
(***************************************************************************)
(* The robot that encourages, and the chat it speaks in.                   *)
(*                                                                         *)
(* When the check of a habit is acknowledged the app says "I have done     *)
(* ..." in the chat, when that is acknowledged the robot answers, and when *)
(* that is acknowledged the chat tab gets its badge.  The writes are       *)
(* queued on disk and acknowledged in order; the completion blocks the     *)
(* chain is made of are lost with the process.                             *)
(*                                                                         *)
(* The chat adds a listener every time it appears and removes none.  Each  *)
(* is called in a block of the main queue, and reloads the table in a      *)
(* later one.  Settings cleans the chat: it asks for the messages and      *)
(* deletes them one by one.                                                *)
(***************************************************************************)
EXTENDS Naturals, Sequences, SequencesExt, FiniteSets

CONSTANTS
  MaxChecks,   \* bound: habits checked
  MaxVisits,   \* bound: times the chat appears, and has listeners, in a launch
  MaxCleans,   \* bound: times the chat is cleaned
  MaxBlocks,   \* bound: blocks of the main queue that wait when more come
  MaxKills     \* bound: times the process is killed

ASSUME RobotAssumption ==
  \A bound \in {MaxChecks, MaxVisits, MaxCleans, MaxBlocks, MaxKills} : bound \in Nat

VARIABLES
  queue,        \* the writes not acknowledged: what, and whether it has a block
  checks,       \* the habits checked so far
  said,         \* who said what, of all messages ever: "done", "encouraged"
  deleted,      \* the messages deleted, by their place in `said'
  asked,        \* whether cleaning waits for the messages it asked for
  doomed,       \* the messages delete() was called on, not deleted yet
  cleans,       \* times the chat was cleaned
  listeners,    \* the listeners of the chat
  blocks,       \* the main queue: listeners called with messages, reloads
  messages,     \* ChatViewController.messages, by their place in `said'
  rows,         \* the rows the table believes it has
  badgeStatus,  \* the badge in UserDefaults
  badge,        \* the badge on the tab
  tab,          \* the tab on the screen
  kills         \* times the process was killed

collection == <<said, deleted>>
cleaning == <<asked, doomed, cleans>>
screen == <<listeners, messages, rows>>
badges == <<badgeStatus, badge>>
vars == <<queue, checks, collection, cleaning, screen, blocks, badges, tab, kills>>

Write(what) == [what |-> what, block |-> TRUE]
Chat == DOMAIN said \ deleted
Reload == [reload |-> TRUE, chat |-> {}]
Called(chat) == [i \in 1 .. listeners |-> [reload |-> FALSE, chat |-> chat]]

Init ==
  /\ queue = <<>> /\ checks = 0
  /\ said = <<>> /\ deleted = {}
  /\ asked = FALSE /\ doomed = {} /\ cleans = 0
  /\ listeners = 0 /\ blocks = <<>> /\ messages = {} /\ rows = 0
  /\ badgeStatus = FALSE /\ badge = FALSE
  /\ tab = "home" /\ kills = 0

\* Done is swiped in the list.
Check ==
  /\ tab = "home" /\ checks < MaxChecks
  /\ checks' = checks + 1
  /\ queue' = Append(queue, Write("check"))
  /\ UNCHANGED <<collection, cleaning, screen, blocks, badges, tab, kills>>

\* addDocument to the chat: it shows at once, every listener is called.
Say(what) ==
  /\ said' = Append(said, what)
  /\ queue' = Append(Tail(queue), Write(what))
  /\ blocks' = blocks \o Called(Chat \cup {Len(said) + 1})

\* The main queue keeps up with what the worker queue gives it.
KeepsUp == Len(blocks) <= MaxBlocks

\* Seeded fault: the robot speaks in the same block as the user.
SayBothAtOnce ==
  /\ KeepsUp /\ queue # <<>> /\ Head(queue) = Write("check")
  /\ said' = said \o <<"encouraged", "done">>
  /\ queue' = Tail(queue) \o <<Write("encouraged"), Write("done")>>
  /\ blocks' = blocks \o Called(Chat \cup {Len(said) + 1, Len(said) + 2})
  /\ UNCHANGED <<checks, deleted, cleaning, screen, badges, tab, kills>>

CheckAcknowledged ==
  /\ KeepsUp /\ queue # <<>> /\ Head(queue) = Write("check")
  /\ Say("done")
  /\ UNCHANGED <<checks, deleted, cleaning, screen, badges, tab, kills>>

\* Seeded fault: the robot is silent while the chat is open.
AnswersAtHome ==
  /\ KeepsUp /\ queue # <<>> /\ Head(queue) = Write("done")
  /\ IF tab = "home" THEN Say("encouraged")
     ELSE queue' = Tail(queue) /\ UNCHANGED <<said, blocks>>
  /\ UNCHANGED <<checks, deleted, cleaning, screen, badges, tab, kills>>

MessageAcknowledged ==
  /\ KeepsUp /\ queue # <<>> /\ Head(queue) = Write("done")
  /\ Say("encouraged")
  /\ UNCHANGED <<checks, deleted, cleaning, screen, badges, tab, kills>>

\* The badge is set in UserDefaults and loaded on the tab, on any tab.
EncouragementAcknowledged ==
  /\ KeepsUp /\ queue # <<>> /\ Head(queue) = Write("encouraged")
  /\ queue' = Tail(queue)
  /\ badgeStatus' = TRUE /\ badge' = TRUE
  /\ UNCHANGED <<checks, collection, cleaning, screen, blocks, tab, kills>>

\* A delete, or a write made before the process was killed: no block to call.
AcknowledgedUnheard ==
  /\ queue # <<>> /\ ~Head(queue).block
  /\ queue' = Tail(queue)
  /\ UNCHANGED <<checks, collection, cleaning, screen, blocks, badges, tab, kills>>

Acknowledge ==
  \/ CheckAcknowledged
  \/ MessageAcknowledged
  \/ EncouragementAcknowledged
  \/ AcknowledgedUnheard

-----------------------------------------------------------------------------
(* The chat on the screen                                                  *)

\* Seeded fault: the messages are cleared before they are asked for again.
ShowChatCleared ==
  /\ tab # "chat" /\ listeners < MaxVisits
  /\ ~asked /\ doomed = {} /\ blocks = <<>>
  /\ tab' = "chat"
  /\ badge' = FALSE /\ badgeStatus' = FALSE
  /\ listeners' = listeners + 1
  /\ messages' = {}
  /\ blocks' = <<[reload |-> FALSE, chat |-> Chat]>>
  /\ UNCHANGED <<queue, checks, collection, cleaning, rows, kills>>

\* viewWillAppear: one more listener, called with what is there.  The user
\* waits for cleaning and for the main queue before changing to the chat.
ShowChat ==
  /\ tab # "chat" /\ listeners < MaxVisits
  /\ ~asked /\ doomed = {} /\ blocks = <<>>
  /\ tab' = "chat"
  /\ badge' = FALSE /\ badgeStatus' = FALSE
  /\ listeners' = listeners + 1
  /\ blocks' = <<[reload |-> FALSE, chat |-> Chat]>>
  /\ UNCHANGED <<queue, checks, collection, cleaning, messages, rows, kills>>

\* Seeded fault: the listener adds to the messages it had.
HearAdding ==
  /\ blocks # <<>> /\ ~Head(blocks).reload
  /\ messages' = messages \cup Head(blocks).chat
  /\ blocks' = Append(Tail(blocks), Reload)
  /\ UNCHANGED <<queue, checks, collection, cleaning, listeners, rows, badges, tab, kills>>

HearOfMessages ==
  /\ blocks # <<>> /\ ~Head(blocks).reload
  /\ messages' = Head(blocks).chat
  /\ blocks' = Append(Tail(blocks), Reload)
  /\ UNCHANGED <<queue, checks, collection, cleaning, listeners, rows, badges, tab, kills>>

ReloadTable ==
  /\ blocks # <<>> /\ Head(blocks).reload
  /\ rows' = Cardinality(messages)
  /\ blocks' = Tail(blocks)
  /\ UNCHANGED <<queue, checks, collection, cleaning, listeners, messages, badges, tab, kills>>

\* viewWillAppear of Home: loadBadge sets the badge, and never clears it.
ShowHome ==
  /\ tab # "home" /\ tab' = "home"
  /\ badge' = (badge \/ badgeStatus)
  /\ UNCHANGED <<queue, checks, collection, cleaning, screen, blocks, badgeStatus, kills>>

ShowSettings ==
  /\ tab # "settings" /\ tab' = "settings"
  /\ UNCHANGED <<queue, checks, collection, cleaning, screen, blocks, badges, kills>>

-----------------------------------------------------------------------------
(* Cleaning the chat                                                       *)

\* getDocuments, which answers from the cache if the server does not.
CleanPressed ==
  /\ tab = "settings" /\ ~asked /\ cleans < MaxCleans
  /\ asked' = TRUE /\ cleans' = cleans + 1
  /\ UNCHANGED <<queue, checks, collection, doomed, screen, blocks, badges, tab, kills>>

\* Seeded fault: the loop leaves out the first message.
CleanAnsweredFromSecond ==
  /\ asked /\ asked' = FALSE
  /\ doomed' = {n \in Chat : \E k \in Chat : k < n}
  /\ UNCHANGED <<queue, checks, collection, cleans, screen, blocks, badges, tab, kills>>

\* delete() is called on every message, and success reported.
CleanAnswered ==
  /\ asked /\ asked' = FALSE
  /\ doomed' = doomed \cup Chat
  /\ UNCHANGED <<queue, checks, collection, cleans, screen, blocks, badges, tab, kills>>

\* One of the deletes is written, in order; it has no block.
Deleted ==
  /\ KeepsUp
  /\ \E n \in doomed :
       /\ \A k \in doomed : n <= k
       /\ doomed' = doomed \ {n}
       /\ deleted' = deleted \cup {n}
       /\ queue' = Append(queue, [what |-> "delete", block |-> FALSE])
       /\ blocks' = blocks \o Called(Chat \ {n})
  /\ UNCHANGED <<checks, said, asked, cleans, screen, badges, tab, kills>>

-----------------------------------------------------------------------------

\* The process is killed and launched again, on Home.
Relaunch ==
  /\ kills < MaxKills /\ kills' = kills + 1
  /\ queue' = [i \in 1 .. Len(queue) |-> [queue[i] EXCEPT !.block = FALSE]]
  /\ asked' = FALSE /\ doomed' = {}
  /\ listeners' = 0 /\ blocks' = <<>> /\ messages' = {} /\ rows' = 0
  /\ tab' = "home" /\ badge' = badgeStatus
  /\ UNCHANGED <<checks, collection, cleans, badgeStatus>>

Next ==
  \/ Check \/ Acknowledge
  \/ ShowChat \/ ShowHome \/ ShowSettings \/ HearOfMessages \/ ReloadTable
  \/ CleanPressed \/ CleanAnswered \/ Deleted
  \/ Relaunch

Spec == Init /\ [][Next]_vars

\* Firestore retries a write until there is an answer, a lookup is answered
\* from the cache if need be, and the queues run what is on them.
FairSpec ==
  /\ Spec
  /\ WF_vars(Acknowledge) /\ WF_vars(CleanAnswered) /\ WF_vars(Deleted)
  /\ WF_vars(HearOfMessages \/ ReloadTable)

-----------------------------------------------------------------------------
(* Properties                                                              *)

Said(what, n) == Cardinality({i \in 1 .. n : said[i] = what})

Encouraged == Said("encouraged", Len(said))

\* At every point of the chat the robot has answered no more than the user has
\* said, and the user has said no more than was checked, however the chains of
\* several checks interleave.
RobotNeverSpeaksFirst ==
  /\ \A n \in 0 .. Len(said) : Said("encouraged", n) <= Said("done", n)
  /\ Said("done", Len(said)) <= checks

\* Once the main queue is empty the chat, if it was opened, shows the messages
\* that are there: through all its listeners, cleaning and the chains going on.
ChatShowsMessages ==
  blocks = <<>> /\ listeners > 0 => messages = Chat /\ rows = Cardinality(Chat)

\* While the chat is on the screen the table never believes in a row it has no
\* message for (cellForRowAt would trap), although a block of the main queue
\* lies between the messages and the reload.
RowsHaveMessages == tab = "chat" => rows <= Cardinality(messages)

\* Every check is answered by the robot in the end, unless the process is
\* killed.
EncouragedUnlessKilled ==
  \A n \in 1 .. MaxChecks : (checks >= n) ~> (Encouraged >= n \/ kills > 0)

\* Whatever was in the chat when cleaning was pressed is deleted in the end,
\* unless the process is killed: success is reported before anything is.
CleanedUnlessKilled ==
  \A n \in 1 .. 2 * MaxChecks :
    (asked /\ n \in Chat) ~> (n \in deleted \/ kills > 0)

\* What the README says: whenever a habit is checked, the robot will encourage
\* the user in the chat tab.
EveryCheckEncouraged ==
  \A n \in 1 .. MaxChecks : (checks >= n) ~> (Encouraged >= n)
=============================================================================
