--------------------------- MODULE ChatRobotProofs ---------------------------
(***************************************************************************)
(* The chat shows its messages and has one for every row, and the robot    *)
(* never speaks first, for any number of checks, visits, cleanings, waiting*)
(* blocks and kills.                                                       *)
(*                                                                         *)
(* The first two are about the blocks on the main queue: the last one a    *)
(* listener is called in has the messages there are, and every change of   *)
(* them is followed by a reload.  While the chat is on the screen nothing  *)
(* is deleted, so what the listeners are called with only grows.           *)
(*                                                                         *)
(* The third is about the writes that wait for their acknowledgement: an   *)
(* answer is owed for every message of the user whose block is still to be *)
(* called, and a message for every such check.                             *)
(***************************************************************************)
EXTENDS ChatRobot, Counting, SequenceTheorems

Messages == {c \in SUBSET Nat : IsFiniteSet(c)}

Block == [reload : BOOLEAN, chat : Messages]

ChatTyped ==
  /\ said \in Seq({"done", "encouraged"})
  /\ deleted \subseteq 1 .. Len(said)
  /\ asked \in BOOLEAN
  /\ doomed \subseteq 1 .. Len(said)
  /\ listeners \in Nat
  /\ blocks \in Seq(Block)
  /\ messages \in Messages
  /\ rows \in Nat
  /\ tab \in {"home", "chat", "settings"}

\* What the listeners are called with last is what there is, and the table is
\* reloaded after it; a chat never opened has nothing.
UpToDate ==
  /\ blocks = <<>> => rows = Cardinality(messages)
  /\ listeners = 0 => blocks = <<>> /\ messages = {}
  /\ listeners > 0 =>
       \/ /\ messages = Chat
          /\ \A i \in DOMAIN blocks : blocks[i].reload
       \/ \E i \in DOMAIN blocks :
            /\ ~blocks[i].reload /\ blocks[i].chat = Chat
            /\ \A j \in DOMAIN blocks : j > i => blocks[j].reload

\* While the chat is on the screen nothing is cleaned, and every block has the
\* messages of the one before.
OnScreen ==
  /\ listeners > 0 /\ ~asked /\ doomed = {}
  /\ rows <= Cardinality(messages)
  /\ messages \subseteq Chat
  /\ \A i \in DOMAIN blocks : ~blocks[i].reload =>
       /\ messages \subseteq blocks[i].chat /\ blocks[i].chat \subseteq Chat
       /\ \A j \in DOMAIN blocks :
            j > i /\ ~blocks[j].reload => blocks[i].chat \subseteq blocks[j].chat

Growing == tab = "chat" => OnScreen

ChatInv == ChatTyped /\ UpToDate /\ Growing

-----------------------------------------------------------------------------
(* The blocks                                                              *)

LEMMA ChatFinite ==
  ASSUME ChatTyped
  PROVE  Chat \subseteq 1 .. Len(said) /\ Chat \in Messages
<1>1. Chat \subseteq 1 .. Len(said)
  BY DEF Chat, ChatTyped
<1>2. IsFiniteSet(1 .. Len(said))
  BY FS_Interval DEF ChatTyped
<1>3. IsFiniteSet(Chat)
  BY <1>1, <1>2, FS_Subset
<1>4. Chat \subseteq Nat
  BY <1>1 DEF ChatTyped
<1>. QED
  BY <1>1, <1>3, <1>4 DEF Messages

\* Every listener is called: so many blocks come after those that wait.
LEMMA CalledLast ==
  ASSUME ChatTyped, NEW chat \in Messages
  PROVE  LET queue2 == blocks \o Called(chat)
         IN /\ queue2 \in Seq(Block)
            /\ Len(queue2) = Len(blocks) + listeners
            /\ \A i \in 1 .. Len(blocks) : queue2[i] = blocks[i]
            /\ \A i \in Len(blocks) + 1 .. Len(queue2) :
                 queue2[i] = [reload |-> FALSE, chat |-> chat]
<1>1. Called(chat) \in Seq(Block) /\ Len(Called(chat)) = listeners
  BY DEF Called, Block, ChatTyped
<1>2. \A i \in 1 .. listeners : Called(chat)[i] = [reload |-> FALSE, chat |-> chat]
  BY DEF Called
<1>3. /\ blocks \o Called(chat) \in Seq(Block)
      /\ Len(blocks \o Called(chat)) = Len(blocks) + listeners
      /\ \A i \in 1 .. Len(blocks) + listeners :
           (blocks \o Called(chat))[i] =
              IF i <= Len(blocks) THEN blocks[i] ELSE Called(chat)[i - Len(blocks)]
  BY <1>1, ConcatProperties DEF ChatTyped
<1>4. Len(blocks) \in Nat /\ listeners \in Nat
  BY DEF ChatTyped
<1>5. ASSUME NEW i \in Len(blocks) + 1 .. Len(blocks) + listeners
      PROVE  (blocks \o Called(chat))[i] = [reload |-> FALSE, chat |-> chat]
  <2>1. i \in 1 .. Len(blocks) + listeners /\ ~(i <= Len(blocks))
          /\ i - Len(blocks) \in 1 .. listeners
    BY <1>4
  <2>. QED
    BY <2>1, <1>2, <1>3
<1>6. ASSUME NEW i \in 1 .. Len(blocks)
      PROVE  (blocks \o Called(chat))[i] = blocks[i]
  <2>1. i \in 1 .. Len(blocks) + listeners /\ i <= Len(blocks)
    BY <1>4
  <2>. QED
    BY <2>1, <1>3
<1>. QED
  BY <1>3, <1>5, <1>6

\* The head is taken, a reload comes last.
LEMMA HeadHeard ==
  ASSUME ChatTyped, blocks # <<>>
  PROVE  LET queue2 == Append(Tail(blocks), Reload)
         IN /\ queue2 \in Seq(Block)
            /\ Len(queue2) = Len(blocks)
            /\ \A i \in 1 .. Len(blocks) - 1 : queue2[i] = blocks[i + 1]
            /\ queue2[Len(blocks)] = Reload
<1>1. Tail(blocks) \in Seq(Block) /\ Len(Tail(blocks)) = Len(blocks) - 1
  BY DEF ChatTyped
<1>2. \A i \in 1 .. Len(blocks) - 1 : Tail(blocks)[i] = blocks[i + 1]
  BY DEF ChatTyped
<1>3. Reload \in Block
  BY FS_EmptySet DEF Reload, Block, Messages
<1>. QED
  BY <1>1, <1>2, <1>3 DEF ChatTyped

\* The last index of a sequence that was made longer is a new one, and none is later.
LEMMA LastIsNew ==
  ASSUME NEW m \in Nat, NEW k \in Nat, k > 0, NEW n, n = m + k
  PROVE  /\ n \in m + 1 .. n
         /\ n \in 1 .. n
         /\ \A j \in 1 .. n : ~(j > n)
  OBVIOUS

\* What a change of the messages does to the screen: the listeners are called with
\* what there is now, which is more than before while the chat is on the screen.
LEMMA ScreenFollows ==
  ASSUME ChatInv, ChatTyped', NEW chat \in Messages, Chat' = chat,
         blocks' = blocks \o Called(chat),
         UNCHANGED <<screen, tab>>,
         tab = "chat" => Chat \subseteq chat /\ ~asked' /\ doomed' = {}
  PROVE  UpToDate' /\ Growing'
<1>. USE DEF ChatInv, screen
<1>1. /\ Len(blocks') = Len(blocks) + listeners
      /\ \A i \in 1 .. Len(blocks) : blocks'[i] = blocks[i]
      /\ \A i \in Len(blocks) + 1 .. Len(blocks') :
           blocks'[i] = [reload |-> FALSE, chat |-> chat]
  BY CalledLast
<1>2. Len(blocks) \in Nat /\ listeners \in Nat /\ blocks \in Seq(Block) /\ blocks' \in Seq(Block)
  BY DEF ChatTyped
<1>3. DOMAIN blocks = 1 .. Len(blocks) /\ DOMAIN blocks' = 1 .. Len(blocks')
  BY <1>2
<1>4. CASE listeners = 0
  <2>1. blocks = <<>> /\ messages = {} /\ tab # "chat"
    BY <1>4 DEF UpToDate, Growing, OnScreen
  <2>2. blocks' = <<>>
    BY <2>1, <1>1, <1>2, <1>4
  <2>. QED
    BY <2>1, <2>2, <1>4 DEF UpToDate, Growing
<1>5. CASE listeners > 0
  <2>1. UpToDate'
    <3>1. blocks' # <<>>
      BY <1>1, <1>2, <1>5
    <3>2. /\ Len(blocks') \in DOMAIN blocks'
          /\ ~blocks'[Len(blocks')].reload /\ blocks'[Len(blocks')].chat = Chat'
          /\ \A j \in DOMAIN blocks' : j > Len(blocks') => blocks'[j].reload
      <4>1. /\ Len(blocks') \in Len(blocks) + 1 .. Len(blocks')
            /\ Len(blocks') \in 1 .. Len(blocks')
            /\ \A j \in 1 .. Len(blocks') : ~(j > Len(blocks'))
        <5>1. Len(blocks') = Len(blocks) + listeners
          BY <1>1
        <5>. HIDE DEF ChatInv, screen
        <5>. QED
          BY ONLY <1>2, <1>5, <5>1, LastIsNew
      <4>2. blocks'[Len(blocks')] = [reload |-> FALSE, chat |-> chat]
        BY <1>1, <4>1
      <4>3. Len(blocks') \in DOMAIN blocks' /\ \A j \in DOMAIN blocks' : ~(j > Len(blocks'))
        BY <1>3, <4>1
      <4>. QED
        BY <4>2, <4>3
    <3>. QED
      BY <3>1, <3>2, <1>5 DEF UpToDate
  <2>2. Growing'
    <3>1. SUFFICES ASSUME tab = "chat" PROVE OnScreen'
      BY DEF Growing
    <3>2. messages \subseteq chat /\ Chat \subseteq chat /\ ~asked' /\ doomed' = {}
      BY <3>1 DEF Growing, OnScreen
    <3>3. ASSUME NEW i \in DOMAIN blocks', ~blocks'[i].reload
          PROVE  messages \subseteq blocks'[i].chat /\ blocks'[i].chat \subseteq chat
      <4>1. CASE i \in DOMAIN blocks
        BY <4>1, <3>1, <3>2, <3>3, <1>1, <1>3 DEF Growing, OnScreen
      <4>2. CASE i \notin DOMAIN blocks
        <5>1. blocks'[i].chat = chat
          BY <4>2, <1>1, <1>2, <1>3
        <5>. QED
          BY <5>1, <3>2
      <4>. QED
        BY <4>1, <4>2
    <3>4. ASSUME NEW i \in DOMAIN blocks', ~blocks'[i].reload,
                 NEW j \in DOMAIN blocks', j > i, ~blocks'[j].reload
          PROVE  blocks'[i].chat \subseteq blocks'[j].chat
      <4>1. CASE j \in DOMAIN blocks
        BY <4>1, <3>1, <3>4, <1>1, <1>2, <1>3 DEF Growing, OnScreen
      <4>2. CASE j \notin DOMAIN blocks
        <5>1. blocks'[j].chat = chat
          BY <4>2, <1>1, <1>2, <1>3
        <5>. QED
          BY <5>1, <3>3, <3>4
      <4>. QED
        BY <4>1, <4>2
    <3>. QED
      BY <3>1, <3>2, <3>3, <3>4, <1>5 DEF Growing, OnScreen
  <2>. QED
    BY <2>1, <2>2
<1>. QED
  BY <1>2, <1>4, <1>5

-----------------------------------------------------------------------------
(* The steps                                                               *)

LEMMA InvInit == Init => ChatInv
<1>. SUFFICES ASSUME Init PROVE ChatInv
  OBVIOUS
<1>1. {} \in Messages /\ Cardinality({}) = 0
  BY FS_EmptySet DEF Messages
<1>2. ChatTyped
  <2>1. said \in Seq({"done", "encouraged"}) /\ blocks \in Seq(Block)
    BY DEF Init
  <2>2. deleted = {} /\ doomed = {} /\ messages \in Messages
    BY <1>1 DEF Init
  <2>. QED
    BY <2>1, <2>2 DEF Init, ChatTyped
<1>3. UpToDate /\ Growing
  BY <1>1 DEF Init, UpToDate, Growing
<1>. QED
  BY <1>2, <1>3 DEF ChatInv

\* The facts about a block of a listener, which queues a reload.
LEMMA HeardBlocks ==
  ASSUME ChatTyped, HearOfMessages
  PROVE  /\ blocks # <<>> /\ 1 \in DOMAIN blocks
         /\ ~blocks[1].reload /\ messages' = blocks[1].chat
         /\ DOMAIN blocks' = DOMAIN blocks /\ blocks' \in Seq(Block) /\ blocks' # <<>>
         /\ \A i \in DOMAIN blocks : \/ blocks'[i].reload
                                     \/ i + 1 \in DOMAIN blocks /\ blocks'[i] = blocks[i + 1]
         /\ \A i \in DOMAIN blocks : i > 1 => i - 1 \in DOMAIN blocks
                                              /\ blocks'[i - 1] = blocks[i]
<1>1. blocks # <<>> /\ blocks' = Append(Tail(blocks), Reload)
  BY DEF HearOfMessages
<1>2. Len(blocks) \in Nat /\ Len(blocks) > 0 /\ DOMAIN blocks = 1 .. Len(blocks)
  BY <1>1 DEF ChatTyped
<1>3. Head(blocks) = blocks[1]
  BY <1>1 DEF ChatTyped
<1>4. /\ blocks' \in Seq(Block) /\ Len(blocks') = Len(blocks)
      /\ \A i \in 1 .. Len(blocks) - 1 : blocks'[i] = blocks[i + 1]
      /\ blocks'[Len(blocks)] = Reload
  BY <1>1, HeadHeard
<1>5. DOMAIN blocks' = DOMAIN blocks /\ blocks' # <<>>
  BY <1>2, <1>4
<1>6. ASSUME NEW i \in 1 .. Len(blocks)
      PROVE  \/ blocks'[i].reload
             \/ i + 1 \in 1 .. Len(blocks) /\ blocks'[i] = blocks[i + 1]
  <2>1. CASE i = Len(blocks)
    BY <2>1, <1>4 DEF Reload
  <2>2. CASE i # Len(blocks)
    <3>1. Len(blocks) \in Nat
      BY <1>2
    <3>2. i \in 1 .. Len(blocks) - 1 /\ i + 1 \in 1 .. Len(blocks)
      BY <2>2, <3>1
    <3>. QED
      BY <3>2, <1>4
  <2>. QED
    BY <2>1, <2>2
<1>7. ASSUME NEW i \in 1 .. Len(blocks), i > 1
      PROVE  i - 1 \in 1 .. Len(blocks) /\ blocks'[i - 1] = blocks[i]
  <2>1. i - 1 \in 1 .. Len(blocks) - 1 /\ i - 1 \in 1 .. Len(blocks) /\ (i - 1) + 1 = i
    BY <1>7, <1>2
  <2>. QED
    BY <2>1, <1>4
<1>8. ~blocks[1].reload /\ messages' = blocks[1].chat /\ 1 \in 1 .. Len(blocks)
  BY <1>2, <1>3 DEF HearOfMessages
<1>9. DOMAIN blocks = 1 .. Len(blocks)
  BY <1>2
<1>. QED
  BY <1>1, <1>4, <1>5, <1>6, <1>7, <1>8, <1>9

LEMMA Heard ==
  ASSUME ChatInv, HearOfMessages
  PROVE  ChatInv'
<1>. USE DEF ChatInv
<1>1. UNCHANGED <<said, deleted, asked, doomed, listeners, rows, tab>> /\ Chat' = Chat
  BY DEF HearOfMessages, collection, cleaning, Chat
<1>2. DOMAIN blocks \subseteq Nat
  BY DEF ChatTyped
<1>3. ChatTyped'
  <2>1. messages' = blocks[1].chat /\ 1 \in DOMAIN blocks /\ blocks' \in Seq(Block)
    BY HeardBlocks
  <2>2. blocks[1] \in Block
    BY <2>1 DEF ChatTyped
  <2>3. messages' \in Messages
    BY <2>1, <2>2 DEF Block
  <2>. QED
    BY <1>1, <2>1, <2>3 DEF ChatTyped
<1>4. UpToDate'
  <2>1. listeners > 0
    BY HeardBlocks DEF UpToDate, ChatTyped
  <2>2. PICK i \in DOMAIN blocks : /\ ~blocks[i].reload /\ blocks[i].chat = Chat
                                   /\ \A j \in DOMAIN blocks : j > i => blocks[j].reload
    BY <2>1, HeardBlocks DEF UpToDate
  <2>3. CASE i = 1
    <3>1. \A j \in DOMAIN blocks' : blocks'[j].reload
      BY <2>2, <2>3, <1>2, HeardBlocks
    <3>. QED
      BY <3>1, <2>1, <2>2, <2>3, <1>1, HeardBlocks DEF UpToDate
  <2>4. CASE i > 1
    <3>1. /\ i - 1 \in DOMAIN blocks'
          /\ ~blocks'[i - 1].reload /\ blocks'[i - 1].chat = Chat'
      BY <2>2, <2>4, <1>1, HeardBlocks
    <3>2. \A j \in DOMAIN blocks' : j > i - 1 => blocks'[j].reload
      BY <2>2, <1>2, HeardBlocks
    <3>. QED
      BY <3>1, <3>2, <2>1, <1>1, HeardBlocks DEF UpToDate
  <2>. QED
    BY <2>2, <2>3, <2>4 DEF ChatTyped
<1>5. Growing'
  <2>1. SUFFICES ASSUME tab = "chat" PROVE OnScreen'
    BY <1>1 DEF Growing
  <2>2. OnScreen
    BY <2>1 DEF Growing
  <2>3. messages \subseteq messages' /\ messages' \subseteq Chat /\ IsFiniteSet(messages')
    <3>1. messages' = blocks[1].chat /\ 1 \in DOMAIN blocks /\ ~blocks[1].reload
      BY HeardBlocks
    <3>2. messages' \in Messages
      BY <1>3 DEF ChatTyped
    <3>. QED
      BY <3>1, <3>2, <2>2 DEF OnScreen, Messages
  <2>4. rows <= Cardinality(messages')
    <3>1. /\ Cardinality(messages) <= Cardinality(messages')
          /\ Cardinality(messages) \in Nat /\ Cardinality(messages') \in Nat
      BY <2>3, FS_Subset, FS_CardinalityType
    <3>. QED
      BY <3>1, <2>2 DEF OnScreen, ChatTyped
  <2>5. ASSUME NEW i \in DOMAIN blocks', ~blocks'[i].reload
        PROVE  messages' \subseteq blocks'[i].chat /\ blocks'[i].chat \subseteq Chat
    BY <2>2, <2>5, <1>2, HeardBlocks DEF OnScreen
  <2>6. ASSUME NEW i \in DOMAIN blocks', ~blocks'[i].reload,
               NEW j \in DOMAIN blocks', j > i, ~blocks'[j].reload
        PROVE  blocks'[i].chat \subseteq blocks'[j].chat
    <3>1. /\ i + 1 \in DOMAIN blocks /\ blocks'[i] = blocks[i + 1]
          /\ j + 1 \in DOMAIN blocks /\ blocks'[j] = blocks[j + 1]
      BY <2>6, HeardBlocks
    <3>2. j + 1 > i + 1
      BY <2>6, <1>2, HeardBlocks
    <3>. QED
      BY <3>1, <3>2, <2>2, <2>6 DEF OnScreen
  <2>. QED
    BY <2>2, <2>3, <2>4, <2>5, <2>6, <1>1 DEF OnScreen
<1>. QED
  BY <1>3, <1>4, <1>5

\* A reload is taken from the queue: the table has a row for every message.
LEMMA Reloaded ==
  ASSUME ChatInv, ReloadTable
  PROVE  ChatInv'
<1>. USE DEF ChatInv
<1>1. /\ blocks # <<>> /\ Head(blocks).reload /\ blocks' = Tail(blocks)
      /\ rows' = Cardinality(messages) /\ Chat' = Chat
      /\ UNCHANGED <<said, deleted, asked, doomed, listeners, messages, tab>>
  BY DEF ReloadTable, collection, cleaning, Chat
<1>2. /\ blocks \in Seq(Block) /\ Len(blocks) \in Nat
      /\ DOMAIN blocks = 1 .. Len(blocks) /\ blocks[1].reload
  BY <1>1 DEF ChatTyped
<1>3. /\ blocks' \in Seq(Block) /\ Len(blocks') = Len(blocks) - 1
      /\ \A i \in 1 .. Len(blocks') : blocks'[i] = blocks[i + 1]
  BY <1>1, <1>2, HeadTailProperties
<1>4. DOMAIN blocks' = 1 .. Len(blocks') /\ Len(blocks') \in Nat
  BY <1>3
<1>5. \A i \in DOMAIN blocks' : i \in Nat /\ i + 1 \in DOMAIN blocks /\ blocks'[i] = blocks[i + 1]
  BY <1>2, <1>3, <1>4
<1>6. ASSUME NEW i \in DOMAIN blocks, ~blocks[i].reload
      PROVE  i - 1 \in DOMAIN blocks' /\ blocks'[i - 1] = blocks[i]
  <2>1. i # 1 /\ i \in 1 .. Len(blocks)
    BY <1>6, <1>2
  <2>2. i - 1 \in 1 .. Len(blocks') /\ (i - 1) + 1 = i
    BY <2>1, <1>2, <1>3
  <2>. QED
    BY <2>2, <1>3, <1>4
<1>7. Cardinality(messages) \in Nat
  BY FS_CardinalityType DEF ChatTyped, Messages
<1>8. ChatTyped'
  BY <1>1, <1>3, <1>7 DEF ChatTyped
<1>9. UpToDate'
  <2>1. listeners > 0
    BY <1>1 DEF UpToDate, ChatTyped
  <2>2. CASE messages = Chat /\ \A i \in DOMAIN blocks : blocks[i].reload
    BY <2>1, <2>2, <1>1, <1>5 DEF UpToDate
  <2>3. CASE \E i \in DOMAIN blocks :
               /\ ~blocks[i].reload /\ blocks[i].chat = Chat
               /\ \A j \in DOMAIN blocks : j > i => blocks[j].reload
    <3>1. PICK i \in DOMAIN blocks :
               /\ ~blocks[i].reload /\ blocks[i].chat = Chat
               /\ \A j \in DOMAIN blocks : j > i => blocks[j].reload
      BY <2>3
    <3>2. i - 1 \in DOMAIN blocks' /\ blocks'[i - 1] = blocks[i]
      BY <3>1, <1>6
    <3>3. ASSUME NEW j \in DOMAIN blocks', j > i - 1 PROVE blocks'[j].reload
      <4>1. j + 1 \in DOMAIN blocks /\ j + 1 > i /\ blocks'[j] = blocks[j + 1]
        BY <3>3, <1>5, <1>2
      <4>. QED
        BY <4>1, <3>1
    <3>. QED
      BY <3>1, <3>2, <3>3, <2>1, <1>1 DEF UpToDate
  <2>. QED
    BY <2>1, <2>2, <2>3 DEF UpToDate
<1>10. Growing'
  <2>1. SUFFICES ASSUME tab = "chat" PROVE OnScreen'
    BY <1>1 DEF Growing
  <2>2. OnScreen
    BY <2>1 DEF Growing
  <2>3. rows' <= Cardinality(messages')
    BY <1>1, <1>7
  <2>4. ASSUME NEW i \in DOMAIN blocks', ~blocks'[i].reload
        PROVE  messages \subseteq blocks'[i].chat /\ blocks'[i].chat \subseteq Chat
    BY <2>2, <2>4, <1>5 DEF OnScreen
  <2>5. ASSUME NEW i \in DOMAIN blocks', ~blocks'[i].reload,
               NEW j \in DOMAIN blocks', j > i, ~blocks'[j].reload
        PROVE  blocks'[i].chat \subseteq blocks'[j].chat
    <3>1. /\ i + 1 \in DOMAIN blocks /\ blocks'[i] = blocks[i + 1]
          /\ j + 1 \in DOMAIN blocks /\ blocks'[j] = blocks[j + 1] /\ j + 1 > i + 1
      BY <2>5, <1>5
    <3>. QED
      BY <3>1, <2>2, <2>5 DEF OnScreen
  <2>. QED
    BY <2>2, <2>3, <2>4, <2>5, <1>1 DEF OnScreen
<1>. QED
  BY <1>8, <1>9, <1>10

\* A message is said: every listener is called with one message more.
LEMMA SaidMore ==
  ASSUME ChatInv, NEW what \in {"done", "encouraged"}, Say(what),
         UNCHANGED <<deleted, cleaning, screen, tab>>
  PROVE  ChatInv'
<1>. USE DEF ChatInv, screen, cleaning
<1>1. /\ said' = Append(said, what) /\ said \in Seq({"done", "encouraged"})
      /\ Len(said) \in Nat
  BY DEF Say, ChatTyped
<1>2. said' \in Seq({"done", "encouraged"}) /\ Len(said') = Len(said) + 1
  BY <1>1
<1>3. Chat' = Chat \cup {Len(said) + 1}
  <2>1. DOMAIN said = 1 .. Len(said) /\ DOMAIN said' = 1 .. Len(said) + 1
    BY <1>1, <1>2
  <2>. QED
    BY <2>1, <1>1 DEF Chat, ChatTyped
<1>4. Chat' \in Messages
  BY <1>1, <1>3, ChatFinite, FS_AddElement DEF Messages
<1>5. blocks' = blocks \o Called(Chat')
  BY <1>3 DEF Say
<1>6. ChatTyped'
  <2>1. blocks' \in Seq(Block)
    BY <1>4, <1>5, CalledLast
  <2>2. deleted' \subseteq 1 .. Len(said') /\ doomed' \subseteq 1 .. Len(said')
    BY <1>1, <1>2 DEF ChatTyped
  <2>. QED
    BY <2>1, <2>2, <1>2 DEF ChatTyped
<1>7. tab = "chat" => Chat \subseteq Chat' /\ ~asked' /\ doomed' = {}
  BY <1>3 DEF Growing, OnScreen
<1>. QED
  BY <1>4, <1>5, <1>6, <1>7, ScreenFollows

\* A message is deleted, which nothing does while the chat is on the screen.
LEMMA OneDeleted ==
  ASSUME ChatInv, Deleted
  PROVE  ChatInv'
<1>. USE DEF ChatInv, screen
<1>1. PICK n \in doomed :
        /\ doomed' = doomed \ {n} /\ deleted' = deleted \cup {n}
        /\ blocks' = blocks \o Called(Chat \ {n})
        /\ UNCHANGED <<said, asked, screen, tab>>
  BY DEF Deleted
<1>2. n \in 1 .. Len(said) /\ Len(said) \in Nat
  BY <1>1 DEF ChatTyped
<1>3. Chat' = Chat \ {n}
  BY <1>1 DEF Chat
<1>4. Chat' \in Messages
  <2>1. Chat' \subseteq Chat /\ Chat \in Messages
    BY <1>3, ChatFinite
  <2>. QED
    BY <2>1, FS_Subset DEF Messages
<1>5. blocks' = blocks \o Called(Chat')
  BY <1>1, <1>3
<1>6. ChatTyped'
  <2>1. blocks' \in Seq(Block)
    BY <1>4, <1>5, CalledLast
  <2>2. deleted' \subseteq 1 .. Len(said') /\ doomed' \subseteq 1 .. Len(said')
    BY <1>1, <1>2 DEF ChatTyped
  <2>. QED
    BY <2>1, <2>2, <1>1 DEF ChatTyped
<1>7. tab # "chat"
  BY <1>1 DEF Growing, OnScreen
<1>. QED
  BY <1>1, <1>4, <1>5, <1>6, <1>7, ScreenFollows

\* The chat appears: nothing waits and nothing is being cleaned.
LEMMA Shown ==
  ASSUME ChatInv, ShowChat
  PROVE  ChatInv'
<1>. USE DEF ChatInv
<1>1. /\ ~asked /\ doomed = {} /\ blocks = <<>> /\ tab' = "chat"
      /\ listeners' = listeners + 1 /\ blocks' = <<[reload |-> FALSE, chat |-> Chat]>>
      /\ UNCHANGED <<said, deleted, asked, doomed, messages, rows>> /\ Chat' = Chat
  BY DEF ShowChat, collection, cleaning, Chat
<1>2. [reload |-> FALSE, chat |-> Chat] \in Block
  BY ChatFinite DEF Block
<1>3. /\ blocks' \in Seq(Block) /\ DOMAIN blocks' = {1} /\ blocks' # <<>>
      /\ blocks'[1] = [reload |-> FALSE, chat |-> Chat]
  BY <1>1, <1>2
<1>4. listeners' \in Nat /\ listeners' > 0
  BY <1>1 DEF ChatTyped
<1>5. ChatTyped'
  BY <1>1, <1>3, <1>4 DEF ChatTyped
<1>6. UpToDate'
  BY <1>1, <1>3, <1>4 DEF UpToDate
<1>7. messages \subseteq Chat
  BY <1>1 DEF UpToDate, ChatTyped
<1>8. rows <= Cardinality(messages)
  <2>1. Cardinality(messages) \in Nat
    BY FS_CardinalityType DEF ChatTyped, Messages
  <2>. QED
    BY <2>1, <1>1 DEF UpToDate
<1>9. Growing'
  BY <1>1, <1>3, <1>4, <1>7, <1>8 DEF Growing, OnScreen
<1>. QED
  BY <1>5, <1>6, <1>9

\* A step that touches neither the chat nor its screen.
LEMMA Steady ==
  ASSUME ChatInv, UNCHANGED <<collection, screen, blocks>>,
         tab' \in {"home", "chat", "settings"}, asked' \in BOOLEAN,
         doomed' \subseteq 1 .. Len(said),
         tab' = "chat" => tab = "chat" /\ ~asked' /\ doomed' = {}
  PROVE  ChatInv'
<1>. USE DEF ChatInv, collection, screen
<1>1. Chat' = Chat
  BY DEF Chat
<1>2. ChatTyped'
  BY DEF ChatTyped
<1>3. UpToDate'
  BY <1>1 DEF UpToDate
<1>4. Growing'
  BY <1>1 DEF Growing, OnScreen
<1>. QED
  BY <1>2, <1>3, <1>4

\* A new process has no chat yet.
LEMMA Relaunched ==
  ASSUME ChatInv, Relaunch
  PROVE  ChatInv'
<1>1. {} \in Messages /\ Cardinality({}) = 0
  BY FS_EmptySet DEF Messages
<1>2. blocks' = <<>> /\ blocks' \in Seq(Block) /\ messages' = {}
  BY DEF Relaunch
<1>3. ChatTyped'
  BY <1>1, <1>2 DEF ChatInv, ChatTyped, Relaunch, collection
<1>4. UpToDate' /\ Growing'
  BY <1>1, <1>2 DEF UpToDate, Growing, Relaunch
<1>. QED
  BY <1>3, <1>4 DEF ChatInv

LEMMA InvNext ==
  ASSUME ChatInv, [Next]_vars
  PROVE  ChatInv'
<1>. USE DEF collection, cleaning, screen
<1>0. ChatTyped /\ Growing
  BY DEF ChatInv
<1>1. CASE Check
  BY <1>0, <1>1, Steady DEF Check, ChatTyped, Growing, OnScreen
<1>2. CASE CheckAcknowledged
  BY <1>2, SaidMore DEF CheckAcknowledged
<1>3. CASE MessageAcknowledged
  BY <1>3, SaidMore DEF MessageAcknowledged
<1>4. CASE EncouragementAcknowledged
  BY <1>0, <1>4, Steady DEF EncouragementAcknowledged, ChatTyped, Growing, OnScreen
<1>5. CASE AcknowledgedUnheard
  BY <1>0, <1>5, Steady DEF AcknowledgedUnheard, ChatTyped, Growing, OnScreen
<1>6. CASE ShowChat
  BY <1>6, Shown
<1>7. CASE ShowHome \/ ShowSettings
  BY <1>0, <1>7, Steady DEF ShowHome, ShowSettings, ChatTyped
<1>8. CASE HearOfMessages
  BY <1>8, Heard
<1>9. CASE ReloadTable
  BY <1>9, Reloaded
<1>10. CASE CleanPressed
  BY <1>0, <1>10, Steady DEF CleanPressed, ChatTyped
<1>11. CASE CleanAnswered
  BY <1>0, <1>11, Steady, ChatFinite DEF CleanAnswered, ChatTyped, Growing, OnScreen
<1>12. CASE Deleted
  BY <1>12, OneDeleted
<1>13. CASE Relaunch
  BY <1>13, Relaunched
<1>14. CASE UNCHANGED vars
  BY <1>0, <1>14, Steady DEF vars, ChatTyped, Growing, OnScreen
<1>. QED
  BY <1>1, <1>2, <1>3, <1>4, <1>5, <1>6, <1>7, <1>8, <1>9, <1>10, <1>11, <1>12, <1>13,
     <1>14 DEF Next, Acknowledge

-----------------------------------------------------------------------------
(* The theorems                                                            *)

\* Once the main queue is empty a chat that was opened shows the messages there
\* are, however many listeners it has collected and whatever was cleaned.
THEOREM ChatIsShown == Spec => []ChatShowsMessages
<1>1. ChatInv => ChatShowsMessages
  BY DEF ChatInv, ChatTyped, UpToDate, ChatShowsMessages
<1>. QED
  BY <1>1, InvInit, InvNext, PTL DEF Spec

\* No row is drawn that has no message while the chat is on the screen: the user
\* has waited for cleaning, and nothing else takes messages away.
THEOREM RowsAreShown == Spec => []RowsHaveMessages
<1>1. ChatInv => RowsHaveMessages
  BY DEF ChatInv, Growing, OnScreen, RowsHaveMessages
<1>. QED
  BY <1>1, InvInit, InvNext, PTL DEF Spec

-----------------------------------------------------------------------------
(* Who speaks first                                                        *)

Call == [what : {"check", "done", "encouraged", "delete"}, block : BOOLEAN]

\* The writes whose completion block goes on with the chain.
Owed(what) == Occurs(queue, {Write(what)})

TalkTyped ==
  /\ said \in Seq({"done", "encouraged"})
  /\ queue \in Seq(Call)
  /\ checks \in Nat

\* Of what is said and owed there is no more than what it answers.
Answered ==
  /\ \A n \in 0 .. Len(said) : Said("encouraged", n) <= Said("done", n)
  /\ Said("encouraged", Len(said)) + Owed("done") <= Said("done", Len(said))
  /\ Said("done", Len(said)) + Owed("check") <= checks

TalkInv == TalkTyped /\ Answered

LEMMA SaidNumber ==
  ASSUME TalkTyped, NEW what, NEW n \in 0 .. Len(said)
  PROVE  Said(what, n) \in Nat
<1>1. n \in Nat
  BY DEF TalkTyped
<1>2. IsFiniteSet(1 .. n)
  BY <1>1, FS_Interval
<1>3. IsFiniteSet({i \in 1 .. n : said[i] = what})
  BY <1>2, FS_Subset
<1>. QED
  BY <1>3, FS_CardinalityType DEF Said

LEMMA OwedNumber ==
  ASSUME TalkTyped, NEW what
  PROVE  Owed(what) \in Nat
BY OccursFinite DEF Owed, TalkTyped

\* One more is said: what was said before is as it was.
LEMMA SaidOneMore ==
  ASSUME TalkTyped, NEW w \in {"done", "encouraged"}, said' = Append(said, w)
  PROVE  /\ said' \in Seq({"done", "encouraged"}) /\ Len(said) \in Nat
         /\ Len(said') = Len(said) + 1
         /\ \A what : \A n \in 0 .. Len(said) : Said(what, n)' = Said(what, n)
         /\ \A what : Said(what, Len(said))' =
                        Said(what, Len(said)) + IF what = w THEN 1 ELSE 0
<1>1. /\ said' \in Seq({"done", "encouraged"}) /\ Len(said) \in Nat
      /\ Len(said') = Len(said) + 1
      /\ \A i \in 1 .. Len(said) : said'[i] = said[i]
      /\ said'[Len(said) + 1] = w
  BY DEF TalkTyped
<1>2. ASSUME NEW what, NEW n \in 0 .. Len(said)
      PROVE  {i \in 1 .. n : said'[i] = what} = {i \in 1 .. n : said[i] = what}
  <2>1. \A i \in 1 .. n : i \in 1 .. Len(said)
    BY <1>1
  <2>. QED
    BY <1>1, <2>1
<1>3. ASSUME NEW what
      PROVE  Said(what, Len(said))' = Said(what, Len(said)) + IF what = w THEN 1 ELSE 0
  <2>1. PICK l \in Nat : l = Len(said)
    BY <1>1
  <2>2. PICK I : I = {i \in 1 .. l : said[i] = what}
    OBVIOUS
  <2>3. 1 .. l + 1 = (1 .. l) \cup {l + 1} /\ l + 1 \notin 1 .. l
    OBVIOUS
  <2>4. {i \in 1 .. l : said'[i] = what} = I
    BY <1>1, <1>2, <2>1, <2>2
  <2>5. {i \in 1 .. l + 1 : said'[i] = what} = IF what = w THEN I \cup {l + 1} ELSE I
    BY <1>1, <2>1, <2>3, <2>4
  <2>6. IsFiniteSet(I) /\ l + 1 \notin I
    <3>1. IsFiniteSet(1 .. l)
      BY FS_Interval
    <3>. QED
      BY <2>2, <2>3, <3>1, FS_Subset
  <2>7. Cardinality(I) \in Nat /\ Cardinality(I \cup {l + 1}) = Cardinality(I) + 1
    BY <2>6, FS_AddElement, FS_CardinalityType
  <2>8. Said(what, Len(said)) = Cardinality(I)
    BY <2>1, <2>2 DEF Said
  <2>9. Said(what, Len(said))' = Cardinality(IF what = w THEN I \cup {l + 1} ELSE I)
    BY <1>1, <2>1, <2>5 DEF Said
  <2>. QED
    BY <2>7, <2>8, <2>9
<1>. QED
  BY <1>1, <1>2, <1>3 DEF Said

\* A link of a chain: one write is acknowledged, what it owes is said.
LEMMA SaidInTurn ==
  ASSUME TalkInv, NEW w \in {"done", "encouraged"}, NEW cause, queue # <<>>,
         cause = (IF w = "done" THEN "check" ELSE "done"),
         Head(queue) = Write(cause), Say(w), UNCHANGED checks
  PROVE  TalkInv'
<1>1. TalkTyped
  BY DEF TalkInv
<1>2. said' = Append(said, w) /\ queue' = Append(Tail(queue), Write(w))
  BY DEF Say
<1>3. Tail(queue) \in Seq(Call) /\ Write(w) \in Call /\ queue \in Seq(Call) /\ checks \in Nat
  BY <1>1, TailFacts DEF TalkTyped, Write, Call
<1>4. queue' \in Seq(Call)
  BY <1>2, <1>3
<1>5. ASSUME NEW what \in {"check", "done"}
      PROVE  Owed(what)' = Owed(what) + (IF what = w THEN 1 ELSE 0)
                           - (IF what = cause THEN 1 ELSE 0)
  <2>1. Occurs(queue', {Write(what)}) =
          Occurs(Tail(queue), {Write(what)}) + IF Write(w) \in {Write(what)} THEN 1 ELSE 0
    BY <1>2, <1>3, OccursAppend
  <2>2. Occurs(queue, {Write(what)}) =
          Occurs(Tail(queue), {Write(what)}) + IF Head(queue) \in {Write(what)} THEN 1 ELSE 0
    BY <1>3, OccursTail
  <2>3. /\ Write(w) \in {Write(what)} <=> what = w
        /\ Head(queue) \in {Write(what)} <=> what = cause
    <3>1. \A a, b : Write(a) = Write(b) <=> a = b
      BY DEF Write
    <3>. QED
      BY <3>1
  <2>4. Occurs(Tail(queue), {Write(what)}) \in Nat
    BY <1>3, OccursFinite
  <2>. QED
    BY <2>1, <2>2, <2>3, <2>4 DEF Owed
<1>6. /\ said' \in Seq({"done", "encouraged"}) /\ Len(said) \in Nat
      /\ Len(said') = Len(said) + 1
      /\ \A what : \A n \in 0 .. Len(said) : Said(what, n)' = Said(what, n)
      /\ \A what : Said(what, Len(said))' =
                     Said(what, Len(said)) + IF what = w THEN 1 ELSE 0
  BY <1>1, <1>2, SaidOneMore
<1>7. TalkTyped'
  BY <1>3, <1>4, <1>6 DEF TalkTyped
<1>8. /\ Said("encouraged", Len(said)) \in Nat /\ Said("done", Len(said)) \in Nat
      /\ Owed("done") \in Nat /\ Owed("check") \in Nat
  BY <1>1, <1>6, SaidNumber, OwedNumber
<1>9. /\ Said("encouraged", Len(said)) + Owed("done") <= Said("done", Len(said))
      /\ Said("done", Len(said)) + Owed("check") <= checks
  BY DEF TalkInv, Answered
<1>10. /\ Said("encouraged", Len(said))' + Owed("done")' <= Said("done", Len(said))'
       /\ Said("done", Len(said))' + Owed("check")' <= checks'
  <2>1. Said("encouraged", Len(said))' =
          Said("encouraged", Len(said)) + IF w = "encouraged" THEN 1 ELSE 0
    BY <1>6
  <2>2. Said("done", Len(said))' = Said("done", Len(said)) + IF w = "done" THEN 1 ELSE 0
    BY <1>6
  <2>3. Owed("done")' = Owed("done") + (IF w = "done" THEN 1 ELSE 0)
                          - (IF w = "done" THEN 0 ELSE 1)
    BY <1>5
  <2>4. Owed("check")' = Owed("check") - IF w = "done" THEN 1 ELSE 0
    <3>1. /\ "check" # w
          /\ "check" = cause <=> w = "done"
      OBVIOUS
    <3>2. Owed("check")' = Owed("check") + 0 - IF w = "done" THEN 1 ELSE 0
      BY <1>5, <3>1
    <3>. QED
      BY <1>8, <3>2
  <2>5. checks' = checks
    OBVIOUS
  <2>6. w = "done" \/ w = "encouraged"
    OBVIOUS
  <2>7. CASE w = "done"
    <3>1. /\ Said("encouraged", Len(said))' = Said("encouraged", Len(said))
          /\ Said("done", Len(said))' = Said("done", Len(said)) + 1
          /\ Owed("done")' = Owed("done") + 1
          /\ Owed("check")' = Owed("check") - 1
      BY <1>8, <2>1, <2>2, <2>3, <2>4, <2>7
    <3>. QED
      BY <1>3, <1>8, <1>9, <2>5, <3>1
  <2>8. CASE w = "encouraged"
    <3>1. /\ Said("encouraged", Len(said))' = Said("encouraged", Len(said)) + 1
          /\ Said("done", Len(said))' = Said("done", Len(said))
          /\ Owed("done")' = Owed("done") - 1
          /\ Owed("check")' = Owed("check")
      BY <1>8, <2>1, <2>2, <2>3, <2>4, <2>8
    <3>. QED
      BY <1>3, <1>8, <1>9, <2>5, <3>1
  <2>. QED
    BY <2>6, <2>7, <2>8
<1>11. ASSUME NEW n \in 0 .. Len(said')
       PROVE  Said("encouraged", n)' <= Said("done", n)'
  <2>1. CASE n \in 0 .. Len(said)
    BY <1>6, <2>1 DEF TalkInv, Answered
  <2>2. CASE n = Len(said')
    <3>1. Owed("done")' \in Nat /\ Said("encouraged", Len(said))' \in Nat
          /\ Said("done", Len(said))' \in Nat
      <4>1. Occurs(queue', {Write("done")}) \in Nat
        BY <1>4, OccursFinite
      <4>2. Owed("done")' \in Nat
        BY <4>1 DEF Owed
      <4>3. Said("encouraged", Len(said))' =
              Said("encouraged", Len(said)) + IF w = "encouraged" THEN 1 ELSE 0
        BY <1>6
      <4>4. Said("done", Len(said))' = Said("done", Len(said)) + IF w = "done" THEN 1 ELSE 0
        BY <1>6
      <4>. QED
        BY <1>8, <4>2, <4>3, <4>4
    <3>. QED
      BY <1>10, <2>2, <3>1
  <2>. QED
    BY <1>6, <2>1, <2>2
<1>. QED
  BY <1>7, <1>10, <1>11 DEF TalkInv, Answered

\* Nothing is said, and no more is owed than before but by a check.
LEMMA NothingSaid ==
  ASSUME TalkInv, UNCHANGED said, queue' \in Seq(Call), checks' \in Nat,
         Owed("done")' <= Owed("done"),
         Owed("check")' - Owed("check") <= checks' - checks
  PROVE  TalkInv'
<1>1. TalkTyped /\ TalkTyped'
  BY DEF TalkInv, TalkTyped
<1>2. \A what : \A n : Said(what, n)' = Said(what, n)
  BY DEF Said
<1>3. /\ Said("encouraged", Len(said)) \in Nat /\ Said("done", Len(said)) \in Nat
      /\ Len(said) \in Nat
  BY <1>1, SaidNumber DEF TalkTyped
<1>4. Owed("done") \in Nat /\ Owed("check") \in Nat /\ checks \in Nat
  BY <1>1, OwedNumber DEF TalkTyped
<1>5. queue' \in Seq(Call)
  OBVIOUS
<1>6. Occurs(queue', {Write("done")}) \in Nat /\ Occurs(queue', {Write("check")}) \in Nat
  BY <1>5, OccursFinite
<1>7. Owed("done")' \in Nat /\ Owed("check")' \in Nat
  BY <1>6 DEF Owed
<1>8. /\ Said("encouraged", Len(said)) + Owed("done") <= Said("done", Len(said))
      /\ Said("done", Len(said)) + Owed("check") <= checks
      /\ \A n \in 0 .. Len(said) : Said("encouraged", n) <= Said("done", n)
  BY DEF TalkInv, Answered
<1>9. /\ Said("encouraged", Len(said)) + Owed("done")' <= Said("done", Len(said))
      /\ Said("done", Len(said)) + Owed("check")' <= checks'
  BY <1>3, <1>4, <1>7, <1>8
<1>10. Answered'
  BY <1>2, <1>8, <1>9 DEF Answered
<1>. QED
  BY <1>1, <1>10 DEF TalkInv

LEMMA HeadDropped ==
  ASSUME TalkInv, queue # <<>>, queue' = Tail(queue), UNCHANGED <<said, checks>>
  PROVE  TalkInv'
<1>1. queue \in Seq(Call) /\ Tail(queue) \in Seq(Call) /\ checks \in Nat
  BY TailFacts DEF TalkInv, TalkTyped
<1>2. ASSUME NEW what PROVE Owed(what)' <= Owed(what) /\ Owed(what)' \in Nat /\ Owed(what) \in Nat
  <2>1. Occurs(queue, {Write(what)}) =
          Occurs(Tail(queue), {Write(what)}) + IF Head(queue) \in {Write(what)} THEN 1 ELSE 0
    BY <1>1, OccursTail
  <2>2. Occurs(Tail(queue), {Write(what)}) \in Nat
    BY <1>1, OccursFinite
  <2>. QED
    BY <2>1, <2>2 DEF Owed
<1>. QED
  BY <1>1, <1>2, NothingSaid

LEMMA WriteQueued ==
  ASSUME TalkInv, NEW call \in Call, queue' = Append(queue, call), UNCHANGED said,
         \/ call = Write("check") /\ checks' = checks + 1
         \/ ~call.block /\ UNCHANGED checks
  PROVE  TalkInv'
<1>1. queue \in Seq(Call) /\ checks \in Nat
  BY DEF TalkInv, TalkTyped
<1>2. \A what : /\ Owed(what)' = Owed(what) + IF call \in {Write(what)} THEN 1 ELSE 0
                /\ Owed(what) \in Nat
  BY <1>1, OccursAppend, OccursFinite DEF Owed
<1>3. queue' \in Seq(Call) /\ checks' \in Nat
  BY <1>1
<1>4. call \notin {Write("done")} /\ (call \in {Write("check")} => checks' = checks + 1)
  BY DEF Write
<1>5. Owed("done")' <= Owed("done") /\ Owed("check")' - Owed("check") <= checks' - checks
  BY <1>1, <1>2, <1>4
<1>. QED
  BY <1>3, <1>5, NothingSaid

LEMMA BlocksLost ==
  ASSUME TalkInv, Relaunch
  PROVE  TalkInv'
<1>1. /\ queue' = [i \in 1 .. Len(queue) |-> [queue[i] EXCEPT !.block = FALSE]]
      /\ UNCHANGED <<said, checks>>
  BY DEF Relaunch, collection
<1>2. queue \in Seq(Call) /\ checks \in Nat /\ Len(queue) \in Nat
  BY DEF TalkInv, TalkTyped
<1>3. \A i \in 1 .. Len(queue) : [queue[i] EXCEPT !.block = FALSE] \in Call
                                 /\ ~[queue[i] EXCEPT !.block = FALSE].block
  <2>1. TAKE i \in 1 .. Len(queue)
  <2>2. PICK call \in Call : call = queue[i]
    BY <1>2
  <2>3. [call EXCEPT !.block = FALSE] \in Call /\ ~[call EXCEPT !.block = FALSE].block
    BY DEF Call
  <2>. QED
    BY <2>2, <2>3
<1>4. queue' \in Seq(Call) /\ \A i \in DOMAIN queue' : ~queue'[i].block
  <2>2. DOMAIN queue' = 1 .. Len(queue)
    BY <1>1
  <2>3. \A i \in 1 .. Len(queue) : queue'[i] \in Call /\ ~queue'[i].block
    BY <1>1, <1>3
  <2>4. queue' \in [1 .. Len(queue) -> Call]
    BY <1>1, <1>3
  <2>. QED
    BY <1>2, <2>2, <2>3, <2>4
<1>5. ASSUME NEW what PROVE Owed(what)' = 0 /\ Owed(what) \in Nat
  <2>1. \A i \in DOMAIN queue' : queue'[i] \notin {Write(what)}
    BY <1>4 DEF Write
  <2>2. Occurs(queue', {Write(what)}) = 0
    BY <1>4, <2>1, OccursFinite
  <2>3. Owed(what) \in Nat
    BY <1>2, OccursFinite DEF Owed
  <2>. QED
    BY <2>2, <2>3 DEF Owed
<1>. QED
  BY <1>1, <1>2, <1>4, <1>5, NothingSaid

LEMMA TalkSame ==
  ASSUME TalkInv, UNCHANGED <<said, queue, checks>>
  PROVE  TalkInv'
BY DEF TalkInv, TalkTyped, Answered, Said, Owed

LEMMA TalkNext ==
  ASSUME TalkInv, [Next]_vars
  PROVE  TalkInv'
<1>. USE DEF collection
<1>1. CASE Check
  <2>1. Write("check") \in Call
    BY DEF Write, Call
  <2>. QED
    BY <1>1, <2>1, WriteQueued DEF Check
<1>2. CASE CheckAcknowledged
  <2>1. /\ queue # <<>> /\ Head(queue) = Write("check") /\ Say("done") /\ UNCHANGED checks
    BY <1>2 DEF CheckAcknowledged
  <2>. QED
    BY <2>1, SaidInTurn
<1>3. CASE MessageAcknowledged
  <2>1. /\ queue # <<>> /\ Head(queue) = Write("done") /\ Say("encouraged") /\ UNCHANGED checks
    BY <1>3 DEF MessageAcknowledged
  <2>. QED
    BY <2>1, SaidInTurn
<1>4. CASE EncouragementAcknowledged \/ AcknowledgedUnheard
  BY <1>4, HeadDropped DEF EncouragementAcknowledged, AcknowledgedUnheard
<1>5. CASE Deleted
  <2>1. [what |-> "delete", block |-> FALSE] \in Call
    BY DEF Call
  <2>. QED
    BY <1>5, <2>1, WriteQueued DEF Deleted
<1>6. CASE Relaunch
  BY <1>6, BlocksLost
<1>7. CASE \/ ShowChat \/ ShowHome \/ ShowSettings \/ HearOfMessages \/ ReloadTable
           \/ CleanPressed \/ CleanAnswered
  BY <1>7, TalkSame DEF ShowChat, ShowHome, ShowSettings, HearOfMessages, ReloadTable,
                        CleanPressed, CleanAnswered
<1>8. CASE UNCHANGED vars
  BY <1>8, TalkSame DEF vars
<1>. QED
  BY <1>1, <1>2, <1>3, <1>4, <1>5, <1>6, <1>7, <1>8 DEF Next, Acknowledge

LEMMA TalkInit == Init => TalkInv
<1>. SUFFICES ASSUME Init PROVE TalkInv
  OBVIOUS
<1>1. said = <<>> /\ queue = <<>> /\ checks = 0
  BY DEF Init
<1>2. TalkTyped
  BY <1>1 DEF TalkTyped
<1>3. \A what : Owed(what) = 0
  <2>1. DOMAIN queue = {} /\ queue \in Seq(Call)
    BY <1>1
  <2>. QED
    BY <2>1, OccursFinite DEF Owed
<1>4. Len(said) = 0 /\ \A what : Said(what, 0) = 0
  <2>1. 1 .. 0 = {}
    OBVIOUS
  <2>. QED
    BY <1>1, <2>1, FS_EmptySet DEF Said
<1>. QED
  BY <1>1, <1>2, <1>3, <1>4 DEF TalkInv, Answered

\* However the chains of any number of checks interleave, and wherever the process
\* is killed, the robot has at every point of the chat answered no more than the
\* user has said, and the user has said no more than was checked.
THEOREM NeverSpeaksFirst == Spec => []RobotNeverSpeaksFirst
<1>1. TalkInv => RobotNeverSpeaksFirst
  <2>1. SUFFICES ASSUME TalkInv PROVE RobotNeverSpeaksFirst
    OBVIOUS
  <2>2. Said("done", Len(said)) \in Nat /\ Owed("check") \in Nat /\ checks \in Nat
    BY <2>1, SaidNumber, OwedNumber DEF TalkInv, TalkTyped
  <2>. QED
    BY <2>1, <2>2 DEF TalkInv, Answered, RobotNeverSpeaksFirst
<1>. QED
  BY <1>1, TalkInit, TalkNext, PTL DEF Spec
=============================================================================
