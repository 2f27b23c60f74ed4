------------------------------ MODULE HabitApp ------------------------------
(***************************************************************************)
(* The app on one device: what its screens share, the main queue they all  *)
(* run on, and the side of Firestore they see.                             *)
(*                                                                         *)
(* Firestore is its local view here: a write shows at once, its completion *)
(* block and the listener's snapshot come later on the main queue, in      *)
(* order, and the changes of other devices arrive at any moment (module    *)
(* FirestoreClient is what is behind it).  The user taps between any two   *)
(* blocks of the main queue.                                               *)
(***************************************************************************)
EXTENDS Naturals, Sequences, SequencesExt, FiniteSets

CONSTANTS
  Name,           \* the names of habits, numbered in the order of their ids
  Day,            \* the days a habit can be checked on
  Today,          \* the one of them it is
  DayChoice,      \* the choices of reminder days
  AllDays,        \* the choice a new habit starts with
  Unset,          \* no choice: Shared.selectedDays at launch
  NoForm,         \* see HabitDocument
  InitialHabits,  \* the habits of the account at the first launch
  Patient,        \* whether the user waits for the app before every tap
  MaxTaps,        \* bound: taps
  MaxRemotes,     \* bound: changes made by other devices
  MaxKills        \* bound: times the process is killed

ASSUME AppAssumption ==
  /\ IsFiniteSet(Name) /\ Name = 1 .. Cardinality(Name)
  /\ Today \in Day
  /\ AllDays \in DayChoice
  /\ Unset \notin DayChoice
  /\ NoForm \notin [added : Nat, days : DayChoice]
  /\ InitialHabits \subseteq Name
  /\ Patient \in BOOLEAN
  /\ MaxTaps \in Nat
  /\ MaxRemotes \in Nat
  /\ MaxKills \in Nat

\* The form of a habit: the time it was established, which orders the list,
\* and its days.
INSTANCE HabitDocument WITH Form <- [added : Nat, days : DayChoice]

VARIABLES
  docs,          \* name -> the habit document in the local view
  pending,       \* the writes whose completion block is still to be queued
  gets,          \* the getDocument calls not answered yet
  mainQueue,     \* the blocks waiting on the main queue
  habits,        \* Shared.habits
  selectedDays,  \* Shared.selectedDays
  shown,         \* the habits the table of Home showed when last reloaded
  stack,         \* the screens on the navigation stack, from Home
  detail,        \* the Detail screen on the stack
  editors,       \* the editor screens so far; the last may be on the stack
  alert,         \* the delete confirmation on the screen
  toast,         \* whether the last save was refused with a toast
  crashed,       \* what the app trapped on
  chat,          \* the habits the chat says were done
  checks,        \* the habits checked whose message was or will be said
  misdirected,   \* whether a write was not the one the user meant
  clock,         \* the last establishing time
  taps, remotes, kills

firestore == <<docs, pending, gets>>
shared == <<habits, selectedDays>>
screens == <<shown, stack, detail, editors, alert>>
seen == <<chat, checks, misdirected>>

vars == <<firestore, mainQueue, shared, screens, toast, crashed, seen, clock,
          taps, remotes, kills>>

-----------------------------------------------------------------------------
(* Data                                                                    *)

NoName == 0

HabitOf(d, n) ==
  [name |-> n, added |-> d[n].data.form.added, days |-> d[n].data.form.days,
   checked |-> d[n].data.checked]

\* The documents of the listener's query, which orders by a form field: those
\* that have the form fields.
Matching(d) == {n \in Name : IsDocument(d[n]) /\ d[n].data.form # NoForm}

\* Seeded fault: the list is ordered by today's status.
PrecedesUndone(d, m, n) ==
  LET Weight(k) == IF Today \in d[k].data.checked THEN 1 ELSE 0
  IN \/ Weight(m) < Weight(n)
     \/ Weight(m) = Weight(n) /\ m < n

\* By the time they were established, then by id.
Precedes(d, m, n) ==
  LET Added(k) == d[k].data.form.added
  IN \/ Added(m) < Added(n)
     \/ Added(m) = Added(n) /\ m < n

Earlier(d, n) == {m \in Matching(d) : Precedes(d, m, n)}

\* The listener's loop over them.
Listed(d) ==
  [i \in 1 .. Cardinality(Matching(d)) |->
     HabitOf(d, CHOOSE n \in Matching(d) : Cardinality(Earlier(d, n)) = i - 1)]

(***************************************************************************)
(* What a completion block needs: the row that was checked, the Detail or  *)
(* the editor that made the write.                                         *)
(***************************************************************************)
Op(kind, ref) == [kind |-> kind, ref |-> ref]

SaveKind == {"add", "edit", "rename"}

\* The blocks of the main queue.
Snapshot(list) == [type |-> "snapshot", list |-> list]
Reload == [type |-> "reload"]
Completion(op) == [type |-> "completion", op |-> op]
Found(get, exists) == [type |-> "found", get |-> get, exists |-> exists]

\* The Detail there is, its row and the name in its title.
NoDetail == [id |-> 0, row |-> 0, title |-> NoName]

\* An editor: whether it edits a habit, its input, the habit's name, day of
\* establishing and checked days when it was opened, and the days the user chose
\* in it, which the app keeps in Shared for whichever editor there is.
NewEditor == [edit |-> FALSE, input |-> NoName, previous |-> NoName, added |-> 0,
              checked |-> {}, days |-> AllDays]
EditorOf(h) == [edit |-> TRUE, input |-> h.name, previous |-> h.name, added |-> h.added,
                checked |-> h.checked, days |-> h.days]

\* A delete waits to be confirmed: the row, and the habit the user saw in it.
NoAlert == [from |-> "none", row |-> 0, meant |-> NoName, id |-> 0]

-----------------------------------------------------------------------------
(* Launch                                                                  *)

\* Earlier days' checks are on the habits the account starts with.
InitialDocs ==
  [n \in Name |-> IF n \in InitialHabits
                  THEN Document([form |-> [added |-> n, days |-> AllDays],
                                 checked |-> Day \ {Today}])
                  ELSE NoDocument]

Init ==
  /\ docs = InitialDocs
  /\ pending = <<>> /\ gets = <<>>
  /\ mainQueue = <<Snapshot(Listed(docs))>>
  /\ habits = <<>> /\ selectedDays = Unset
  /\ shown = <<>> /\ stack = <<"home">>
  /\ detail = NoDetail /\ editors = <<>> /\ alert = NoAlert
  /\ toast = FALSE /\ crashed = "no"
  /\ chat = <<>> /\ checks = <<>> /\ misdirected = FALSE
  /\ clock = Cardinality(Name)
  /\ taps = 0 /\ remotes = 0 /\ kills = 0

\* The process is killed and launched again: what was in memory is gone, the
\* documents and the writes to them are not.
Relaunch ==
  /\ kills < MaxKills
  /\ kills' = kills + 1
  /\ pending' = <<>> /\ gets' = <<>>
  /\ mainQueue' = <<Snapshot(Listed(docs))>>
  /\ habits' = <<>> /\ selectedDays' = Unset
  /\ shown' = <<>> /\ stack' = <<"home">>
  /\ detail' = NoDetail /\ editors' = <<>> /\ alert' = NoAlert
  /\ toast' = FALSE /\ crashed' = "no"
  /\ checks' = chat
  /\ UNCHANGED <<docs, chat, misdirected, clock, taps, remotes>>

-----------------------------------------------------------------------------
(* Taps and writes                                                         *)

\* Nothing the app was asked to do is still under way.
Quiet == pending = <<>> /\ gets = <<>> /\ mainQueue = <<>>

Running == crashed = "no"

\* The user taps something on the given screen.
TapOn(screen) ==
  /\ Running
  /\ alert = NoAlert /\ Last(stack) = screen
  /\ Patient => Quiet
  /\ taps < MaxTaps /\ taps' = taps + 1
  /\ toast' = FALSE
  /\ UNCHANGED <<remotes, kills>>

\* The listener hears of the write if it changes the list.
Notified(queue, d) ==
  IF Listed(d) = Listed(docs) THEN queue ELSE Append(queue, Snapshot(Listed(d)))

After(n, mutation) == [docs EXCEPT ![n] = ApplyToLocalView(mutation, @)]

Row(r) == 1 <= r /\ r <= Len(habits)

Trap(kind) ==
  /\ crashed' = kind
  /\ UNCHANGED <<firestore, mainQueue, shared, screens, seen, clock>>

\* The screens left on the stack; a Detail that is uncovered reads its row
\* again (viewWillAppear).
Show(screensLeft) ==
  /\ stack' = screensLeft
  /\ \/ /\ ~Contains(screensLeft, "detail")
        /\ detail' = NoDetail
        /\ UNCHANGED crashed
     \/ /\ Contains(screensLeft, "detail")
        /\ Last(screensLeft) # "detail"
        /\ UNCHANGED <<detail, crashed>>
     \/ /\ screensLeft # <<>> /\ Last(screensLeft) = "detail" /\ Row(detail.row)
        /\ detail' = [detail EXCEPT !.title = habits[detail.row].name]
        /\ UNCHANGED crashed
     \/ /\ screensLeft # <<>> /\ Last(screensLeft) = "detail" /\ ~Row(detail.row)
        /\ crashed' = "row"
        /\ UNCHANGED detail

Popped(k) == SubSeq(stack, 1, Len(stack) - k)

\* The system's back button and the editor's Cancel.
Back(screen) ==
  /\ TapOn(screen)
  /\ Show(Popped(1))
  /\ UNCHANGED <<firestore, mainQueue, shared, shown, editors, alert, seen, clock>>

-----------------------------------------------------------------------------
(* Firestore                                                               *)

\* The oldest write is acknowledged.
WriteResolves ==
  /\ Running /\ pending # <<>>
  /\ mainQueue' = Append(mainQueue, Completion(Head(pending)))
  /\ pending' = Tail(pending)
  /\ UNCHANGED <<docs, gets, shared, screens, toast, crashed, seen, clock, taps,
                 remotes, kills>>

\* A lookup is answered from the document as it is now.
GetResolves ==
  /\ Running
  /\ \E i \in 1 .. Len(gets) :
       /\ mainQueue' = Append(mainQueue,
                              Found(gets[i], IsDocument(docs[gets[i].name])))
       /\ gets' = RemoveAt(gets, i)
  /\ UNCHANGED <<docs, pending, shared, screens, toast, crashed, seen, clock,
                 taps, remotes, kills>>

\* Another device of the account adds, deletes, checks or unchecks a habit.
RemoteMutation(n) ==
  IF IsDocument(docs[n])
  THEN {DeleteMutation, CheckMutation(Today), UncheckMutation(Today)}
  ELSE {SetMutation([form |-> [added |-> clock + 1, days |-> AllDays],
                     checked |-> {}])}

RemoteChange ==
  /\ Running
  /\ remotes < MaxRemotes /\ remotes' = remotes + 1
  /\ \E n \in Name : \E m \in RemoteMutation(n) :
       /\ docs' = After(n, m)
       /\ mainQueue' = Notified(mainQueue, After(n, m))
  /\ clock' = clock + 1
  /\ UNCHANGED <<pending, gets, shared, screens, toast, crashed, seen, taps, kills>>
=============================================================================
