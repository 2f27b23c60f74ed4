---------------------------- MODULE HabitScreens ----------------------------
(***************************************************************************)
(* Home, Detail and the editor together, as the user walks through them.   *)
(***************************************************************************)
EXTENDS DetailScreen, HabitEditor

HomeTap ==
  \/ AddClicked
  \/ \E r \in 1 .. Len(shown) :
       ShowDetail(r) \/ Done(r) \/ Undo(r) \/ DeleteSwiped(r)

DetailTap == DeletePressed \/ EditPressed \/ CalendarScrolled \/ Back("detail")

EditorTap ==
  \/ \E n \in Name : TypeName(n)
  \/ DaysPressed
  \/ DayToggled
  \/ Back("days")
  \/ SavePressed
  \/ Back("editor")

AlertTap == DeleteConfirmed \/ DeleteCancelled

\* The blocks of the main queue.
MainStep ==
  \/ HearOfHabits
  \/ ReloadTable
  \/ CheckCompleted
  \/ DeleteCompleted
  \/ DetailDeleted
  \/ NameLookedUp
  \/ AddCompleted
  \/ EditCompleted
  \/ RenameCompleted

Next ==
  \/ HomeTap
  \/ DetailTap
  \/ EditorTap
  \/ AlertTap
  \/ MainStep
  \/ WriteResolves
  \/ GetResolves
  \/ RemoteChange
  \/ Relaunch

Spec == Init /\ [][Next]_vars

\* The main queue is served, and Firestore answers when there is a network
\* again; nobody has to tap.
FairSpec ==
  /\ Spec
  /\ WF_vars(MainStep)
  /\ WF_vars(WriteResolves)
  /\ WF_vars(GetResolves)

-----------------------------------------------------------------------------
(* Whatever the user does and whenever                                     *)

\* The completions of saves and deletes pop one or two screens of whatever is
\* on top when they run; none of them ever takes Home off the stack, and no
\* screen is left above nothing it could be reached from.
HomeNeverPopped ==
  /\ stack # <<>> /\ Head(stack) = "home"
  /\ \A i \in 2 .. Len(stack) :
       CASE stack[i] = "detail" -> stack[i-1] = "home"
         [] stack[i] = "editor" -> stack[i-1] \in {"home", "detail"}
         [] stack[i] = "days" -> stack[i-1] = "editor"
         [] OTHER -> FALSE

\* In the end the table shows the habits there are: two writes, a delete's own
\* reload and another device's change in any order lose none of the news.
HomeShowsHabits == <>[](Running => shown = Listed(docs))

-----------------------------------------------------------------------------
(* What holds when the user waits for the app and has one device           *)

\* No row is looked up that is not there, no completion of a save finds its
\* editor gone.
NoCrash == crashed = "no"

\* The habit checked, undone or deleted is the one the user saw in the row or
\* in the title; a save is under the name looked up, with the days chosen in its
\* own editor, although all editors keep them in one place.
RightHabit == ~misdirected

\* Every document shows in the list: checking never makes a document of a
\* habit that is gone.
NoGhost ==
  \A n \in Name : IsDocument(docs[n]) => docs[n].data.form # NoForm

\* The chat says which habits were done, in the order they were checked,
\* although the message is made of the row when the check is acknowledged.
ChatNamesHabit == IsPrefix(chat, checks)

\* A habit keeps the day it was established: adding or renaming a habit never
\* writes over another one, and editing keeps it.
EstablishedKept ==
  [][\A n \in Name :
       IsDocument(docs[n]) /\ docs[n].data.form # NoForm /\ IsDocument(docs'[n])
         => docs'[n].data.form.added = docs[n].data.form.added]_vars

\* Only Done and Undo, which are in the table, change the checked days of a
\* habit; saving it writes back all the days it had.
EditKeepsChecks ==
  [][\A n \in Name :
       IsDocument(docs[n]) /\ IsDocument(docs'[n]) /\ Last(stack) # "home"
         => docs'[n].data.checked = docs[n].data.checked]_vars

\* A habit goes only when its delete is confirmed or when all it had is saved
\* under its new name, wherever a rename is interrupted.
RenameKeepsHabit ==
  [][\A n \in Name :
       IsDocument(docs[n]) /\ ~IsDocument(docs'[n]) /\ alert = NoAlert
         => \E m \in Name \ {n} :
              /\ IsDocument(docs'[m])
              /\ docs'[m].data.form.added = docs[n].data.form.added
              /\ docs'[m].data.checked = docs[n].data.checked]_vars

Queued(type) == \E i \in 1 .. Len(mainQueue) : mainQueue[i].type = type

\* Saving ends on Home, or with a toast on the editor.
Saving ==
  \/ gets # <<>>
  \/ \E i \in 1 .. Len(pending) : pending[i].kind \in SaveKind
  \/ Queued("found")
SaveReturnsHome == Saving ~> (stack = <<"home">> \/ toast)
=============================================================================
