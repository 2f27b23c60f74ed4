----------------------------- MODULE HomeScreen -----------------------------
(***************************************************************************)
(* The list of habits: its listener, its table and what its rows do.       *)
(* Shared.habits is replaced in the listener, the table is reloaded in a   *)
(* block the listener queues; rows are looked up in Shared.habits when     *)
(* they are used, which for the completion of Done is when it is called.   *)
(***************************************************************************)
EXTENDS HabitApp

\* Seeded fault: a snapshot with fewer habits is not taken for news.
HearOfAdditions ==
  /\ Running /\ mainQueue # <<>> /\ Head(mainQueue).type = "snapshot"
  /\ habits' = IF Len(Head(mainQueue).list) < Len(habits) THEN habits
               ELSE Head(mainQueue).list
  /\ mainQueue' = Append(Tail(mainQueue), Reload)
  /\ UNCHANGED <<firestore, selectedDays, screens, toast, crashed, seen, clock,
                 taps, remotes, kills>>

\* The listener of the habit collection.
HearOfHabits ==
  /\ Running /\ mainQueue # <<>> /\ Head(mainQueue).type = "snapshot"
  /\ habits' = Head(mainQueue).list
  /\ mainQueue' = Append(Tail(mainQueue), Reload)
  /\ UNCHANGED <<firestore, selectedDays, screens, toast, crashed, seen, clock,
                 taps, remotes, kills>>

ReloadTable ==
  /\ Running /\ mainQueue # <<>> /\ Head(mainQueue) = Reload
  /\ shown' = habits
  /\ mainQueue' = Tail(mainQueue)
  /\ UNCHANGED <<firestore, shared, stack, detail, editors, alert, toast, crashed,
                 seen, clock, taps, remotes, kills>>

-----------------------------------------------------------------------------
(* Leaving the screen                                                      *)

ShowDetail(r) ==
  /\ TapOn("home") /\ r \in 1 .. Len(shown)
  /\ \/ ~Row(r) /\ Trap("row")
     \/ /\ Row(r)
        /\ stack' = Append(stack, "detail")
        /\ detail' = [id |-> taps + 1, row |-> r, title |-> habits[r].name]
        /\ UNCHANGED <<firestore, mainQueue, shared, shown, editors, alert, crashed,
                       seen, clock>>

\* Seeded fault: a new habit starts with the days of the last editor.
AddClickedKeepingDays ==
  /\ TapOn("home")
  /\ stack' = Append(stack, "editor")
  /\ editors' = Append(editors, NewEditor)
  /\ selectedDays' = IF selectedDays = Unset THEN AllDays ELSE selectedDays
  /\ UNCHANGED <<firestore, mainQueue, habits, shown, detail, alert, crashed, seen,
                 clock>>

AddClicked ==
  /\ TapOn("home")
  /\ stack' = Append(stack, "editor")
  /\ editors' = Append(editors, NewEditor)
  /\ selectedDays' = AllDays
  /\ UNCHANGED <<firestore, mainQueue, habits, shown, detail, alert, crashed, seen,
                 clock>>

-----------------------------------------------------------------------------
(* Swiping a row: Done or Undo by the status in Shared.habits, Delete      *)

Done(r) ==
  /\ TapOn("home") /\ r \in 1 .. Len(shown)
  /\ \/ ~Row(r) /\ Trap("row")
     \/ /\ Row(r) /\ Today \notin habits[r].checked
        /\ LET n == habits[r].name IN
             /\ docs' = After(n, CheckMutation(Today))
             /\ mainQueue' = Notified(mainQueue, docs')
             /\ checks' = Append(checks, n)
             /\ misdirected' = (misdirected \/ n # shown[r].name)
        /\ pending' = Append(pending, Op("check", r))
        /\ UNCHANGED <<gets, shared, screens, crashed, chat, clock>>

\* updateData is called without a completion block.
Undo(r) ==
  /\ TapOn("home") /\ r \in 1 .. Len(shown)
  /\ Row(r) /\ Today \in habits[r].checked
  /\ LET n == habits[r].name IN
       /\ docs' = After(n, UncheckMutation(Today))
       /\ mainQueue' = Notified(mainQueue, docs')
       /\ misdirected' = (misdirected \/ n # shown[r].name)
  /\ UNCHANGED <<pending, gets, shared, screens, crashed, chat, checks, clock>>

DeleteSwiped(r) ==
  /\ TapOn("home") /\ r \in 1 .. Len(shown)
  /\ alert' = [from |-> "home", row |-> r, meant |-> shown[r].name, id |-> 0]
  /\ UNCHANGED <<firestore, mainQueue, shared, shown, stack, detail, editors,
                 crashed, seen, clock>>

-----------------------------------------------------------------------------
(* The confirmation of a delete, from the table or from Detail: the row is *)
(* looked up when it is given                                              *)

TapAlert ==
  /\ Running /\ alert # NoAlert
  /\ Patient => Quiet
  /\ taps < MaxTaps /\ taps' = taps + 1
  /\ toast' = FALSE
  /\ UNCHANGED <<remotes, kills>>

DeleteCancelled ==
  /\ TapAlert
  /\ alert' = NoAlert
  /\ UNCHANGED <<firestore, mainQueue, shared, shown, stack, detail, editors,
                 crashed, seen, clock>>

DeleteConfirmed ==
  /\ TapAlert
  /\ \/ ~Row(alert.row) /\ Trap("row")
     \/ /\ Row(alert.row)
        /\ LET n == habits[alert.row].name IN
             /\ docs' = After(n, DeleteMutation)
             /\ mainQueue' = Notified(mainQueue, docs')
             /\ misdirected' = (misdirected \/ n # alert.meant)
        /\ pending' = Append(pending, IF alert.from = "home" THEN Op("deleteHome", 0)
                                      ELSE Op("deleteDetail", alert.id))
        /\ alert' = NoAlert
        /\ UNCHANGED <<gets, shared, shown, stack, detail, editors, crashed, chat,
                       checks, clock>>

-----------------------------------------------------------------------------
(* Completion blocks                                                       *)

CompletionOf(kind) ==
  /\ Running /\ mainQueue # <<>> /\ Head(mainQueue).type = "completion"
  /\ Head(mainQueue).op.kind = kind

\* sendDoneMessage: the row that was checked, as it is now.
CheckCompleted ==
  LET r == Head(mainQueue).op.ref IN
  /\ CompletionOf("check")
  /\ \/ ~Row(r) /\ Trap("row")
     \/ /\ Row(r)
        /\ chat' = Append(chat, habits[r].name)
        /\ mainQueue' = Tail(mainQueue)
        /\ UNCHANGED <<firestore, shared, screens, crashed, checks, misdirected, clock>>
  /\ UNCHANGED <<toast, taps, remotes, kills>>

DeleteCompleted ==
  /\ CompletionOf("deleteHome")
  /\ shown' = habits
  /\ mainQueue' = Tail(mainQueue)
  /\ UNCHANGED <<firestore, shared, stack, detail, editors, alert, toast, crashed,
                 seen, clock, taps, remotes, kills>>
=============================================================================
