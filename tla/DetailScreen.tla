---------------------------- MODULE DetailScreen ----------------------------
(***************************************************************************)
(* The Detail of a habit.  It keeps the row it was opened from, and looks  *)
(* the habit up by it whenever it appears, draws a day, edits or deletes.  *)
(***************************************************************************)
EXTENDS HomeScreen

DeletePressed ==
  /\ TapOn("detail")
  /\ alert' = [from |-> "detail", row |-> detail.row, meant |-> detail.title,
               id |-> detail.id]
  /\ UNCHANGED <<firestore, mainQueue, shared, shown, stack, detail, editors,
                 crashed, seen, clock>>

\* A day cell of the calendar is drawn while the user scrolls.
CalendarScrolled ==
  /\ TapOn("detail")
  /\ ~Row(detail.row) /\ Trap("row")

\* Seeded fault: the checked days are not handed to the editor.
EditPressedWithoutChecks ==
  /\ TapOn("detail")
  /\ Row(detail.row)
  /\ LET h == habits[detail.row] IN
       /\ editors' = Append(editors, [EditorOf(h) EXCEPT !.checked = {}])
       /\ selectedDays' = h.days
  /\ stack' = Append(stack, "editor")
  /\ UNCHANGED <<firestore, mainQueue, habits, shown, detail, alert, crashed, seen,
                 clock>>

\* Seeded fault: the day the habit was established is not handed over.
EditPressedWithoutDate ==
  /\ TapOn("detail")
  /\ Row(detail.row)
  /\ LET h == habits[detail.row] IN
       /\ editors' = Append(editors, [EditorOf(h) EXCEPT !.added = 0])
       /\ selectedDays' = h.days
  /\ stack' = Append(stack, "editor")
  /\ UNCHANGED <<firestore, mainQueue, habits, shown, detail, alert, crashed, seen,
                 clock>>

EditPressed ==
  /\ TapOn("detail")
  /\ \/ ~Row(detail.row) /\ Trap("row")
     \/ /\ Row(detail.row)
        /\ LET h == habits[detail.row] IN
             /\ editors' = Append(editors, EditorOf(h))
             /\ selectedDays' = h.days
        /\ stack' = Append(stack, "editor")
        /\ UNCHANGED <<firestore, mainQueue, habits, shown, detail, alert, crashed,
                       seen, clock>>

\* Seeded fault: Detail stays when its habit is deleted.
DetailStays ==
  /\ CompletionOf("deleteDetail")
  /\ mainQueue' = Tail(mainQueue)
  /\ UNCHANGED <<firestore, shared, screens, toast, crashed, seen, clock, taps,
                 remotes, kills>>

\* The completion of a delete pops what is on top, if this Detail is still on
\* the stack: navigationController is nil once it is not.
DetailDeleted ==
  /\ CompletionOf("deleteDetail")
  /\ mainQueue' = Tail(mainQueue)
  /\ IF Contains(stack, "detail") /\ detail.id = Head(mainQueue).op.ref
     THEN Show(Popped(1))
     ELSE UNCHANGED <<stack, detail, crashed>>
  /\ UNCHANGED <<firestore, shared, shown, editors, alert, toast, seen, clock, taps,
                 remotes, kills>>
=============================================================================
