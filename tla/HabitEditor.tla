----------------------------- MODULE HabitEditor -----------------------------
(***************************************************************************)
(* The editor of a habit (AddHabitViewController), new or existing, and    *)
(* the choice of its days, which is kept in Shared.  The name is looked up *)
(* under the input of the moment Save is pressed; the document is written  *)
(* under the input, and with the days, of the moment the answer is there.  *)
(***************************************************************************)
EXTENDS HomeScreen

OpenEditor == Len(editors)

EditorOnStack(e) == e = OpenEditor /\ Contains(stack, "editor")

TypeName(n) ==
  /\ TapOn("editor")
  /\ editors' = [editors EXCEPT ![OpenEditor].input = n]
  /\ UNCHANGED <<firestore, mainQueue, shared, shown, stack, detail, alert, crashed,
                 seen, clock>>

DaysPressed ==
  /\ TapOn("editor")
  /\ stack' = Append(stack, "days")
  /\ UNCHANGED <<firestore, mainQueue, shared, shown, detail, editors, alert, crashed,
                 seen, clock>>

DayToggled ==
  /\ TapOn("days")
  /\ selectedDays' \in DayChoice \ {selectedDays}
  /\ editors' = [editors EXCEPT ![OpenEditor].days = selectedDays']
  /\ UNCHANGED <<firestore, mainQueue, habits, shown, stack, detail, alert, crashed,
                 seen, clock>>

-----------------------------------------------------------------------------
(* Saving                                                                  *)

\* The document of the editor's habit with a day of establishing.
Filled(e, added) ==
  [form |-> [added |-> added, days |-> selectedDays], checked |-> editors[e].checked]

\* It is the save the user meant if the name is the one that was looked up and
\* the days are the editor's own.
SavedUnder(queue, e, n, added, kind, meant) ==
  /\ misdirected' = (misdirected \/ n # meant \/ selectedDays # editors[e].days)
  /\ docs' = After(n, SetMutation(Filled(e, added)))
  /\ mainQueue' = Notified(queue, docs')
  /\ pending' = Append(pending, Op(kind, e))

\* Save is enabled when there is a name.
SavePressed ==
  LET e == OpenEditor
      editor == editors[e]
  IN
  /\ TapOn("editor") /\ editor.input # NoName
  /\ \/ /\ editor.edit /\ editor.input = editor.previous
        /\ SavedUnder(mainQueue, e, editor.input, editor.added, "edit",
                      editor.input)
        /\ UNCHANGED gets
     \/ /\ ~editor.edit \/ editor.input # editor.previous
        /\ gets' = Append(gets, [kind |-> IF editor.edit THEN "rename" ELSE "add",
                                 ref |-> e, name |-> editor.input])
        /\ UNCHANGED <<docs, pending, mainQueue, misdirected>>
  /\ UNCHANGED <<shared, screens, crashed, chat, checks, clock>>

\* Seeded fault: a name that is taken is not refused.
NeverTaken(found) == FALSE

Taken(found) == found.exists

\* The answer to the lookup; an error counts as absent.
NameLookedUp ==
  LET found == Head(mainQueue)
      e == found.get.ref
      n == editors[e].input
  IN
  /\ Running /\ mainQueue # <<>> /\ found.type = "found"
  /\ \/ /\ Taken(found)
        /\ toast' = TRUE
        /\ mainQueue' = Tail(mainQueue)
        /\ UNCHANGED <<docs, pending, misdirected, clock>>
     \/ /\ ~Taken(found) /\ found.get.kind = "add"
        /\ SavedUnder(Tail(mainQueue), e, n, clock + 1, "add", found.get.name)
        /\ clock' = clock + 1
        /\ UNCHANGED toast
     \/ /\ ~Taken(found) /\ found.get.kind = "rename"
        /\ SavedUnder(Tail(mainQueue), e, n, editors[e].added, "rename",
                      found.get.name)
        /\ UNCHANGED <<toast, clock>>
  /\ UNCHANGED <<gets, shared, screens, crashed, chat, checks, taps, remotes, kills>>

-----------------------------------------------------------------------------
(* Completion blocks                                                       *)

\* back() when the habit is added.
AddCompleted ==
  /\ CompletionOf("add")
  /\ mainQueue' = Tail(mainQueue)
  /\ IF EditorOnStack(Head(mainQueue).op.ref)
     THEN Show(Popped(1)) ELSE UNCHANGED <<stack, detail, crashed>>
  /\ UNCHANGED <<firestore, shared, shown, editors, alert, toast, seen, clock, taps,
                 remotes, kills>>

\* Seeded fault: an edit goes back like an add does.
PopOne(e) ==
  \/ EditorOnStack(e) /\ Show(Popped(1))
  \/ ~EditorOnStack(e) /\ UNCHANGED <<stack, detail, crashed>>

\* Seeded fault: one screen too many.
PopThree(e) ==
  \/ EditorOnStack(e) /\ Show(Popped(3))
  \/ ~EditorOnStack(e) /\ crashed' = "nil" /\ UNCHANGED <<stack, detail>>

\* popViewControllerss(popViews: 2) unwraps the navigation controller, which is
\* nil once the editor has left the stack.  Its test on the number of screens
\* always holds: Welcome is below Home.
PopTwo(e) ==
  \/ EditorOnStack(e) /\ Show(Popped(2))
  \/ ~EditorOnStack(e) /\ crashed' = "nil" /\ UNCHANGED <<stack, detail>>

EditCompleted ==
  /\ CompletionOf("edit")
  /\ mainQueue' = Tail(mainQueue)
  /\ PopTwo(Head(mainQueue).op.ref)
  /\ UNCHANGED <<firestore, shared, shown, editors, alert, toast, seen, clock, taps,
                 remotes, kills>>

\* The habit is saved under the new name; the old one is deleted, without a
\* completion block.
RenameCompleted ==
  LET e == Head(mainQueue).op.ref IN
  /\ CompletionOf("rename")
  /\ docs' = After(editors[e].previous, DeleteMutation)
  /\ mainQueue' = Notified(Tail(mainQueue), docs')
  /\ PopTwo(e)
  /\ UNCHANGED <<pending, gets, shared, shown, editors, alert, toast, seen, clock,
                 taps, remotes, kills>>
=============================================================================
