------------------------- MODULE HabitScreensProofs -------------------------
(***************************************************************************)
(* What holds of the walk through the screens, for any names, days and     *)
(* bounds.                                                                 *)
(*                                                                         *)
(* Home is never popped, whatever the user taps between two blocks of the  *)
(* main queue.  The completions pop one or two screens of whatever is on   *)
(* top.  Two are popped for an editor that edits, and such an editor is    *)
(* above a Detail: ScreensInv says so of the editor on the stack, and that *)
(* whatever is under way for a save of an edit was started by such an      *)
(* editor.                                                                 *)
(*                                                                         *)
(* The rest holds for a user who waits for the app before every tap and    *)
(* has one device: one thing at a time is under way (WaitingInv), and the  *)
(* screen it was started on, with its row and its editor, is still there   *)
(* when it completes.  That the rows of the list keep their places while a *)
(* check is under way needs the places to be counted, which is the first   *)
(* section of that part.                                                   *)
(***************************************************************************)
EXTENDS HabitScreens, SequenceTheorems, FiniteSetTheorems, TLAPS

IsSeq(s) == \E S : s \in Seq(S)

Screen == {"home", "detail", "editor", "days"}

\* A screen and the one it is shown above.
Above(low, high) ==
  \/ high = "detail" /\ low = "home"
  \/ high = "editor" /\ low \in {"home", "detail"}
  \/ high = "days" /\ low = "editor"

Walk(s) ==
  /\ s \in Seq(Screen) /\ s # <<>> /\ s[1] = "home"
  /\ \A i \in 2 .. Len(s) : Above(s[i - 1], s[i])

\* The editors opened to edit a habit.
Edits(es) == {e \in 1 .. Len(es) : es[e].edit}

\* The editor on the stack is the last; if it edits, it is above a Detail.
EditorInPlace(s, es) ==
  \A i \in 2 .. Len(s) : s[i] = "editor" =>
    es # <<>> /\ (Len(es) \in Edits(es) => s[i - 1] = "detail")

\* A save that goes back two screens is of an editor that edits.
OfEdit(op, E) == op.kind \in {"edit", "rename"} => op.ref \in E

CallsOfEdits(q, E) == IsSeq(q) /\ \A i \in 1 .. Len(q) : OfEdit(q[i], E)

BlockOfEdit(b, E) ==
  /\ b.type = "completion" => OfEdit(b.op, E)
  /\ b.type = "found" => OfEdit(b.get, E)

BlocksOfEdits(q, E) == IsSeq(q) /\ \A i \in 1 .. Len(q) : BlockOfEdit(q[i], E)

EditorsOpened(es) ==
  IsSeq(es) /\ \A e \in 1 .. Len(es) : "edit" \in DOMAIN es[e]

ScreensInv ==
  /\ Walk(stack)
  /\ EditorsOpened(editors)
  /\ EditorInPlace(stack, editors)
  /\ CallsOfEdits(pending, Edits(editors))
  /\ CallsOfEdits(gets, Edits(editors))
  /\ BlocksOfEdits(mainQueue, Edits(editors))

-----------------------------------------------------------------------------
(* The stack                                                               *)

LEMMA HomeIsFirst ==
  ASSUME NEW s, Walk(s)
  PROVE  /\ Len(s) \in Nat \ {0}
         /\ Last(s) = "home" => Len(s) = 1
         /\ Last(s) = "detail" => Len(s) = 2
         /\ Contains(s, "detail") \/ Contains(s, "editor") => Len(s) > 1
<1>1. Len(s) \in Nat \ {0}
  BY DEF Walk
<1>2. \A i \in 2 .. Len(s) : s[i] # "home"
  BY DEF Walk, Above
<1>3. \A i \in 1 .. Len(s) : s[i] = "detail" => i = 2
  <2>1. SUFFICES ASSUME NEW i \in 1 .. Len(s), s[i] = "detail" PROVE i = 2
    OBVIOUS
  <2>2. i \in 2 .. Len(s)
    BY <1>1, <2>1 DEF Walk
  <2>3. s[i - 1] = "home"
    BY <2>1, <2>2 DEF Walk, Above
  <2>. QED
    BY <1>1, <1>2, <2>2, <2>3
<1>4. \A i \in 1 .. Len(s) : s[i] = "editor" => i # 1
  BY DEF Walk
<1>5. Last(s) = "home" => Len(s) = 1
  <2>1. \A n \in Nat \ {0} : n # 1 => n \in 2 .. n
    OBVIOUS
  <2>2. Len(s) # 1 => Len(s) \in 2 .. Len(s)
    BY <1>1, <2>1
  <2>. QED
    BY <1>2, <2>2 DEF Last
<1>6. Last(s) = "detail" => Len(s) = 2
  <2>1. Len(s) \in 1 .. Len(s)
    BY <1>1
  <2>. QED
    BY <1>3, <2>1 DEF Last
<1>7. ASSUME NEW i \in 1 .. Len(s), s[i] \in {"detail", "editor"} PROVE Len(s) > 1
  <2>1. i # 1
    BY <1>3, <1>4, <1>7
  <2>. QED
    BY <1>1, <2>1
<1>. QED
  BY <1>1, <1>5, <1>6, <1>7 DEF Contains

LEMMA WalkPushed ==
  ASSUME NEW s, Walk(s), NEW high \in Screen, Above(Last(s), high)
  PROVE  /\ Walk(Append(s, high))
         /\ Len(Append(s, high)) = Len(s) + 1
         /\ \A i \in 1 .. Len(s) : Append(s, high)[i] = s[i]
         /\ Append(s, high)[Len(s) + 1] = high
BY HomeIsFirst DEF Walk, Last

LEMMA WalkPopped ==
  ASSUME NEW s, Walk(s), NEW k \in Nat, k < Len(s)
  PROVE  LET t == SubSeq(s, 1, Len(s) - k)
         IN /\ Walk(t) /\ Len(t) = Len(s) - k
            /\ \A i \in 1 .. Len(t) : t[i] = s[i]
<1> DEFINE t == SubSeq(s, 1, Len(s) - k)
<1>1. t \in Seq(Screen) /\ Len(t) = Len(s) - k /\ \A i \in 1 .. Len(t) : t[i] = s[i]
  BY HomeIsFirst DEF Walk
<1>2. Len(s) \in Nat \ {0} /\ Len(t) \in Nat \ {0} /\ t # <<>>
  <2>. HIDE DEF t
  <2>1. Len(s) \in Nat \ {0}
    BY HomeIsFirst
  <2>2. Len(t) \in Nat \ {0}
    BY <1>1, <2>1
  <2>. QED
    BY <1>1, <2>1, <2>2
<1>3. t[1] = "home"
  BY <1>1, <1>2 DEF Walk
<1>4. \A i \in 2 .. Len(t) : Above(t[i - 1], t[i])
  <2>1. TAKE i \in 2 .. Len(t)
  <2>2. i \in 2 .. Len(s) /\ t[i] = s[i] /\ t[i - 1] = s[i - 1]
    BY <1>1, <1>2
  <2>. HIDE DEF t
  <2>. QED
    BY <2>2 DEF Walk
<1>5. Walk(t)
  <2>. HIDE DEF t
  <2>. QED
    BY <1>1, <1>2, <1>3, <1>4 DEF Walk
<1>. QED
  BY <1>1, <1>5

\* Screens are left without another editor coming on top.
LEMMA InPlacePopped ==
  ASSUME NEW s, Walk(s), NEW es, EditorInPlace(s, es), NEW k \in Nat, k < Len(s)
  PROVE  /\ Walk(SubSeq(s, 1, Len(s) - k))
         /\ EditorInPlace(SubSeq(s, 1, Len(s) - k), es)
BY WalkPopped, HomeIsFirst DEF EditorInPlace

\* Above an editor that edits two screens can be popped.
LEMMA EditsIsHigh ==
  ASSUME NEW s, Walk(s), NEW es, EditorInPlace(s, es),
         Contains(s, "editor"), Len(es) \in Edits(es)
  PROVE  Len(s) > 2
<1>1. PICK i \in 1 .. Len(s) : s[i] = "editor"
  BY DEF Contains
<1>2. i \in 2 .. Len(s) /\ s[i - 1] = "detail"
  BY <1>1, HomeIsFirst DEF Walk, EditorInPlace
<1>. QED
  BY <1>2, HomeIsFirst DEF Walk

-----------------------------------------------------------------------------
(* The queues                                                              *)

LEMMA SeqAppended ==
  ASSUME NEW q, IsSeq(q), NEW x
  PROVE  /\ IsSeq(Append(q, x))
         /\ Len(Append(q, x)) = Len(q) + 1 /\ Len(q) \in Nat
         /\ \A i \in 1 .. Len(q) : Append(q, x)[i] = q[i]
         /\ Append(q, x)[Len(q) + 1] = x
<1>1. PICK S : q \in Seq(S)
  BY DEF IsSeq
<1>2. q \in Seq(S \cup {x})
  BY <1>1
<1>3. Append(q, x) \in Seq(S \cup {x})
  BY <1>2
<1>. QED
  BY <1>2, <1>3 DEF IsSeq

LEMMA SeqTail ==
  ASSUME NEW q, IsSeq(q), q # <<>>
  PROVE  /\ IsSeq(Tail(q)) /\ Len(q) \in Nat \ {0}
         /\ Len(Tail(q)) = Len(q) - 1
         /\ \A i \in 1 .. Len(q) - 1 : Tail(q)[i] = q[i + 1]
         /\ Head(q) = q[1]
<1>1. PICK S : q \in Seq(S)
  BY DEF IsSeq
<1>. QED
  BY <1>1 DEF IsSeq

LEMMA SeqRemoved ==
  ASSUME NEW q, IsSeq(q), NEW k \in 1 .. Len(q)
  PROVE  /\ IsSeq(RemoveAt(q, k))
         /\ \A i \in 1 .. Len(RemoveAt(q, k)) :
              \E j \in 1 .. Len(q) : RemoveAt(q, k)[i] = q[j]
<1>1. PICK S : q \in Seq(S)
  BY DEF IsSeq
<1> DEFINE a == SubSeq(q, 1, k - 1)
           b == SubSeq(q, k + 1, Len(q))
<1>2. /\ a \in Seq(S) /\ Len(a) = k - 1 /\ \A i \in 1 .. Len(a) : a[i] = q[i]
      /\ b \in Seq(S) /\ Len(b) = Len(q) - k /\ \A i \in 1 .. Len(b) : b[i] = q[k + i]
  BY <1>1
<1>. HIDE DEF a, b
<1>3. /\ a \o b \in Seq(S) /\ Len(a \o b) = Len(q) - 1
      /\ \A i \in 1 .. k - 1 : (a \o b)[i] = a[i]
      /\ \A i \in k .. Len(q) - 1 : (a \o b)[i] = b[i - (k - 1)]
  <2>1. /\ a \o b \in Seq(S) /\ Len(a \o b) = Len(a) + Len(b)
        /\ \A i \in 1 .. Len(a) + Len(b) :
             (a \o b)[i] = IF i <= Len(a) THEN a[i] ELSE b[i - Len(a)]
    BY <1>2, ConcatProperties
  <2>2. k \in Nat /\ Len(q) \in Nat /\ k <= Len(q) /\ k >= 1
    BY <1>1
  <2>. QED
    BY <1>2, <2>1, <2>2
<1>4. \A i \in 1 .. Len(q) - 1 : \E j \in 1 .. Len(q) : (a \o b)[i] = q[j]
  <2>1. TAKE i \in 1 .. Len(q) - 1
  <2>2. CASE i <= k - 1
    BY <1>1, <1>2, <1>3, <2>2
  <2>3. CASE i > k - 1
    <3>1. i \in k .. Len(q) - 1 /\ i - (k - 1) \in 1 .. Len(b)
      BY <1>1, <1>2, <2>3
    <3>2. (a \o b)[i] = q[i + 1] /\ i + 1 \in 1 .. Len(q)
      BY <1>1, <1>2, <1>3, <3>1
    <3>. QED
      BY <3>2
  <2>4. i <= k - 1 \/ i > k - 1
    BY <1>1
  <2>. QED
    BY <2>2, <2>3, <2>4
<1>. QED
  BY <1>3, <1>4 DEF IsSeq, RemoveAt, a, b

LEMMA CallAppended ==
  ASSUME NEW q, NEW E, CallsOfEdits(q, E), NEW op, OfEdit(op, E)
  PROVE  CallsOfEdits(Append(q, op), E)
BY SeqAppended DEF CallsOfEdits

LEMMA CallTail ==
  ASSUME NEW q, NEW E, CallsOfEdits(q, E), q # <<>>
  PROVE  CallsOfEdits(Tail(q), E) /\ OfEdit(Head(q), E)
BY SeqTail DEF CallsOfEdits

LEMMA CallRemoved ==
  ASSUME NEW q, NEW E, CallsOfEdits(q, E), NEW k \in 1 .. Len(q)
  PROVE  CallsOfEdits(RemoveAt(q, k), E)
<1>1. \A i \in 1 .. Len(RemoveAt(q, k)) : OfEdit(RemoveAt(q, k)[i], E)
  BY SeqRemoved DEF CallsOfEdits
<1>. QED
  BY <1>1, SeqRemoved DEF CallsOfEdits

LEMMA BlockAppended ==
  ASSUME NEW q, NEW E, BlocksOfEdits(q, E), NEW b, BlockOfEdit(b, E)
  PROVE  BlocksOfEdits(Append(q, b), E)
BY SeqAppended DEF BlocksOfEdits

LEMMA BlockTail ==
  ASSUME NEW q, NEW E, BlocksOfEdits(q, E), q # <<>>
  PROVE  BlocksOfEdits(Tail(q), E) /\ BlockOfEdit(Head(q), E)
BY SeqTail DEF BlocksOfEdits

\* A write adds a call of the listener at most.
LEMMA BlockNotified ==
  ASSUME NEW q, NEW E, BlocksOfEdits(q, E), NEW d
  PROVE  BlocksOfEdits(Notified(q, d), E)
<1>1. BlockOfEdit(Snapshot(Listed(d)), E)
  BY DEF BlockOfEdit, Snapshot
<1>2. BlocksOfEdits(Append(q, Snapshot(Listed(d))), E)
  BY <1>1, BlockAppended
<1>. QED
  BY <1>2 DEF Notified

LEMMA MoreEdits ==
  ASSUME NEW E, NEW F, E \subseteq F
  PROVE  /\ \A q : CallsOfEdits(q, E) => CallsOfEdits(q, F)
         /\ \A q : BlocksOfEdits(q, E) => BlocksOfEdits(q, F)
BY DEF CallsOfEdits, BlocksOfEdits, OfEdit, BlockOfEdit

\* An editor is opened last, and has its way of saving for good.
LEMMA EditorOpened ==
  ASSUME NEW es, EditorsOpened(es), NEW editor, "edit" \in DOMAIN editor
  PROVE  /\ EditorsOpened(Append(es, editor))
         /\ Edits(es) \subseteq Edits(Append(es, editor))
         /\ Len(Append(es, editor)) \in Edits(Append(es, editor)) <=> editor.edit
         /\ Append(es, editor) # <<>>
BY SeqAppended DEF EditorsOpened, Edits

LEMMA EditorFilled ==
  ASSUME NEW es, EditorsOpened(es), es # <<>>, NEW editor, "edit" \in DOMAIN editor,
         editor.edit = es[Len(es)].edit
  PROVE  LET fs == [es EXCEPT ![Len(es)] = editor]
         IN EditorsOpened(fs) /\ Len(fs) = Len(es) /\ Edits(fs) = Edits(es) /\ fs # <<>>
<1> DEFINE fs == [es EXCEPT ![Len(es)] = editor]
<1>1. PICK S : es \in Seq(S)
  BY DEF EditorsOpened, IsSeq
<1>2. es \in Seq(S \cup {editor}) /\ Len(es) \in 1 .. Len(es)
  BY <1>1
<1>3. /\ fs \in Seq(S \cup {editor}) /\ Len(fs) = Len(es) /\ fs # <<>>
      /\ \A e \in 1 .. Len(es) : fs[e] = IF e = Len(es) THEN editor ELSE es[e]
  BY <1>2
<1>. HIDE DEF fs
<1>4. IsSeq(fs)
  BY <1>3 DEF IsSeq
<1>5. EditorsOpened(fs) /\ Edits(fs) = Edits(es)
  BY <1>3, <1>4 DEF EditorsOpened, Edits
<1>. QED
  BY <1>3, <1>5 DEF fs

-----------------------------------------------------------------------------
(* The steps                                                               *)

\* Nothing the invariant speaks of but the queues.
LEMMA QueuesOnly ==
  ASSUME ScreensInv, UNCHANGED <<stack, editors>>,
         CallsOfEdits(pending', Edits(editors)), CallsOfEdits(gets', Edits(editors)),
         BlocksOfEdits(mainQueue', Edits(editors))
  PROVE  ScreensInv'
BY DEF ScreensInv

LEMMA NothingTouched ==
  ASSUME ScreensInv, UNCHANGED <<stack, editors, pending, gets, mainQueue>>
  PROVE  ScreensInv'
BY QueuesOnly DEF ScreensInv

LEMMA InitScreens == Init => ScreensInv
<1> SUFFICES ASSUME Init PROVE ScreensInv
  OBVIOUS
<1>1. stack = <<"home">> /\ editors = <<>> /\ pending = <<>> /\ gets = <<>>
  BY DEF Init
<1>2. Walk(stack) /\ EditorInPlace(stack, editors)
  BY <1>1 DEF Walk, Screen, EditorInPlace
<1>3. IsSeq(<<>>)
  BY DEF IsSeq
<1>4. BlocksOfEdits(<<>>, Edits(editors))
  BY <1>3 DEF BlocksOfEdits
<1>5. BlockOfEdit(Snapshot(Listed(docs)), Edits(editors))
  BY DEF BlockOfEdit, Snapshot
<1>6. mainQueue = Append(<<>>, Snapshot(Listed(docs)))
  BY DEF Init
<1>7. BlocksOfEdits(mainQueue, Edits(editors))
  BY <1>4, <1>5, <1>6, BlockAppended
<1>. QED
  BY <1>1, <1>2, <1>3, <1>7 DEF ScreensInv, EditorsOpened, CallsOfEdits

LEMMA RelaunchScreens == ASSUME Relaunch PROVE ScreensInv'
<1>1. stack' = <<"home">> /\ editors' = <<>> /\ pending' = <<>> /\ gets' = <<>>
  BY DEF Relaunch
<1>2. Walk(stack') /\ EditorInPlace(stack', editors')
  BY <1>1 DEF Walk, Screen, EditorInPlace
<1>3. IsSeq(<<>>)
  BY DEF IsSeq
<1>4. BlocksOfEdits(<<>>, Edits(editors'))
  BY <1>3 DEF BlocksOfEdits
<1>5. BlockOfEdit(Snapshot(Listed(docs)), Edits(editors'))
  BY DEF BlockOfEdit, Snapshot
<1>6. mainQueue' = Append(<<>>, Snapshot(Listed(docs)))
  BY DEF Relaunch
<1>7. BlocksOfEdits(mainQueue', Edits(editors'))
  BY <1>4, <1>5, <1>6, BlockAppended
<1>. QED
  BY <1>1, <1>2, <1>3, <1>7 DEF ScreensInv, EditorsOpened, CallsOfEdits

\* A screen is pushed on the one that is tapped.
LEMMA PushScreens ==
  ASSUME ScreensInv, NEW high \in {"detail", "days"}, Above(Last(stack), high),
         stack' = Append(stack, high), UNCHANGED <<editors, pending, gets, mainQueue>>
  PROVE  ScreensInv'
<1>1. /\ Walk(stack') /\ Len(stack') = Len(stack) + 1 /\ Len(stack) \in Nat \ {0}
      /\ \A i \in 1 .. Len(stack) : stack'[i] = stack[i]
      /\ stack'[Len(stack) + 1] = high
  BY WalkPushed, HomeIsFirst DEF ScreensInv, Screen
<1>2. EditorInPlace(stack', editors)
  BY <1>1 DEF ScreensInv, EditorInPlace
<1>. QED
  BY <1>1, <1>2 DEF ScreensInv

\* An editor is, new above Home and to edit above Detail.
LEMMA EditorScreens ==
  ASSUME ScreensInv, NEW editor, "edit" \in DOMAIN editor,
         Last(stack) \in {"home", "detail"}, editor.edit => Last(stack) = "detail",
         stack' = Append(stack, "editor"), editors' = Append(editors, editor),
         UNCHANGED <<pending, gets, mainQueue>>
  PROVE  ScreensInv'
<1>1. /\ Walk(stack') /\ Len(stack') = Len(stack) + 1 /\ Len(stack) \in {1, 2}
      /\ \A i \in 1 .. Len(stack) : stack'[i] = stack[i]
      /\ stack'[Len(stack) + 1] = "editor"
      /\ stack[Len(stack)] \in {"home", "detail"}
  BY WalkPushed, HomeIsFirst DEF ScreensInv, Screen, Above, Last
<1>2. /\ EditorsOpened(editors') /\ Edits(editors) \subseteq Edits(editors')
      /\ Len(editors') \in Edits(editors') <=> editor.edit
      /\ editors' # <<>>
  BY EditorOpened DEF ScreensInv
<1>3. EditorInPlace(stack', editors')
  BY <1>1, <1>2 DEF EditorInPlace, Last
<1>4. /\ CallsOfEdits(pending', Edits(editors')) /\ CallsOfEdits(gets', Edits(editors'))
      /\ BlocksOfEdits(mainQueue', Edits(editors'))
  BY <1>2, MoreEdits DEF ScreensInv
<1>. QED
  BY <1>1, <1>2, <1>3, <1>4 DEF ScreensInv

\* Screens are popped by a tap or a completion, which may have changed the queue.
LEMMA PopScreens ==
  ASSUME ScreensInv, NEW k \in Nat, k < Len(stack),
         stack' = SubSeq(stack, 1, Len(stack) - k),
         UNCHANGED <<editors, pending, gets>>,
         BlocksOfEdits(mainQueue', Edits(editors))
  PROVE  ScreensInv'
BY InPlacePopped DEF ScreensInv

-----------------------------------------------------------------------------
(* Taps                                                                    *)

LEMMA HomeTapScreens == ASSUME ScreensInv, HomeTap PROVE ScreensInv'
<1>1. CASE AddClicked
  <2>1. Last(stack) = "home" /\ "edit" \in DOMAIN NewEditor /\ ~NewEditor.edit
    BY <1>1 DEF AddClicked, TapOn, NewEditor
  <2>. QED
    BY <1>1, <2>1, EditorScreens DEF AddClicked, firestore
<1>2. ASSUME NEW r \in 1 .. Len(shown), ShowDetail(r) PROVE ScreensInv'
  <2>1. CASE Trap("row")
    BY <2>1, NothingTouched DEF Trap, firestore, screens
  <2>2. CASE Row(r) /\ ~Trap("row")
    BY <1>2, <2>2, PushScreens DEF ShowDetail, TapOn, Above, firestore
  <2>. QED
    BY <1>2, <2>1, <2>2 DEF ShowDetail
<1>3. ASSUME NEW r \in 1 .. Len(shown), Done(r) PROVE ScreensInv'
  <2>1. CASE Trap("row")
    BY <2>1, NothingTouched DEF Trap, firestore, screens
  <2>2. CASE ~Trap("row")
    <3>1. /\ UNCHANGED <<stack, editors, gets>>
          /\ pending' = Append(pending, Op("check", r))
          /\ mainQueue' = Notified(mainQueue, docs')
      BY <1>3, <2>2 DEF Done, screens
    <3>2. OfEdit(Op("check", r), Edits(editors))
      BY DEF OfEdit, Op
    <3>. QED
      BY <3>1, <3>2, QueuesOnly, CallAppended, BlockNotified DEF ScreensInv
  <2>. QED
    BY <2>1, <2>2
<1>4. ASSUME NEW r \in 1 .. Len(shown), Undo(r) PROVE ScreensInv'
  <2>1. /\ UNCHANGED <<stack, editors, gets, pending>>
        /\ mainQueue' = Notified(mainQueue, docs')
    BY <1>4 DEF Undo, screens
  <2>. QED
    BY <2>1, QueuesOnly, BlockNotified DEF ScreensInv
<1>5. ASSUME NEW r \in 1 .. Len(shown), DeleteSwiped(r) PROVE ScreensInv'
  BY <1>5, NothingTouched DEF DeleteSwiped, firestore
<1>. QED
  BY <1>1, <1>2, <1>3, <1>4, <1>5 DEF HomeTap

\* A tap on a screen above Home may leave it.
LEMMA BackScreens ==
  ASSUME ScreensInv, NEW screen \in {"detail", "editor", "days"}, Back(screen)
  PROVE  ScreensInv'
<1>1. /\ stack' = SubSeq(stack, 1, Len(stack) - 1) /\ Last(stack) # "home"
      /\ UNCHANGED <<editors, pending, gets, mainQueue>>
  BY DEF Back, TapOn, Show, Popped, firestore
<1>2. 1 < Len(stack)
  BY <1>1, HomeIsFirst DEF ScreensInv, Walk, Last
<1>. QED
  BY <1>1, <1>2, PopScreens DEF ScreensInv

LEMMA DetailTapScreens == ASSUME ScreensInv, DetailTap PROVE ScreensInv'
<1>1. CASE DeletePressed
  BY <1>1, NothingTouched DEF DeletePressed, firestore
<1>2. CASE CalendarScrolled
  BY <1>2, NothingTouched DEF CalendarScrolled, Trap, firestore, screens
<1>3. CASE EditPressed
  <2>1. CASE Trap("row")
    BY <2>1, NothingTouched DEF Trap, firestore, screens
  <2>2. CASE ~Trap("row")
    <3> DEFINE editor == EditorOf(habits[detail.row])
    <3>1. Last(stack) = "detail" /\ "edit" \in DOMAIN editor
      BY <1>3 DEF EditPressed, TapOn, EditorOf
    <3>2. /\ stack' = Append(stack, "editor") /\ editors' = Append(editors, editor)
          /\ UNCHANGED <<pending, gets, mainQueue>>
      BY <1>3, <2>2 DEF EditPressed, firestore
    <3>. HIDE DEF editor
    <3>. QED
      BY <3>1, <3>2, EditorScreens
  <2>. QED
    BY <2>1, <2>2
<1>. QED
  BY <1>1, <1>2, <1>3, BackScreens DEF DetailTap

\* What the user fills in is in the last editor, which is on the stack.
LEMMA EditorThere ==
  ASSUME ScreensInv, Last(stack) \in {"editor", "days"}
  PROVE  editors # <<>> /\ "edit" \in DOMAIN editors[OpenEditor]
<1>1. Len(stack) \in Nat \ {0, 1} /\ Len(stack) \in 2 .. Len(stack)
  BY HomeIsFirst DEF ScreensInv, Walk, Last
<1>2. editors # <<>>
  <2>1. CASE Last(stack) = "editor"
    BY <1>1, <2>1 DEF ScreensInv, EditorInPlace, Last
  <2>2. CASE Last(stack) = "days"
    <3>1. stack[Len(stack) - 1] = "editor"
      BY <1>1, <2>2 DEF ScreensInv, Walk, Above, Last
    <3>2. Len(stack) - 1 \in 2 .. Len(stack)
      BY <1>1, <3>1 DEF ScreensInv, Walk
    <3>. QED
      BY <3>1, <3>2 DEF ScreensInv, EditorInPlace
  <2>. QED
    BY <2>1, <2>2
<1>3. Len(editors) \in 1 .. Len(editors)
  BY <1>2, SeqTail DEF ScreensInv, EditorsOpened
<1>. QED
  BY <1>2, <1>3 DEF ScreensInv, EditorsOpened, OpenEditor

LEMMA FillScreens ==
  ASSUME ScreensInv, Last(stack) \in {"editor", "days"}, NEW editor,
         "edit" \in DOMAIN editor, editor.edit = editors[OpenEditor].edit,
         editors' = [editors EXCEPT ![OpenEditor] = editor],
         UNCHANGED <<stack, pending, gets, mainQueue>>
  PROVE  ScreensInv'
<1>1. /\ EditorsOpened(editors') /\ Len(editors') = Len(editors)
      /\ Edits(editors') = Edits(editors) /\ editors' # <<>>
  BY EditorThere, EditorFilled DEF ScreensInv, OpenEditor
<1>. QED
  BY <1>1 DEF ScreensInv, EditorInPlace

\* A save is written: what is queued is of an editor that edits or of an add.
LEMMA SaveScreens ==
  ASSUME ScreensInv, NEW queue, BlocksOfEdits(queue, Edits(editors)),
         NEW e, NEW n, NEW added, NEW kind, NEW meant,
         SavedUnder(queue, e, n, added, kind, meant),
         kind \in {"edit", "rename"} => e \in Edits(editors),
         UNCHANGED <<stack, editors, gets>>
  PROVE  ScreensInv'
<1>1. /\ pending' = Append(pending, Op(kind, e))
      /\ mainQueue' = Notified(queue, docs')
  BY DEF SavedUnder
<1>2. OfEdit(Op(kind, e), Edits(editors))
  BY DEF OfEdit, Op
<1>. QED
  BY <1>1, <1>2, QueuesOnly, CallAppended, BlockNotified DEF ScreensInv

LEMMA SavePressedScreens == ASSUME ScreensInv, SavePressed PROVE ScreensInv'
<1> DEFINE e == OpenEditor
           editor == editors[e]
           get == [kind |-> IF editor.edit THEN "rename" ELSE "add",
                   ref |-> e, name |-> editor.input]
<1>1. e \in 1 .. Len(editors)
  BY EditorThere, SeqTail DEF SavePressed, TapOn, ScreensInv, EditorsOpened, OpenEditor
<1>2. editor.edit => e \in Edits(editors)
  BY <1>1 DEF Edits
<1>3. UNCHANGED <<stack, editors>>
  BY DEF SavePressed, screens
<1>4. CASE /\ editor.edit
           /\ SavedUnder(mainQueue, e, editor.input, editor.added, "edit", editor.input)
           /\ UNCHANGED gets
  BY <1>2, <1>3, <1>4, SaveScreens DEF ScreensInv
<1>5. CASE gets' = Append(gets, get) /\ UNCHANGED <<pending, mainQueue>>
  <2>1. OfEdit(get, Edits(editors))
    BY <1>2 DEF OfEdit
  <2>. HIDE DEF get
  <2>. QED
    BY <1>3, <1>5, <2>1, QueuesOnly, CallAppended DEF ScreensInv
<1>. QED
  BY <1>4, <1>5 DEF SavePressed

LEMMA EditorTapScreens == ASSUME ScreensInv, EditorTap PROVE ScreensInv'
<1>1. ASSUME NEW n \in Name, TypeName(n) PROVE ScreensInv'
  <2> DEFINE editor == [editors[OpenEditor] EXCEPT !.input = n]
  <2>1. Last(stack) = "editor"
    BY <1>1 DEF TypeName, TapOn
  <2>2. "edit" \in DOMAIN editor /\ editor.edit = editors[OpenEditor].edit
    BY <2>1, EditorThere
  <2>3. /\ editors' = [editors EXCEPT ![OpenEditor] = editor]
        /\ UNCHANGED <<stack, pending, gets, mainQueue>>
    BY <1>1 DEF TypeName, firestore
  <2>. HIDE DEF editor
  <2>. QED
    BY <2>1, <2>2, <2>3, FillScreens
<1>2. CASE DayToggled
  <2> DEFINE editor == [editors[OpenEditor] EXCEPT !.days = selectedDays']
  <2>1. Last(stack) = "days"
    BY <1>2 DEF DayToggled, TapOn
  <2>2. "edit" \in DOMAIN editor /\ editor.edit = editors[OpenEditor].edit
    BY <2>1, EditorThere
  <2>3. /\ editors' = [editors EXCEPT ![OpenEditor] = editor]
        /\ UNCHANGED <<stack, pending, gets, mainQueue>>
    BY <1>2 DEF DayToggled, firestore
  <2>. HIDE DEF editor
  <2>. QED
    BY <2>1, <2>2, <2>3, FillScreens
<1>3. CASE DaysPressed
  <2>1. /\ Above(Last(stack), "days") /\ stack' = Append(stack, "days")
        /\ UNCHANGED <<editors, pending, gets, mainQueue>>
    BY <1>3 DEF DaysPressed, TapOn, Above, firestore
  <2>. QED
    BY <2>1, PushScreens
<1>. QED
  BY <1>1, <1>2, <1>3, BackScreens, SavePressedScreens DEF EditorTap

LEMMA AlertTapScreens == ASSUME ScreensInv, AlertTap PROVE ScreensInv'
<1>1. CASE DeleteCancelled
  BY <1>1, NothingTouched DEF DeleteCancelled, firestore
<1>2. CASE DeleteConfirmed
  <2>1. CASE Trap("row")
    BY <2>1, NothingTouched DEF Trap, firestore, screens
  <2>2. CASE ~Trap("row")
    <3>1. PICK op \in {Op("deleteHome", 0), Op("deleteDetail", alert.id)} :
             pending' = Append(pending, op)
      BY <1>2, <2>2 DEF DeleteConfirmed
    <3>2. UNCHANGED <<stack, editors, gets>> /\ mainQueue' = Notified(mainQueue, docs')
      BY <1>2, <2>2 DEF DeleteConfirmed
    <3>3. OfEdit(op, Edits(editors))
      BY DEF OfEdit, Op
    <3>. QED
      BY <3>1, <3>2, <3>3, QueuesOnly, CallAppended, BlockNotified DEF ScreensInv
  <2>. QED
    BY <2>1, <2>2
<1>. QED
  BY <1>1, <1>2 DEF AlertTap

-----------------------------------------------------------------------------
(* The main queue                                                          *)

\* A block that only takes itself off the queue, or adds what is no save.
LEMMA TakenOff ==
  ASSUME ScreensInv, mainQueue # <<>>
  PROVE  /\ BlocksOfEdits(Tail(mainQueue), Edits(editors))
         /\ BlockOfEdit(Head(mainQueue), Edits(editors))
BY BlockTail DEF ScreensInv

LEMMA ListScreens ==
  ASSUME ScreensInv, HearOfHabits \/ ReloadTable \/ CheckCompleted \/ DeleteCompleted
  PROVE  ScreensInv'
<1>1. CASE HearOfHabits
  <2>1. /\ mainQueue # <<>> /\ mainQueue' = Append(Tail(mainQueue), Reload)
        /\ UNCHANGED <<stack, editors, pending, gets>>
    BY <1>1 DEF HearOfHabits, firestore, screens
  <2>2. BlockOfEdit(Reload, Edits(editors))
    BY DEF BlockOfEdit, Reload
  <2>. QED
    BY <2>1, <2>2, TakenOff, BlockAppended, QueuesOnly DEF ScreensInv
<1>2. CASE ReloadTable
  <2>1. /\ mainQueue # <<>> /\ mainQueue' = Tail(mainQueue)
        /\ UNCHANGED <<stack, editors, pending, gets>>
    BY <1>2 DEF ReloadTable, firestore
  <2>. QED
    BY <2>1, TakenOff, QueuesOnly DEF ScreensInv
<1>3. CASE CheckCompleted
  <2>1. CASE Trap("row")
    BY <2>1, NothingTouched DEF Trap, firestore, screens
  <2>2. CASE ~Trap("row")
    <3>1. /\ mainQueue # <<>> /\ mainQueue' = Tail(mainQueue)
          /\ UNCHANGED <<stack, editors, pending, gets>>
      BY <1>3, <2>2 DEF CheckCompleted, CompletionOf, firestore, screens
    <3>. QED
      BY <3>1, TakenOff, QueuesOnly DEF ScreensInv
  <2>. QED
    BY <2>1, <2>2
<1>4. CASE DeleteCompleted
  <2>1. /\ mainQueue # <<>> /\ mainQueue' = Tail(mainQueue)
        /\ UNCHANGED <<stack, editors, pending, gets>>
    BY <1>4 DEF DeleteCompleted, CompletionOf, firestore
  <2>. QED
    BY <2>1, TakenOff, QueuesOnly DEF ScreensInv
<1>. QED
  BY <1>1, <1>2, <1>3, <1>4

\* The answer to a lookup is to the editor that asked.
LEMMA LookedUpScreens == ASSUME ScreensInv, NameLookedUp PROVE ScreensInv'
<1> DEFINE found == Head(mainQueue)
           e == found.get.ref
           n == editors[e].input
<1>1. mainQueue # <<>> /\ found.type = "found" /\ UNCHANGED <<stack, editors, gets>>
  BY DEF NameLookedUp, screens
<1>2. BlocksOfEdits(Tail(mainQueue), Edits(editors)) /\ OfEdit(found.get, Edits(editors))
  BY <1>1, TakenOff DEF BlockOfEdit
<1>3. CASE mainQueue' = Tail(mainQueue) /\ UNCHANGED pending
  BY <1>1, <1>2, <1>3, QueuesOnly DEF ScreensInv
<1>4. CASE SavedUnder(Tail(mainQueue), e, n, clock + 1, "add", found.get.name)
  BY <1>1, <1>2, <1>4, SaveScreens
<1>5. CASE /\ found.get.kind = "rename"
           /\ SavedUnder(Tail(mainQueue), e, n, editors[e].added, "rename", found.get.name)
  <2>1. e \in Edits(editors)
    BY <1>2, <1>5 DEF OfEdit
  <2>. QED
    BY <1>1, <1>2, <1>5, <2>1, SaveScreens
<1>. QED
  BY <1>3, <1>4, <1>5 DEF NameLookedUp

\* A completion that goes back one screen, if what it is of is still there.
LEMMA BackOne ==
  ASSUME ScreensInv, BlocksOfEdits(mainQueue', Edits(editors)),
         UNCHANGED <<editors, pending, gets>>,
         Contains(stack, "detail") \/ Contains(stack, "editor"), Show(Popped(1))
  PROVE  ScreensInv'
<1>1. stack' = SubSeq(stack, 1, Len(stack) - 1)
  BY DEF Show, Popped
<1>2. 1 < Len(stack)
  BY HomeIsFirst DEF ScreensInv
<1>. QED
  BY <1>1, <1>2, PopScreens

\* One that goes back two, above an editor that edits.
LEMMA BackTwo ==
  ASSUME ScreensInv, BlocksOfEdits(mainQueue', Edits(editors)),
         UNCHANGED <<editors, pending, gets>>,
         NEW e \in Edits(editors), PopTwo(e)
  PROVE  ScreensInv'
<1>1. CASE EditorOnStack(e) /\ Show(Popped(2))
  <2>1. stack' = SubSeq(stack, 1, Len(stack) - 2)
    BY <1>1 DEF Show, Popped
  <2>2. Contains(stack, "editor") /\ Len(editors) \in Edits(editors)
    BY <1>1 DEF EditorOnStack, OpenEditor
  <2>3. 2 < Len(stack)
    BY <2>2, EditsIsHigh DEF ScreensInv
  <2>. QED
    BY <2>1, <2>3, PopScreens
<1>2. CASE UNCHANGED stack
  BY <1>2, QueuesOnly DEF ScreensInv
<1>. QED
  BY <1>1, <1>2 DEF PopTwo

LEMMA CompletedScreens ==
  ASSUME ScreensInv, DetailDeleted \/ AddCompleted \/ EditCompleted \/ RenameCompleted
  PROVE  ScreensInv'
<1> DEFINE e == Head(mainQueue).op.ref
<1>1. /\ BlocksOfEdits(Tail(mainQueue), Edits(editors))
      /\ UNCHANGED <<editors, pending, gets>>
  BY TakenOff DEF DetailDeleted, AddCompleted, EditCompleted, RenameCompleted,
                  CompletionOf, firestore
<1>2. ASSUME CompletionOf("edit") \/ CompletionOf("rename") PROVE e \in Edits(editors)
  BY <1>2, TakenOff DEF CompletionOf, BlockOfEdit, OfEdit
<1>3. CASE DetailDeleted
  <2>1. mainQueue' = Tail(mainQueue)
    BY <1>3 DEF DetailDeleted
  <2>2. CASE Contains(stack, "detail") /\ Show(Popped(1))
    BY <1>1, <2>1, <2>2, BackOne
  <2>3. CASE UNCHANGED stack
    BY <1>1, <2>1, <2>3, QueuesOnly DEF ScreensInv
  <2>. QED
    BY <1>3, <2>2, <2>3 DEF DetailDeleted
<1>4. CASE AddCompleted
  <2>1. mainQueue' = Tail(mainQueue)
    BY <1>4 DEF AddCompleted
  <2>2. CASE EditorOnStack(e) /\ Show(Popped(1))
    BY <1>1, <2>1, <2>2, BackOne DEF EditorOnStack
  <2>3. CASE UNCHANGED stack
    BY <1>1, <2>1, <2>3, QueuesOnly DEF ScreensInv
  <2>. QED
    BY <1>4, <2>2, <2>3 DEF AddCompleted
<1>5. CASE EditCompleted
  <2>1. mainQueue' = Tail(mainQueue) /\ CompletionOf("edit") /\ PopTwo(e)
    BY <1>5 DEF EditCompleted
  <2>. QED
    BY <1>1, <1>2, <2>1, BackTwo
<1>6. CASE RenameCompleted
  <2>1. /\ mainQueue' = Notified(Tail(mainQueue), docs')
        /\ CompletionOf("rename") /\ PopTwo(e)
    BY <1>6 DEF RenameCompleted
  <2>2. BlocksOfEdits(mainQueue', Edits(editors))
    BY <1>1, <2>1, BlockNotified
  <2>. QED
    BY <1>1, <1>2, <2>1, <2>2, BackTwo
<1>. QED
  BY <1>3, <1>4, <1>5, <1>6

LEMMA MainScreens == ASSUME ScreensInv, MainStep PROVE ScreensInv'
BY ListScreens, LookedUpScreens, CompletedScreens DEF MainStep

\* Firestore calls back for what it was called for.
LEMMA FirestoreScreens ==
  ASSUME ScreensInv, WriteResolves \/ GetResolves \/ RemoteChange
  PROVE  ScreensInv'
<1>1. CASE WriteResolves
  <2>1. /\ pending # <<>> /\ pending' = Tail(pending)
        /\ mainQueue' = Append(mainQueue, Completion(Head(pending)))
        /\ UNCHANGED <<stack, editors, gets>>
    BY <1>1 DEF WriteResolves, screens
  <2>2. CallsOfEdits(pending', Edits(editors)) /\ OfEdit(Head(pending), Edits(editors))
    BY <2>1, CallTail DEF ScreensInv
  <2>3. BlockOfEdit(Completion(Head(pending)), Edits(editors))
    BY <2>2 DEF BlockOfEdit, Completion
  <2>. QED
    BY <2>1, <2>2, <2>3, BlockAppended, QueuesOnly DEF ScreensInv
<1>2. CASE GetResolves
  <2>1. PICK i \in 1 .. Len(gets) :
          /\ mainQueue' = Append(mainQueue, Found(gets[i], IsDocument(docs[gets[i].name])))
          /\ gets' = RemoveAt(gets, i)
    BY <1>2 DEF GetResolves
  <2>2. UNCHANGED <<stack, editors, pending>>
    BY <1>2 DEF GetResolves, screens
  <2>3. CallsOfEdits(gets', Edits(editors)) /\ OfEdit(gets[i], Edits(editors))
    BY <2>1, CallRemoved DEF ScreensInv, CallsOfEdits
  <2>4. BlockOfEdit(Found(gets[i], IsDocument(docs[gets[i].name])), Edits(editors))
    BY <2>3 DEF BlockOfEdit, Found
  <2>. QED
    BY <2>1, <2>2, <2>3, <2>4, BlockAppended, QueuesOnly DEF ScreensInv
<1>3. CASE RemoteChange
  <2>1. PICK d : mainQueue' = Notified(mainQueue, d)
    BY <1>3 DEF RemoteChange
  <2>2. UNCHANGED <<stack, editors, pending, gets>>
    BY <1>3 DEF RemoteChange, screens
  <2>. QED
    BY <2>1, <2>2, BlockNotified, QueuesOnly DEF ScreensInv
<1>. QED
  BY <1>1, <1>2, <1>3

-----------------------------------------------------------------------------

LEMMA ScreensStep == ScreensInv /\ [Next]_vars => ScreensInv'
<1> SUFFICES ASSUME ScreensInv, [Next]_vars PROVE ScreensInv'
  OBVIOUS
<1>1. CASE UNCHANGED vars
  BY <1>1, NothingTouched DEF vars, firestore, screens
<1>. QED
  BY <1>1, HomeTapScreens, DetailTapScreens, EditorTapScreens, AlertTapScreens,
     MainScreens, FirestoreScreens, RelaunchScreens DEF Next

LEMMA WalkStartsAtHome == ScreensInv => HomeNeverPopped
<1> SUFFICES ASSUME ScreensInv PROVE HomeNeverPopped
  OBVIOUS
<1>1. stack \in Seq(Screen) /\ stack # <<>> /\ stack[1] = "home"
  BY DEF ScreensInv, Walk
<1>2. Head(stack) = "home"
  BY <1>1
<1>. QED
  BY <1>1, <1>2 DEF ScreensInv, Walk, Above, HomeNeverPopped

\* However taps, completions, other devices' changes and kills interleave, the
\* completions of saves and deletes leave Home at the bottom of the stack and no
\* screen above one it is not reached from.
THEOREM HomeStays == Spec => []HomeNeverPopped
<1>1. Spec => []ScreensInv
  BY InitScreens, ScreensStep, PTL DEF Spec
<1>. QED
  BY <1>1, WalkStartsAtHome, PTL

-----------------------------------------------------------------------------
(* The list                                                                *)

Numbered(d) == \A n \in Matching(d) : d[n].data.form.added \in Nat

LEMMA NamesCounted == Name \subseteq Nat /\ IsFiniteSet(Name) /\ NoName \notin Name
BY AppAssumption, FS_CardinalityType DEF NoName

\* Every place of the list has a document with as many before it.
LEMMA PlacesTaken ==
  ASSUME NEW d, Numbered(d)
  PROVE  /\ Cardinality(Matching(d)) \in Nat
         /\ \A i \in 1 .. Cardinality(Matching(d)) :
              \E n \in Matching(d) : Cardinality(Earlier(d, n)) = i - 1
<1> DEFINE M == Matching(d)
           c == Cardinality(M)
           T == 0 .. c - 1
           f == [n \in M |-> Cardinality(Earlier(d, n))]
<1>1. M \subseteq Nat /\ IsFiniteSet(M) /\ c \in Nat
  BY NamesCounted, FS_Subset, FS_CardinalityType DEF Matching
<1>2. \A n \in M : /\ n \notin Earlier(d, n) /\ Earlier(d, n) \subseteq M
                   /\ IsFiniteSet(Earlier(d, n))
                   /\ Cardinality(Earlier(d, n)) \in Nat
  <2>1. \A n \in M : n \notin Earlier(d, n) /\ Earlier(d, n) \subseteq M
    BY <1>1 DEF Earlier, Precedes, Numbered
  <2>. QED
    BY <1>1, <2>1, FS_Subset, FS_CardinalityType
<1>3. ASSUME NEW n \in M PROVE f[n] \in T
  <2>1. Cardinality(M \ {n}) = c - 1 /\ IsFiniteSet(M \ {n})
    BY <1>1, FS_RemoveElement
  <2>2. Earlier(d, n) \subseteq M \ {n}
    BY <1>2
  <2>3. Cardinality(Earlier(d, n)) <= c - 1
    BY <2>1, <2>2, FS_Subset
  <2>. QED
    BY <1>1, <1>2, <2>3
<1>4. ASSUME NEW m \in M, NEW n \in M, Precedes(d, m, n) PROVE f[m] # f[n]
  <2>1. Earlier(d, m) \cup {m} \subseteq Earlier(d, n)
    <3>1. m \in Earlier(d, n)
      BY <1>4 DEF Earlier
    <3>2. ASSUME NEW k \in Earlier(d, m) PROVE k \in Earlier(d, n)
      <4>1. k \in M /\ Precedes(d, k, m)
        BY DEF Earlier
      <4>2. k \in Nat /\ m \in Nat /\ n \in Nat /\ d[k].data.form.added \in Nat
            /\ d[m].data.form.added \in Nat /\ d[n].data.form.added \in Nat
        BY <1>1, <4>1 DEF Numbered
      <4>3. Precedes(d, k, n)
        BY <1>4, <4>1, <4>2 DEF Precedes
      <4>. QED
        BY <4>1, <4>3 DEF Earlier
    <3>. QED
      BY <3>1, <3>2
  <2>2. Cardinality(Earlier(d, m) \cup {m}) = Cardinality(Earlier(d, m)) + 1
    BY <1>2, FS_AddElement
  <2>3. Cardinality(Earlier(d, m) \cup {m}) <= Cardinality(Earlier(d, n))
    BY <1>2, <2>1, FS_Subset
  <2>. QED
    BY <1>2, <2>2, <2>3
<1>5. \A m, n \in M : m # n => Precedes(d, m, n) \/ Precedes(d, n, m)
  BY <1>1 DEF Precedes, Numbered
<1>6. f \in Injection(M, T)
  <2>1. f \in [M -> T]
    BY <1>3
  <2>2. \A m, n \in M : m # n => f[m] # f[n]
    BY <1>4, <1>5
  <2>. QED
    BY <2>1, <2>2 DEF Injection, IsInjective
<1>7. IsFiniteSet(T) /\ Cardinality(T) = c
  <2>1. IsFiniteSet(T) /\ Cardinality(T) = IF 0 > c - 1 THEN 0 ELSE c - 1 - 0 + 1
    BY <1>1, FS_Interval
  <2>. QED
    BY <1>1, <2>1
<1>8. f \in Surjection(M, T)
  BY <1>6, <1>7, FS_Injection
<1>9. ASSUME NEW i \in 1 .. c PROVE \E n \in M : Cardinality(Earlier(d, n)) = i - 1
  <2>1. i - 1 \in T
    BY <1>1
  <2>. QED
    BY <1>8, <2>1 DEF Surjection
<1>. QED
  BY <1>1, <1>9

\* So every row of the list is a document, under its own name.
LEMMA RowsAreDocuments ==
  ASSUME NEW d, Numbered(d), NEW i \in DOMAIN Listed(d)
  PROVE  /\ Listed(d)[i].name \in Matching(d)
         /\ Listed(d)[i] = HabitOf(d, Listed(d)[i].name)
<1> DEFINE n == CHOOSE k \in Matching(d) : Cardinality(Earlier(d, k)) = i - 1
<1>1. i \in 1 .. Cardinality(Matching(d)) /\ Listed(d)[i] = HabitOf(d, n)
  BY DEF Listed
<1>2. n \in Matching(d)
  BY <1>1, PlacesTaken
<1>. QED
  BY <1>1, <1>2 DEF HabitOf

LEMMA ListLength ==
  ASSUME NEW d, Numbered(d)
  PROVE  /\ Listed(d) \in Seq(Range(Listed(d)))
         /\ DOMAIN Listed(d) = 1 .. Len(Listed(d))
         /\ Len(Listed(d)) \in Nat
<1>1. Cardinality(Matching(d)) \in Nat
  BY PlacesTaken
<1>2. DOMAIN Listed(d) = 1 .. Cardinality(Matching(d))
      /\ Listed(d) = [i \in 1 .. Cardinality(Matching(d)) |-> Listed(d)[i]]
  BY DEF Listed
<1>3. Listed(d) \in Seq(Range(Listed(d)))
  BY <1>1, <1>2 DEF Range
<1>. QED
  BY <1>3

\* A check or an undo changes no row's name: the rows are in the order in which
\* the habits were established.
LEMMA RowsKept ==
  ASSUME NEW d, NEW e, \A n \in Name : IsDocument(d[n]) <=> IsDocument(e[n]),
         \A n \in Name : d[n].data.form = e[n].data.form,
         NEW i \in DOMAIN Listed(d), Numbered(d)
  PROVE  i \in DOMAIN Listed(e) /\ Listed(e)[i].name = Listed(d)[i].name
<1>1. Matching(d) = Matching(e)
  BY DEF Matching
<1>2. \A n \in Matching(d) : Earlier(d, n) = Earlier(e, n)
  BY <1>1 DEF Earlier, Precedes, Matching
<1>3. \A j : {n \in Matching(d) : Cardinality(Earlier(d, n)) = j}
               = {n \in Matching(e) : Cardinality(Earlier(e, n)) = j}
  BY <1>1, <1>2
<1> DEFINE n == CHOOSE k \in Matching(d) : Cardinality(Earlier(d, k)) = i - 1
           m == CHOOSE k \in Matching(e) : Cardinality(Earlier(e, k)) = i - 1
<1>4. n = m
  BY <1>1, <1>2
<1>. QED
  BY <1>1, <1>4 DEF Listed, HabitOf

-----------------------------------------------------------------------------
(* One thing at a time: what a user who waits for the app has it do, alone *)
(* with it                                                                 *)

Alone == Patient /\ MaxRemotes = 0

\* A habit with its form fields, and what is under a name.
Whole == [form : [added : Nat, days : DayChoice], checked : SUBSET Day]
Stored == {NoDocument} \cup [type : {"document"}, data : Whole]

Editor ==
  [edit : BOOLEAN, input : Name \cup {NoName}, previous : Name \cup {NoName},
   added : Nat, checked : SUBSET Day, days : DayChoice]

News == Snapshot(Listed(docs))

UpToDate == habits = Listed(docs) /\ shown = Listed(docs)

Opened == editors[Len(editors)]

AtHome == stack = <<"home">>
AtDetail == stack = <<"home", "detail">>
AtEditor ==
  /\ editors # <<>>
  /\ stack = IF Opened.edit THEN <<"home", "detail", "editor">> ELSE <<"home", "editor">>
AtDays ==
  /\ editors # <<>>
  /\ stack = IF Opened.edit THEN <<"home", "detail", "editor", "days">>
             ELSE <<"home", "editor", "days">>

\* The habit of a row is the one the user saw.
Seen(row, name) == row \in DOMAIN Listed(docs) /\ Listed(docs)[row].name = name

DetailRight == Seen(detail.row, detail.title)

\* The document has what the editor will write back.
SameHabit(n, editor) ==
  /\ n \in Name /\ IsDocument(docs[n])
  /\ docs[n].data.form.added = editor.added /\ docs[n].data.checked = editor.checked

EditorRight ==
  /\ selectedDays = Opened.days
  /\ Opened.edit => DetailRight /\ SameHabit(Opened.previous, Opened)

AlertRight ==
  \/ alert = NoAlert
  \/ alert.from = "home" /\ AtHome /\ Seen(alert.row, alert.meant)
  \/ /\ alert.from = "detail" /\ AtDetail
     /\ Seen(alert.row, alert.meant) /\ alert.id = detail.id

\* Where the user may be while nothing is under way.
Somewhere ==
  \/ AtHome
  \/ AtDetail /\ DetailRight
  \/ (AtEditor \/ AtDays) /\ EditorRight /\ alert = NoAlert

\* Nothing is under way, but for the list, which is on its way only on Home.
Resting ==
  /\ pending = <<>> /\ gets = <<>> /\ chat = checks
  /\ \/ mainQueue = <<>> /\ UpToDate /\ AlertRight /\ Somewhere
     \/ /\ AtHome /\ alert = NoAlert
        /\ \/ mainQueue = <<News>>
           \/ mainQueue = <<Reload, News>>
           \/ mainQueue = <<Reload>> /\ habits = Listed(docs)

\* A write is under way, or its completion block; the list is told of it first.
Underway(op) ==
  \/ /\ pending = <<op>>
     /\ \/ mainQueue = <<>> /\ UpToDate
        \/ mainQueue = <<News>>
        \/ mainQueue = <<Reload>> /\ habits = Listed(docs)
  \/ /\ pending = <<>>
     /\ \/ mainQueue = <<Completion(op)>> /\ UpToDate
        \/ mainQueue = <<News, Completion(op)>>
        \/ mainQueue = <<Reload, Completion(op)>> /\ habits = Listed(docs)
        \/ mainQueue = <<Completion(op), Reload>> /\ habits = Listed(docs)

\* Where it was made and what its completion block will find.
Started(op) ==
  \/ /\ op.kind = "check" /\ AtHome
     /\ op.ref \in DOMAIN Listed(docs)
     /\ checks = Append(chat, Listed(docs)[op.ref].name)
  \/ /\ chat = checks
     /\ \/ op.kind = "deleteHome" /\ AtHome
        \/ op.kind = "deleteDetail" /\ AtDetail /\ op.ref = detail.id
        \/ /\ op.kind \in SaveKind /\ AtEditor /\ op.ref = Len(editors)
           /\ Opened.edit <=> op.kind # "add"
           /\ op.kind = "rename" => /\ SameHabit(Opened.previous, Opened)
                                    /\ SameHabit(Opened.input, Opened)
                                    /\ Opened.input # Opened.previous

Writing ==
  /\ gets = <<>> /\ alert = NoAlert
  /\ \E kind, ref : Underway(Op(kind, ref)) /\ Started(Op(kind, ref))

Lookup ==
  [kind |-> IF Opened.edit THEN "rename" ELSE "add", ref |-> Len(editors),
   name |-> Opened.input]

\* A name is looked up for the editor.
Asking ==
  /\ pending = <<>> /\ chat = checks /\ UpToDate /\ alert = NoAlert
  /\ AtEditor /\ EditorRight /\ Opened.input \in Name
  /\ Opened.edit => Opened.input # Opened.previous
  /\ \/ gets = <<Lookup>> /\ mainQueue = <<>>
     \/ gets = <<>> /\ mainQueue = <<Found(Lookup, IsDocument(docs[Opened.input]))>>

WaitingTyped ==
  /\ docs \in [Name -> Stored] /\ editors \in Seq(Editor) /\ clock \in Nat
  /\ chat \in Seq(Name) /\ DOMAIN detail = {"id", "row", "title"}

WaitingInv ==
  /\ WaitingTyped
  /\ crashed = "no" /\ ~misdirected
  /\ Resting \/ Asking \/ Writing

LEMMA DocumentsStored ==
  ASSUME NEW d, d \in [Name -> Stored]
  PROVE  /\ Numbered(d) /\ Matching(d) = {n \in Name : IsDocument(d[n])}
         /\ \A n \in Name : IsDocument(d[n]) =>
              d[n] \in [type : {"document"}, data : Whole]
         /\ \A n \in Name : d[n].data.form # NoForm <=> IsDocument(d[n])
<1>1. \A n \in Name : IsDocument(d[n]) =>
              d[n] \in [type : {"document"}, data : Whole]
  BY DEF Stored, IsDocument, NoDocument
<1>2. \A n \in Name : IsDocument(d[n]) => d[n].data.form # NoForm /\ d[n].data.form.added \in Nat
  BY <1>1, AppAssumption DEF Whole
<1>3. \A n \in Name : ~IsDocument(d[n]) => d[n].data.form = NoForm
  BY DEF Stored, IsDocument, NoDocument, EmptyData
<1>. QED
  BY <1>1, <1>2, <1>3 DEF Numbered, Matching

\* The screens there can be are told apart by the one on top.
LEMMA OnTop ==
  /\ AtHome => Last(stack) = "home"
  /\ AtDetail => Last(stack) = "detail"
  /\ AtEditor => Last(stack) = "editor"
  /\ AtDays => Last(stack) = "days"
<1>1. /\ AtHome => Last(stack) = "home"
      /\ AtDetail => Last(stack) = "detail"
  BY DEF AtHome, AtDetail, Last
<1>2. ASSUME AtEditor PROVE Last(stack) = "editor"
  <2>1. CASE stack = <<"home", "detail", "editor">>
    BY <2>1 DEF Last
  <2>2. CASE stack = <<"home", "editor">>
    BY <2>2 DEF Last
  <2>. QED
    BY <1>2, <2>1, <2>2 DEF AtEditor
<1>3. ASSUME AtDays PROVE Last(stack) = "days"
  <2>1. CASE stack = <<"home", "detail", "editor", "days">>
    BY <2>1 DEF Last
  <2>2. CASE stack = <<"home", "editor", "days">>
    BY <2>2 DEF Last
  <2>. QED
    BY <1>3, <2>1, <2>2 DEF AtDays
<1>. QED
  BY <1>1, <1>2, <1>3

\* A tap of a user who waits.
LEMMA TapWaits ==
  ASSUME WaitingInv, Quiet
  PROVE  /\ Resting /\ UpToDate /\ AlertRight /\ Somewhere
         /\ pending = <<>> /\ gets = <<>> /\ mainQueue = <<>> /\ chat = checks
         /\ \A r \in 1 .. Len(shown) : Row(r) /\ r \in DOMAIN Listed(docs)
         /\ \A r \in DOMAIN Listed(docs) : Row(r)
<1>1. Resting
  <2>1. ~Asking
    BY DEF Asking, Quiet
  <2>2. ~Writing
    BY DEF Writing, Underway, Quiet
  <2>. QED
    BY <2>1, <2>2 DEF WaitingInv
<1>2. UpToDate /\ AlertRight /\ Somewhere
  BY <1>1 DEF Resting, Quiet
<1>3. DOMAIN Listed(docs) = 1 .. Len(Listed(docs)) /\ Len(Listed(docs)) \in Nat
  BY DocumentsStored, ListLength DEF WaitingInv, WaitingTyped
<1>. QED
  BY <1>1, <1>2, <1>3 DEF Quiet, Resting, UpToDate, Row

\* The listener is told of a write.
LEMMA ListTold ==
  ASSUME UpToDate, mainQueue' = Notified(<<>>, docs'), UNCHANGED <<habits, shown>>
  PROVE  \/ mainQueue' = <<>> /\ UpToDate'
         \/ mainQueue' = <<News>>'
<1>1. mainQueue' = IF Listed(docs') = Listed(docs) THEN <<>>
                   ELSE Append(<<>>, Snapshot(Listed(docs')))
  BY DEF Notified
<1>. QED
  BY <1>1 DEF UpToDate, News

LEMMA WaitingInit == Init => WaitingInv
<1> SUFFICES ASSUME Init PROVE WaitingInv
  OBVIOUS
<1>1. docs = InitialDocs /\ mainQueue = <<News>>
  BY DEF Init, News
<1>2. InitialDocs \in [Name -> Stored]
  <2>1. \A n \in Name : n \in Nat
    BY NamesCounted
  <2>2. AllDays \in DayChoice
    BY AppAssumption
  <2>. QED
    BY <2>1, <2>2 DEF InitialDocs, Stored, Document, Whole
<1>3. clock \in Nat /\ editors \in Seq(Editor) /\ chat \in Seq(Name)
      /\ DOMAIN detail = {"id", "row", "title"}
  BY NamesCounted, FS_CardinalityType DEF Init, NoDetail
<1>. QED
  BY <1>1, <1>2, <1>3 DEF Init, WaitingInv, WaitingTyped, Resting, AtHome

\* A short sequence is its elements.
LEMMA Spelled ==
  ASSUME NEW S, NEW t \in Seq(S)
  PROVE  /\ Len(t) = 1 => t = <<t[1]>>
         /\ Len(t) = 2 => t = <<t[1], t[2]>>
         /\ Len(t) = 3 => t = <<t[1], t[2], t[3]>>
         /\ Len(t) = 4 => t = <<t[1], t[2], t[3], t[4]>>
<1>1. Len(t) = 1 => t = <<t[1]>>
  OBVIOUS
<1>2. Len(t) = 2 => t = <<t[1], t[2]>>
  OBVIOUS
<1>3. Len(t) = 3 => t = <<t[1], t[2], t[3]>>
  OBVIOUS
<1>4. Len(t) = 4 => t = <<t[1], t[2], t[3], t[4]>>
  OBVIOUS
<1>. QED
  BY <1>1, <1>2, <1>3, <1>4

LEMMA Extended ==
  ASSUME NEW S, NEW s \in Seq(S), NEW x \in S
  PROVE  /\ Len(s) = 1 => Append(s, x) = <<s[1], x>>
         /\ Len(s) = 2 => Append(s, x) = <<s[1], s[2], x>>
         /\ Len(s) = 3 => Append(s, x) = <<s[1], s[2], s[3], x>>
<1>1. PICK t : t = Append(s, x)
  OBVIOUS
<1>2. /\ t \in Seq(S) /\ Len(t) = Len(s) + 1 /\ t[Len(s) + 1] = x
      /\ \A i \in 1 .. Len(s) : t[i] = s[i]
  BY <1>1, AppendProperties
<1>3. ASSUME Len(s) = 1 PROVE t = <<s[1], x>>
  <2>1. Len(t) = 2 /\ t[2] = x /\ t[1] = s[1]
    BY <1>2, <1>3
  <2>2. t = <<t[1], t[2]>>
    BY <1>2, <2>1, Spelled
  <2>. QED
    BY <2>1, <2>2
<1>4. ASSUME Len(s) = 2 PROVE t = <<s[1], s[2], x>>
  <2>1. Len(t) = 3 /\ t[3] = x /\ t[1] = s[1] /\ t[2] = s[2]
    BY <1>2, <1>4
  <2>2. t = <<t[1], t[2], t[3]>>
    BY <1>2, <2>1, Spelled
  <2>. QED
    BY <2>1, <2>2
<1>5. ASSUME Len(s) = 3 PROVE t = <<s[1], s[2], s[3], x>>
  <2>1. Len(t) = 4 /\ t[4] = x /\ t[1] = s[1] /\ t[2] = s[2] /\ t[3] = s[3]
    BY <1>2, <1>5
  <2>2. t = <<t[1], t[2], t[3], t[4]>>
    BY <1>2, <2>1, Spelled
  <2>. QED
    BY <2>1, <2>2
<1>. QED
  BY <1>1, <1>3, <1>4, <1>5

LEMMA Starting ==
  ASSUME NEW S, NEW s \in Seq(S)
  PROVE  /\ Len(s) >= 1 => SubSeq(s, 1, 1) = <<s[1]>>
         /\ Len(s) >= 2 => SubSeq(s, 1, 2) = <<s[1], s[2]>>
         /\ Len(s) >= 3 => SubSeq(s, 1, 3) = <<s[1], s[2], s[3]>>
<1>1. ASSUME NEW n \in 1 .. 3, Len(s) >= n
      PROVE  /\ SubSeq(s, 1, n) \in Seq(S) /\ Len(SubSeq(s, 1, n)) = n
             /\ \A i \in 1 .. n : SubSeq(s, 1, n)[i] = s[i]
  <2>1. 1 \in 1 .. Len(s) + 1 /\ n \in 0 .. Len(s) /\ Len(s) \in Nat
    BY <1>1
  <2>2. /\ SubSeq(s, 1, n) \in Seq(S)
        /\ Len(SubSeq(s, 1, n)) = IF 1 <= n THEN n - 1 + 1 ELSE 0
        /\ \A i \in 1 .. n - 1 + 1 : SubSeq(s, 1, n)[i] = s[1 + i - 1]
    BY <2>1, SubSeqProperties
  <2>3. \A i \in 1 .. n : i \in 1 .. n - 1 + 1 /\ 1 + i - 1 = i
    OBVIOUS
  <2>. QED
    BY <2>2, <2>3
<1>2. ASSUME Len(s) >= 1 PROVE SubSeq(s, 1, 1) = <<s[1]>>
  <2>1. PICK t : t = SubSeq(s, 1, 1)
    OBVIOUS
  <2>2. t \in Seq(S) /\ Len(t) = 1 /\ \A i \in 1 .. 1 : t[i] = s[i]
    BY <1>1, <1>2, <2>1
  <2>3. t = <<s[1]>>
    BY <2>2
  <2>. QED
    BY <2>1, <2>3
<1>3. ASSUME Len(s) >= 2 PROVE SubSeq(s, 1, 2) = <<s[1], s[2]>>
  <2>1. PICK t : t = SubSeq(s, 1, 2)
    OBVIOUS
  <2>2. t \in Seq(S) /\ Len(t) = 2 /\ \A i \in 1 .. 2 : t[i] = s[i]
    BY <1>1, <1>3, <2>1
  <2>3. t = <<s[1], s[2]>>
    BY <2>2
  <2>. QED
    BY <2>1, <2>3
<1>4. ASSUME Len(s) >= 3 PROVE SubSeq(s, 1, 3) = <<s[1], s[2], s[3]>>
  <2>1. PICK t : t = SubSeq(s, 1, 3)
    OBVIOUS
  <2>2. t \in Seq(S) /\ Len(t) = 3 /\ \A i \in 1 .. 3 : t[i] = s[i]
    BY <1>1, <1>4, <2>1
  <2>3. t = <<s[1], s[2], s[3]>>
    BY <2>2
  <2>. QED
    BY <2>1, <2>3
<1>. QED
  BY <1>2, <1>3, <1>4

\* Going back one screen or two.
LEMMA Fewer ==
  ASSUME NEW a, NEW b, NEW c, NEW d
  PROVE  /\ stack = <<a, b>> => Popped(1) = <<a>>
         /\ stack = <<a, b, c>> => Popped(1) = <<a, b>> /\ Popped(2) = <<a>>
         /\ stack = <<a, b, c, d>> => Popped(1) = <<a, b, c>>
<1>1. ASSUME stack = <<a, b>> PROVE Popped(1) = <<a>>
  <2>1. stack \in Seq({a, b}) /\ Len(stack) = 2 /\ stack[1] = a
    BY <1>1
  <2>. QED
    BY <2>1, Starting DEF Popped
<1>2. ASSUME stack = <<a, b, c>> PROVE Popped(1) = <<a, b>> /\ Popped(2) = <<a>>
  <2>1. stack \in Seq({a, b, c}) /\ Len(stack) = 3 /\ stack[1] = a /\ stack[2] = b
    BY <1>2
  <2>. QED
    BY <2>1, Starting DEF Popped
<1>3. ASSUME stack = <<a, b, c, d>> PROVE Popped(1) = <<a, b, c>>
  <2>1. /\ stack \in Seq({a, b, c, d}) /\ Len(stack) = 4
        /\ stack[1] = a /\ stack[2] = b /\ stack[3] = c
    BY <1>3
  <2>. QED
    BY <2>1, Starting DEF Popped
<1>. QED
  BY <1>1, <1>2, <1>3

\* Going one screen further.
LEMMA Pushed ==
  ASSUME NEW a, NEW b, NEW c, NEW x
  PROVE  /\ stack = <<a>> => Append(stack, x) = <<a, x>>
         /\ stack = <<a, b>> => Append(stack, x) = <<a, b, x>>
         /\ stack = <<a, b, c>> => Append(stack, x) = <<a, b, c, x>>
<1>1. ASSUME stack = <<a>> PROVE Append(stack, x) = <<a, x>>
  <2>1. stack \in Seq({a, x}) /\ Len(stack) = 1 /\ stack[1] = a
    BY <1>1
  <2>. QED
    BY <2>1, Extended
<1>2. ASSUME stack = <<a, b>> PROVE Append(stack, x) = <<a, b, x>>
  <2>1. stack \in Seq({a, b, x}) /\ Len(stack) = 2 /\ stack[1] = a /\ stack[2] = b
    BY <1>2
  <2>. QED
    BY <2>1, Extended
<1>3. ASSUME stack = <<a, b, c>> PROVE Append(stack, x) = <<a, b, c, x>>
  <2>1. /\ stack \in Seq({a, b, c, x}) /\ Len(stack) = 3
        /\ stack[1] = a /\ stack[2] = b /\ stack[3] = c
    BY <1>3
  <2>. QED
    BY <2>1, Extended
<1>. QED
  BY <1>1, <1>2, <1>3

LEMMA ShowHome ==
  ASSUME Show(<<"home">>)
  PROVE  AtHome' /\ detail' = NoDetail /\ UNCHANGED crashed
<1>1. ~Contains(<<"home">>, "detail") /\ Last(<<"home">>) # "detail"
  BY DEF Contains, Last
<1>. QED
  BY <1>1 DEF Show, AtHome

LEMMA ShowOldDetail ==
  ASSUME WaitingInv, Quiet, DetailRight, Show(<<"home", "detail">>), UNCHANGED docs
  PROVE  /\ AtDetail' /\ DetailRight' /\ DOMAIN detail' = {"id", "row", "title"}
         /\ UNCHANGED crashed
<1>1. Contains(<<"home", "detail">>, "detail") /\ Last(<<"home", "detail">>) = "detail"
  BY DEF Contains, Last
<1>2. Row(detail.row) /\ habits = Listed(docs)
  BY TapWaits DEF DetailRight, Seen, UpToDate
<1>3. /\ stack' = <<"home", "detail">> /\ UNCHANGED crashed
      /\ detail' = [detail EXCEPT !.title = habits[detail.row].name]
  BY <1>1, <1>2 DEF Show
<1>4. DOMAIN detail = {"id", "row", "title"}
  BY DEF WaitingInv, WaitingTyped
<1>. QED
  BY <1>2, <1>3, <1>4 DEF AtDetail, DetailRight, Seen

LEMMA ShowEditor ==
  /\ Show(<<"home", "editor">>) =>
       stack' = <<"home", "editor">> /\ detail' = NoDetail /\ UNCHANGED crashed
  /\ Show(<<"home", "detail", "editor">>) =>
       stack' = <<"home", "detail", "editor">> /\ UNCHANGED <<detail, crashed>>
<1>1. ~Contains(<<"home", "editor">>, "detail") /\ Last(<<"home", "editor">>) # "detail"
  BY DEF Contains, Last
<1>2. /\ Contains(<<"home", "detail", "editor">>, "detail")
      /\ Last(<<"home", "detail", "editor">>) # "detail"
  BY DEF Contains, Last
<1>. QED
  BY <1>1, <1>2 DEF Show

\* A tap finds the screen it is on.
LEMMA TapFinds ==
  ASSUME Alone, WaitingInv, NEW screen, TapOn(screen)
  PROVE  /\ Quiet /\ alert = NoAlert
         /\ screen = "home" => AtHome
         /\ screen = "detail" => AtDetail /\ DetailRight
         /\ screen = "editor" => AtEditor /\ EditorRight
         /\ screen = "days" => AtDays /\ EditorRight
<1>1. Quiet /\ alert = NoAlert /\ Last(stack) = screen
  BY DEF TapOn, Alone
<1>. QED
  BY <1>1, TapWaits, OnTop DEF Somewhere

\* A tap that writes nothing.
LEMMA TapRests ==
  ASSUME WaitingInv, Quiet,
         UNCHANGED <<docs, pending, gets, mainQueue, habits, shown, chat, checks, crashed,
                     misdirected, clock>>,
         editors' \in Seq(Editor), DOMAIN detail' = {"id", "row", "title"},
         AlertRight', Somewhere'
  PROVE  WaitingInv'
<1>1. UpToDate /\ pending = <<>> /\ gets = <<>> /\ mainQueue = <<>> /\ chat = checks
  BY TapWaits
<1>2. UpToDate'
  BY <1>1 DEF UpToDate
<1>3. Resting'
  BY <1>1, <1>2 DEF Resting
<1>. QED
  BY <1>3 DEF WaitingInv, WaitingTyped

LEMMA BackWaits ==
  ASSUME Alone, WaitingInv, Back("detail") \/ Back("days") \/ Back("editor")
  PROVE  WaitingInv'
<1>1. PICK screen \in {"detail", "days", "editor"} : Back(screen)
  OBVIOUS
<1>2. /\ TapOn(screen) /\ Show(Popped(1))
      /\ UNCHANGED <<docs, pending, gets, mainQueue, habits, selectedDays, shown, editors,
                     alert, chat, checks, misdirected, clock>>
  BY <1>1 DEF Back, firestore, shared, seen
<1>3. Quiet /\ alert = NoAlert
  BY <1>2, TapFinds
<1>4. editors' \in Seq(Editor) /\ AlertRight' /\ DOMAIN NoDetail = {"id", "row", "title"}
      /\ DOMAIN detail = {"id", "row", "title"}
  BY <1>2, <1>3 DEF WaitingInv, WaitingTyped, AlertRight, NoDetail
<1>5. CASE screen = "detail"
  <2>1. Popped(1) = <<"home">>
    BY <1>2, <1>5, TapFinds, Fewer DEF AtDetail
  <2>2. AtHome' /\ detail' = NoDetail /\ UNCHANGED crashed
    BY <1>2, <2>1, ShowHome
  <2>. QED
    BY <1>2, <1>3, <1>4, <2>2, TapRests DEF Somewhere
<1>6. CASE screen = "days"
  <2>1. AtDays /\ EditorRight
    BY <1>2, <1>6, TapFinds
  <2>2. Popped(1) = IF Opened.edit THEN <<"home", "detail", "editor">> ELSE <<"home", "editor">>
    BY <2>1, Fewer DEF AtDays
  <2>3. AtEditor' /\ UNCHANGED crashed
        /\ detail' = IF Opened.edit THEN detail ELSE NoDetail
    BY <1>2, <2>1, <2>2, ShowEditor DEF AtEditor, AtDays, Opened
  <2>4. EditorRight'
    BY <1>2, <2>1, <2>3 DEF EditorRight, Opened, DetailRight, Seen, SameHabit
  <2>. QED
    BY <1>2, <1>3, <1>4, <2>3, <2>4, TapRests DEF Somewhere
<1>7. CASE screen = "editor"
  <2>1. AtEditor /\ EditorRight
    BY <1>2, <1>7, TapFinds
  <2>2. CASE Opened.edit
    <3>1. Popped(1) = <<"home", "detail">> /\ DetailRight
      BY <2>1, <2>2, Fewer DEF AtEditor, EditorRight
    <3>2. AtDetail' /\ DetailRight' /\ DOMAIN detail' = {"id", "row", "title"}
          /\ UNCHANGED crashed
      BY <1>2, <1>3, <3>1, ShowOldDetail
    <3>. QED
      BY <1>2, <1>3, <1>4, <3>2, TapRests DEF Somewhere
  <2>3. CASE ~Opened.edit
    <3>1. Popped(1) = <<"home">>
      BY <2>1, <2>3, Fewer DEF AtEditor
    <3>2. AtHome' /\ detail' = NoDetail /\ UNCHANGED crashed
      BY <1>2, <3>1, ShowHome
    <3>. QED
      BY <1>2, <1>3, <1>4, <3>2, TapRests DEF Somewhere
  <2>. QED
    BY <2>2, <2>3
<1>. QED
  BY <1>5, <1>6, <1>7

LEMMA TheEditor ==
  ASSUME WaitingInv, editors # <<>>
  PROVE  Len(editors) \in 1 .. Len(editors) /\ Opened \in Editor
BY DEF WaitingInv, WaitingTyped, Opened

LEMMA EditorFilledIn ==
  ASSUME WaitingInv, editors # <<>>, NEW x \in Editor,
         editors' = [editors EXCEPT ![Len(editors)] = x]
  PROVE  editors' \in Seq(Editor) /\ editors' # <<>> /\ Len(editors') = Len(editors)
         /\ Opened' = x
<1>1. editors \in Seq(Editor) /\ Len(editors) \in 1 .. Len(editors)
  BY TheEditor DEF WaitingInv, WaitingTyped
<1>2. editors' \in Seq(Editor) /\ Len(editors') = Len(editors) /\ editors'[Len(editors)] = x
  BY <1>1
<1>. QED
  BY <1>1, <1>2 DEF Opened

LEMMA EditorAdded ==
  ASSUME WaitingInv, NEW x \in Editor, editors' = Append(editors, x)
  PROVE  editors' \in Seq(Editor) /\ editors' # <<>> /\ Opened' = x
<1>1. editors \in Seq(Editor)
  BY DEF WaitingInv, WaitingTyped
<1>. QED
  BY <1>1 DEF Opened

\* The habit of a row, as an editor takes it.
LEMMA RowIsHabit ==
  ASSUME WaitingInv, NEW r \in DOMAIN Listed(docs)
  PROVE  /\ Listed(docs)[r].name \in Name
         /\ EditorOf(Listed(docs)[r]) \in Editor
         /\ SameHabit(Listed(docs)[r].name, EditorOf(Listed(docs)[r]))
         /\ Listed(docs)[r].days \in DayChoice
<1> DEFINE n == Listed(docs)[r].name
<1>1. n \in Matching(docs) /\ Listed(docs)[r] = HabitOf(docs, n)
  BY DocumentsStored, RowsAreDocuments DEF WaitingInv, WaitingTyped
<1>2. n \in Name /\ IsDocument(docs[n])
      /\ docs[n] \in [type : {"document"}, data : Whole]
  BY <1>1, DocumentsStored DEF WaitingInv, WaitingTyped
<1>3. HabitOf(docs, n).added = docs[n].data.form.added
      /\ HabitOf(docs, n).checked = docs[n].data.checked
      /\ HabitOf(docs, n).days = docs[n].data.form.days
      /\ HabitOf(docs, n).name = n
  BY DEF HabitOf
<1>4. PICK h : h = Listed(docs)[r]
  OBVIOUS
<1>5. /\ h.name = n /\ h.added = docs[n].data.form.added /\ h.checked = docs[n].data.checked
      /\ h.days = docs[n].data.form.days
  BY <1>1, <1>3, <1>4
<1>6. EditorOf(h) \in Editor
  BY <1>2, <1>5 DEF EditorOf, Editor, Whole
<1>7. EditorOf(h).added = h.added /\ EditorOf(h).checked = h.checked
  BY DEF EditorOf
<1>. QED
  BY <1>2, <1>4, <1>5, <1>6, <1>7 DEF SameHabit, Whole

LEMMA OpensWait ==
  ASSUME Alone, WaitingInv,
         AddClicked \/ EditPressed \/ (\E r \in 1 .. Len(shown) : ShowDetail(r))
  PROVE  WaitingInv'
<1>1. DOMAIN detail = {"id", "row", "title"} /\ editors \in Seq(Editor)
  BY DEF WaitingInv, WaitingTyped
<1>2. CASE AddClicked
  <2>1. /\ AtHome /\ Quiet /\ alert = NoAlert
        /\ stack' = Append(stack, "editor") /\ editors' = Append(editors, NewEditor)
        /\ selectedDays' = AllDays
        /\ UNCHANGED <<docs, pending, gets, mainQueue, habits, shown, detail, alert, chat,
                       checks, crashed, misdirected, clock>>
    BY <1>2, TapFinds DEF AddClicked, firestore, seen
  <2>2. NewEditor \in Editor /\ ~NewEditor.edit /\ NewEditor.days = AllDays
    BY AppAssumption DEF NewEditor, Editor
  <2>3. editors' \in Seq(Editor) /\ editors' # <<>> /\ Opened' = NewEditor
    BY <2>1, <2>2, EditorAdded
  <2>4. stack' = <<"home", "editor">>
    BY <2>1, Pushed DEF AtHome
  <2>5. AtEditor' /\ EditorRight' /\ AlertRight'
    BY <2>1, <2>2, <2>3, <2>4 DEF AtEditor, EditorRight, AlertRight
  <2>. QED
    BY <1>1, <2>1, <2>3, <2>5, TapRests DEF Somewhere
<1>3. ASSUME NEW r \in 1 .. Len(shown), ShowDetail(r) PROVE WaitingInv'
  <2>1. AtHome /\ Quiet /\ alert = NoAlert
    BY <1>3, TapFinds DEF ShowDetail
  <2>2. Row(r) /\ r \in DOMAIN Listed(docs) /\ habits = Listed(docs)
    BY <2>1, TapWaits DEF UpToDate
  <2>3. /\ stack' = Append(stack, "detail")
        /\ detail' = [id |-> taps + 1, row |-> r, title |-> habits[r].name]
        /\ UNCHANGED <<docs, pending, gets, mainQueue, habits, shown, editors, alert, chat,
                       checks, crashed, misdirected, clock>>
    BY <1>3, <2>2 DEF ShowDetail, firestore, seen, shared
  <2>4. AtDetail' /\ AlertRight'
    BY <2>1, <2>3, Pushed DEF AtHome, AtDetail, AlertRight
  <2>5. DetailRight' /\ DOMAIN detail' = {"id", "row", "title"}
    BY <2>2, <2>3 DEF DetailRight, Seen
  <2>. QED
    BY <1>1, <2>1, <2>3, <2>4, <2>5, TapRests DEF Somewhere
<1>4. CASE EditPressed
  <2>1. AtDetail /\ DetailRight /\ Quiet /\ alert = NoAlert
    BY <1>4, TapFinds DEF EditPressed
  <2>2. /\ Row(detail.row) /\ detail.row \in DOMAIN Listed(docs)
        /\ habits[detail.row] = Listed(docs)[detail.row]
    BY <2>1, TapWaits DEF DetailRight, Seen, UpToDate
  <2>3. PICK h : h = Listed(docs)[detail.row]
    OBVIOUS
  <2>4. /\ stack' = Append(stack, "editor") /\ editors' = Append(editors, EditorOf(h))
        /\ selectedDays' = h.days
        /\ UNCHANGED <<docs, pending, gets, mainQueue, habits, shown, detail, alert, chat,
                       checks, crashed, misdirected, clock>>
    BY <1>4, <2>2, <2>3 DEF EditPressed, firestore, seen
  <2>5. EditorOf(h) \in Editor /\ SameHabit(h.name, EditorOf(h))
    BY <2>2, <2>3, RowIsHabit
  <2>6. editors' \in Seq(Editor) /\ editors' # <<>> /\ Opened' = EditorOf(h)
    BY <2>4, <2>5, EditorAdded
  <2>7. EditorOf(h).edit /\ EditorOf(h).previous = h.name /\ EditorOf(h).days = h.days
    BY DEF EditorOf
  <2>8. AtEditor' /\ AlertRight'
    <3>1. stack' = <<"home", "detail", "editor">>
      BY <2>1, <2>4, Pushed DEF AtDetail
    <3>. QED
      BY <2>1, <2>4, <2>6, <2>7, <3>1 DEF AtEditor, AlertRight
  <2>9. EditorRight'
    <3>1. DetailRight'
      BY <2>1, <2>4 DEF DetailRight, Seen
    <3>2. SameHabit(Opened.previous, Opened)'
      BY <2>4, <2>5, <2>6, <2>7 DEF SameHabit
    <3>. QED
      BY <2>4, <2>6, <2>7, <3>1, <3>2 DEF EditorRight
  <2>. QED
    BY <1>1, <2>1, <2>4, <2>6, <2>8, <2>9, TapRests DEF Somewhere
<1>. QED
  BY <1>2, <1>3, <1>4

LEMMA AlertsWait ==
  ASSUME Alone, WaitingInv,
         \/ (\E r \in 1 .. Len(shown) : DeleteSwiped(r))
         \/ DeletePressed \/ DeleteCancelled \/ CalendarScrolled
  PROVE  WaitingInv'
<1>1. DOMAIN detail = {"id", "row", "title"} /\ editors \in Seq(Editor)
  BY DEF WaitingInv, WaitingTyped
<1>2. ASSUME NEW r \in 1 .. Len(shown), DeleteSwiped(r) PROVE WaitingInv'
  <2>1. AtHome /\ Quiet
    BY <1>2, TapFinds DEF DeleteSwiped
  <2>2. r \in DOMAIN Listed(docs) /\ shown = Listed(docs)
    BY <2>1, TapWaits DEF UpToDate
  <2>3. /\ alert' = [from |-> "home", row |-> r, meant |-> shown[r].name, id |-> 0]
        /\ UNCHANGED <<docs, pending, gets, mainQueue, habits, shown, stack, detail, editors,
                       chat, checks, crashed, misdirected, clock>>
    BY <1>2 DEF DeleteSwiped, firestore, seen, shared
  <2>4. AtHome' /\ AlertRight'
    BY <2>1, <2>2, <2>3 DEF AtHome, AlertRight, Seen
  <2>. QED
    BY <1>1, <2>1, <2>3, <2>4, TapRests DEF Somewhere
<1>3. CASE DeletePressed
  <2>1. AtDetail /\ DetailRight /\ Quiet
    BY <1>3, TapFinds DEF DeletePressed
  <2>2. /\ alert' = [from |-> "detail", row |-> detail.row, meant |-> detail.title,
                     id |-> detail.id]
        /\ UNCHANGED <<docs, pending, gets, mainQueue, habits, shown, stack, detail, editors,
                       chat, checks, crashed, misdirected, clock>>
    BY <1>3 DEF DeletePressed, firestore, seen, shared
  <2>3. AtDetail' /\ DetailRight' /\ AlertRight'
    BY <2>1, <2>2 DEF AtDetail, DetailRight, AlertRight, Seen
  <2>. QED
    BY <1>1, <2>1, <2>2, <2>3, TapRests DEF Somewhere
<1>4. CASE DeleteCancelled
  <2>1. /\ alert # NoAlert /\ Quiet /\ alert' = NoAlert
        /\ UNCHANGED <<docs, pending, gets, mainQueue, habits, selectedDays, shown, stack,
                       detail, editors, chat, checks, crashed, misdirected, clock>>
    BY <1>4 DEF DeleteCancelled, TapAlert, Alone, firestore, seen, shared
  <2>2. Somewhere
    BY <2>1, TapWaits
  <2>3. Somewhere' /\ AlertRight'
    BY <2>1, <2>2 DEF Somewhere, AtHome, AtDetail, DetailRight, Seen, AlertRight
  <2>. QED
    BY <1>1, <2>1, <2>3, TapRests
<1>5. ~CalendarScrolled
  <2>1. SUFFICES ASSUME CalendarScrolled PROVE FALSE
    OBVIOUS
  <2>2. DetailRight /\ Quiet /\ ~Row(detail.row)
    BY <2>1, TapFinds DEF CalendarScrolled
  <2>. QED
    BY <2>2, TapWaits DEF DetailRight, Seen
<1>. QED
  BY <1>2, <1>3, <1>4, <1>5

LEMMA FormsWait ==
  ASSUME Alone, WaitingInv,
         (\E n \in Name : TypeName(n)) \/ DaysPressed \/ DayToggled
  PROVE  WaitingInv'
<1>1. DOMAIN detail = {"id", "row", "title"} /\ editors \in Seq(Editor)
  BY DEF WaitingInv, WaitingTyped
<1>2. ASSUME NEW n \in Name, TypeName(n) PROVE WaitingInv'
  <2>1. AtEditor /\ EditorRight /\ Quiet /\ alert = NoAlert
    BY <1>2, TapFinds DEF TypeName
  <2>2. PICK x : x = [Opened EXCEPT !.input = n]
    OBVIOUS
  <2>3. /\ editors' = [editors EXCEPT ![Len(editors)] = x]
        /\ UNCHANGED <<docs, pending, gets, mainQueue, habits, selectedDays, shown, stack,
                       detail, alert, chat, checks, crashed, misdirected, clock>>
    BY <1>2, <2>2 DEF TypeName, OpenEditor, Opened, firestore, seen, shared
  <2>4. Opened \in Editor /\ editors # <<>>
    BY <2>1, TheEditor DEF AtEditor
  <2>5. /\ x \in Editor /\ x.edit = Opened.edit /\ x.days = Opened.days
        /\ x.previous = Opened.previous /\ x.added = Opened.added /\ x.checked = Opened.checked
    BY <2>2, <2>4 DEF Editor
  <2>6. editors' \in Seq(Editor) /\ editors' # <<>> /\ Opened' = x
    BY <2>3, <2>4, <2>5, EditorFilledIn
  <2>7. AtEditor'
    BY <2>1, <2>3, <2>5, <2>6 DEF AtEditor
  <2>8. EditorRight'
    BY <2>1, <2>3, <2>5, <2>6 DEF EditorRight, DetailRight, Seen, SameHabit
  <2>. QED
    BY <1>1, <2>1, <2>3, <2>6, <2>7, <2>8, TapRests DEF Somewhere, AlertRight
<1>3. CASE DaysPressed
  <2>1. AtEditor /\ EditorRight /\ Quiet /\ alert = NoAlert
    BY <1>3, TapFinds DEF DaysPressed
  <2>2. /\ stack' = Append(stack, "days")
        /\ UNCHANGED <<docs, pending, gets, mainQueue, habits, selectedDays, shown, detail,
                       editors, alert, chat, checks, crashed, misdirected, clock>>
    BY <1>3 DEF DaysPressed, firestore, seen, shared
  <2>3. AtDays'
    <3>1. CASE Opened.edit
      <4>1. stack' = <<"home", "detail", "editor", "days">>
        BY <2>1, <2>2, <3>1, Pushed DEF AtEditor
      <4>. QED
        BY <2>1, <2>2, <3>1, <4>1 DEF AtEditor, AtDays, Opened
    <3>2. CASE ~Opened.edit
      <4>1. stack' = <<"home", "editor", "days">>
        BY <2>1, <2>2, <3>2, Pushed DEF AtEditor
      <4>. QED
        BY <2>1, <2>2, <3>2, <4>1 DEF AtEditor, AtDays, Opened
    <3>. QED
      BY <3>1, <3>2
  <2>4. EditorRight'
    BY <2>1, <2>2 DEF EditorRight, DetailRight, Seen, SameHabit, Opened
  <2>. QED
    BY <1>1, <2>1, <2>2, <2>3, <2>4, TapRests DEF Somewhere, AlertRight
<1>4. CASE DayToggled
  <2>1. AtDays /\ EditorRight /\ Quiet /\ alert = NoAlert
    BY <1>4, TapFinds DEF DayToggled
  <2>2. PICK x : x = [Opened EXCEPT !.days = selectedDays']
    OBVIOUS
  <2>3. /\ editors' = [editors EXCEPT ![Len(editors)] = x] /\ selectedDays' \in DayChoice
        /\ UNCHANGED <<docs, pending, gets, mainQueue, habits, shown, stack,
                       detail, alert, chat, checks, crashed, misdirected, clock>>
    BY <1>4, <2>2 DEF DayToggled, OpenEditor, Opened, firestore, seen
  <2>4. Opened \in Editor /\ editors # <<>>
    BY <2>1, TheEditor DEF AtDays
  <2>5. /\ x \in Editor /\ x.edit = Opened.edit /\ x.days = selectedDays'
        /\ x.previous = Opened.previous /\ x.added = Opened.added /\ x.checked = Opened.checked
    BY <2>2, <2>3, <2>4 DEF Editor
  <2>6. editors' \in Seq(Editor) /\ editors' # <<>> /\ Opened' = x
    BY <2>3, <2>4, <2>5, EditorFilledIn
  <2>7. AtDays'
    BY <2>1, <2>3, <2>5, <2>6 DEF AtDays
  <2>8. EditorRight'
    BY <2>1, <2>3, <2>5, <2>6 DEF EditorRight, DetailRight, Seen, SameHabit
  <2>. QED
    BY <1>1, <2>1, <2>3, <2>6, <2>7, <2>8, TapRests DEF Somewhere, AlertRight
<1>. QED
  BY <1>2, <1>3, <1>4

-----------------------------------------------------------------------------
(* Writes                                                                  *)

LEMMA Deleted ==
  ASSUME docs \in [Name -> Stored], NEW n \in Name, docs' = After(n, DeleteMutation)
  PROVE  /\ docs' \in [Name -> Stored]
         /\ ~IsDocument(docs'[n])
         /\ \A m \in Name \ {n} : docs'[m] = docs[m]
<1>1. docs' = [docs EXCEPT ![n] = NoDocument]
  BY DEF After, ApplyToLocalView, IsValidFor, Result, DeleteMutation
<1>. QED
  BY <1>1 DEF Stored, IsDocument, NoDocument

LEMMA Saved ==
  ASSUME docs \in [Name -> Stored], NEW n \in Name,
         NEW data \in Whole,
         docs' = After(n, SetMutation(data))
  PROVE  /\ docs' \in [Name -> Stored]
         /\ docs'[n] = Document(data) /\ IsDocument(docs'[n]) /\ docs'[n].data = data
         /\ \A m \in Name \ {n} : docs'[m] = docs[m]
<1>1. ApplyToLocalView(SetMutation(data), docs[n]) = Document(data)
  BY DEF ApplyToLocalView, IsValidFor, Result, Written, SetMutation
<1>2. docs' = [docs EXCEPT ![n] = Document(data)]
  BY <1>1 DEF After
<1>3. Document(data) \in Stored /\ IsDocument(Document(data)) /\ Document(data).data = data
  BY DEF Stored, Document, IsDocument
<1>. QED
  BY <1>2, <1>3

LEMMA Ticked ==
  ASSUME docs \in [Name -> Stored], NEW n \in Name, IsDocument(docs[n]),
         NEW m \in {CheckMutation(Today), UncheckMutation(Today)},
         docs' = After(n, m)
  PROVE  /\ docs' \in [Name -> Stored]
         /\ \A k \in Name : IsDocument(docs'[k]) <=> IsDocument(docs[k])
         /\ \A k \in Name : docs'[k].data.form = docs[k].data.form
<1>1. docs[n] \in [type : {"document"}, data : Whole]
  BY DocumentsStored
<1>2. PICK data \in Whole :
        data = docs[n].data
  BY <1>1
<1>3. PICK c \in SUBSET Day : Written(m, data) = [data EXCEPT !.checked = c]
  <2>1. Today \in Day
    BY AppAssumption
  <2>2. data.checked \in SUBSET Day
    BY DEF Whole
  <2>3. CASE m = CheckMutation(Today)
    <3>1. Written(m, data) = [data EXCEPT !.checked = data.checked \cup {Today}]
      BY <2>3 DEF Written, CheckMutation
    <3>. QED
      BY <2>1, <2>2, <3>1
  <2>4. CASE m = UncheckMutation(Today)
    <3>1. Written(m, data) = [data EXCEPT !.checked = data.checked \ {Today}]
      BY <2>4 DEF Written, UncheckMutation
    <3>. QED
      BY <2>2, <3>1
  <2>. QED
    BY <2>3, <2>4
<1>4. Written(m, data) \in Whole
      /\ Written(m, data).form = data.form
  BY <1>2, <1>3 DEF Whole
<1>5. ApplyToLocalView(m, docs[n]) = Document(Written(m, data))
  BY <1>2 DEF ApplyToLocalView, IsValidFor, Result, CheckMutation, UncheckMutation
<1>6. docs' = [docs EXCEPT ![n] = Document(Written(m, data))]
  BY <1>5 DEF After
<1>7. /\ Document(Written(m, data)) \in Stored /\ IsDocument(Document(Written(m, data)))
      /\ Document(Written(m, data)).data.form = docs[n].data.form
  BY <1>2, <1>4 DEF Stored, Document, IsDocument
<1>. QED
  BY <1>6, <1>7

\* A write is made while nothing else is under way.
LEMMA WriteMade ==
  ASSUME UpToDate, pending = <<>>, NEW op, pending' = Append(pending, op),
         mainQueue' = Notified(<<>>, docs'), UNCHANGED <<habits, shown>>
  PROVE  Underway(op)'
<1>1. pending' = <<op>>
  OBVIOUS
<1>. QED
  BY <1>1, ListTold DEF Underway

\* What a step does to the habits.
Habits ==
  \/ UNCHANGED docs
  \/ /\ Last(stack) = "home"
     /\ \E n \in Name : \E m \in {CheckMutation(Today), UncheckMutation(Today)} :
          IsDocument(docs[n]) /\ docs' = After(n, m)
  \/ alert # NoAlert /\ \E n \in Name : docs' = After(n, DeleteMutation)
  \/ \E n \in Name :
       \E data \in Whole :
         /\ docs' = After(n, SetMutation(data))
         /\ IsDocument(docs[n]) => /\ data.form.added = docs[n].data.form.added
                                   /\ data.checked = docs[n].data.checked
  \/ \E n \in Name : \E m \in Name \ {n} :
       /\ docs' = After(n, DeleteMutation)
       /\ IsDocument(docs[m])
       /\ docs[m].data.form.added = docs[n].data.form.added
       /\ docs[m].data.checked = docs[n].data.checked

LEMMA RowsWait ==
  ASSUME Alone, WaitingInv, NEW r \in 1 .. Len(shown), Done(r) \/ Undo(r)
  PROVE  WaitingInv' /\ Habits
<1>1. AtHome /\ Quiet /\ alert = NoAlert /\ Last(stack) = "home"
  BY TapFinds, OnTop DEF Done, Undo
<1>2. /\ Row(r) /\ r \in DOMAIN Listed(docs) /\ habits = Listed(docs) /\ shown = Listed(docs)
      /\ pending = <<>> /\ gets = <<>> /\ mainQueue = <<>> /\ chat = checks /\ UpToDate
  BY <1>1, TapWaits DEF UpToDate
<1>3. /\ docs \in [Name -> Stored] /\ editors \in Seq(Editor) /\ clock \in Nat
      /\ chat \in Seq(Name) /\ DOMAIN detail = {"id", "row", "title"}
      /\ crashed = "no" /\ ~misdirected
  BY DEF WaitingInv, WaitingTyped
<1>4. PICK n : n = Listed(docs)[r].name
  OBVIOUS
<1>5. n \in Name /\ IsDocument(docs[n])
  BY <1>2, <1>4, RowIsHabit DEF SameHabit
<1>6. PICK m \in {CheckMutation(Today), UncheckMutation(Today)} :
        /\ docs' = After(n, m) /\ mainQueue' = Notified(mainQueue, docs')
        /\ misdirected' = (misdirected \/ n # shown[r].name)
        /\ UNCHANGED <<gets, habits, shown, stack, detail, editors, alert, crashed, chat, clock>>
        /\ \/ /\ Done(r) /\ checks' = Append(checks, n)
              /\ pending' = Append(pending, Op("check", r))
           \/ UNCHANGED <<checks, pending>>
  <2>1. CASE Done(r)
    BY <1>2, <1>4, <2>1 DEF Done, shared, screens
  <2>2. CASE Undo(r)
    BY <1>2, <1>4, <2>2 DEF Undo, shared, screens
  <2>. QED
    BY <2>1, <2>2
<1>7. /\ docs' \in [Name -> Stored]
      /\ \A k \in Name : IsDocument(docs'[k]) <=> IsDocument(docs[k])
      /\ \A k \in Name : docs'[k].data.form = docs[k].data.form
  BY <1>3, <1>5, <1>6, Ticked
<1>8. r \in DOMAIN Listed(docs') /\ Listed(docs')[r].name = n
  <2>1. Numbered(docs)
    BY <1>3, DocumentsStored
  <2>. QED
    BY <1>2, <1>4, <1>7, <2>1, RowsKept
<1>9. ~misdirected' /\ Habits
  BY <1>1, <1>2, <1>3, <1>4, <1>5, <1>6 DEF Habits
<1>10. AtHome' /\ alert' = NoAlert /\ gets' = <<>> /\ UNCHANGED <<habits, shown>>
       /\ mainQueue' = Notified(<<>>, docs')
  BY <1>1, <1>2, <1>6 DEF AtHome
<1>11. CASE /\ Done(r) /\ checks' = Append(checks, n)
            /\ pending' = Append(pending, Op("check", r))
  <2>1. Underway(Op("check", r))'
    BY <1>2, <1>10, <1>11, WriteMade
  <2>2. Started(Op("check", r))'
    BY <1>2, <1>6, <1>8, <1>10, <1>11 DEF Started, Op
  <2>3. Writing'
    BY <1>10, <2>1, <2>2 DEF Writing
  <2>4. checks' \in Seq(Name) /\ chat' \in Seq(Name)
    BY <1>2, <1>3, <1>5, <1>6, <1>11
  <2>. QED
    BY <1>3, <1>6, <1>7, <1>9, <2>3, <2>4 DEF WaitingInv, WaitingTyped
<1>12. CASE UNCHANGED <<checks, pending>>
  <2>1. \/ mainQueue' = <<>> /\ UpToDate'
        \/ mainQueue' = <<News>>'
    BY <1>2, <1>10, ListTold
  <2>2. Resting'
    BY <1>2, <1>6, <1>10, <1>12, <2>1 DEF Resting, AlertRight, Somewhere
  <2>. QED
    BY <1>3, <1>6, <1>7, <1>9, <2>2 DEF WaitingInv, WaitingTyped
<1>. QED
  BY <1>6, <1>9, <1>11, <1>12

LEMMA DeleteWaits ==
  ASSUME Alone, WaitingInv, DeleteConfirmed
  PROVE  WaitingInv' /\ Habits
<1>1. Quiet /\ alert # NoAlert
  BY DEF DeleteConfirmed, TapAlert, Alone
<1>2. /\ habits = Listed(docs) /\ pending = <<>> /\ gets = <<>> /\ mainQueue = <<>>
      /\ chat = checks /\ UpToDate /\ AlertRight
  BY <1>1, TapWaits DEF UpToDate
<1>3. /\ docs \in [Name -> Stored] /\ editors \in Seq(Editor) /\ clock \in Nat
      /\ chat \in Seq(Name) /\ DOMAIN detail = {"id", "row", "title"}
      /\ crashed = "no" /\ ~misdirected
  BY DEF WaitingInv, WaitingTyped
<1>4. Seen(alert.row, alert.meant)
  BY <1>1, <1>2 DEF AlertRight
<1>5. Row(alert.row) /\ alert.row \in DOMAIN Listed(docs)
  BY <1>1, <1>4, TapWaits DEF Seen
<1>6. PICK n : n = Listed(docs)[alert.row].name
  OBVIOUS
<1>7. n \in Name /\ n = alert.meant
  BY <1>4, <1>5, <1>6, RowIsHabit DEF Seen
<1>8. PICK op : op = IF alert.from = "home" THEN Op("deleteHome", 0)
                     ELSE Op("deleteDetail", alert.id)
  OBVIOUS
<1>9. /\ docs' = After(n, DeleteMutation) /\ mainQueue' = Notified(<<>>, docs')
      /\ misdirected' = (misdirected \/ n # alert.meant)
      /\ pending' = Append(pending, op) /\ alert' = NoAlert
      /\ UNCHANGED <<gets, habits, shown, stack, detail, editors, crashed, chat, checks, clock>>
  BY <1>2, <1>5, <1>6, <1>8 DEF DeleteConfirmed, shared
<1>10. Underway(op)'
  BY <1>2, <1>9, WriteMade
<1>11. Writing'
  <2>1. CASE alert.from = "home" /\ AtHome
    <3>1. op = Op("deleteHome", 0) /\ AtHome' /\ chat' = checks'
      BY <1>2, <1>8, <1>9, <2>1 DEF AtHome
    <3>2. Started(Op("deleteHome", 0))'
      BY <3>1 DEF Started, Op
    <3>. QED
      BY <1>2, <1>9, <1>10, <3>1, <3>2 DEF Writing
  <2>2. CASE alert.from = "detail" /\ AtDetail /\ alert.id = detail.id
    <3>1. PICK id : id = detail.id
      OBVIOUS
    <3>2. op = Op("deleteDetail", id) /\ AtDetail' /\ chat' = checks' /\ detail'.id = id
      BY <1>2, <1>8, <1>9, <2>2, <3>1 DEF AtDetail
    <3>3. Started(Op("deleteDetail", id))'
      BY <3>2 DEF Started, Op
    <3>. QED
      BY <1>2, <1>9, <1>10, <3>2, <3>3 DEF Writing
  <2>. QED
    BY <1>1, <1>2, <2>1, <2>2 DEF AlertRight
<1>12. docs' \in [Name -> Stored]
  BY <1>3, <1>7, <1>9, Deleted
<1>. QED
  BY <1>1, <1>3, <1>7, <1>9, <1>11, <1>12 DEF WaitingInv, WaitingTyped, Habits

\* What an editor writes, under a name that is free or its own.
LEMMA SaveWaits ==
  ASSUME WaitingInv, UpToDate, AtEditor, EditorRight, pending = <<>>, gets' = <<>>,
         alert = NoAlert, chat = checks,
         NEW n \in Name, n = Opened.input, NEW added \in Nat,
         NEW kind \in SaveKind, Opened.edit <=> kind # "add",
         Opened.edit => added = Opened.added /\ (n = Opened.previous <=> kind = "edit"),
         \/ n = Opened.previous /\ Opened.edit
         \/ ~IsDocument(docs[n]),
         SavedUnder(<<>>, Len(editors), n, added, kind, n),
         clock' \in Nat,
         UNCHANGED <<habits, shown, stack, detail, editors, alert, crashed, selectedDays,
                     chat, checks>>
  PROVE  WaitingInv' /\ Habits
<1>1. /\ docs \in [Name -> Stored] /\ editors \in Seq(Editor) /\ clock \in Nat
      /\ chat \in Seq(Name) /\ DOMAIN detail = {"id", "row", "title"}
      /\ crashed = "no" /\ ~misdirected
  BY DEF WaitingInv, WaitingTyped
<1>2. PICK e : e = Len(editors)
  OBVIOUS
<1>3. editors # <<>> /\ Opened \in Editor /\ selectedDays = Opened.days /\ editors[e] = Opened
  BY <1>2, TheEditor DEF AtEditor, EditorRight, Opened
<1>4. PICK data \in Whole :
        data = Filled(e, added)
  BY <1>3 DEF Filled, Editor, Whole
<1>5. data.form.added = added /\ data.checked = Opened.checked
  BY <1>3, <1>4 DEF Filled
<1>6. /\ docs' = After(n, SetMutation(data)) /\ ~misdirected'
      /\ mainQueue' = Notified(<<>>, docs') /\ pending' = Append(pending, Op(kind, e))
  BY <1>1, <1>2, <1>3, <1>4 DEF SavedUnder
<1>7. /\ docs' \in [Name -> Stored] /\ IsDocument(docs'[n]) /\ docs'[n].data = data
      /\ \A m \in Name \ {n} : docs'[m] = docs[m]
  BY <1>1, <1>6, Saved
<1>8. Underway(Op(kind, e))'
  BY <1>6, WriteMade
<1>9. AtEditor' /\ Opened' = Opened /\ Len(editors') = e
  BY <1>2 DEF AtEditor, Opened
<1>10. ASSUME kind = "rename"
       PROVE  SameHabit(Opened.previous, Opened)' /\ SameHabit(Opened.input, Opened)'
              /\ Opened'.input # Opened'.previous
  <2>1. Opened.edit /\ n # Opened.previous /\ added = Opened.added
    BY <1>10
  <2>2. SameHabit(Opened.previous, Opened)
    BY <2>1 DEF EditorRight
  <2>3. Opened.previous \in Name /\ docs'[Opened.previous] = docs[Opened.previous]
    BY <1>7, <2>1, <2>2 DEF SameHabit
  <2>4. SameHabit(Opened.previous, Opened)'
    BY <1>9, <2>2, <2>3 DEF SameHabit
  <2>5. SameHabit(Opened.input, Opened)'
    BY <1>5, <1>7, <1>9, <2>1 DEF SameHabit
  <2>. QED
    BY <1>9, <2>1, <2>4, <2>5
<1>11. Started(Op(kind, e))'
  BY <1>9, <1>10 DEF Started, Op
<1>12. Writing'
  BY <1>8, <1>11 DEF Writing
<1>13. IsDocument(docs[n]) => /\ data.form.added = docs[n].data.form.added
                              /\ data.checked = docs[n].data.checked
  BY <1>5 DEF EditorRight, SameHabit
<1>. QED
  BY <1>1, <1>6, <1>7, <1>12, <1>13 DEF WaitingInv, WaitingTyped, Habits

LEMMA ShortQueues ==
  ASSUME NEW a, NEW b
  PROVE  /\ Head(<<a>>) = a /\ Tail(<<a>>) = <<>>
         /\ Head(<<a, b>>) = a /\ Tail(<<a, b>>) = <<b>>
         /\ Append(<<>>, a) = <<a>> /\ Append(<<a>>, b) = <<a, b>>
<1>1. Tail(<<a>>) = <<>>
  OBVIOUS
<1>2. Tail(<<a, b>>) = <<b>>
  <2>1. PICK t : t = Tail(<<a, b>>)
    OBVIOUS
  <2>2. PICK s : s = <<a, b>>
    OBVIOUS
  <2>3. s \in Seq({a, b}) /\ Len(s) = 2 /\ s[2] = b /\ s # <<>>
    BY <2>2
  <2>4. t \in Seq({a, b})
    BY <2>1, <2>2, <2>3
  <2>5. Len(t) = 1 /\ t[1] = b
    BY <2>1, <2>2, <2>3
  <2>6. t = <<t[1]>>
    BY <2>4, <2>5, Spelled
  <2>. QED
    BY <2>1, <2>5, <2>6
<1>3. Head(<<a>>) = a /\ Head(<<a, b>>) = a
  OBVIOUS
<1>4. Append(<<>>, a) = <<a>>
  OBVIOUS
<1>5. Append(<<a>>, b) = <<a, b>>
  <2>1. <<a>> \in Seq({a, b}) /\ Len(<<a>>) = 1 /\ <<a>>[1] = a
    OBVIOUS
  <2>. QED
    BY <2>1, Extended
<1>. QED
  BY <1>1, <1>2, <1>3, <1>4, <1>5

LEMMA SavePressWaits ==
  ASSUME Alone, WaitingInv, SavePressed
  PROVE  WaitingInv' /\ Habits
<1>1. AtEditor /\ EditorRight /\ Quiet /\ alert = NoAlert /\ Opened.input # NoName
  BY TapFinds DEF SavePressed, OpenEditor, Opened
<1>2. /\ pending = <<>> /\ gets = <<>> /\ mainQueue = <<>> /\ chat = checks /\ UpToDate
  BY <1>1, TapWaits
<1>3. /\ docs \in [Name -> Stored] /\ editors \in Seq(Editor) /\ clock \in Nat
      /\ chat \in Seq(Name) /\ DOMAIN detail = {"id", "row", "title"}
      /\ crashed = "no" /\ ~misdirected
  BY DEF WaitingInv, WaitingTyped
<1>4. editors # <<>> /\ Opened \in Editor /\ Opened.input \in Name /\ Opened.added \in Nat
  BY <1>1, TheEditor DEF AtEditor, Editor
<1>5. UNCHANGED <<habits, selectedDays, shown, stack, detail, editors, alert, crashed, chat,
                  checks, clock>>
  BY DEF SavePressed, shared, screens
<1>6. CASE /\ Opened.edit /\ Opened.input = Opened.previous
           /\ SavedUnder(mainQueue, Len(editors), Opened.input, Opened.added, "edit",
                         Opened.input)
           /\ UNCHANGED gets
  <2>1. PICK n \in Name : n = Opened.input
    BY <1>4
  <2>2. PICK added \in Nat : added = Opened.added
    BY <1>4
  <2>3. /\ Opened.edit /\ n = Opened.previous /\ gets' = <<>>
        /\ SavedUnder(<<>>, Len(editors), n, added, "edit", n)
    BY <1>2, <1>6, <2>1, <2>2
  <2>4. "edit" \in SaveKind /\ clock' \in Nat
    BY <1>3, <1>5 DEF SaveKind
  <2>. QED
    BY <1>1, <1>2, <1>5, <2>1, <2>2, <2>3, <2>4, SaveWaits
<1>7. CASE /\ ~Opened.edit \/ Opened.input # Opened.previous
           /\ gets' = Append(gets, Lookup)
           /\ UNCHANGED <<docs, pending, mainQueue, misdirected>>
  <2>1. gets' = <<Lookup>> /\ mainQueue' = <<>>
    BY <1>2, <1>7, ShortQueues
  <2>2. AtEditor' /\ UpToDate' /\ Opened' = Opened /\ Lookup' = Lookup
    BY <1>1, <1>2, <1>5, <1>7 DEF AtEditor, UpToDate, Opened, Lookup
  <2>3. EditorRight'
    BY <1>1, <1>5, <1>7, <2>2 DEF EditorRight, DetailRight, Seen, SameHabit
  <2>4. Asking'
    BY <1>1, <1>2, <1>4, <1>5, <1>7, <2>1, <2>2, <2>3 DEF Asking
  <2>. QED
    BY <1>3, <1>5, <1>7, <2>4 DEF WaitingInv, WaitingTyped, Habits
<1>. QED
  BY <1>6, <1>7 DEF SavePressed, OpenEditor, Opened, Lookup

-----------------------------------------------------------------------------
(* The main queue                                                          *)

\* The blocks there can be, and what is under way with them.
LEMMA BlocksThereAre ==
  ASSUME WaitingInv, mainQueue # <<>>
  PROVE  \/ /\ Resting /\ AtHome /\ alert = NoAlert
            /\ \/ mainQueue = <<News>>
               \/ mainQueue = <<Reload, News>>
               \/ mainQueue = <<Reload>> /\ habits = Listed(docs)
         \/ Asking /\ mainQueue = <<Found(Lookup, IsDocument(docs[Opened.input]))>>
         \/ Writing
BY DEF WaitingInv, Resting, Asking

LEMMA ListWaits ==
  ASSUME WaitingInv, HearOfHabits \/ ReloadTable
  PROVE  WaitingInv' /\ Habits
<1>1. /\ mainQueue # <<>> /\ Head(mainQueue).type \in {"snapshot", "reload"}
      /\ UNCHANGED <<docs, pending, gets, selectedDays, stack, detail, editors, alert,
                     crashed, chat, checks, misdirected, clock>>
  BY DEF HearOfHabits, ReloadTable, Reload, firestore, shared, screens, seen
<1>2. /\ Head(mainQueue) = News =>
           /\ habits' = Listed(docs') /\ UNCHANGED shown
           /\ mainQueue' = Append(Tail(mainQueue), Reload)
      /\ Head(mainQueue) = Reload =>
           /\ shown' = habits /\ UNCHANGED habits
           /\ mainQueue' = Tail(mainQueue)
  BY <1>1 DEF HearOfHabits, ReloadTable, News, Snapshot, Reload, screens, shared
<1>3. WaitingTyped' /\ crashed' = "no" /\ ~misdirected'
  BY <1>1 DEF WaitingInv, WaitingTyped
<1>4. News' = News /\ (AtHome => AtHome')
  BY <1>1 DEF News, AtHome
<1>5. ~Asking
  BY <1>1, ShortQueues DEF Asking, Found
<1>6. CASE /\ Resting /\ AtHome /\ alert = NoAlert
           /\ \/ mainQueue = <<News>>
              \/ mainQueue = <<Reload, News>>
              \/ mainQueue = <<Reload>> /\ habits = Listed(docs)
  <2>1. /\ AtHome' /\ alert' = NoAlert /\ pending' = <<>> /\ gets' = <<>> /\ chat' = checks'
    BY <1>1, <1>4, <1>6 DEF Resting
  <2>2. \/ mainQueue' = <<Reload>> /\ habits' = Listed(docs')
        \/ mainQueue' = <<News>>'
        \/ mainQueue' = <<>> /\ UpToDate'
    <3>1. CASE mainQueue = <<News>>
      BY <1>2, <3>1, ShortQueues
    <3>2. CASE mainQueue = <<Reload, News>>
      BY <1>2, <1>4, <3>2, ShortQueues
    <3>3. CASE mainQueue = <<Reload>> /\ habits = Listed(docs)
      BY <1>1, <1>2, <3>3, ShortQueues DEF UpToDate
    <3>. QED
      BY <1>6, <3>1, <3>2, <3>3
  <2>3. Resting'
    BY <2>1, <2>2 DEF Resting, AlertRight, Somewhere
  <2>. QED
    BY <1>1, <1>3, <2>3 DEF WaitingInv, Habits
<1>7. CASE Writing
  <2>1. PICK kind, ref : Underway(Op(kind, ref)) /\ Started(Op(kind, ref))
    BY <1>7 DEF Writing
  <2>2. PICK op : op = Op(kind, ref)
    OBVIOUS
  <2>3. Head(mainQueue) # Completion(op)
    BY <1>1 DEF Completion
  <2>4. Underway(op)'
    <3>1. CASE /\ pending = <<op>>
               /\ \/ mainQueue = <<News>>
                  \/ mainQueue = <<Reload>> /\ habits = Listed(docs)
      BY <1>1, <1>2, <3>1, ShortQueues DEF Underway, UpToDate
    <3>2. CASE pending = <<>> /\ mainQueue = <<News, Completion(op)>>
      BY <1>1, <1>2, <3>2, ShortQueues DEF Underway
    <3>3. CASE /\ pending = <<>> /\ mainQueue = <<Reload, Completion(op)>>
               /\ habits = Listed(docs)
      BY <1>1, <1>2, <3>3, ShortQueues DEF Underway, UpToDate
    <3>. QED
      BY <1>1, <2>1, <2>2, <2>3, <3>1, <3>2, <3>3, ShortQueues DEF Underway
  <2>5. Started(op)'
    BY <1>1, <2>1, <2>2 DEF Started, AtHome, AtDetail, AtEditor, Opened, SameHabit
  <2>6. Writing'
    BY <1>1, <1>7, <2>2, <2>4, <2>5 DEF Writing
  <2>. QED
    BY <1>1, <1>3, <2>6 DEF WaitingInv, Habits
<1>. QED
  BY <1>1, <1>5, <1>6, <1>7, BlocksThereAre

LEMMA FirestoreWaits ==
  ASSUME WaitingInv, WriteResolves \/ GetResolves
  PROVE  WaitingInv' /\ Habits
<1>1. UNCHANGED <<docs, habits, selectedDays, shown, stack, detail, editors, alert, crashed,
                  chat, checks, misdirected, clock>>
  BY DEF WriteResolves, GetResolves, shared, screens, seen
<1>2. WaitingTyped' /\ crashed' = "no" /\ ~misdirected'
  BY <1>1 DEF WaitingInv, WaitingTyped
<1>3. CASE WriteResolves
  <2>1. pending # <<>> /\ pending' = Tail(pending) /\ UNCHANGED gets
        /\ mainQueue' = Append(mainQueue, Completion(Head(pending)))
    BY <1>3 DEF WriteResolves
  <2>2. Writing
    BY <2>1 DEF WaitingInv, Resting, Asking
  <2>3. PICK kind, ref : Underway(Op(kind, ref)) /\ Started(Op(kind, ref))
    BY <2>2 DEF Writing
  <2>4. PICK op : op = Op(kind, ref)
    OBVIOUS
  <2>5. pending = <<op>> /\ (\/ mainQueue = <<>> /\ UpToDate
                             \/ mainQueue = <<News>>
                             \/ mainQueue = <<Reload>> /\ habits = Listed(docs))
    BY <2>1, <2>3, <2>4 DEF Underway
  <2>6. pending' = <<>> /\ mainQueue' = Append(mainQueue, Completion(op))
    BY <2>1, <2>5, ShortQueues
  <2>7. UpToDate' = UpToDate /\ News' = News
    BY <1>1 DEF UpToDate, News
  <2>8. Underway(op)'
    BY <1>1, <2>5, <2>6, <2>7, ShortQueues DEF Underway
  <2>9. Started(op)'
    BY <1>1, <2>3, <2>4 DEF Started, AtHome, AtDetail, AtEditor, Opened, SameHabit
  <2>10. Writing'
    BY <1>1, <2>1, <2>2, <2>4, <2>8, <2>9 DEF Writing
  <2>. QED
    BY <1>1, <1>2, <2>10 DEF WaitingInv, Habits
<1>4. CASE GetResolves
  <2>1. PICK i \in 1 .. Len(gets) :
          /\ mainQueue' = Append(mainQueue,
                                 Found(gets[i], IsDocument(docs[gets[i].name])))
          /\ gets' = RemoveAt(gets, i) /\ UNCHANGED pending
    BY <1>4 DEF GetResolves
  <2>2. gets # <<>>
    BY <2>1
  <2>3. Asking /\ gets = <<Lookup>> /\ mainQueue = <<>>
    BY <2>2 DEF WaitingInv, Resting, Asking, Writing
  <2>4. i = 1 /\ gets[i] = Lookup /\ gets \in Seq({Lookup}) /\ Len(gets) = 1
    BY <2>1, <2>3
  <2>5. gets' = <<>>
    BY <2>1, <2>4 DEF RemoveAt
  <2>6. mainQueue' = <<Found(Lookup, IsDocument(docs[Opened.input]))>>
    BY <2>1, <2>3, <2>4, ShortQueues DEF Lookup
  <2>7. Lookup' = Lookup /\ Opened' = Opened /\ AtEditor' /\ UpToDate' /\ EditorRight'
    BY <1>1, <2>3 DEF Asking, Lookup, Opened, AtEditor, UpToDate, EditorRight, DetailRight,
                      Seen, SameHabit
  <2>8. Asking'
    BY <1>1, <2>1, <2>3, <2>5, <2>6, <2>7 DEF Asking
  <2>. QED
    BY <1>1, <1>2, <2>8 DEF WaitingInv, Habits
<1>. QED
  BY <1>3, <1>4

LEMMA LookupWaits ==
  ASSUME WaitingInv, NameLookedUp
  PROVE  WaitingInv' /\ Habits
<1>1. PICK found : found = Head(mainQueue)
  OBVIOUS
<1>2. /\ mainQueue # <<>> /\ found.type = "found"
      /\ UNCHANGED <<gets, habits, selectedDays, shown, stack, detail, editors, alert,
                     crashed, chat, checks>>
  BY <1>1 DEF NameLookedUp, shared, screens
<1>3. Asking /\ mainQueue = <<Found(Lookup, IsDocument(docs[Opened.input]))>> /\ gets = <<>>
  <2>1. CASE \/ mainQueue = <<News>>
             \/ mainQueue = <<Reload, News>>
             \/ mainQueue = <<Reload>> /\ habits = Listed(docs)
    BY <1>1, <1>2, <2>1, ShortQueues DEF News, Snapshot, Reload
  <2>2. ~Writing
    BY <1>1, <1>2, ShortQueues DEF Writing, Underway, News, Snapshot, Reload, Completion
  <2>3. mainQueue # <<>> => (Asking => gets = <<>>)
    BY DEF Asking
  <2>. QED
    BY <1>2, <2>1, <2>2, <2>3, BlocksThereAre
<1>4. PICK n \in Name : n = Opened.input
  BY <1>3 DEF Asking
<1>5. /\ found.exists = IsDocument(docs[n]) /\ found.get = Lookup /\ Tail(mainQueue) = <<>>
      /\ Lookup.ref = Len(editors) /\ Lookup.name = n
      /\ Lookup.kind = IF Opened.edit THEN "rename" ELSE "add"
  BY <1>1, <1>3, <1>4, ShortQueues DEF Found, Lookup
<1>6. /\ docs \in [Name -> Stored] /\ editors \in Seq(Editor) /\ clock \in Nat
      /\ chat \in Seq(Name) /\ DOMAIN detail = {"id", "row", "title"}
      /\ crashed = "no" /\ ~misdirected
  BY DEF WaitingInv, WaitingTyped
<1>7. /\ pending = <<>> /\ chat = checks /\ UpToDate /\ alert = NoAlert /\ AtEditor
      /\ EditorRight /\ (Opened.edit => n # Opened.previous)
  BY <1>3, <1>4 DEF Asking
<1>8. Opened \in Editor /\ Opened.added \in Nat
  BY <1>7, TheEditor DEF AtEditor, Editor
<1>9. CASE /\ IsDocument(docs[n]) /\ mainQueue' = <<>>
           /\ UNCHANGED <<docs, pending, misdirected, clock>>
  <2>1. AtEditor' /\ EditorRight' /\ UpToDate'
    BY <1>2, <1>7, <1>9 DEF AtEditor, EditorRight, UpToDate, Opened, DetailRight, Seen,
                            SameHabit
  <2>2. Resting'
    BY <1>2, <1>3, <1>7, <1>9, <2>1 DEF Resting, AlertRight, Somewhere
  <2>. QED
    BY <1>2, <1>6, <1>9, <2>2 DEF WaitingInv, WaitingTyped, Habits
<1>10. CASE /\ ~IsDocument(docs[n]) /\ ~Opened.edit
            /\ SavedUnder(<<>>, Len(editors), n, clock + 1, "add", n)
            /\ clock' = clock + 1
  <2>1. PICK added \in Nat : added = clock + 1
    BY <1>6
  <2>2. "add" \in SaveKind /\ clock' \in Nat /\ gets' = <<>>
    BY <1>2, <1>3, <1>6, <1>10 DEF SaveKind
  <2>. QED
    BY <1>2, <1>4, <1>7, <1>10, <2>1, <2>2, SaveWaits
<1>11. CASE /\ ~IsDocument(docs[n]) /\ Opened.edit
            /\ SavedUnder(<<>>, Len(editors), n, Opened.added, "rename", n)
            /\ UNCHANGED clock
  <2>1. PICK added \in Nat : added = Opened.added
    BY <1>8
  <2>2. "rename" \in SaveKind /\ clock' \in Nat /\ gets' = <<>>
    BY <1>2, <1>3, <1>6, <1>11 DEF SaveKind
  <2>. QED
    BY <1>2, <1>4, <1>7, <1>11, <2>1, <2>2, SaveWaits
<1>. QED
  BY <1>1, <1>4, <1>5, <1>8, <1>9, <1>10, <1>11 DEF NameLookedUp, Taken, Opened, Editor

\* A completion block finds what it was made for.
LEMMA CompletionFinds ==
  ASSUME WaitingInv, NEW kind, CompletionOf(kind)
  PROVE  \E ref :
           /\ Head(mainQueue) = Completion(Op(kind, ref)) /\ Started(Op(kind, ref))
           /\ pending = <<>> /\ gets = <<>> /\ alert = NoAlert
           /\ \/ Tail(mainQueue) = <<>> /\ UpToDate
              \/ Tail(mainQueue) = <<Reload>> /\ habits = Listed(docs)
<1>1. PICK head : head = Head(mainQueue)
  OBVIOUS
<1>2. mainQueue # <<>> /\ head.type = "completion" /\ head.op.kind = kind
  BY <1>1 DEF CompletionOf
<1>3. Writing
  <2>1. CASE \/ mainQueue = <<News>>
             \/ mainQueue = <<Reload, News>>
             \/ mainQueue = <<Reload>> /\ habits = Listed(docs)
    BY <1>1, <1>2, <2>1, ShortQueues DEF News, Snapshot, Reload
  <2>2. ~Asking
    BY <1>1, <1>2, ShortQueues DEF Asking, Found
  <2>. QED
    BY <1>2, <2>1, <2>2, BlocksThereAre
<1>4. PICK kind2, ref : Underway(Op(kind2, ref)) /\ Started(Op(kind2, ref))
  BY <1>3 DEF Writing
<1>5. PICK op : op = Op(kind2, ref)
  OBVIOUS
<1>6. head # News /\ head # Reload
  BY <1>2 DEF News, Snapshot, Reload
<1>7. pending = <<>> /\ (\/ mainQueue = <<Completion(op)>> /\ UpToDate
                         \/ mainQueue = <<Completion(op), Reload>> /\ habits = Listed(docs))
  BY <1>1, <1>2, <1>4, <1>5, <1>6, ShortQueues DEF Underway
<1>8. head = Completion(op) /\ (\/ Tail(mainQueue) = <<>> /\ UpToDate
                                \/ Tail(mainQueue) = <<Reload>> /\ habits = Listed(docs))
  <2>1. CASE mainQueue = <<Completion(op)>> /\ UpToDate
    BY <1>1, <2>1, ShortQueues
  <2>2. CASE mainQueue = <<Completion(op), Reload>> /\ habits = Listed(docs)
    BY <1>1, <2>2, ShortQueues
  <2>. QED
    BY <1>7, <2>1, <2>2
<1>9. kind2 = kind
  BY <1>2, <1>5, <1>8 DEF Completion, Op
<1>. QED
  BY <1>1, <1>3, <1>4, <1>5, <1>7, <1>8, <1>9 DEF Writing

\* A completion that writes nothing, back on Home.
LEMMA CompletionRests ==
  ASSUME WaitingInv, pending' = <<>>, gets' = <<>>, alert' = NoAlert, AtHome',
         chat' = checks',
         \/ mainQueue' = <<>> /\ UpToDate'
         \/ mainQueue' = <<Reload>> /\ habits' = Listed(docs'),
         UNCHANGED <<docs, editors, crashed, misdirected, clock>>,
         chat' \in Seq(Name), DOMAIN detail' = {"id", "row", "title"}
  PROVE  WaitingInv' /\ Habits
<1>1. Resting'
  BY DEF Resting, AlertRight, Somewhere
<1>. QED
  BY <1>1 DEF WaitingInv, WaitingTyped, Habits

LEMMA CompletionsWait ==
  ASSUME WaitingInv,
         CheckCompleted \/ DeleteCompleted \/ DetailDeleted \/ AddCompleted \/ EditCompleted
  PROVE  WaitingInv' /\ Habits
<1>1. /\ DOMAIN detail = {"id", "row", "title"} /\ chat \in Seq(Name)
      /\ DOMAIN NoDetail = {"id", "row", "title"} /\ docs \in [Name -> Stored]
  BY DEF WaitingInv, WaitingTyped, NoDetail
<1>2. CASE CheckCompleted
  <2>1. PICK r :
          /\ Head(mainQueue) = Completion(Op("check", r)) /\ Started(Op("check", r))
          /\ pending = <<>> /\ gets = <<>> /\ alert = NoAlert
          /\ \/ Tail(mainQueue) = <<>> /\ UpToDate
             \/ Tail(mainQueue) = <<Reload>> /\ habits = Listed(docs)
    BY <1>2, CompletionFinds DEF CheckCompleted
  <2>2. Head(mainQueue).op.ref = r
    BY <2>1 DEF Completion, Op
  <2>3. /\ AtHome /\ r \in DOMAIN Listed(docs) /\ habits = Listed(docs)
        /\ checks = Append(chat, Listed(docs)[r].name)
    BY <2>1 DEF Started, Op, SaveKind, UpToDate
  <2>4. Row(r)
    BY <1>1, <2>3, DocumentsStored, ListLength DEF Row
  <2>5. /\ chat' = Append(chat, habits[r].name) /\ mainQueue' = Tail(mainQueue)
        /\ UNCHANGED <<docs, pending, gets, habits, shown, stack, detail, editors, alert,
                       crashed, checks, misdirected, clock>>
    BY <1>2, <2>2, <2>4 DEF CheckCompleted, firestore, shared, screens
  <2>6. Listed(docs)[r].name \in Name
    BY <2>3, RowIsHabit
  <2>7. chat' \in Seq(Name) /\ chat' = checks'
    BY <1>1, <2>3, <2>5, <2>6
  <2>8. AtHome' /\ (UpToDate => UpToDate')
    BY <2>3, <2>5 DEF AtHome, UpToDate
  <2>. QED
    BY <1>1, <2>1, <2>5, <2>7, <2>8, CompletionRests
<1>3. CASE DeleteCompleted
  <2>1. PICK ref :
          /\ Head(mainQueue) = Completion(Op("deleteHome", ref))
          /\ Started(Op("deleteHome", ref))
          /\ pending = <<>> /\ gets = <<>> /\ alert = NoAlert
          /\ \/ Tail(mainQueue) = <<>> /\ UpToDate
             \/ Tail(mainQueue) = <<Reload>> /\ habits = Listed(docs)
    BY <1>3, CompletionFinds DEF DeleteCompleted
  <2>2. AtHome /\ chat = checks /\ habits = Listed(docs)
    BY <2>1 DEF Started, Op, SaveKind, UpToDate
  <2>3. /\ shown' = habits /\ mainQueue' = Tail(mainQueue)
        /\ UNCHANGED <<docs, pending, gets, habits, stack, detail, editors, alert, crashed,
                       chat, checks, misdirected, clock>>
    BY <1>3 DEF DeleteCompleted, firestore, shared, seen
  <2>4. AtHome' /\ UpToDate'
    BY <2>2, <2>3 DEF AtHome, UpToDate
  <2>. QED
    BY <1>1, <2>1, <2>2, <2>3, <2>4, CompletionRests
<1>4. CASE DetailDeleted
  <2>1. PICK ref :
          /\ Head(mainQueue) = Completion(Op("deleteDetail", ref))
          /\ Started(Op("deleteDetail", ref))
          /\ pending = <<>> /\ gets = <<>> /\ alert = NoAlert
          /\ \/ Tail(mainQueue) = <<>> /\ UpToDate
             \/ Tail(mainQueue) = <<Reload>> /\ habits = Listed(docs)
    BY <1>4, CompletionFinds DEF DetailDeleted
  <2>2. AtDetail /\ chat = checks /\ ref = detail.id /\ Head(mainQueue).op.ref = ref
    BY <2>1 DEF Started, Op, SaveKind, Completion
  <2>3. /\ mainQueue' = Tail(mainQueue)
        /\ IF Contains(stack, "detail") /\ detail.id = ref THEN Show(Popped(1))
           ELSE UNCHANGED <<stack, detail, crashed>>
        /\ UNCHANGED <<docs, pending, gets, habits, shown, editors, alert,
                       chat, checks, misdirected, clock>>
    BY <1>4, <2>2 DEF DetailDeleted, firestore, shared, seen
  <2>4. Contains(stack, "detail") /\ Popped(1) = <<"home">>
    BY <2>2, Fewer DEF AtDetail, Contains
  <2>5. AtHome' /\ detail' = NoDetail /\ UNCHANGED crashed
    BY <2>2, <2>3, <2>4, ShowHome
  <2>6. UpToDate => UpToDate'
    BY <2>3 DEF UpToDate
  <2>. QED
    BY <1>1, <2>1, <2>2, <2>3, <2>5, <2>6, CompletionRests
<1>5. CASE AddCompleted
  <2>1. PICK ref :
          /\ Head(mainQueue) = Completion(Op("add", ref)) /\ Started(Op("add", ref))
          /\ pending = <<>> /\ gets = <<>> /\ alert = NoAlert
          /\ \/ Tail(mainQueue) = <<>> /\ UpToDate
             \/ Tail(mainQueue) = <<Reload>> /\ habits = Listed(docs)
    BY <1>5, CompletionFinds DEF AddCompleted
  <2>2. /\ AtEditor /\ chat = checks /\ ref = Len(editors) /\ Head(mainQueue).op.ref = ref
        /\ ~Opened.edit
    BY <2>1 DEF Started, Op, SaveKind, Completion
  <2>3. /\ mainQueue' = Tail(mainQueue)
        /\ IF EditorOnStack(ref) THEN Show(Popped(1))
           ELSE UNCHANGED <<stack, detail, crashed>>
        /\ UNCHANGED <<docs, pending, gets, habits, shown, editors, alert,
                       chat, checks, misdirected, clock>>
    BY <1>5, <2>2 DEF AddCompleted, firestore, shared, seen
  <2>4. stack = <<"home", "editor">>
    BY <2>2 DEF AtEditor
  <2>5. EditorOnStack(ref) /\ Popped(1) = <<"home">>
    BY <2>2, <2>4, Fewer DEF EditorOnStack, OpenEditor, Contains
  <2>6. AtHome' /\ detail' = NoDetail /\ UNCHANGED crashed
    BY <2>2, <2>3, <2>5, ShowHome
  <2>7. UpToDate => UpToDate'
    BY <2>3 DEF UpToDate
  <2>. QED
    BY <1>1, <2>1, <2>2, <2>3, <2>6, <2>7, CompletionRests
<1>6. CASE EditCompleted
  <2>1. PICK ref :
          /\ Head(mainQueue) = Completion(Op("edit", ref)) /\ Started(Op("edit", ref))
          /\ pending = <<>> /\ gets = <<>> /\ alert = NoAlert
          /\ \/ Tail(mainQueue) = <<>> /\ UpToDate
             \/ Tail(mainQueue) = <<Reload>> /\ habits = Listed(docs)
    BY <1>6, CompletionFinds DEF EditCompleted
  <2>2. /\ AtEditor /\ chat = checks /\ ref = Len(editors) /\ Head(mainQueue).op.ref = ref
        /\ Opened.edit
    BY <2>1 DEF Started, Op, SaveKind, Completion
  <2>3. /\ mainQueue' = Tail(mainQueue) /\ PopTwo(ref)
        /\ UNCHANGED <<docs, pending, gets, habits, shown, editors, alert,
                       chat, checks, misdirected, clock>>
    BY <1>6, <2>2 DEF EditCompleted, firestore, shared, seen
  <2>4. stack = <<"home", "detail", "editor">>
    BY <2>2 DEF AtEditor
  <2>5. EditorOnStack(ref) /\ Popped(2) = <<"home">>
    BY <2>2, <2>4, Fewer DEF EditorOnStack, OpenEditor, Contains
  <2>6. AtHome' /\ detail' = NoDetail /\ UNCHANGED crashed
    BY <2>3, <2>5, ShowHome DEF PopTwo
  <2>7. UpToDate => UpToDate'
    BY <2>3 DEF UpToDate
  <2>. QED
    BY <1>1, <2>1, <2>2, <2>3, <2>6, <2>7, CompletionRests
<1>. QED
  BY <1>2, <1>3, <1>4, <1>5, <1>6

\* The habit is there under both names until the old one is deleted.
LEMMA RenameWaits ==
  ASSUME WaitingInv, RenameCompleted
  PROVE  WaitingInv' /\ Habits
<1>1. /\ DOMAIN detail = {"id", "row", "title"} /\ chat \in Seq(Name)
      /\ DOMAIN NoDetail = {"id", "row", "title"} /\ docs \in [Name -> Stored]
      /\ crashed = "no" /\ ~misdirected /\ editors \in Seq(Editor) /\ clock \in Nat
  BY DEF WaitingInv, WaitingTyped, NoDetail
<1>2. PICK ref :
        /\ Head(mainQueue) = Completion(Op("rename", ref)) /\ Started(Op("rename", ref))
        /\ pending = <<>> /\ gets = <<>> /\ alert = NoAlert
        /\ \/ Tail(mainQueue) = <<>> /\ UpToDate
           \/ Tail(mainQueue) = <<Reload>> /\ habits = Listed(docs)
  BY CompletionFinds DEF RenameCompleted
<1>3. /\ AtEditor /\ chat = checks /\ ref = Len(editors) /\ Head(mainQueue).op.ref = ref
      /\ Opened.edit /\ SameHabit(Opened.previous, Opened) /\ SameHabit(Opened.input, Opened)
      /\ Opened.input # Opened.previous
  BY <1>2 DEF Started, Op, SaveKind, Completion
<1>4. PICK n \in Name : n = Opened.previous
  BY <1>3 DEF SameHabit
<1>5. PICK m \in Name \ {n} : m = Opened.input
  BY <1>3, <1>4 DEF SameHabit
<1>6. /\ docs' = After(n, DeleteMutation)
      /\ mainQueue' = Notified(Tail(mainQueue), docs') /\ PopTwo(ref)
      /\ UNCHANGED <<pending, gets, habits, shown, editors, alert, chat, checks, misdirected,
                     clock>>
  BY <1>3, <1>4 DEF RenameCompleted, Opened, shared, seen
<1>7. stack = <<"home", "detail", "editor">>
  BY <1>3 DEF AtEditor
<1>8. EditorOnStack(ref) /\ Popped(2) = <<"home">>
  BY <1>3, <1>7, Fewer DEF EditorOnStack, OpenEditor, Contains
<1>9. AtHome' /\ detail' = NoDetail /\ UNCHANGED crashed
  BY <1>6, <1>8, ShowHome DEF PopTwo
<1>10. \/ mainQueue' = <<>> /\ UpToDate'
       \/ mainQueue' = <<News>>'
       \/ mainQueue' = <<Reload, News>>'
       \/ mainQueue' = <<Reload>> /\ habits' = Listed(docs')
  <2>1. CASE Tail(mainQueue) = <<>> /\ UpToDate
    BY <1>6, <2>1, ListTold
  <2>2. CASE Tail(mainQueue) = <<Reload>> /\ habits = Listed(docs)
    <3>1. mainQueue' = IF Listed(docs') = Listed(docs) THEN <<Reload>>
                       ELSE Append(<<Reload>>, Snapshot(Listed(docs')))
      BY <1>6, <2>2 DEF Notified
    <3>. QED
      BY <1>6, <2>2, <3>1, ShortQueues DEF News
  <2>. QED
    BY <1>2, <2>1, <2>2
<1>11. Resting'
  BY <1>2, <1>3, <1>6, <1>9, <1>10 DEF Resting, AlertRight, Somewhere
<1>12. docs' \in [Name -> Stored]
  BY <1>1, <1>6, Deleted
<1>13. IsDocument(docs[m]) /\ docs[m].data.form.added = docs[n].data.form.added
       /\ docs[m].data.checked = docs[n].data.checked
  BY <1>3, <1>4, <1>5 DEF SameHabit
<1>14. Habits
  BY <1>6, <1>13 DEF Habits
<1>. QED
  BY <1>1, <1>6, <1>9, <1>11, <1>12, <1>14 DEF WaitingInv, WaitingTyped

LEMMA RelaunchWaits ==
  ASSUME WaitingInv, Relaunch
  PROVE  WaitingInv' /\ Habits
<1>1. /\ pending' = <<>> /\ gets' = <<>> /\ mainQueue' = <<News>>' /\ AtHome'
      /\ alert' = NoAlert /\ chat' = checks' /\ crashed' = "no" /\ editors' = <<>>
      /\ detail' = NoDetail /\ UNCHANGED <<docs, chat, misdirected, clock>>
  BY DEF Relaunch, News, AtHome
<1>2. Resting'
  BY <1>1 DEF Resting
<1>3. WaitingTyped'
  BY <1>1 DEF WaitingInv, WaitingTyped, NoDetail
<1>. QED
  BY <1>1, <1>2, <1>3 DEF WaitingInv, Habits

-----------------------------------------------------------------------------
(* A user who waits, on the only device                                    *)

LEMMA WaitingStep ==
  ASSUME Alone, WaitingInv, remotes \in Nat, Next
  PROVE  WaitingInv' /\ Habits
<1>1. CASE \E r \in 1 .. Len(shown) : Done(r) \/ Undo(r)
  BY <1>1, RowsWait
<1>2. CASE \/ AddClicked \/ EditPressed
           \/ \E r \in 1 .. Len(shown) : ShowDetail(r)
  <2>1. UNCHANGED docs
    BY <1>2 DEF AddClicked, EditPressed, ShowDetail, Trap, firestore
  <2>. QED
    BY <1>2, <2>1, OpensWait DEF Habits
<1>3. CASE \/ \E r \in 1 .. Len(shown) : DeleteSwiped(r)
           \/ DeletePressed \/ DeleteCancelled \/ CalendarScrolled
  <2>1. UNCHANGED docs
    BY <1>3 DEF DeleteSwiped, DeletePressed, DeleteCancelled, CalendarScrolled, Trap,
                firestore
  <2>. QED
    BY <1>3, <2>1, AlertsWait DEF Habits
<1>4. CASE (\E n \in Name : TypeName(n)) \/ DaysPressed \/ DayToggled
  <2>1. UNCHANGED docs
    BY <1>4 DEF TypeName, DaysPressed, DayToggled, firestore
  <2>. QED
    BY <1>4, <2>1, FormsWait DEF Habits
<1>5. CASE Back("detail") \/ Back("days") \/ Back("editor")
  <2>1. UNCHANGED docs
    BY <1>5 DEF Back, firestore
  <2>. QED
    BY <1>5, <2>1, BackWaits DEF Habits
<1>6. CASE DeleteConfirmed
  BY <1>6, DeleteWaits
<1>7. CASE SavePressed
  BY <1>7, SavePressWaits
<1>8. CASE HearOfHabits \/ ReloadTable
  BY <1>8, ListWaits
<1>9. CASE CheckCompleted \/ DeleteCompleted \/ DetailDeleted \/ AddCompleted
           \/ EditCompleted
  BY <1>9, CompletionsWait
<1>10. CASE NameLookedUp
  BY <1>10, LookupWaits
<1>11. CASE RenameCompleted
  BY <1>11, RenameWaits
<1>12. CASE WriteResolves \/ GetResolves
  BY <1>12, FirestoreWaits
<1>13. ~RemoteChange
  BY DEF RemoteChange, Alone
<1>14. CASE Relaunch
  BY <1>14, RelaunchWaits
<1>. QED
  BY <1>1, <1>2, <1>3, <1>4, <1>5, <1>6, <1>7, <1>8, <1>9, <1>10, <1>11, <1>12, <1>13, <1>14
     DEF Next, HomeTap, DetailTap, EditorTap, AlertTap, MainStep

LEMMA RemotesCounted ==
  ASSUME remotes \in Nat, Next
  PROVE  remotes' \in Nat
<1>1. CASE HomeTap
  BY <1>1 DEF HomeTap, AddClicked, ShowDetail, Done, Undo, DeleteSwiped, TapOn
<1>2. CASE DetailTap
  BY <1>2 DEF DetailTap, DeletePressed, EditPressed, CalendarScrolled, Back, TapOn
<1>3. CASE EditorTap
  BY <1>3 DEF EditorTap, TypeName, DaysPressed, DayToggled, SavePressed, Back, TapOn
<1>4. CASE AlertTap
  BY <1>4 DEF AlertTap, DeleteConfirmed, DeleteCancelled, TapAlert
<1>5. CASE MainStep
  BY <1>5 DEF MainStep, HearOfHabits, ReloadTable, CheckCompleted, DeleteCompleted,
              DetailDeleted, NameLookedUp, AddCompleted, EditCompleted, RenameCompleted
<1>6. CASE WriteResolves \/ GetResolves \/ RemoteChange \/ Relaunch
  BY <1>6 DEF WriteResolves, GetResolves, RemoteChange, Relaunch
<1>. QED
  BY <1>1, <1>2, <1>3, <1>4, <1>5, <1>6 DEF Next

LEMMA WaitingIsInvariant ==
  ASSUME Alone
  PROVE  Spec => [](WaitingInv /\ remotes \in Nat)
<1> DEFINE Inv == WaitingInv /\ remotes \in Nat
<1>1. Init => WaitingInv /\ remotes \in Nat
  BY WaitingInit DEF Init
<1>2. ASSUME WaitingInv, remotes \in Nat, [Next]_vars PROVE WaitingInv' /\ remotes' \in Nat
  <2>1. CASE Next
    BY <1>2, <2>1, WaitingStep, RemotesCounted
  <2>2. CASE UNCHANGED vars
    <3>1. UNCHANGED <<docs, pending, gets, mainQueue, habits, selectedDays, shown, stack,
                      detail, editors, alert, crashed, chat, checks, misdirected, clock>>
      BY <2>2 DEF vars, firestore, shared, screens, seen
    <3>2. remotes' = remotes
      BY <2>2 DEF vars
    <3>3. Resting' \/ Asking' \/ Writing'
      <4>1. Opened' = Opened /\ News' = News /\ UpToDate' = UpToDate /\ AtHome' = AtHome
            /\ AtDetail' = AtDetail /\ AtEditor' = AtEditor /\ AtDays' = AtDays
            /\ DetailRight' = DetailRight /\ EditorRight' = EditorRight
            /\ AlertRight' = AlertRight
        BY <3>1 DEF Opened, News, UpToDate, AtHome, AtDetail, AtEditor, AtDays, DetailRight,
                    EditorRight, AlertRight, Seen, SameHabit
      <4>2. CASE Resting
        BY <3>1, <4>1, <4>2 DEF Resting, Somewhere
      <4>3. CASE Asking
        BY <3>1, <4>1, <4>3 DEF Asking, Lookup
      <4>4. CASE Writing
        BY <3>1, <4>1, <4>4 DEF Writing, Underway, Started, SameHabit
      <4>. QED
        BY <1>2, <4>2, <4>3, <4>4 DEF WaitingInv
    <3>. QED
      BY <1>2, <3>1, <3>2, <3>3 DEF WaitingInv, WaitingTyped
  <2>. QED
    BY <1>2, <2>1, <2>2
<1>3. Init => Inv
  BY <1>1
<1>4. Inv /\ [Next]_vars => Inv'
  BY <1>2
<1>. HIDE DEF Inv
<1>5. Spec => []Inv
  BY <1>3, <1>4, PTL DEF Spec
<1>. USE DEF Inv
<1>. QED
  BY <1>5

\* Whoever waits for the app, with one device, never has a row looked up that is
\* not there, nor a completion of a save that finds its editor gone.
THEOREM WaitingNeverCrashes ==
  ASSUME Alone
  PROVE  Spec => []NoCrash
<1>1. WaitingInv => NoCrash
  BY DEF WaitingInv, NoCrash
<1>. QED
  BY <1>1, WaitingIsInvariant, PTL

\* Every check, undo and delete is of the habit seen, every save of the name
\* looked up and the days chosen.
THEOREM WaitingHitsTheHabit ==
  ASSUME Alone
  PROVE  Spec => []RightHabit
<1>1. WaitingInv => RightHabit
  BY DEF WaitingInv, RightHabit
<1>. QED
  BY <1>1, WaitingIsInvariant, PTL

\* A check never makes a document of a habit that is gone.
THEOREM WaitingMakesNoGhost ==
  ASSUME Alone
  PROVE  Spec => []NoGhost
<1>1. WaitingInv => NoGhost
  BY DocumentsStored DEF WaitingInv, WaitingTyped, NoGhost
<1>. QED
  BY <1>1, WaitingIsInvariant, PTL

\* The chat names the habits checked, in the order they were, and lags by one at
\* most.
THEOREM WaitingChatIsRight ==
  ASSUME Alone
  PROVE  Spec => []ChatNamesHabit
<1>1. WaitingInv => ChatNamesHabit
  <2>1. SUFFICES ASSUME WaitingInv PROVE ChatNamesHabit
    OBVIOUS
  <2>2. chat \in Seq(Name)
    BY <2>1 DEF WaitingInv, WaitingTyped
  <2>3. CASE chat = checks
    BY <2>2, <2>3 DEF ChatNamesHabit, IsPrefix
  <2>4. ASSUME NEW n \in Name, checks = Append(chat, n) PROVE ChatNamesHabit
    BY <2>2, <2>4 DEF ChatNamesHabit, IsPrefix
  <2>5. chat = checks \/ \E n \in Name : checks = Append(chat, n)
    BY <2>1, RowIsHabit DEF WaitingInv, Resting, Asking, Writing, Started
  <2>. QED
    BY <2>3, <2>4, <2>5
<1>. QED
  BY <1>1, WaitingIsInvariant, PTL

LEMMA HabitsChange ==
  ASSUME Alone, WaitingInv, remotes \in Nat, [Next]_vars
  PROVE  WaitingInv /\ Habits
<1>1. CASE Next
  BY <1>1, WaitingStep
<1>2. CASE UNCHANGED vars
  BY <1>2 DEF vars, firestore, Habits
<1>. QED
  BY <1>1, <1>2

\* A habit keeps the day it was established, whatever is added, edited, renamed
\* or checked.
THEOREM WaitingKeepsDate ==
  ASSUME Alone
  PROVE  Spec => EstablishedKept
<1> DEFINE Kept(n) == IsDocument(docs[n]) /\ docs[n].data.form # NoForm /\ IsDocument(docs'[n])
                        => docs'[n].data.form.added = docs[n].data.form.added
<1>1. ASSUME WaitingInv, Habits, NEW n \in Name PROVE Kept(n)
  <2>1. docs \in [Name -> Stored]
    BY <1>1 DEF WaitingInv, WaitingTyped
  <2>2. ASSUME NEW k \in Name, docs' = After(k, DeleteMutation) PROVE Kept(n)
    BY <2>1, <2>2, Deleted
  <2>3. ASSUME NEW k \in Name, NEW m \in {CheckMutation(Today), UncheckMutation(Today)},
               IsDocument(docs[k]), docs' = After(k, m)
        PROVE  Kept(n)
    BY <2>1, <2>3, Ticked
  <2>4. ASSUME NEW k \in Name,
               NEW data \in Whole,
               docs' = After(k, SetMutation(data)),
               IsDocument(docs[k]) => data.form.added = docs[k].data.form.added
        PROVE  Kept(n)
    BY <2>1, <2>4, Saved
  <2>5. CASE UNCHANGED docs
    BY <2>5
  <2>. QED
    BY <1>1, <2>2, <2>3, <2>4, <2>5 DEF Habits
<1>2. ASSUME WaitingInv, remotes \in Nat, [Next]_vars PROVE [\A n \in Name : Kept(n)]_vars
  BY <1>1, <1>2, HabitsChange
<1>. QED
  BY <1>2, WaitingIsInvariant, PTL DEF Spec, EstablishedKept

\* The checked days of a habit change in the table and nowhere else.
THEOREM WaitingKeepsChecks ==
  ASSUME Alone
  PROVE  Spec => EditKeepsChecks
<1> DEFINE Kept(n) == IsDocument(docs[n]) /\ IsDocument(docs'[n]) /\ Last(stack) # "home"
                        => docs'[n].data.checked = docs[n].data.checked
<1>1. ASSUME WaitingInv, Habits, NEW n \in Name PROVE Kept(n)
  <2>1. docs \in [Name -> Stored]
    BY <1>1 DEF WaitingInv, WaitingTyped
  <2>2. ASSUME NEW k \in Name, docs' = After(k, DeleteMutation) PROVE Kept(n)
    BY <2>1, <2>2, Deleted
  <2>3. ASSUME NEW k \in Name,
               NEW data \in Whole,
               docs' = After(k, SetMutation(data)),
               IsDocument(docs[k]) => data.checked = docs[k].data.checked
        PROVE  Kept(n)
    BY <2>1, <2>3, Saved
  <2>4. CASE UNCHANGED docs
    BY <2>4
  <2>. QED
    BY <1>1, <2>2, <2>3, <2>4 DEF Habits
<1>2. ASSUME WaitingInv, remotes \in Nat, [Next]_vars PROVE [\A n \in Name : Kept(n)]_vars
  BY <1>1, <1>2, HabitsChange
<1>. QED
  BY <1>2, WaitingIsInvariant, PTL DEF Spec, EditKeepsChecks

\* A habit that goes without a confirmed delete is there under its new name, with
\* its date and its checks.
THEOREM WaitingKeepsRenamed ==
  ASSUME Alone
  PROVE  Spec => RenameKeepsHabit
<1> DEFINE There(n) ==
             IsDocument(docs[n]) /\ ~IsDocument(docs'[n]) /\ alert = NoAlert
               => \E m \in Name \ {n} :
                    /\ IsDocument(docs'[m])
                    /\ docs'[m].data.form.added = docs[n].data.form.added
                    /\ docs'[m].data.checked = docs[n].data.checked
<1>1. ASSUME WaitingInv, Habits, NEW n \in Name PROVE There(n)
  <2>1. docs \in [Name -> Stored]
    BY <1>1 DEF WaitingInv, WaitingTyped
  <2>2. ASSUME NEW k \in Name, NEW m \in Name \ {k}, docs' = After(k, DeleteMutation),
               IsDocument(docs[m]), docs[m].data.form.added = docs[k].data.form.added,
               docs[m].data.checked = docs[k].data.checked
        PROVE  There(n)
    <3>1. \A l \in Name \ {k} : docs'[l] = docs[l]
      BY <2>1, <2>2, Deleted
    <3>2. CASE n = k
      <4>1. docs'[m] = docs[m]
        BY <3>1
      <4>. QED
        BY <2>2, <3>2, <4>1
    <3>3. CASE n # k
      BY <3>1, <3>3
    <3>. QED
      BY <3>2, <3>3
  <2>3. ASSUME NEW k \in Name, NEW m \in {CheckMutation(Today), UncheckMutation(Today)},
               IsDocument(docs[k]), docs' = After(k, m)
        PROVE  There(n)
    BY <2>1, <2>3, Ticked
  <2>4. ASSUME NEW k \in Name,
               NEW data \in Whole,
               docs' = After(k, SetMutation(data))
        PROVE  There(n)
    BY <2>1, <2>4, Saved
  <2>5. CASE UNCHANGED docs
    BY <2>5
  <2>6. CASE alert # NoAlert
    BY <2>6
  <2>. QED
    BY <1>1, <2>2, <2>3, <2>4, <2>5, <2>6 DEF Habits
<1>2. ASSUME WaitingInv, remotes \in Nat, [Next]_vars PROVE [\A n \in Name : There(n)]_vars
  BY <1>1, <1>2, HabitsChange
<1>. QED
  BY <1>2, WaitingIsInvariant, PTL DEF Spec, RenameKeepsHabit
=============================================================================
