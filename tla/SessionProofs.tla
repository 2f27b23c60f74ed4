--------------------------- MODULE SessionProofs ---------------------------
(***************************************************************************)
(* A device nobody is signed in on shows no tabs, for any accounts, any    *)
(* number of presses of Login and any order of the answers; and to a user  *)
(* who waits for the app before every tap it shows the page, the habits    *)
(* and the reminders of the account that is signed in.                     *)
(***************************************************************************)
EXTENDS Session, TLAPS

-----------------------------------------------------------------------------
(* What is done to the stack and to the main queue                         *)

LEMMA RangeAppend ==
  ASSUME NEW S, NEW q \in Seq(S), NEW x \in S
  PROVE  /\ Append(q, x) \in Seq(S)
         /\ Range(Append(q, x)) = Range(q) \cup {x}
<1>1. /\ Append(q, x) \in Seq(S)
      /\ Len(Append(q, x)) = Len(q) + 1
      /\ \A i \in 1 .. Len(q) : Append(q, x)[i] = q[i]
      /\ Append(q, x)[Len(q) + 1] = x
  OBVIOUS
<1>2. DOMAIN q = 1 .. Len(q) /\ DOMAIN Append(q, x) = 1 .. Len(q) + 1
  BY <1>1
<1>3. Len(q) \in Nat
  OBVIOUS
<1>. QED
  BY <1>1, <1>2, <1>3 DEF Range

LEMMA RangeTail ==
  ASSUME NEW S, NEW q \in Seq(S), q # <<>>
  PROVE  /\ Tail(q) \in Seq(S) /\ Head(q) \in S /\ Head(q) \in Range(q)
         /\ Range(Tail(q)) \subseteq Range(q)
<1>1. /\ Tail(q) \in Seq(S)
      /\ Len(q) \in Nat \ {0} /\ Len(Tail(q)) = Len(q) - 1
      /\ \A i \in 1 .. Len(q) - 1 : Tail(q)[i] = q[i + 1]
      /\ Head(q) = q[1] /\ q[1] \in S
  OBVIOUS
<1>2. DOMAIN q = 1 .. Len(q) /\ DOMAIN Tail(q) = 1 .. Len(q) - 1
  BY <1>1
<1>. QED
  BY <1>1, <1>2 DEF Range

LEMMA RangeRequeue ==
  ASSUME NEW S, NEW q \in Seq(S), q # <<>>, NEW x \in S
  PROVE  /\ Append(Tail(q), x) \in Seq(S)
         /\ Range(Append(Tail(q), x)) = Range(Tail(q)) \cup {x}
<1> DEFINE t == Tail(q)
<1>1. t \in Seq(S)
  BY RangeTail
<1>. HIDE DEF t
<1>2. Append(t, x) \in Seq(S) /\ Range(Append(t, x)) = Range(t) \cup {x}
  BY <1>1, RangeAppend
<1>. QED
  BY <1>2 DEF t

LEMMA RangeFront ==
  ASSUME NEW S, NEW q \in Seq(S), Len(q) > 1
  PROVE  /\ Front(q) \in Seq(S) /\ Front(q) # <<>> /\ Front(q)[1] = q[1]
         /\ Range(Front(q)) \subseteq Range(q)
<1>1. /\ Len(q) \in Nat /\ Front(q) \in Seq(S) /\ Len(Front(q)) = Len(q) - 1
      /\ \A i \in 1 .. Len(q) - 1 : Front(q)[i] = q[i]
  BY DEF Front
<1>2. DOMAIN q = 1 .. Len(q) /\ DOMAIN Front(q) = 1 .. Len(q) - 1
  BY <1>1
<1>. QED
  BY <1>1, <1>2 DEF Range

LEMMA RangeCalled ==
  ASSUME NEW S, NEW q \in Seq(S), NEW x \in S, NEW n \in Nat
  PROVE  /\ q \o Called(n, x) \in Seq(S)
         /\ Range(q \o Called(n, x)) \subseteq Range(q) \cup {x}
<1> DEFINE c == Called(n, x)
<1>1. c \in Seq(S) /\ Len(c) = n /\ \A i \in 1 .. n : c[i] = x
  BY DEF Called
<1>. HIDE DEF c
<1>2. /\ q \o c \in Seq(S) /\ Len(q) \in Nat /\ Len(q \o c) = Len(q) + n
      /\ \A i \in 1 .. Len(q) + n :
           (q \o c)[i] = IF i <= Len(q) THEN q[i] ELSE c[i - Len(q)]
  BY <1>1
<1>3. DOMAIN q = 1 .. Len(q) /\ DOMAIN (q \o c) = 1 .. Len(q) + n
  BY <1>2
<1>4. \A i \in 1 .. Len(q) + n : (q \o c)[i] \in Range(q) \cup {x}
  <2>. TAKE i \in 1 .. Len(q) + n
  <2>1. CASE i <= Len(q)
    BY <2>1, <1>2, <1>3 DEF Range
  <2>2. CASE ~(i <= Len(q))
    BY <2>2, <1>1, <1>2
  <2>. QED
    BY <2>1, <2>2
<1>5. Range(q \o c) \subseteq Range(q) \cup {x}
  BY <1>3, <1>4 DEF Range
<1>. QED
  BY <1>2, <1>5 DEF c

-----------------------------------------------------------------------------
(* The invariant                                                           *)

\* Welcome is at the bottom of the stack, and only there.
Rooted == stack # <<>> /\ stack[1] = Welcome

Forms == {"login", "register"}

\* A form is named by a tap, and a call of signIn or its answer by the form it
\* was made from, so a form pushed later is not the one an answer is for.
IdsUsed ==
  /\ \A p \in Range(stack) : /\ p.id \in 0 .. taps
                             /\ p.page \in Forms => p.id > 0
  /\ \A s \in signIns : s.page \in 1 .. taps
  /\ \A b \in Range(mainQueue) : b.type = "signedIn" => b.page \in 1 .. taps

\* After a logout the answers still to come are for forms that were popped.
NoAnswerShown ==
  user = NoUser =>
    \A b \in Range(mainQueue), p \in Range(stack) :
      b.type = "signedIn" => p.id # b.page

SessionInv ==
  TypeOK /\ Rooted /\ IdsUsed /\ NoAnswerShown /\ SignedOutShowsNoTabs

LEMMA Messages ==
  /\ \A list \in SUBSET Habit : Snapshot(list) \in Block /\ Snapshot(list).type # "signedIn"
  /\ ListenError \in Block /\ ListenError.type # "signedIn"
  /\ Reload \in Block /\ Reload.type # "signedIn"
  /\ \A page \in Nat, new \in BOOLEAN :
       /\ SignedIn(page, new) \in Block
       /\ SignedIn(page, new).type = "signedIn" /\ SignedIn(page, new).page = page
  /\ \A b \in Block : /\ b.type = "signedIn" => b.page \in Nat
                      /\ b.type = "snapshot" => b.list \in SUBSET Habit
BY DEF Snapshot, ListenError, Reload, SignedIn, Block

LEMMA Pages ==
  /\ Welcome \in Page /\ Welcome.page = "welcome" /\ Welcome.id = 0
  /\ \A a \in Account : Tabs(a) \in Page /\ Tabs(a).id = 0 /\ Tabs(a).page = "tabs"
  /\ \A page \in Forms : taps \in Nat =>
       Form(page) \in Page /\ Form(page).id = taps + 1 /\ Form(page).page = page
BY DEF Welcome, Tabs, Form, Forms, Page

LEMMA RemindersTyped ==
  ASSUME NEW list \in SUBSET Habit
  PROVE  RemindersOf(list) \subseteq [name : Name, weekday : 1 .. 7]
<1>1. ASSUME NEW h \in list
      PROVE  SetReminder(h) \subseteq [name : Name, weekday : 1 .. 7]
  <2>1. h.name \in Name /\ h.days \subseteq 0 .. 6
    BY <1>1, SessionAssumption DEF Habit, DayIndex
  <2>. QED
    BY <2>1 DEF SetReminder, Weekday
<1>. QED
  BY <1>1 DEF RemindersOf

LEMMA InvInit == Init => SessionInv
<1>. SUFFICES ASSUME Init PROVE SessionInv
  OBVIOUS
<1>1. Welcome \in Page /\ stack = <<Welcome>> /\ Range(stack) = {Welcome}
  BY Pages DEF Init, Range
<1>2. mainQueue = <<>> /\ mainQueue \in Seq(Block) /\ Range(mainQueue) = {}
  BY DEF Init, Range
<1>3. TypeOK
  <2>1. stack \in Seq(Page)
    BY <1>1
  <2>2. listeners \in [Account -> Nat] /\ signIns = {}
    BY DEF Init, Nobody
  <2>3. taps \in 0 .. MaxTaps /\ changes \in 0 .. MaxChanges /\ kills \in 0 .. MaxKills
    BY SessionAssumption DEF Init
  <2>. QED
    BY <1>2, <2>1, <2>2, <2>3, SessionAssumption DEF Init, TypeOK
<1>4. Rooted
  BY <1>1 DEF Rooted
<1>5. IdsUsed /\ NoAnswerShown /\ SignedOutShowsNoTabs
  BY <1>1, <1>2, Pages DEF Init, IdsUsed, NoAnswerShown, SignedOutShowsNoTabs, Forms
<1>. QED
  BY <1>3, <1>4, <1>5 DEF SessionInv

-----------------------------------------------------------------------------
(* Steps of the same kind                                                  *)

\* Steps that touch only the habits, the reminders and the listeners, and add
\* to the main queue at most blocks that are no answers.
LEMMA Steady ==
  ASSUME SessionInv, TypeOK',
         UNCHANGED <<user, stack, signIns, taps>>,
         \A b \in Range(mainQueue') : b \in Range(mainQueue) \/ b.type # "signedIn"
  PROVE  SessionInv'
BY DEF SessionInv, Rooted, IdsUsed, NoAnswerShown, SignedOutShowsNoTabs, Forms, Welcome

\* A form is pushed.
LEMMA PushForm ==
  ASSUME SessionInv, NEW page \in Forms, TapOn("welcome"),
         stack' = Append(stack, Form(page)),
         UNCHANGED <<user, accounts, collections, signIns, mainQueue, listeners,
                     habits, reminders>>
  PROVE  SessionInv'
<1>1. /\ taps \in Nat /\ taps' = taps + 1 /\ taps' \in 0 .. MaxTaps
      /\ UNCHANGED <<changes, kills>>
  BY SessionAssumption DEF SessionInv, TypeOK, TapOn
<1>2. /\ Form(page) \in Page /\ Form(page).id = taps + 1 /\ Form(page).page = page
      /\ page # "tabs"
  BY <1>1, Pages DEF Forms
<1>3. stack' \in Seq(Page) /\ Range(stack') = Range(stack) \cup {Form(page)}
  BY <1>2, RangeAppend DEF SessionInv, TypeOK
<1>4. TypeOK'
  BY <1>1, <1>3 DEF SessionInv, TypeOK
<1>5. Rooted'
  BY <1>2 DEF SessionInv, TypeOK, Rooted, Welcome
<1>6. IdsUsed'
  BY <1>1, <1>2, <1>3 DEF SessionInv, IdsUsed, Forms
<1>7. NoAnswerShown'
  BY <1>1, <1>2, <1>3 DEF SessionInv, NoAnswerShown, IdsUsed
<1>8. SignedOutShowsNoTabs'
  BY <1>2, <1>3 DEF SessionInv, SignedOutShowsNoTabs
<1>. QED
  BY <1>4, <1>5, <1>6, <1>7, <1>8 DEF SessionInv

-----------------------------------------------------------------------------
(* Every step                                                              *)

LEMMA InvBack == SessionInv /\ Back => SessionInv'
<1>. SUFFICES ASSUME SessionInv, Back PROVE SessionInv'
  OBVIOUS
<1>1. /\ taps \in Nat /\ taps' = taps + 1 /\ taps' \in 0 .. MaxTaps
      /\ UNCHANGED <<changes, kills>>
  BY SessionAssumption DEF SessionInv, TypeOK, TapOn, Back
<1>2. stack \in Seq(Page) /\ Len(stack) > 1
  <2>1. stack \in Seq(Page) /\ Len(stack) \in Nat \ {0} /\ stack[1].page = "welcome"
    BY DEF SessionInv, TypeOK, Rooted, Welcome
  <2>2. stack[Len(stack)].page # "welcome"
    BY DEF Back, TapOn, Last
  <2>. QED
    BY <2>1, <2>2
<1>3. /\ stack' \in Seq(Page) /\ stack' # <<>> /\ stack'[1] = stack[1]
      /\ Range(stack') \subseteq Range(stack)
  BY <1>2, RangeFront DEF Back
<1>4. TypeOK'
  BY <1>1, <1>3 DEF SessionInv, TypeOK, Back
<1>5. Rooted'
  BY <1>3 DEF SessionInv, Rooted, Welcome
<1>6. IdsUsed' /\ NoAnswerShown' /\ SignedOutShowsNoTabs'
  BY <1>1, <1>3 DEF SessionInv, IdsUsed, NoAnswerShown, SignedOutShowsNoTabs, Back, Forms
<1>. QED
  BY <1>4, <1>5, <1>6 DEF SessionInv

LEMMA InvLoginPress == ASSUME NEW a \in Account PROVE SessionInv /\ LoginPress(a) => SessionInv'
<1>. SUFFICES ASSUME SessionInv, LoginPress(a) PROVE SessionInv'
  OBVIOUS
<1>1. /\ taps \in Nat /\ taps' = taps + 1 /\ taps' \in 0 .. MaxTaps
      /\ UNCHANGED <<changes, kills>>
  BY SessionAssumption DEF SessionInv, TypeOK, TapOn, LoginPress
<1>2. PICK page \in Forms :
        /\ Last(stack).page = page
        /\ signIns' = signIns \cup
             {[id |-> taps + 1, account |-> a, page |-> Last(stack).id,
               new |-> page = "register"]}
  BY DEF LoginPress, TapOn, Forms
<1>3. Last(stack).id \in 1 .. taps
  <2>1. stack \in Seq(Page) /\ stack # <<>>
    BY DEF SessionInv, TypeOK, Rooted
  <2>2. Last(stack) \in Range(stack)
    BY <2>1 DEF Last, Range
  <2>. QED
    BY <1>1, <1>2, <2>2 DEF SessionInv, IdsUsed
<1>4. signIns' \subseteq SignIn /\ \A s \in signIns' : s \in signIns \/ s.page \in 1 .. taps
  <2> DEFINE new == page = "register"
  <2>1. new \in BOOLEAN
    OBVIOUS
  <2>. HIDE DEF new
  <2>2. [id |-> taps + 1, account |-> a, page |-> Last(stack).id, new |-> new] \in SignIn
    BY <1>1, <1>3, <2>1 DEF SignIn
  <2>3. signIns' = signIns \cup
          {[id |-> taps + 1, account |-> a, page |-> Last(stack).id, new |-> new]}
    BY <1>2 DEF new
  <2>. QED
    BY <1>3, <2>2, <2>3 DEF SessionInv, TypeOK
<1>5. TypeOK'
  BY <1>1, <1>4 DEF SessionInv, TypeOK, LoginPress
<1>6. IdsUsed'
  BY <1>1, <1>4 DEF SessionInv, IdsUsed, LoginPress
<1>7. Rooted' /\ NoAnswerShown' /\ SignedOutShowsNoTabs'
  BY DEF SessionInv, Rooted, NoAnswerShown, SignedOutShowsNoTabs, LoginPress, Welcome
<1>. QED
  BY <1>5, <1>6, <1>7 DEF SessionInv

\* Only Welcome is left, which no answer is for.
LEMMA InvLogout == SessionInv /\ Logout => SessionInv'
<1>. SUFFICES ASSUME SessionInv, Logout PROVE SessionInv'
  OBVIOUS
<1>1. /\ taps \in Nat /\ taps' = taps + 1 /\ taps' \in 0 .. MaxTaps
      /\ UNCHANGED <<changes, kills>>
  BY SessionAssumption DEF SessionInv, TypeOK, TapOn, Logout
<1>2. stack' = <<Welcome>> /\ Range(stack') = {Welcome}
  BY DEF SessionInv, TypeOK, Rooted, Logout, Range
<1>3. TypeOK'
  <2>1. stack' \in Seq(Page)
    BY <1>2, Pages
  <2>. QED
    BY <1>1, <2>1 DEF SessionInv, TypeOK, Logout
<1>4. Rooted'
  BY <1>2 DEF Rooted, Welcome
<1>5. IdsUsed' /\ NoAnswerShown' /\ SignedOutShowsNoTabs'
  BY <1>1, <1>2, Pages DEF SessionInv, IdsUsed, NoAnswerShown, SignedOutShowsNoTabs, Logout, Forms
<1>. QED
  BY <1>3, <1>4, <1>5 DEF SessionInv

LEMMA InvAuthSucceeds == SessionInv /\ AuthSucceeds => SessionInv'
<1>. SUFFICES ASSUME SessionInv, AuthSucceeds PROVE SessionInv'
  OBVIOUS
<1>1. PICK s \in signIns :
        /\ user' = s.account /\ accounts' = accounts \cup {s.account}
        /\ signIns' = signIns \ {s}
        /\ mainQueue' = Append(mainQueue, SignedIn(s.page, s.new))
        /\ UNCHANGED <<collections, stack, listeners, habits, reminders, bounds>>
  BY DEF AuthSucceeds
<1>2. /\ s.account \in Account /\ s.page \in 1 .. taps /\ s.page \in Nat
      /\ s.new \in BOOLEAN
  BY <1>1 DEF SessionInv, TypeOK, SignIn, IdsUsed
<1>3. /\ mainQueue' \in Seq(Block)
      /\ Range(mainQueue') = Range(mainQueue) \cup {SignedIn(s.page, s.new)}
      /\ SignedIn(s.page, s.new).page = s.page
  BY <1>1, <1>2, RangeAppend, Messages DEF SessionInv, TypeOK
<1>4. TypeOK'
  BY <1>1, <1>2, <1>3 DEF SessionInv, TypeOK, bounds
<1>5. Rooted' /\ IdsUsed'
  BY <1>1, <1>2, <1>3 DEF SessionInv, Rooted, IdsUsed, Welcome, bounds, Forms
<1>6. NoAnswerShown' /\ SignedOutShowsNoTabs'
  BY <1>1, <1>2, SessionAssumption DEF NoAnswerShown, SignedOutShowsNoTabs
<1>. QED
  BY <1>4, <1>5, <1>6 DEF SessionInv

LEMMA InvAuthFails == SessionInv /\ AuthFails => SessionInv'
BY DEF SessionInv, TypeOK, AuthFails, Rooted, IdsUsed, NoAnswerShown,
       SignedOutShowsNoTabs, Welcome, Forms, bounds

\* The tabs come only where a form is that the answer is for, so while somebody
\* is signed in.
LEMMA InvShowTabs == SessionInv /\ ShowTabs => SessionInv'
<1>. SUFFICES ASSUME SessionInv, ShowTabs PROVE SessionInv'
  OBVIOUS
<1> DEFINE answer == Head(mainQueue)
<1>1. /\ answer \in Block /\ answer \in Range(mainQueue) /\ answer.type = "signedIn"
      /\ Tail(mainQueue) \in Seq(Block) /\ Range(Tail(mainQueue)) \subseteq Range(mainQueue)
  BY RangeTail DEF SessionInv, TypeOK, ShowTabs
<1>2. CASE \E p \in Range(stack) : p.id = answer.page
  <2>1. user \in Account
    BY <1>1, <1>2 DEF SessionInv, NoAnswerShown, TypeOK
  <2> DEFINE snapshot == Snapshot(collections[user])
             tabs == Tabs(user)
  <2>2. /\ stack' = Append(stack, tabs)
        /\ listeners' = [listeners EXCEPT ![user] = @ + 1]
        /\ mainQueue' = Append(Tail(mainQueue), snapshot)
        /\ UNCHANGED <<user, accounts, collections, signIns, habits, reminders, bounds>>
    BY <1>2 DEF ShowTabs
  <2>3. snapshot \in Block /\ snapshot.type # "signedIn"
    BY <2>1, Messages DEF SessionInv, TypeOK
  <2>4. tabs \in Page /\ tabs.id = 0 /\ tabs.page \notin Forms
    BY <2>1, Pages DEF Forms
  <2>. HIDE DEF snapshot, tabs
  <2>5. /\ mainQueue' \in Seq(Block)
        /\ Range(mainQueue') = Range(Tail(mainQueue)) \cup {snapshot}
        /\ stack' \in Seq(Page) /\ Range(stack') = Range(stack) \cup {tabs}
        /\ stack' # <<>> /\ stack'[1] = stack[1]
    <3>1. stack \in Seq(Page) /\ stack # <<>>
      BY DEF SessionInv, TypeOK, Rooted
    <3>2. stack' # <<>> /\ stack'[1] = stack[1]
      BY <2>2, <3>1
    <3>3. /\ Append(Tail(mainQueue), snapshot) \in Seq(Block)
          /\ Range(Append(Tail(mainQueue), snapshot)) = Range(Tail(mainQueue)) \cup {snapshot}
      BY <1>1, <2>3, RangeRequeue DEF SessionInv, TypeOK, ShowTabs
    <3>4. /\ Append(stack, tabs) \in Seq(Page)
          /\ Range(Append(stack, tabs)) = Range(stack) \cup {tabs}
      BY <2>4, <3>1, RangeAppend
    <3>. QED
      BY <2>2, <3>2, <3>3, <3>4
  <2>6. TypeOK'
    BY <2>1, <2>2, <2>4, <2>5 DEF SessionInv, TypeOK, bounds
  <2>7. Rooted'
    BY <2>5 DEF SessionInv, Rooted, Welcome
  <2>8. IdsUsed'
    BY <1>1, <2>2, <2>3, <2>4, <2>5, SessionAssumption DEF SessionInv, IdsUsed, bounds, TypeOK
  <2>9. NoAnswerShown' /\ SignedOutShowsNoTabs'
    BY <2>1, <2>2, SessionAssumption DEF NoAnswerShown, SignedOutShowsNoTabs
  <2>. QED
    BY <2>6, <2>7, <2>8, <2>9 DEF SessionInv
<1>3. CASE ~(\E p \in Range(stack) : p.id = answer.page)
  <2>1. /\ mainQueue' = Tail(mainQueue)
        /\ UNCHANGED <<stack, listeners, user, accounts, collections, signIns, habits,
                       reminders, bounds>>
    BY <1>3 DEF ShowTabs
  <2>2. TypeOK'
    BY <1>1, <2>1 DEF SessionInv, TypeOK, bounds
  <2>. QED
    BY <1>1, <2>1, <2>2, Steady DEF bounds
<1>. QED
  BY <1>2, <1>3

LEMMA InvHearOfHabits == SessionInv /\ HearOfHabits => SessionInv'
<1>. SUFFICES ASSUME SessionInv, HearOfHabits PROVE SessionInv'
  OBVIOUS
<1>1. /\ mainQueue' \in Seq(Block) /\ Head(mainQueue) \in Block
      /\ Range(mainQueue') \subseteq Range(mainQueue) \cup {Reload}
  BY RangeTail, RangeRequeue, Messages DEF SessionInv, TypeOK, HearOfHabits
<1>2. TypeOK'
  BY <1>1, Messages DEF SessionInv, TypeOK, HearOfHabits, bounds
<1>. QED
  BY <1>1, <1>2, Steady, Messages DEF HearOfHabits, bounds

LEMMA InvHearOfError == SessionInv /\ HearOfError => SessionInv'
<1>. SUFFICES ASSUME SessionInv, HearOfError PROVE SessionInv'
  OBVIOUS
<1>1. mainQueue' \in Seq(Block) /\ Range(mainQueue') \subseteq Range(mainQueue)
  BY RangeTail DEF SessionInv, TypeOK, HearOfError
<1>2. TypeOK'
  BY <1>1 DEF SessionInv, TypeOK, HearOfError, bounds
<1>. QED
  BY <1>1, <1>2, Steady DEF HearOfError, bounds

LEMMA InvReloadTable == SessionInv /\ ReloadTable => SessionInv'
<1>. SUFFICES ASSUME SessionInv, ReloadTable PROVE SessionInv'
  OBVIOUS
<1>1. mainQueue' \in Seq(Block) /\ Range(mainQueue') \subseteq Range(mainQueue)
  BY RangeTail DEF SessionInv, TypeOK, ReloadTable
<1>2. TypeOK'
  BY <1>1, RemindersTyped DEF SessionInv, TypeOK, ReloadTable, bounds
<1>. QED
  BY <1>1, <1>2, Steady DEF ReloadTable, bounds

LEMMA InvHabitsChange == SessionInv /\ HabitsChange => SessionInv'
<1>. SUFFICES ASSUME SessionInv, HabitsChange PROVE SessionInv'
  OBVIOUS
<1>1. PICK a \in accounts, list \in SUBSET Habit :
        /\ collections' = [collections EXCEPT ![a] = list]
        /\ mainQueue' = IF a # user THEN mainQueue
                        ELSE mainQueue \o Called(listeners[a], Snapshot(list))
  BY DEF HabitsChange
<1>2. /\ mainQueue \in Seq(Block) /\ listeners[a] \in Nat
      /\ Snapshot(list) \in Block /\ Snapshot(list).type # "signedIn"
  BY Messages DEF SessionInv, TypeOK
<1>3. /\ mainQueue' \in Seq(Block)
      /\ Range(mainQueue') \subseteq Range(mainQueue) \cup {Snapshot(list)}
  BY <1>1, <1>2, RangeCalled
<1>4. TypeOK'
  BY <1>1, <1>3, SessionAssumption DEF SessionInv, TypeOK, HabitsChange
<1>. QED
  BY <1>2, <1>3, <1>4, Steady DEF HabitsChange

LEMMA InvListenRefused == SessionInv /\ ListenRefused => SessionInv'
<1>. SUFFICES ASSUME SessionInv, ListenRefused PROVE SessionInv'
  OBVIOUS
<1>1. PICK a \in Account :
        /\ listeners' = [listeners EXCEPT ![a] = 0]
        /\ mainQueue' = mainQueue \o Called(listeners[a], ListenError)
  BY DEF ListenRefused
<1>2. mainQueue \in Seq(Block) /\ listeners[a] \in Nat
  BY DEF SessionInv, TypeOK
<1>3. /\ mainQueue' \in Seq(Block)
      /\ Range(mainQueue') \subseteq Range(mainQueue) \cup {ListenError}
  BY <1>1, <1>2, RangeCalled, Messages
<1>4. TypeOK'
  BY <1>1, <1>3 DEF SessionInv, TypeOK, ListenRefused, bounds
<1>. QED
  BY <1>3, <1>4, Steady, Messages DEF ListenRefused, bounds

LEMMA InvRelaunch == SessionInv /\ Relaunch => SessionInv'
<1>. SUFFICES ASSUME SessionInv, Relaunch PROVE SessionInv'
  OBVIOUS
<1>1. /\ kills' \in 0 .. MaxKills /\ signIns' = {} /\ habits' = {} /\ taps \in Nat
      /\ UNCHANGED <<user, accounts, collections, reminders, taps, changes>>
  BY SessionAssumption DEF SessionInv, TypeOK, Relaunch
<1>2. CASE user = NoUser
  <2>1. /\ stack' = <<Welcome>> /\ mainQueue' = <<>> /\ listeners' = Nobody
        /\ Range(stack') = {Welcome} /\ Range(mainQueue') = {}
    BY <1>2 DEF Relaunch, Range
  <2>2. stack' \in Seq(Page) /\ listeners' \in [Account -> Nat]
    BY <2>1, Pages DEF Nobody
  <2>3. TypeOK'
    BY <1>1, <2>1, <2>2 DEF SessionInv, TypeOK
  <2>4. Rooted'
    BY <2>1 DEF Rooted, Welcome
  <2>5. IdsUsed' /\ NoAnswerShown' /\ SignedOutShowsNoTabs'
    BY <1>1, <2>1, Pages DEF IdsUsed, NoAnswerShown, SignedOutShowsNoTabs, Forms
  <2>. QED
    BY <2>3, <2>4, <2>5 DEF SessionInv
<1>3. CASE user # NoUser
  <2>1. user \in Account
    BY <1>3 DEF SessionInv, TypeOK
  <2> DEFINE snapshot == Snapshot(collections[user])
             tabs == Tabs(user)
  <2>2. /\ stack' = <<Welcome, tabs>> /\ mainQueue' = <<snapshot>>
        /\ listeners' = [Nobody EXCEPT ![user] = 1]
    BY <1>3 DEF Relaunch
  <2>3. /\ tabs \in Page /\ tabs.id = 0 /\ tabs.page \notin Forms
        /\ snapshot \in Block /\ snapshot.type # "signedIn"
    BY <2>1, Pages, Messages DEF SessionInv, TypeOK, Forms
  <2>. HIDE DEF snapshot, tabs
  <2>4. /\ stack' \in Seq(Page) /\ mainQueue' \in Seq(Block)
        /\ Range(stack') = {Welcome, tabs} /\ Range(mainQueue') = {snapshot}
    BY <2>2, <2>3, Pages DEF Range
  <2>5. listeners' \in [Account -> Nat]
    BY <2>2 DEF Nobody
  <2>6. TypeOK'
    BY <1>1, <2>4, <2>5 DEF SessionInv, TypeOK
  <2>7. Rooted'
    BY <2>2 DEF Rooted, Welcome
  <2>8. IdsUsed'
    BY <1>1, <2>3, <2>4, Pages DEF IdsUsed, Forms
  <2>9. NoAnswerShown' /\ SignedOutShowsNoTabs'
    BY <1>1, <1>3 DEF NoAnswerShown, SignedOutShowsNoTabs
  <2>. QED
    BY <2>6, <2>7, <2>8, <2>9 DEF SessionInv
<1>. QED
  BY <1>2, <1>3

LEMMA InvNext == SessionInv /\ [Next]_vars => SessionInv'
<1>. SUFFICES ASSUME SessionInv, [Next]_vars PROVE SessionInv'
  OBVIOUS
<1>1. CASE PressLogin
  BY <1>1, PushForm DEF PressLogin, Forms
<1>2. CASE PressRegister
  BY <1>2, PushForm DEF PressRegister, Forms
<1>3. CASE \E a \in Account : LoginPress(a)
  BY <1>3, InvLoginPress
<1>4. CASE UNCHANGED vars
  BY <1>4 DEF vars, bounds, SessionInv, TypeOK, Rooted, IdsUsed, NoAnswerShown,
              SignedOutShowsNoTabs, Welcome, Forms
<1>. QED
  BY <1>1, <1>2, <1>3, <1>4, InvBack, InvLogout, InvAuthSucceeds, InvAuthFails,
     InvShowTabs, InvHearOfHabits, InvHearOfError, InvReloadTable, InvHabitsChange,
     InvListenRefused, InvRelaunch DEF Next, AppStep

-----------------------------------------------------------------------------
(* The user who waits                                                      *)

LEMMA EndOfAppend ==
  ASSUME NEW S, NEW q \in Seq(S), NEW x \in S
  PROVE  Last(Append(q, x)) = x /\ Append(q, x) # <<>>
<1>1. Len(Append(q, x)) = Len(q) + 1 /\ Append(q, x)[Len(q) + 1] = x /\ Len(q) \in Nat
  OBVIOUS
<1>. QED
  BY <1>1 DEF Last

LEMMA EndInRange ==
  ASSUME NEW S, NEW q \in Seq(S), q # <<>>
  PROVE  Last(q) \in Range(q) /\ Last(q) \in S
BY DEF Last, Range

LEMMA NothingCalled ==
  ASSUME NEW S, NEW q \in Seq(S), NEW x \in S
  PROVE  /\ q \o Called(0, x) = q
         /\ q \o Called(1, x) = Append(q, x)
<1>1. Called(0, x) = <<>> /\ Called(1, x) = <<x>>
  BY DEF Called
<1>2. q \o <<>> = q
  OBVIOUS
<1>3. q \o <<x>> = Append(q, x)
  OBVIOUS
<1>. QED
  BY <1>1, <1>2, <1>3

\* What the list is once the blocks of the queue have run: its last snapshot.
LastSnapshot(q, i) ==
  /\ q[i].type = "snapshot"
  /\ \A j \in DOMAIN q : j > i => q[j].type # "snapshot"

Heard(q, list, truth) ==
  /\ (\A i \in DOMAIN q : q[i].type # "snapshot") => list = truth
  /\ \A i \in DOMAIN q : LastSnapshot(q, i) => q[i].list = truth

LEMMA HeardAppend ==
  ASSUME NEW q \in Seq(Block), NEW list, NEW truth \in SUBSET Habit
  PROVE  /\ Heard(Append(q, Snapshot(truth)), list, truth)
         /\ Heard(q, list, truth) => Heard(Append(q, Reload), list, truth)
<1> DEFINE n == Len(q)
<1>1. ASSUME NEW b \in Block
      PROVE  /\ n \in Nat /\ DOMAIN q = 1 .. n /\ DOMAIN Append(q, b) = 1 .. n + 1
             /\ \A i \in 1 .. n : Append(q, b)[i] = q[i]
             /\ Append(q, b)[n + 1] = b
             /\ 1 .. n \subseteq 1 .. n + 1 /\ n + 1 \in 1 .. n + 1
             /\ \A i \in 1 .. n : n + 1 > i
             /\ \A i \in 1 .. n + 1 : i = n + 1 \/ i \in 1 .. n
  <2>1. n \in Nat /\ DOMAIN q = 1 .. n /\ DOMAIN Append(q, b) = 1 .. n + 1
        /\ \A i \in 1 .. n : Append(q, b)[i] = q[i]
        /\ Append(q, b)[n + 1] = b
    OBVIOUS
  <2>. QED
    BY <2>1
<1>2. Heard(Append(q, Snapshot(truth)), list, truth)
  <2>1. Snapshot(truth) \in Block /\ Snapshot(truth).type = "snapshot"
        /\ Snapshot(truth).list = truth
    BY Messages DEF Snapshot
  <2>. QED
    BY <1>1, <2>1 DEF Heard, LastSnapshot
<1>3. Heard(q, list, truth) => Heard(Append(q, Reload), list, truth)
  <2>1. Reload \in Block /\ Reload.type # "snapshot"
    BY Messages DEF Reload
  <2>. QED
    BY <1>1, <2>1 DEF Heard, LastSnapshot
<1>. QED
  BY <1>2, <1>3

LEMMA HeardTail ==
  ASSUME NEW q \in Seq(Block), q # <<>>, NEW list, NEW truth, Heard(q, list, truth)
  PROVE  /\ Head(q).type = "snapshot" => Heard(Tail(q), Head(q).list, truth)
         /\ Head(q).type # "snapshot" => Heard(Tail(q), list, truth)
<1> DEFINE n == Len(q)
<1>1. /\ n \in Nat /\ n > 0 /\ DOMAIN q = 1 .. n /\ DOMAIN Tail(q) = 1 .. n - 1
      /\ \A i \in 1 .. n - 1 : Tail(q)[i] = q[i + 1]
      /\ Head(q) = q[1]
  OBVIOUS
<1>2. /\ \A i \in 1 .. n - 1 : i + 1 \in 1 .. n
      /\ 1 \in 1 .. n
      /\ \A i \in 1 .. n : i = 1 \/ (i - 1 \in 1 .. n - 1 /\ (i - 1) + 1 = i)
      /\ \A i \in 1 .. n - 1, j \in 1 .. n : j > i + 1 => j # 1 /\ j - 1 > i
  BY <1>1
<1>3. ASSUME NEW i \in 1 .. n - 1, LastSnapshot(Tail(q), i)
      PROVE  Tail(q)[i].list = truth
  <2>1. LastSnapshot(q, i + 1)
    <3>1. q[i + 1].type = "snapshot"
      BY <1>1, <1>3 DEF LastSnapshot
    <3>2. ASSUME NEW j \in 1 .. n, j > i + 1
          PROVE  q[j].type # "snapshot"
      <4>1. j - 1 \in 1 .. n - 1 /\ (j - 1) + 1 = j /\ j - 1 > i
        BY <1>2, <3>2
      <4>. QED
        BY <1>1, <1>3, <4>1 DEF LastSnapshot
    <3>. QED
      BY <1>1, <3>1, <3>2 DEF LastSnapshot
  <2>. QED
    BY <1>1, <1>2, <2>1 DEF Heard
<1>4. ASSUME \A i \in 1 .. n - 1 : Tail(q)[i].type # "snapshot"
      PROVE  \A j \in 1 .. n : j # 1 => q[j].type # "snapshot"
  <2>1. ASSUME NEW j \in 1 .. n, j # 1
        PROVE  q[j].type # "snapshot"
    <3>1. j - 1 \in 1 .. n - 1 /\ (j - 1) + 1 = j
      BY <1>2, <2>1
    <3>. QED
      BY <1>1, <1>4, <3>1
  <2>. QED
    BY <2>1
<1>5. ASSUME \A i \in 1 .. n - 1 : Tail(q)[i].type # "snapshot"
      PROVE  /\ Head(q).type = "snapshot" => Head(q).list = truth
             /\ Head(q).type # "snapshot" => list = truth
  <2>1. \A j \in 1 .. n : j > 1 => j # 1
    OBVIOUS
  <2>2. q[1].type = "snapshot" => LastSnapshot(q, 1)
    BY <1>1, <1>4, <1>5, <2>1 DEF LastSnapshot
  <2>3. q[1].type # "snapshot" => \A j \in 1 .. n : q[j].type # "snapshot"
    BY <1>4, <1>5
  <2>. QED
    BY <1>1, <1>2, <2>2, <2>3 DEF Heard
<1>. QED
  BY <1>1, <1>3, <1>5 DEF Heard

\* Nobody is signed in: the listeners left behind say nothing but that they are
\* refused, and a call of signIn is made when all of that is over.
Calling(s) ==
  /\ signIns = {s} /\ mainQueue = <<>> /\ habits = {}
  /\ \A a \in Account : listeners[a] = 0
  /\ Last(stack).page \in Forms /\ Last(stack).id = s.page

SignedOut ==
  /\ reminders = {}
  /\ \A b \in Range(mainQueue) : b.type = "error"
  /\ habits = {} \/ mainQueue # <<>> \/ \E a \in Account : listeners[a] > 0
  /\ \A s \in signIns : Calling(s)

\* Somebody is, and the form has still to show the tabs.
SigningIn ==
  /\ signIns = {} /\ habits = {} /\ reminders = {}
  /\ \A a \in Account : listeners[a] = 0
  /\ Last(stack).page \in Forms
  /\ \E new \in BOOLEAN : mainQueue = <<SignedIn(Last(stack).id, new)>>

\* The tabs are shown, and one Home listens, for whoever is signed in.
AtHome ==
  /\ signIns = {} /\ Last(stack) = Tabs(user)
  /\ listeners[user] = 1 /\ \A a \in Account \ {user} : listeners[a] = 0
  /\ \A b \in Range(mainQueue) : b.type \in {"snapshot", "reload"}
  /\ Heard(mainQueue, habits, collections[user])
  /\ mainQueue = <<>> => reminders = RemindersOf(habits)

PatientInv == IF user = NoUser THEN SignedOut ELSE SigningIn \/ AtHome

\* A tap of a user who waits: nothing is under way.
LEMMA PatientTap ==
  ASSUME Patient, SessionInv, PatientInv, NEW page, TapOn(page)
  PROVE  /\ signIns = {} /\ mainQueue = <<>> /\ Last(stack).page = page
         /\ \A a \in Account \ {user} : listeners[a] = 0
         /\ user = NoUser => habits = {} /\ reminders = {}
                             /\ \A a \in Account : listeners[a] = 0
         /\ user # NoUser => page = "tabs" /\ AtHome /\ user \in Account
<1>1. /\ signIns = {} /\ mainQueue = <<>> /\ Last(stack).page = page
      /\ \A a \in Account \ {user} : listeners[a] = 0
  BY DEF TapOn, Quiet
<1>2. CASE user = NoUser
  <2>1. \A a \in Account : listeners[a] = 0
    BY <1>1, <1>2, SessionAssumption
  <2>. QED
    BY <1>1, <1>2, <2>1 DEF PatientInv, SignedOut
<1>3. CASE user # NoUser
  <2>1. AtHome
    BY <1>1, <1>3 DEF PatientInv, SigningIn
  <2>2. user \in Account
    BY <1>3 DEF SessionInv, TypeOK
  <2>. QED
    BY <1>1, <1>3, <2>1, <2>2 DEF AtHome, Tabs
<1>. QED
  BY <1>2, <1>3

LEMMA PatientTaps ==
  ASSUME Patient, SessionInv, PatientInv,
         PressLogin \/ PressRegister \/ Back \/ (\E a \in Account : LoginPress(a)) \/ Logout
  PROVE  PatientInv'
<1>1. CASE PressLogin \/ PressRegister \/ Back
  <2>1. user = NoUser /\ signIns = {} /\ mainQueue = <<>> /\ habits = {} /\ reminders = {}
    BY <1>1, PatientTap DEF PressLogin, PressRegister, Back
  <2>2. UNCHANGED <<user, signIns, mainQueue, listeners, habits, reminders>>
    BY <1>1 DEF PressLogin, PressRegister, Back
  <2>. QED
    BY <2>1, <2>2 DEF PatientInv, SignedOut, Range
<1>2. ASSUME NEW a \in Account, LoginPress(a)
      PROVE  PatientInv'
  <2>1. PICK page \in Forms :
          /\ TapOn(page)
          /\ signIns' = signIns \cup
               {[id |-> taps + 1, account |-> a, page |-> Last(stack).id,
                 new |-> page = "register"]}
    BY <1>2 DEF LoginPress, Forms
  <2>2. /\ user = NoUser /\ signIns = {} /\ mainQueue = <<>> /\ habits = {}
        /\ reminders = {} /\ Last(stack).page = page
        /\ \A b \in Account : listeners[b] = 0
    BY <2>1, PatientTap DEF Forms
  <2>3. UNCHANGED <<user, stack, mainQueue, listeners, habits, reminders>>
    BY <1>2 DEF LoginPress
  <2>4. PICK s : s = [id |-> taps + 1, account |-> a, page |-> Last(stack).id,
                      new |-> page = "register"]
    OBVIOUS
  <2>5. signIns' = {s} /\ s.page = Last(stack).id
    BY <2>1, <2>2, <2>4
  <2>6. Calling(s)'
    BY <2>2, <2>3, <2>5 DEF Calling
  <2>. QED
    BY <2>2, <2>3, <2>5, <2>6 DEF PatientInv, SignedOut, Range
<1>3. CASE Logout
  <2>1. /\ user # NoUser => AtHome /\ user \in Account
        /\ signIns = {} /\ mainQueue = <<>> /\ (user = NoUser => habits = {})
    BY <1>3, PatientTap DEF Logout
  <2>2. habits = {} \/ \E a \in Account : listeners[a] > 0
    BY <2>1 DEF AtHome
  <2>3. user' = NoUser /\ reminders' = {}
        /\ UNCHANGED <<signIns, mainQueue, listeners, habits>>
    BY <1>3 DEF Logout
  <2>. QED
    BY <2>1, <2>2, <2>3 DEF PatientInv, SignedOut, Range
<1>. QED
  BY <1>1, <1>2, <1>3

LEMMA PatientAnswers ==
  ASSUME SessionInv, SessionInv', PatientInv, AuthSucceeds \/ AuthFails \/ ShowTabs
  PROVE  PatientInv'
<1>1. CASE AuthSucceeds
  <2>1. PICK s \in signIns :
          /\ user' = s.account /\ signIns' = signIns \ {s}
          /\ mainQueue' = Append(mainQueue, SignedIn(s.page, s.new))
          /\ UNCHANGED <<stack, listeners, habits, reminders>>
    BY <1>1 DEF AuthSucceeds
  <2>2. user = NoUser
    BY <2>1 DEF PatientInv, SigningIn, AtHome
  <2>3. Calling(s) /\ reminders = {}
    BY <2>1, <2>2 DEF PatientInv, SignedOut
  <2>4. s.account \in Account /\ s.new \in BOOLEAN
    BY <2>1 DEF SessionInv, TypeOK, SignIn
  <2>5. mainQueue' = <<SignedIn(s.page, s.new)>>
    BY <2>1, <2>3 DEF Calling
  <2>6. SigningIn'
    BY <2>1, <2>3, <2>4, <2>5 DEF SigningIn, Calling
  <2>. QED
    BY <2>1, <2>4, <2>6, SessionAssumption DEF PatientInv
<1>2. CASE AuthFails
  <2>1. PICK s \in signIns : signIns' = signIns \ {s}
    BY <1>2 DEF AuthFails
  <2>2. UNCHANGED <<user, stack, mainQueue, listeners, habits, reminders>>
    BY <1>2 DEF AuthFails
  <2>3. user = NoUser /\ Calling(s)
    BY <2>1 DEF PatientInv, SigningIn, AtHome, SignedOut
  <2>4. signIns' = {}
    BY <2>1, <2>3 DEF Calling
  <2>. QED
    BY <2>2, <2>3, <2>4 DEF PatientInv, SignedOut
<1>3. CASE ShowTabs
  <2>1. Head(mainQueue).type = "signedIn" /\ Head(mainQueue) \in Range(mainQueue)
    BY <1>3, RangeTail DEF ShowTabs, SessionInv, TypeOK
  <2>2. user # NoUser /\ SigningIn
    BY <2>1 DEF PatientInv, SignedOut, AtHome
  <2>3. PICK new \in BOOLEAN : mainQueue = <<SignedIn(Last(stack).id, new)>>
    BY <2>2 DEF SigningIn
  <2>4. user \in Account /\ collections[user] \in SUBSET Habit /\ stack \in Seq(Page)
        /\ stack # <<>> /\ listeners \in [Account -> Nat]
    BY <2>2 DEF SessionInv, TypeOK, Rooted
  <2>5. Last(stack) \in Range(stack) /\ Last(stack).id = Head(mainQueue).page
    BY <2>3, <2>4, EndInRange DEF SignedIn
  <2>6. /\ stack' = Append(stack, Tabs(user))
        /\ listeners' = [listeners EXCEPT ![user] = @ + 1]
        /\ mainQueue' = Append(Tail(mainQueue), Snapshot(collections[user]))
        /\ UNCHANGED <<user, collections, signIns, habits, reminders>>
    BY <1>3, <2>5 DEF ShowTabs
  <2>7. mainQueue' = Append(<<>>, Snapshot(collections[user]))
        /\ mainQueue' = <<Snapshot(collections[user])>>
    BY <2>3, <2>6
  <2>8. Last(stack') = Tabs(user)
    BY <2>4, <2>6, Pages, EndOfAppend
  <2>9. <<>> \in Seq(Block)
    OBVIOUS
  <2>10. Heard(mainQueue', habits', collections'[user'])
    BY <2>4, <2>6, <2>7, <2>9, HeardAppend
  <2>11. \A b \in Range(mainQueue') : b.type = "snapshot"
    BY <2>7 DEF Range, Snapshot
  <2>12. listeners'[user] = 1 /\ \A a \in Account \ {user} : listeners'[a] = 0
    BY <2>2, <2>4, <2>6 DEF SigningIn
  <2>13. AtHome'
    BY <2>2, <2>6, <2>7, <2>8, <2>10, <2>11, <2>12 DEF AtHome, SigningIn
  <2>. QED
    BY <2>2, <2>6, <2>13 DEF PatientInv
<1>. QED
  BY <1>1, <1>2, <1>3

LEMMA PatientHears ==
  ASSUME SessionInv, PatientInv, HearOfHabits \/ HearOfError \/ ReloadTable
  PROVE  PatientInv'
<1>1. /\ mainQueue \in Seq(Block) /\ mainQueue # <<>>
      /\ Head(mainQueue) \in Range(mainQueue) /\ Head(mainQueue) \in Block
      /\ Tail(mainQueue) \in Seq(Block) /\ Range(Tail(mainQueue)) \subseteq Range(mainQueue)
      /\ UNCHANGED <<user, stack, collections, signIns, listeners>>
  BY RangeTail DEF SessionInv, TypeOK, HearOfHabits, HearOfError, ReloadTable
<1>2. user # NoUser => collections[user] \in SUBSET Habit
  BY DEF SessionInv, TypeOK
<1>3. CASE HearOfHabits
  <2>1. /\ Head(mainQueue).type = "snapshot" /\ habits' = Head(mainQueue).list
        /\ mainQueue' = Append(Tail(mainQueue), Reload) /\ UNCHANGED reminders
    BY <1>3 DEF HearOfHabits
  <2>2. user # NoUser /\ AtHome
    BY <1>1, <2>1 DEF PatientInv, SignedOut, SigningIn, SignedIn
  <2>3. /\ mainQueue' \in Seq(Block) /\ mainQueue' # <<>>
        /\ Range(mainQueue') = Range(Tail(mainQueue)) \cup {Reload}
    BY <1>1, <2>1, RangeRequeue, EndOfAppend, Messages
  <2>4. Heard(Tail(mainQueue), habits', collections[user])
    BY <1>1, <2>1, <2>2, HeardTail DEF AtHome
  <2>5. Heard(mainQueue', habits', collections[user])
    BY <1>1, <1>2, <2>1, <2>2, <2>4, HeardAppend
  <2>6. \A b \in Range(mainQueue') : b.type \in {"snapshot", "reload"}
    BY <1>1, <2>2, <2>3 DEF AtHome, Reload
  <2>7. AtHome'
    BY <1>1, <2>2, <2>3, <2>5, <2>6 DEF AtHome
  <2>. QED
    BY <1>1, <2>2, <2>7 DEF PatientInv
<1>4. CASE HearOfError
  <2>1. /\ Head(mainQueue).type = "error" /\ habits' = {}
        /\ mainQueue' = Tail(mainQueue) /\ UNCHANGED reminders
    BY <1>4 DEF HearOfError
  <2>2. user = NoUser
    BY <1>1, <2>1 DEF PatientInv, SigningIn, SignedIn, AtHome
  <2>3. signIns = {}
    BY <1>1, <2>2 DEF PatientInv, SignedOut, Calling
  <2>. QED
    BY <1>1, <2>1, <2>2, <2>3 DEF PatientInv, SignedOut
<1>5. CASE ReloadTable
  <2>1. /\ Head(mainQueue) = Reload /\ reminders' = RemindersOf(habits)
        /\ mainQueue' = Tail(mainQueue) /\ UNCHANGED habits
    BY <1>5 DEF ReloadTable
  <2>2. Reload.type = "reload"
    BY DEF Reload
  <2>3. user # NoUser /\ AtHome
    BY <1>1, <2>1, <2>2 DEF PatientInv, SignedOut, SigningIn, SignedIn
  <2>4. Heard(mainQueue', habits', collections[user])
    BY <1>1, <2>1, <2>2, <2>3, HeardTail DEF AtHome
  <2>5. AtHome'
    BY <1>1, <2>1, <2>3, <2>4 DEF AtHome
  <2>. QED
    BY <1>1, <2>3, <2>5 DEF PatientInv
<1>. QED
  BY <1>3, <1>4, <1>5

LEMMA PatientChange ==
  ASSUME SessionInv, PatientInv, HabitsChange
  PROVE  PatientInv'
<1>1. PICK a \in accounts, list \in SUBSET Habit :
        /\ collections' = [collections EXCEPT ![a] = list]
        /\ mainQueue' = IF a # user THEN mainQueue
                        ELSE mainQueue \o Called(listeners[a], Snapshot(list))
  BY DEF HabitsChange
<1>2. /\ UNCHANGED <<user, stack, signIns, listeners, habits, reminders>>
      /\ mainQueue \in Seq(Block) /\ collections \in [Account -> SUBSET Habit]
      /\ a \in Account /\ Snapshot(list) \in Block
  BY Messages DEF HabitsChange, SessionInv, TypeOK
<1>3. CASE user = NoUser
  BY <1>1, <1>2, <1>3, SessionAssumption DEF PatientInv, SignedOut, Calling
<1>4. CASE SigningIn /\ user # NoUser
  <2>1. listeners[a] = 0
    BY <1>2, <1>4 DEF SigningIn
  <2>2. mainQueue' = mainQueue
    BY <1>1, <1>2, <2>1, NothingCalled
  <2>. QED
    BY <1>2, <1>4, <2>2 DEF PatientInv, SigningIn
<1>5. CASE AtHome /\ user # NoUser
  <2>1. CASE a # user
    <3>1. mainQueue' = mainQueue /\ collections'[user] = collections[user]
      BY <1>1, <1>2, <2>1
    <3>. QED
      BY <1>2, <1>5, <3>1 DEF PatientInv, AtHome
  <2>2. CASE a = user
    <3>1. mainQueue' = Append(mainQueue, Snapshot(list)) /\ collections'[user] = list
      BY <1>1, <1>2, <1>5, <2>2, NothingCalled DEF AtHome
    <3>2. Heard(mainQueue', habits', collections'[user'])
      BY <1>2, <3>1, HeardAppend
    <3>3. Range(mainQueue') = Range(mainQueue) \cup {Snapshot(list)} /\ mainQueue' # <<>>
      BY <1>2, <3>1, RangeAppend, EndOfAppend
    <3>4. \A b \in Range(mainQueue') : b.type \in {"snapshot", "reload"}
      BY <1>5, <3>3 DEF AtHome, Snapshot
    <3>. QED
      BY <1>2, <1>5, <3>2, <3>3, <3>4 DEF PatientInv, AtHome
  <2>. QED
    BY <2>1, <2>2
<1>. QED
  BY <1>3, <1>4, <1>5 DEF PatientInv

\* Only what the former account's Home listened to is refused.
LEMMA PatientRefused ==
  ASSUME SessionInv, PatientInv, ListenRefused
  PROVE  PatientInv'
<1>1. PICK a \in Account \ {user} :
        /\ listeners[a] > 0
        /\ listeners' = [listeners EXCEPT ![a] = 0]
        /\ mainQueue' = mainQueue \o Called(listeners[a], ListenError)
        /\ UNCHANGED <<user, signIns, habits, reminders>>
  BY DEF ListenRefused
<1>2. mainQueue \in Seq(Block) /\ listeners[a] \in Nat /\ ListenError \in Block
  BY Messages DEF SessionInv, TypeOK
<1>3. user = NoUser /\ signIns = {}
  <2>1. listeners[a] # 0
    BY <1>1, <1>2
  <2>. QED
    BY <1>1, <2>1 DEF PatientInv, SigningIn, AtHome, SignedOut, Calling
<1>4. Range(mainQueue') \subseteq Range(mainQueue) \cup {ListenError}
  BY <1>1, <1>2, RangeCalled
<1>5. mainQueue' # <<>>
  <2> DEFINE c == Called(listeners[a], ListenError)
  <2>1. c \in Seq(Block) /\ Len(c) = listeners[a]
    BY <1>2 DEF Called
  <2>. HIDE DEF c
  <2>2. Len(mainQueue \o c) = Len(mainQueue) + Len(c) /\ Len(mainQueue) \in Nat
    BY <1>2, <2>1
  <2>3. Len(mainQueue') # 0
    BY <1>1, <1>2, <2>1, <2>2 DEF c
  <2>. QED
    BY <2>3
<1>. QED
  BY <1>1, <1>3, <1>4, <1>5 DEF PatientInv, SignedOut, ListenError

LEMMA PatientRelaunch ==
  ASSUME SessionInv, PatientInv, Relaunch
  PROVE  PatientInv'
<1>1. signIns' = {} /\ habits' = {} /\ UNCHANGED <<user, collections, reminders>>
  BY DEF Relaunch
<1>2. CASE user = NoUser
  <2>1. mainQueue' = <<>>
    BY <1>2 DEF Relaunch
  <2>. QED
    BY <1>1, <1>2, <2>1 DEF PatientInv, SignedOut, Range
<1>3. CASE user # NoUser
  <2>1. user \in Account /\ collections[user] \in SUBSET Habit
    BY <1>3 DEF SessionInv, TypeOK
  <2>2. /\ stack' = <<Welcome, Tabs(user)>>
        /\ listeners' = [Nobody EXCEPT ![user] = 1]
        /\ mainQueue' = <<Snapshot(collections[user])>>
        /\ mainQueue' = Append(<<>>, Snapshot(collections[user]))
    BY <1>3 DEF Relaunch
  <2>3. Last(stack') = Tabs(user)
    BY <2>2 DEF Last
  <2>4. listeners'[user] = 1 /\ \A a \in Account \ {user} : listeners'[a] = 0
    BY <2>1, <2>2 DEF Nobody
  <2>5. <<>> \in Seq(Block)
    OBVIOUS
  <2>6. Heard(mainQueue', habits', collections'[user'])
    BY <1>1, <2>1, <2>2, <2>5, HeardAppend
  <2>7. \A b \in Range(mainQueue') : b.type = "snapshot"
    BY <2>2 DEF Range, Snapshot
  <2>8. mainQueue' # <<>>
    BY <2>2
  <2>. QED
    BY <1>1, <1>3, <2>3, <2>4, <2>6, <2>7, <2>8 DEF PatientInv, AtHome
<1>. QED
  BY <1>2, <1>3

LEMMA PatientNext ==
  ASSUME Patient, SessionInv, PatientInv, [Next]_vars
  PROVE  PatientInv'
<1>1. SessionInv'
  BY InvNext
<1>2. CASE UNCHANGED vars
  BY <1>2 DEF vars, PatientInv, SignedOut, Calling, SigningIn, AtHome
<1>. QED
  BY <1>1, <1>2, PatientTaps, PatientAnswers, PatientHears, PatientChange,
     PatientRefused, PatientRelaunch DEF Next, AppStep

LEMMA PatientProperties ==
  ASSUME SessionInv, PatientInv
  PROVE  PageIsUsers /\ RemindersAreUsers
<1>1. SUFFICES ASSUME Quiet
               PROVE  /\ user = NoUser => /\ Last(stack).page # "tabs" /\ habits = {}
                                          /\ reminders = {}
                      /\ user # NoUser => /\ Last(stack) = Tabs(user)
                                          /\ habits = collections[user]
                                          /\ reminders = RemindersOf(collections[user])
  BY DEF PageIsUsers, RemindersAreUsers
<1>2. mainQueue = <<>> /\ \A a \in Account \ {user} : listeners[a] = 0
  BY <1>1 DEF Quiet
<1>3. CASE user = NoUser
  <2>1. Last(stack) \in Range(stack)
    BY EndInRange DEF SessionInv, TypeOK, Rooted
  <2>2. habits = {} /\ reminders = {}
    BY <1>2, <1>3, SessionAssumption DEF PatientInv, SignedOut
  <2>. QED
    BY <1>3, <2>1, <2>2 DEF SessionInv, SignedOutShowsNoTabs
<1>4. CASE user # NoUser
  <2>1. AtHome
    BY <1>2, <1>4 DEF PatientInv, SigningIn
  <2>2. habits = collections[user]
    BY <1>2, <2>1 DEF AtHome, Heard
  <2>. QED
    BY <1>2, <1>4, <2>1, <2>2 DEF AtHome
<1>. QED
  BY <1>3, <1>4

LEMMA PatientInit == Init => PatientInv
BY DEF Init, PatientInv, SignedOut, Range

-----------------------------------------------------------------------------
(* Theorems                                                                *)

\* Every variable of the session keeps its type; in particular the list and the
\* reminders are only ever made of habits.
THEOREM SessionTyped == Spec => []TypeOK
<1>1. SessionInv => TypeOK
  BY DEF SessionInv
<1>. QED
  BY <1>1, InvInit, InvNext, PTL DEF Spec

\* No order of presses, answers, logouts and kills leaves the tabs on a device
\* nobody is signed in on: the completion of signIn, which pushes them, finds
\* the form it belongs to popped by the logout.
THEOREM SignedOutIsShown == Spec => []SignedOutShowsNoTabs
<1>1. SessionInv => SignedOutShowsNoTabs
  BY DEF SessionInv
<1>. QED
  BY <1>1, InvInit, InvNext, PTL DEF Spec

\* A user who waits for the app before every tap sees the page and the habits of the
\* account signed in, or a page that asks for one over no habits: however many
\* accounts take turns on the device, and whenever it is killed.
THEOREM PageIsTheUsers == ASSUME Patient PROVE Spec => []PageIsUsers
<1>1. SessionInv /\ PatientInv => PageIsUsers
  BY PatientProperties
<1>2. SessionInv /\ PatientInv /\ [Next]_vars => PatientInv'
  BY PatientNext
<1>. QED
  BY <1>1, <1>2, InvInit, InvNext, PatientInit, PTL DEF Spec

\* And what is set to ring for such a user are the reminders of that account's
\* habits as they are, or none.
THEOREM RemindersAreTheUsers == ASSUME Patient PROVE Spec => []RemindersAreUsers
<1>1. SessionInv /\ PatientInv => RemindersAreUsers
  BY PatientProperties
<1>2. SessionInv /\ PatientInv /\ [Next]_vars => PatientInv'
  BY PatientNext
<1>. QED
  BY <1>1, <1>2, InvInit, InvNext, PatientInit, PTL DEF Spec
=============================================================================
