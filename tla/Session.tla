------------------------------ MODULE Session ------------------------------
(***************************************************************************)
(* Signing in and out on one device: the pages from Welcome to the tabs,   *)
(* the listeners the Homes leave behind, the list they all replace, and    *)
(* the reminders set from it.                                              *)
(*                                                                         *)
(* The account signed in and the pending reminders survive the process;    *)
(* pages, listeners and the list do not.  Nothing takes a listener away    *)
(* but the server, when its rules refuse a collection to whoever is signed *)
(* in by then.                                                             *)
(***************************************************************************)
EXTENDS Reminders, Sequences, SequencesExt, FiniteSets

CONSTANTS
  Account,       \* the accounts
  NoUser,        \* no account
  Registered,    \* the accounts that exist at first
  Name,          \* the names of habits
  Choice,        \* the choices of days, sets of DayIndex
  Patient,       \* whether the user waits for the app before every tap
  MaxTaps,       \* bound: taps
  MaxChanges,    \* bound: changes of the habits of any account
  MaxKills       \* bound: times the process is killed

ASSUME SessionAssumption ==
  /\ NoUser \notin Account
  /\ Registered \subseteq Account
  /\ Choice \subseteq SUBSET DayIndex
  /\ Patient \in BOOLEAN
  /\ MaxTaps \in Nat
  /\ MaxChanges \in Nat
  /\ MaxKills \in Nat

VARIABLES
  user,         \* Auth.currentUser
  accounts,     \* the accounts that exist
  collections,  \* account -> its habits
  stack,        \* the pages on the navigation stack, from Welcome
  signIns,      \* the calls of signIn and createUser not answered yet
  mainQueue,    \* the blocks waiting on the main queue
  listeners,    \* account -> how many Homes listen to its habits
  habits,       \* Shared.habits
  reminders,    \* the pending notification requests
  taps, changes, kills

bounds == <<taps, changes, kills>>

vars == <<user, accounts, collections, stack, signIns, mainQueue, listeners,
          habits, reminders, bounds>>

\* The form of a habit: its name, the reminder switch and the chosen days.
Habit == [name : Name, remind : BOOLEAN, days : Choice]

\* A page is named by the tap that pushed it; the tabs by the account their
\* Home listens to.
Welcome == [page |-> "welcome", id |-> 0, home |-> NoUser]
Form(page) == [page |-> page, id |-> taps + 1, home |-> NoUser]
Tabs(account) == [page |-> "tabs", id |-> 0, home |-> account]

Page == [page : {"welcome", "login", "register", "tabs"}, id : Nat,
         home : Account \cup {NoUser}]

SignIn == [id : Nat, account : Account, page : Nat, new : BOOLEAN]

Snapshot(list) == [type |-> "snapshot", list |-> list]
ListenError == [type |-> "error"]
Reload == [type |-> "reload"]
SignedIn(page, new) == [type |-> "signedIn", page |-> page, new |-> new]

Block ==
  [type : {"snapshot"}, list : SUBSET Habit]
    \cup [type : {"error", "reload"}]
    \cup [type : {"signedIn"}, page : Nat, new : BOOLEAN]

Nobody == [a \in Account |-> 0]

\* The blocks of so many listeners called at once.
Called(n, block) == [i \in 1 .. n |-> block]

-----------------------------------------------------------------------------
(* Launch                                                                  *)

Init ==
  /\ user = NoUser
  /\ accounts = Registered
  /\ collections \in [Account -> SUBSET Habit]
  /\ \A a \in Account : /\ a \notin Registered => collections[a] = {}
                        /\ Cardinality(collections[a]) <= 1
  /\ stack = <<Welcome>>
  /\ signIns = {} /\ mainQueue = <<>> /\ listeners = Nobody
  /\ habits = {} /\ reminders = {}
  /\ taps = 0 /\ changes = 0 /\ kills = 0

\* The process is killed and launched again, on the tabs of whoever is signed
\* in.
Relaunch ==
  /\ kills < MaxKills /\ kills' = kills + 1
  /\ signIns' = {} /\ habits' = {}
  /\ IF user = NoUser
     THEN /\ stack' = <<Welcome>>
          /\ listeners' = Nobody /\ mainQueue' = <<>>
     ELSE /\ stack' = <<Welcome, Tabs(user)>>
          /\ listeners' = [Nobody EXCEPT ![user] = 1]
          /\ mainQueue' = <<Snapshot(collections[user])>>
  /\ UNCHANGED <<user, accounts, collections, reminders, taps, changes>>

-----------------------------------------------------------------------------
(* Taps                                                                    *)

\* Nothing the app was asked to do is still under way, and no listener is
\* still to be refused.
Quiet ==
  /\ signIns = {} /\ mainQueue = <<>>
  /\ \A a \in Account \ {user} : listeners[a] = 0

TapOn(page) ==
  /\ Last(stack).page = page
  /\ Patient => Quiet
  /\ taps < MaxTaps /\ taps' = taps + 1
  /\ UNCHANGED <<changes, kills>>

\* Welcome's buttons.
PressLogin ==
  /\ TapOn("welcome")
  /\ stack' = Append(stack, Form("login"))
  /\ UNCHANGED <<user, accounts, collections, signIns, mainQueue, listeners,
                 habits, reminders>>

PressRegister ==
  /\ TapOn("welcome")
  /\ stack' = Append(stack, Form("register"))
  /\ UNCHANGED <<user, accounts, collections, signIns, mainQueue, listeners,
                 habits, reminders>>

\* The back button of the forms; the tabs hide theirs.
Back ==
  /\ \E page \in {"login", "register"} : TapOn(page)
  /\ stack' = Front(stack)
  /\ UNCHANGED <<user, accounts, collections, signIns, mainQueue, listeners,
                 habits, reminders>>

\* loginPress of the two forms; the button stays enabled.
LoginPress(a) ==
  /\ \E page \in {"login", "register"} :
       /\ TapOn(page)
       /\ signIns' = signIns \cup
            {[id |-> taps + 1, account |-> a, page |-> Last(stack).id,
              new |-> page = "register"]}
  /\ UNCHANGED <<user, accounts, collections, stack, mainQueue, listeners, habits,
                 reminders>>

\* Seeded fault: the reminders are left alone.
LogoutKeepingReminders ==
  /\ TapOn("tabs")
  /\ user' = NoUser
  /\ stack' = <<Head(stack)>>
  /\ UNCHANGED <<accounts, collections, signIns, mainQueue, listeners, habits,
                 reminders>>

\* Logout in Settings.
Logout ==
  /\ TapOn("tabs")
  /\ user' = NoUser
  /\ reminders' = {}
  /\ stack' = <<Head(stack)>>
  /\ UNCHANGED <<accounts, collections, signIns, mainQueue, listeners, habits>>

-----------------------------------------------------------------------------
(* Authentication                                                          *)

\* The account is signed in before the completion block is called.
AuthSucceeds ==
  \E s \in signIns :
    /\ s.new <=> s.account \notin accounts
    /\ user' = s.account
    /\ accounts' = accounts \cup {s.account}
    /\ signIns' = signIns \ {s}
    /\ mainQueue' = Append(mainQueue, SignedIn(s.page, s.new))
    /\ UNCHANGED <<collections, stack, listeners, habits, reminders, bounds>>

\* Seeded fault: the answer is not taken for one.
AuthFailsUnheard ==
  \E s \in signIns :
    UNCHANGED <<user, accounts, collections, stack, signIns, mainQueue, listeners,
                habits, reminders, bounds>>

\* A wrong password, a name that is taken, no network: a toast.
AuthFails ==
  \E s \in signIns :
    /\ signIns' = signIns \ {s}
    /\ UNCHANGED <<user, accounts, collections, stack, mainQueue, listeners,
                   habits, reminders, bounds>>

\* Seeded fault: the tabs are shown on the window's navigation controller.
ShowTabsAnyway ==
  /\ mainQueue # <<>> /\ Head(mainQueue).type = "signedIn"
  /\ stack' = Append(stack, Tabs(user))
  /\ IF user = NoUser
     THEN mainQueue' = Tail(mainQueue) /\ UNCHANGED listeners
     ELSE /\ listeners' = [listeners EXCEPT ![user] = @ + 1]
          /\ mainQueue' = Append(Tail(mainQueue), Snapshot(collections[user]))
  /\ UNCHANGED <<user, accounts, collections, signIns, habits, reminders, bounds>>

(***************************************************************************)
(* The form pushes the tabs, unless it was popped and has no navigation    *)
(* controller.  Home is loaded with them, and listens to the account that  *)
(* is signed in by then.                                                   *)
(***************************************************************************)
ShowTabs ==
  /\ mainQueue # <<>> /\ Head(mainQueue).type = "signedIn"
  /\ IF \E p \in Range(stack) : p.id = Head(mainQueue).page
     THEN /\ stack' = Append(stack, Tabs(user))
          /\ listeners' = [listeners EXCEPT ![user] = @ + 1]
          /\ mainQueue' = Append(Tail(mainQueue), Snapshot(collections[user]))
     ELSE mainQueue' = Tail(mainQueue) /\ UNCHANGED <<stack, listeners>>
  /\ UNCHANGED <<user, accounts, collections, signIns, habits, reminders, bounds>>

-----------------------------------------------------------------------------
(* Listeners                                                               *)

\* Seeded fault: the list is filled from the snapshot without being emptied.
HearWithoutClearing ==
  /\ mainQueue # <<>> /\ Head(mainQueue).type = "snapshot"
  /\ habits' = habits \cup Head(mainQueue).list
  /\ mainQueue' = Append(Tail(mainQueue), Reload)
  /\ UNCHANGED <<user, accounts, collections, stack, signIns, listeners, reminders,
                 bounds>>

HearOfHabits ==
  /\ mainQueue # <<>> /\ Head(mainQueue).type = "snapshot"
  /\ habits' = Head(mainQueue).list
  /\ mainQueue' = Append(Tail(mainQueue), Reload)
  /\ UNCHANGED <<user, accounts, collections, stack, signIns, listeners, reminders,
                 bounds>>

\* The error of a listener empties the list and reloads nothing.
HearOfError ==
  /\ mainQueue # <<>> /\ Head(mainQueue).type = "error"
  /\ habits' = {}
  /\ mainQueue' = Tail(mainQueue)
  /\ UNCHANGED <<user, accounts, collections, stack, signIns, listeners, reminders,
                 bounds>>

\* The block on the main queue: all requests are removed, those of the list set.
ReloadTable ==
  /\ mainQueue # <<>> /\ Head(mainQueue) = Reload
  /\ reminders' = RemindersOf(habits)
  /\ mainQueue' = Tail(mainQueue)
  /\ UNCHANGED <<user, accounts, collections, stack, signIns, listeners, habits,
                 bounds>>

\* The habits of an account change, on this device or another.  Its listeners
\* hear of it while it is the one signed in.
HabitsChange ==
  /\ changes < MaxChanges /\ changes' = changes + 1
  /\ \E a \in accounts, list \in SUBSET Habit :
       /\ Cardinality(list) <= 1 /\ list # collections[a]
       /\ collections' = [collections EXCEPT ![a] = list]
       /\ mainQueue' = IF a # user THEN mainQueue
                       ELSE mainQueue \o Called(listeners[a], Snapshot(list))
  /\ UNCHANGED <<user, accounts, stack, signIns, listeners, habits, reminders, taps,
                 kills>>

\* The server refuses the collection of another account; every listener of it
\* is called and forgotten.
ListenRefused ==
  /\ \E a \in Account \ {user} :
       /\ listeners[a] > 0
       /\ listeners' = [listeners EXCEPT ![a] = 0]
       /\ mainQueue' = mainQueue \o Called(listeners[a], ListenError)
  /\ UNCHANGED <<user, accounts, collections, stack, signIns, habits, reminders,
                 bounds>>

-----------------------------------------------------------------------------
(* Specification                                                           *)

AppStep ==
  \/ ShowTabs \/ HearOfHabits \/ HearOfError \/ ReloadTable

Next ==
  \/ PressLogin \/ PressRegister \/ Back
  \/ \E a \in Account : LoginPress(a)
  \/ Logout
  \/ AuthSucceeds \/ AuthFails
  \/ AppStep
  \/ HabitsChange \/ ListenRefused
  \/ Relaunch

Spec == Init /\ [][Next]_vars

\* The main queue runs, a call to the authentication service ends one way or
\* the other, and the server refuses what its rules refuse; nobody taps,
\* changes a habit or kills the process of necessity.
Fairness ==
  /\ WF_vars(AppStep)
  /\ WF_vars(AuthSucceeds \/ AuthFails)
  /\ WF_vars(ListenRefused)

FairSpec == Spec /\ Fairness

-----------------------------------------------------------------------------
(* Properties                                                              *)

TypeOK ==
  /\ user \in Account \cup {NoUser}
  /\ accounts \subseteq Account
  /\ collections \in [Account -> SUBSET Habit]
  /\ stack \in Seq(Page)
  /\ signIns \subseteq SignIn
  /\ mainQueue \in Seq(Block)
  /\ listeners \in [Account -> Nat]
  /\ habits \subseteq Habit
  /\ reminders \subseteq [name : Name, weekday : 1 .. 7]
  /\ taps \in 0 .. MaxTaps
  /\ changes \in 0 .. MaxChanges
  /\ kills \in 0 .. MaxKills

\* A device nobody is signed in on shows no tabs, however often Login was
\* pressed before the answers and whenever they come: the answers to forms that
\* a logout has popped push nothing.
SignedOutShowsNoTabs ==
  user = NoUser => \A p \in Range(stack) : p.page # "tabs"

\* For a user who waits, the page is that of the account: a form or Welcome while
\* nobody is signed in, over no habits, or the tabs of the account that is, over
\* its habits as they are, whatever the listeners of earlier Homes were told.
PageIsUsers ==
  Quiet => IF user = NoUser THEN Last(stack).page # "tabs" /\ habits = {}
           ELSE Last(stack) = Tabs(user) /\ habits = collections[user]

\* What is set to ring are the reminders of the account signed in and of no
\* other, as its habits are now, across logouts, other accounts and kills.
RemindersAreUsers ==
  Quiet => reminders = IF user = NoUser THEN {} ELSE RemindersOf(collections[user])

\* Every login ends: on the tabs, with their reminders, or where it was.
LoginSettles == <>[](Quiet /\ RemindersAreUsers)

\* What the day choice says: a habit rings on the days that were chosen.
RingsOnChosenDays ==
  \A h \in habits : h.remind /\ Reload \notin Range(mainQueue) =>
    {WeekdayName(r.weekday) : r \in {s \in reminders : s.name = h.name}}
      \subseteq {Row(i) : i \in h.days}
=============================================================================
