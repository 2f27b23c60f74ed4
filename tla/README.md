# A TLA+ model of ToDoo

ToDoo is an iOS habit tracker in Swift (`src/ToDoo/ToDoo`).  A user signs in,
keeps a list of habits, marks each of them done once a day, sees statistics and
a calendar, and is encouraged by a robot in a chat.  All data is in Firestore,
whose client library is vendored in `src/ToDoo/Pods`.  There is no code of the
app's own between the screens and Firestore: view controllers write documents,
share an array (`Shared.sharedInstance.habits`) that a snapshot listener
replaces, and act in the completion blocks of their writes.  What goes wrong in
such a program is order: which block of the main queue runs before which tap,
and what a row number, a screen or a captured value still means by then.

## Inventory

Paths are under `src/ToDoo/ToDoo`; `C/` is `Controllers/`.

| Component | State | Operations | Interacts through | What makes it correct |
|---|---|---|---|---|
| Home, `C/HomeViewController.swift` | `Shared.habits`, the table's rows | listener, reload, Done, Undo, Delete, segues, messages, reminders, statistics | Shared, Firestore, main queue, UserDefaults, notification centre | a row means the habit it shows; the table ends up current; statistics are right |
| Detail, `C/HabitDetailViewController.swift` | `rowNumber`, statistics at opening | Delete, Edit, drawing days | Shared by row, navigation stack | the row still is the habit in the title |
| Editor, `C/AddHabitViewController.swift`, `C/SelectDayViewController.swift`, cells | input and previous name, captured checks and date; `Shared.selectedDays` | add, edit, rename, choose days | Firestore lookups and writes, navigation stack | no habit is overwritten or lost; Save ends on Home |
| Firestore client, `src/ToDoo/Pods/FirebaseFirestore` | mutation queue, remote document cache, callbacks, streams | write, acknowledge, reject, apply a watch update, reconnect, restart | completion blocks, listeners, the server | writes resolve once and in order, the view never goes back, devices converge |
| Firestore client's watch connection, `FirebaseFirestore/.../remote`, `core/event_manager.cc` | watch stream, tokens, timers, online state, targets, what is outstanding | listen, stop listening, stream opens, fails, backs off, idles; responses; login | worker queue, gRPC, the server, listeners and `getDocument` | every listener hears something, a view is current only when served, the client comes online |
| Chat and robot, `C/HomeViewController.swift` 184-201, `C/ChatViewController.swift` | messages, table, badge on the tab and in UserDefaults | chain of messages after Done, badge, listener per appearance | completion blocks, main queue | every check is encouraged; the table has a message for every row |
| Calendar, `C/CalendarViewController.swift` | `displayedHabits`, `selectedDate`, selected cell, month | appear, scroll, select, draw a cell | Shared | the list is of the day in the header |
| Reminders, `C/HomeViewController.swift` 53-78, 163-171 | pending notifications | removed and set again at every reload, removed at logout | notification centre, main queue | pending notifications are those of the list, on the days chosen |
| Settings, `C/SettingsViewController.swift` | names, images | clean the chat, rename, upload, log out | Firestore, Storage, Shared | success is told of what will happen |
| Session: `SceneDelegate.swift`, `C/LoginViewController.swift`, `C/RegisterViewController.swift`, `C/ResetPasswordViewController.swift`, `C/WelcomeViewController.swift` | signed-in user, stack below Home | login, registration, reset, logout | Auth, listeners that outlive the account | one account's data never shows in another's session |
| Profile images and names, `Utility.swift` 92-130, `C/RegisterViewController.swift` 270-300 | `Shared.profileImage`, `botImage`, names; document and files of the account | load, listen, upload, create at registration | Storage, Firestore, Shared | what is shown is the account's own and the newest |
| Login critter, `critter/`, login screens | animation state | delayed closures | text fields | the animation ends in the state of the last event |

Hard behaviours: blocks of the main queue interleaved with taps; completion
blocks that use a row, a screen or a field as it is when they run; lookups
followed by writes; renames in two writes; other devices of the account;
processes killed between two links of a chain; midnight; and in the client,
streams that break, timers and tokens that belong to a stream that is gone.
Every such place is in `hazards` of `PROJECT.json` with its line and the
property that is about it, or the reason why none is.

## Modules

    HabitDocument      documents and the four writes the app makes
      WriteLog           abstract: what the Firestore client promises of writes
      FirestoreClient    the client on several devices; implements WriteLog
        FirestoreClientProofs
      HabitApp           one device: shared state, main queue, Firestore as seen
        HomeScreen         the list                (EXTENDS HabitApp)
          DetailScreen     the Detail of a habit   (EXTENDS HomeScreen)
          HabitEditor      add, edit, rename       (EXTENDS HomeScreen)
            HabitScreens   all of them: Next, Spec, properties
              HabitScreensProofs
    WatchConnection    the client's watch stream, online state and listeners
      WatchConnectionProofs
    HabitDays          days, status and statistics of one habit
      CalendarScreen     the Calendar tab over them   (EXTENDS HabitDays)
        CalendarProofs
    ChatRobot          the messages after a check, the chat, cleaning, the badge
      ChatRobotProofs
    Reminders          the notification requests of a list of habits
      Session            signing in and out on one device
        SessionProofs
        Profile            names and pictures beside it; implements Session
          ProfileProofs

    Counting           lemmas: occurrences in a queue, and induction along a loop;
                       of the proofs of the client, the connection, the days and
                       the chat

The MC modules only instantiate these for TLC.  Definitions marked `Seeded
fault` are used by no specification: each is the form a definition would have
with a plausible bug, and `mutants` in `PROJECT.json` names the property that
catches it.

### HabitDocument, WriteLog, FirestoreClient

A document is its form fields (one value: the editor writes them together) and
the set of its checked days.  The writes are `set` (add, edit), `check` (the
merge of Done), `uncheck` (the `updateData` of Undo, the only one with a
precondition) and `delete`; local view and acknowledged effect follow
`patch_mutation.cc`, with the unknown document that results when the server
accepted what the cache cannot apply.

`FirestoreClient` has, per device, the mutation queue and the remote document
cache (on disk), the callbacks, and the two streams.  `WriteMutation` is
`SyncEngine::WriteMutations`; `ServerCommits` takes the next batch of the
pipeline on the server, which answers in order and closes the stream at a
refusal; `HandleSuccessfulWrite` and `HandleRejectedWrite` are the whole of what
an answer does in RemoteStore, SyncEngine and LocalStore; `ApplyRemoteEvent`
applies a snapshot document by document with the test on versions.
`LoseConnection` empties the write stream, the watch stream or both, as each
closes for itself; a new write stream is sent the pipeline again from its head,
with the duplicates this makes.  `Restart` closes both, loses the callbacks and computes the next batch id from what is queued.  `batch` in an
answer is not on the wire: it is there so that `AnswersMatchQueue` can say that
matching by position is right.

`WriteLog` is the promise: a log per device, writes that take effect in its
order, once or again after a lost connection, and completion blocks that are
called when the write leaves the log or never, if the process was killed.
`KeepsWriteLog` is the refinement.

### HabitApp, HomeScreen, DetailScreen, HabitEditor, HabitScreens

The app on one device.  `mainQueue` holds the blocks that wait on the main queue
in their order: the listener with its snapshot, the reload it queues, the
completion blocks of writes, the answers to lookups.  Taps come between any two
of them.  Firestore is its local view `docs`: a write shows there at once, its
snapshot is queued if it changes the list, and `WriteResolves` queues its
completion some time later, in the order of the writes; `GetResolves` answers a
`getDocument` from the document of the moment; `RemoteChange` is another device.
`FirestoreClient` is what makes this picture right: its completion blocks are
called in order, at most once, and never across a restart.

The navigation stack is kept from Home upward.  `Show` is a screen being
uncovered: Detail reads its row again.  A lookup in `Shared.habits` with a row
that is gone, and the forced unwrapping of a navigation controller that is nil,
end in `crashed`.  Editors stay in `editors` after they are closed, as the
blocks that hold them read their fields when they run.  The days chosen are in
`selectedDays`, one for all editors; each editor also records what was chosen in
it, so that `RightHabit` can say that a save writes its own.  Recorded for the
properties only: `checks` (what was checked), `misdirected` (a write went to
another habit than the row, the title or the lookup named).

### WatchConnection

What is between the app's listeners and the server.  A step is a block of the
client's worker queue.  `stream`, `closeCount`, `tokens` and `idle` are
`stream.cc`: a stream asks for a token first, and a token asked for before the
last close is dropped; a stream that ended in an error backs off; one without
targets is stopped when idle.  `tracker` is `online_state_tracker.cc`: one
failure, or ten seconds without a message, and the client is offline, which the
views and the listeners hear of.  `aggregator` is the target state of
`remote_event.cc`: how many responses to watch and unwatch requests are
outstanding about each target, which is all that tells a response to an earlier
watch from one to this.  `listeners` are `addSnapshotListener`, `getDocument` and
`getDocuments`, with the rule of `query_listener.cc` for the first event: the
last two wait for the server unless the client is offline.  The server is its
contract: it answers every request in order, then makes a target current, and
sends a snapshot when all it watches are.  Documents are one bit per target,
their merging into the cache is `FirestoreClient`'s `ApplyRemoteEvent`.

### HabitDays, CalendarScreen

`HabitDays` is one habit over several days: `today` in the list's copy is
computed when the listener is called, the key a tap writes is of the moment of
the tap, and Detail's arrays and streaks are the code's loops as functions of
the number of their turns.
`CalendarScreen` puts the Calendar tab over it.  The list under the header is
computed when the tab appears (for today), when a day is tapped and whenever
the selected cell is drawn; `selectedDate`, the header, only by the last two.
Which cells are drawn when is how the code relies on JTAppleCalendar: all of the
page after `reloadData`, those of a page that comes in.

### ChatRobot

The chain check, message, answer, badge, each link the completion block of the
one before, over a queue that survives the process while the blocks do not.  The
chat adds a listener every time it appears; each is called with every change in
a block of the main queue and reloads the table in a later one.  Cleaning asks
for the messages and deletes them one by one, each delete a change the
listeners hear of.  The user waits for the main queue and for cleaning before
opening the chat; everything else comes at any time.

### Reminders, Session

`Session` is one device from Welcome to the tabs.  The account signed in and the
pending notification requests survive the process; the pages, the listeners and
`Shared.habits` do not.  `LoginPress` is the button of both forms, which stays
enabled: every press is a call of its own, named by its form and answered by
`AuthSucceeds`, which signs in at once and queues the completion, or `AuthFails`.
`ShowTabs` is the completion: it pushes the tabs on the navigation controller of
its form, of which a popped form has none, and loads a Home that listens.
`listeners` counts the Homes of an account, as nothing in the app removes a
listener.  `Logout` signs out, removes the requests and pops to Welcome.  A tab
page stands for Home; the other tabs and what they push are in `HabitScreens`.

Whether a listener goes on hearing of the habits of an account that is signed
out is up to rules on the server that are not in the repository.  The model takes
them to keep a collection to its account: `ListenRefused` is the client being
told so, which calls every listener of the collection with an error and forgets
them.  The collections change through `HabitsChange`, whoever is signed in.

### Profile

`Profile` extends `Session` with the names (a document that is listened to) and
the pictures (files) of the user and the robot.  Every step of `Session` is
taken with its part in them: `FormAnswered` loads and listens as Home's
`viewDidLoad` does and leaves the creation of the account's defaults on the main
queue; `ProfileRelaunch` loses transfers and blocks.  A download has the content
of when it was served, and reads whoever was signed in when it was asked for;
`UploadDone` loads both pictures of whoever is signed in then.  `Shared` is
never emptied but by a launch.

## Runs

| Run | Question | Bounds |
|---|---|---|
| `firestore_client` | Does the client keep its promises with two devices, answers and snapshots in any order, lost streams and restarts? | 2 devices, 1 habit, 1 day, 2 writes, 1 failure, pipeline 2, 1 snapshot in flight |
| `connection` | Does the client stay in touch, and every listener hear, while the stream fails, backs off, idles and restarts? | Home's listener, 2 lookups of one document, 1 failure, 1 change of user |
| `lookups_alone` | Does a lookup ever end, as the comment on the timeout says, when nothing else is listened to? No. | 2 lookups, 1 failure |
| `patient_user` | Does everything work for a user who waits for the app before every tap, on one device, whenever the process is killed? | 3 names, 2 habits at first, 9 taps, 1 kill |
| `hasty_user` | What holds whatever is tapped and whatever another device does? | 2 names, 1 habit at first, 5 taps, 1 remote change |
| `habit_days` | Are the statistics right, past days untouched, and Calendar's list that of its day? | 7 days in months of 5 |
| `undo_cancels` | Can what was done be undone, as the comment says? No. | 2 days |
| `chat_robot` | Do the chains of several checks, the chat and its cleaning work, across a restart? | 2 checks, 2 visits to the chat, 1 cleaning, 2 blocks waiting when more come, 1 kill |
| `encouragement` | Is every check encouraged, as the README says? No. | 1 check, 1 kill |
| `patient_session` | Does a user who waits see the page, the habits, the reminders, the names and the pictures of the account signed in? | 2 accounts, 1 of them registered, 1 name, 1 choice of days, 8 taps, 1 change of habits and 1 kill, or 1 name, picture or failed transfer in their place |
| `hasty_session` | Can tabs stay on a device nobody is signed in on? No. | 2 choices of days, 6 taps at any time, 1 change, 1 kill |
| `reminder_days` | Does a habit ring on the days chosen? No. | 2 taps |

Why the bounds are enough.  Two devices and two writes give every pair of
conflicting writes to one document, the second possibly in the pipeline behind
the first, and one failure falls between any two steps of them; an
acknowledgement and a snapshot overtake each other with one snapshot in flight.
Documents do not interact in the client, so one is enough; the queue order that
several would share is in the proofs for any number.  Nine patient taps are two
whole visits to the editor through Detail (row, Edit, name or days, Save) or a
rename and its undoing, with Done or Delete in between; three names are the two
habits a row can be confused with and a free one to rename to.  Five hasty taps are an
edit that is saved and cancelled, or one that is saved with the day choice or a
confirmation opened above it.

Eight patient taps are a login, a logout, a registration or login of the other
account, a logout and the way back to the first; six hasty ones are a login
pressed twice with a logout and another form between the answers.  A
transfer that fails, a name changed by another device or a kill falls between any
two of them, so each meets every state of a registration.

A lookup that ends and another that begins, of one document, are the smallest
case in which responses to two watches of a query can be mistaken; Home's
listener gives the stream a target that stays, until the server refuses it.  One failure comes at any moment, and a change of user
restarts the stream without one, so two streams follow the first.

Seven days are the shortest week in which a run, a gap and another run fit with
today open or done; months of five days have a selected day in another month
than today's, and cells of the neighbours.  Two visits are two listeners, the
fewest whose blocks interleave; two checks are two chains.

`CHECK_DEADLOCK FALSE` is in the runs where the system really comes to rest:
when the bounded writes or taps are used up and everything is settled.

### What the runs show

* The client: the properties hold, among them that matching answers by position
  is right across refusals, reconnections and restarts; that an acknowledged
  write applied to an old base is never taken for the server's document; that
  the cache never goes back; and that an acknowledgement newer than the cached
  document does not make the screen flicker.

  `NoFlicker` speaks of those only, and has to.  `ApplyBatchResult` applies no
  other (`local_store.cc:193`), also where the cached document has its version
  from an earlier acknowledgement: writes that change nothing keep the update
  time of the document (`mutation.h:62`), so two that are sent again after a lost
  answer are acknowledged at one version, and only the first is applied to the
  cache.  The second leaves the queue and is in neither until the watch stream
  brings the document of that version, which it does (`Converges`); `View` of
  `view.cc:231` keeps this from the listeners if nothing else is queued for the
  document.
* `connection`: no assertion of the tracker, the stream or the listens can fail;
  the count of outstanding responses is what is on its way; a view is never made
  current by what the server said of a former watch.  Every listener hears
  something even if no token ever comes and nobody is at the other end, because
  the timer or the first failure takes the client offline, where lookups are
  answered from the cache.  The query that is looked up is not refused in this
  run (`Refusable = {habits}`).  Where it may be (`Refusable = {document}`, the
  two lookups alone, no failure), `PendingCounts` is false: a lookup is answered
  from the cache while the client is offline, and its target goes while the
  refusal is on its way.  `ProcessTargetError` ignores the refusal of a target
  that is not there and does not count it as the response it is, so the client
  waits for one response more than will come, and a later listener of that query
  is not served until the stream is opened again.
* `lookups_alone`: that needs a target that stays.  When the last one goes while
  the stream is starting or backing off, `StopListening` sets the state to
  unknown, which cancels the timer; the next lookup finds the stream started and
  starts none.  In the app Home's listener is there all the time, unless it was
  refused.
* `patient_user`: no trap, no misdirected write, no lost or overwritten habit,
  the message names the habit, Save ends on Home.  Each of these is false for a
  user who does not wait (`Patient = FALSE`, no other device, same bounds):
  - cancelling, or tapping Save twice, while an edit is being saved makes the
    completion unwrap a nil navigation controller;
  - deleting in Detail and going on before the delete is acknowledged, which
    without a network is never, edits or deletes the next row's habit, or traps;
  - changing the name while it is being looked up writes over the habit of that
    name, and retyping the old name during a rename saves the habit and then
    deletes it;
  - opening another editor while a save is being looked up makes the save write
    the other's days;
  - Done in a row whose habit has just been deleted leaves a document of checked
    days only, which the list does not show.

  With another device all but `NoGhost` and `SaveReturnsHome` can fail for a
  patient user too.  The app has no text that promises otherwise, so these are
  hazards with their lines and not findings.
* `hasty_user`: with all of that, no completion ever takes Home off the stack,
  and the table ends up showing the collection.
* `habit_days`: the statistics are what the words say, past days are kept, and
  wherever the selected cell can be seen Calendar lists the day it names.  With
  the selected day in another month than the page, no cell says anything when the
  tab appears, and today's habits stand under the old date.
* `chat_robot`: with any number of listeners the table ends up right and, while
  the chat is open, never asks for a message that is gone.  A chat cleaned by
  another device while it is open does trap, if a row is drawn between the
  listener and the reload, and a kill after "Success" loses the deletes that are
  not written yet.  The badge is set also while the chat is open.
* `undo_cancels`, `encouragement`, `reminder_days` and `lookups_alone` are the
  disagreements with the code's own words, described under `findings`.
* `patient_session`: `Quiet` is the user waiting for the main queue, for the
  answer to a login and for the refusal of the former account's listeners.
  Without the wait, all of the following happen (`Patient = FALSE`):
  - a reload queued before a logout sets the reminders of the account again after
    the logout removed them, and they ring until the next login;
  - the error of a former listener empties the list of the account that is now
    signed in, and nothing reloads it;
  - an answer that comes after its form was left signs in and shows nothing:
    Welcome stays until the next launch;
  - Login pressed twice pushes the tabs twice.

  The names and pictures are those of the account for a user who waits, with
  exceptions the properties name: an account without a picture of its own, or
  whose picture is over the limit of its row, goes on showing the former one's;
  a process killed between the answer to `createUser` and the block it queues
  leaves an account without a document, and its names can then not be saved.
* `hasty_session`: with all of that, no tabs are left or pushed where nobody is
  signed in.

### Fairness

`firestore_client`: weak fairness of each step of the client and the server
towards each device.  The client reopens its streams with backoff for as long as
they are needed (`OnWatchStreamClose`, `OnWriteStreamClose`) and refills the
pipeline after every answer; failures are bounded, so a connection lasts in the
end.  Nothing makes anybody write.

`connection`, `lookups_alone`: the two timers fire, the worker queue goes on with
what was received, and a server that has answered on this stream goes on
answering.  A token need never come, and a stream may be open to nobody; only
`ComesOnline` assumes, in its own text, that tokens come and the server serves.

`patient_user`, `hasty_user`, `chat_robot`: weak fairness of the main queue and of
Firestore's answers; cleaning's `getDocuments` is answered from the cache if need
be, as `connection` shows.  For a device that never gets a network back
`SaveReturnsHome` and `EncouragedUnlessKilled` say nothing.

`patient_session`: weak fairness of the main queue, of the authentication
service's answers, which end in an error without a network, of the server's
refusals, and of transfers, which end one way or the other.

No tap, remote change, failure, kill or midnight is ever forced.

## Proofs

The theorems hold for any sets of devices, names, days and forms and any bounds,
from the named assumptions on the constants (`ClientAssumption`,
`NoFormAssumption`, `AppAssumption`, `SessionAssumption`, `ProfileAssumption`,
`NoneAssumption`, `ConnectionAssumption`, `DaysAssumption`, `MonthAssumption`,
`RobotAssumption`), which TLC evaluates in the runs.  `NoForm` and `None` only
have to be different from what they stand for the lack of.  They are about the
specifications without fairness.  Type correctness, where it is stated, is proved
and in no run.

Every invariant and every action property of the passing runs is a theorem.  Some
have a hypothesis, which is what their run says of its constants:

| Hypothesis | Means | Needed because |
|---|---|---|
| `Patient` (Session, Profile) | the user waits for the app before every tap | `patient_session` above lists what happens otherwise |
| `Alone` (HabitScreens) | the same, and no other device writes | `patient_user` above lists what happens otherwise |
| `LookupsServed` (WatchConnection) | no query that is looked up is refused | `connection` above says what happens otherwise |

`FirestoreClientProofs`:

* `TypeAndOrder`: `TypeOK` and `AnswersMatchQueue`, which are inductive only
  together.  That the queue has a head when an answer arrives is what the code
  asserts and what the types of `Head` and `Tail` need; that it is the *right*
  head holds because answers start again from nothing whenever the head may have
  changed under them: at a refusal, a lost connection, a restart.
* `CallbacksAreNamed`: `CallbacksNameQueuedWrites`.  `Named` is one device's
  part as a predicate on a queue, an id and a set of callbacks; the lemmas
  `NamedAppend`, `NamedTail` and `NamedRestart` say that the three things that
  happen to a queue keep it, and the steps only cite them.  The invariant is
  inductive given `TypeAndOrder`.
* `CacheIsCoherent`: `CacheCoherent`, which alone is not inductive: the cache
  takes versions from answers and documents from snapshots.  `Coherent` adds
  `StreamsCoherent`, that both are old or current where they are, in which the
  versions of answers are those of the batches they answer, by
  `AnswersMatchQueue`.  `CommitKeepsCopies` is the one place where the server
  changes: a document gets a new version or stays what it was, so every copy
  that was old or current still is.
* `CacheNeverGoesBack`: `CacheAdvances`, step by step from the types.
* `AnswersDoNotFlicker`: `NoFlicker`.  `ViewIsWalk` says that the view is what a
  walk along the queue ends with, by induction along the queue.  An acknowledged
  write leaves the cache with a document `Alike` to what the view had made of it:
  the cache may have an unknown document where the view has none, and no write
  tells the two apart.  By induction the two walks, one of them one batch
  shorter, stay alike to the end (`ViewOfTail`).
* `ClientImplementsWriteLog`: `Spec` implies `KeepsWriteLog`.  `LogStep` maps every step of the client to one of `WriteLog`
or to a stutter, from `ClientInv`, which adds to the above that batch ids stay
within the writes made, and that a refusal is the last thing a stream says
(else a rejected write would take answered ones out of the log with it).

`SessionProofs` proves `SessionTyped` and `SignedOutIsShown`.  The second is not
inductive: that `ShowTabs` pushes nothing after a logout is a fact about the
answers still to come.  `SessionInv` adds `Rooted` (Welcome and nothing else is
left by a logout), `IdsUsed` (answers and forms have the names of taps already
made, so a form pushed later is nobody's) and `NoAnswerShown` (while nobody is
signed in, no answer in the queue is for a form on the stack).  The lemma
`Steady` does all the steps that touch neither stack nor answers.

For a user who waits it proves `PageIsTheUsers` and `RemindersAreTheUsers`.
`PatientInv` says that such a device is in one of three states.  `SignedOut`: no
reminders, and what is left of the last account are listeners that are being
refused, which must be over before a login is called.  `SigningIn`: the tabs are
the only block on the main queue, and nothing is loaded.  `AtHome`: one Home
listens, to the account of the page, and what is on the queue (`Heard`) ends with
the list and the reminders of its collection.

`ProfileProofs` proves that `ProfileSpec` implements `Spec` of `Session`
(`ProfileImplementsSession`): its steps are `Session`'s with something beside
them, or leave it alone.  `SignedOutWithProfile`, `PageWithProfile` and
`RemindersWithProfile` follow.  For a user who waits it proves
`ProfileIsTheUsers`, `RegistrationIsWhole` and `ChoicesStay`.  `ProfileInv` says
which transfers and blocks can be under way at Home and elsewhere (`Loaded`,
`Still`), that an account that is not registered has neither document nor files,
and that one that is lacks them only while its registration goes on, unless the
process was killed (`Created`).

`WatchConnectionProofs` proves `ConnectionTyped`, where the count of outstanding
responses is only an integer, and `AssertionsHold`.  `AssertsHold` is inductive
given the types, in three parts proved apart, each of which says what makes the
others' steps harmless: the timer runs only with a stream that is started
(`TrackerAsserts`), a token that counts is there exactly while the stream starts
and what is on the wire is of an open stream (`StreamAsserts`), and a target is
listened to as long as a listener is attached (`ListenAsserts`).

It also proves `ResponsesCounted` and `CurrentIsServed`, if no query that is
looked up is refused.  `Outstanding` holds of an open stream: the count of a
target is the requests and the acknowledgements about it on the wire
(`Balanced`); the last request about it is what the client wants, and without one
the server watches what the client listens to (`Wanted`); a query that may be
refused is asked for once and not given up (`RefusedAlone`); and what was called
current is served, or has been taken back by a message behind it
(`ServedOrTaken`).  The number of messages about a target changes by one when
one is appended or taken from the head, which `Counting` proves.

`CalendarProofs` proves `ChecksStayInRange`, `CalendarListsItsDay` and
`PastIsKept`.  `CalendarInv` adds to `ListIsOfHeader` what it rests on: the list
of habits is the document's unless there is news, nothing is checked in
Calendar, one cell at most is selected and the header is never in the future,
so the header's cell acts whenever it is drawn in its own month.

`StatisticsHold` is about Detail's loops, by induction on the days they have gone
along: `Back` says that a count is of the checked days up to the present one, as
far back as they go, `IsLongest` that no stretch so far is longer than the
record and one is as long.  `StretchIsRun` turns stretches of the array into runs
of days.

`ChatRobotProofs` proves `ChatIsShown` and `RowsAreShown`.  Both are about what
waits on the main queue: the last block a listener is called in has the messages
there are and every change of them is followed by a reload (`UpToDate`); while
the chat is on the screen nothing is cleaned, so each block has the messages of
the one before and more (`Growing`).  A reload never asks for more rows than the
messages of its moment, and these only grow until the next.

`NeverSpeaksFirst` is `RobotNeverSpeaksFirst`.  `TalkInv` counts what is owed: an
acknowledgement whose block is still to be called is a message to come, so what
the robot has said and owes is no more than the user said, and what the user said
and owes no more than was checked.  A kill only cancels debts.

`HabitScreensProofs` proves `HomeStays`, whatever the user does and other devices
do.  What pops two screens is the completion of a save by an editor that edits.
`ScreensInv` says that the stack is a walk from Home in which every screen is
above one it is reached from, that the editor on it is the last one opened and,
if it edits, above a Detail, and that every write, lookup and block of an edit or
a rename under way is of an editor that edits, whatever has been opened or closed
since.

The rest of it is the properties of `patient_user`, for a user who waits, alone
with the device: `WaitingNeverCrashes`, `WaitingHitsTheHabit`,
`WaitingMakesNoGhost`, `WaitingChatIsRight`, `WaitingKeepsDate`,
`WaitingKeepsChecks` and `WaitingKeepsRenamed`.  `WaitingInv` says that one thing
at a time is under way: nothing (`Resting`), the lookup of a name (`Asking`) or
one write with what follows it on the main queue (`Writing`), and that it was
started on the screen that is still on top, by the row, the Detail or the editor
that is still there and still means the habit it was made for.  The hard part is
the list: a check or an undo gives it anew while its own completion has still to
read the row, and must leave every habit in its place.  `Listed` orders habits by
their number of predecessors, so this takes that ranks are all different and
leave no gap (`Pushed`, `Fewer` and the lemmas before them) and that a write that
leaves the form fields alone leaves them as they were (`RowsKept`).

`Counting` has the lemmas on occurrences, and `Throughout` and `LoopRuns`, which
are induction: what holds at the start and goes on to the next number holds
throughout, since a set of exceptions would have a least member.  They speak of
sets and functions where the library's induction theorems speak of operators,
which the provers cannot instantiate.  `LoopRuns` is what a recursive function
needs to be more than a `CHOOSE`.

Only model-checked: liveness, which is `EveryWriteResolves`, `Converges`,
`SaveReturnsHome`, `HomeShowsHabits`, `EncouragedUnlessKilled`,
`CleanedUnlessKilled`, `LoginSettles`, `EveryListenerHears` and `ComesOnline`.
It rests on fairness, whose `ENABLED` the provers do not reason about.

## Not modelled, and abstractions

* In the client: limbo documents, existence filters, garbage collection,
  transactions, the queues of several signed-in users, and the messages of the
  streams; the server is its contract.  The store behind `docs` in `HabitApp`
  refuses nothing: a refused Undo is in `FirestoreClient`.  Nor does that behind
  `ChatRobot`: a message that cannot be added (`HomeViewController.swift:188`
  and `192`) is printed and ends the chain there, messages that cannot be fetched
  for cleaning (`SettingsViewController.swift:142`) are a toast and nothing is
  deleted.  A client waits for a server it cannot reach and answers a fetch from
  its cache, so these are refusals by the server's rules, of an account to itself.
* The rest of the vendored code, which is nearly all of the 544,000 lines in the
  tree: gRPC, BoringSSL, leveldb, Abseil and nanopb are below what Firestore
  builds on, and JTAppleCalendar, SwipeCellKit and Toast are views.  None of it
  is the app's own logic, and what the app relies on in it is in the models as
  a promise.
* Colour, reminder switch and time have no values of their own in the form.
* A `getDocument` that fails counts as absent in the code; here a lookup that
  fails is one that finds nothing, and finds nothing only if the local view has
  nothing.
* Animations: a push or a pop is one step.
* Clock and time zone: a clock set back before the day a habit was established
  makes the size of Detail's array negative and traps.
* A habit's requests beyond the 64 the platform keeps; times of reminders.
* Password reset, which sends an e-mail and shows a toast.
* The colours of Calendar's cells, the rows of Settings when a picture arrives,
  a chat listener called with an error.
* The login critter is animation.

## Plan

Done: the client's writes and its connection, the screens of habits, the days and
Calendar, the chat, the session and the profile.  What is left, in order:

1. `NoGhost` for a user who waits but has other devices, where it holds too in
   TLC's runs: its invariant is `WaitingInv` without what it says of rows.
2. `FirestoreClient` and `WatchConnection` in one: the snapshots of the first as
   the responses of the second, which would show that a view that is current has
   the server's documents.
3. A clock set back and a changed time zone in `HabitDays`; the limit of 64
   requests in `Reminders`.
4. Limbo documents and existence filters, which the app meets when a query's
   result changes while the client is away.
