--------------------------- MODULE ProfileProofs ---------------------------
(***************************************************************************)
(* Whatever is loaded, transferred or edited, the pages, the habits and    *)
(* the reminders go on as the Session specifies: what is proved of Session *)
(* holds with the profile beside it.  And for a user who waits for the app *)
(* the names and the pictures are the account's own, a registration leaves *)
(* none of them out, and no default takes the place of one that was chosen.*)
(***************************************************************************)
EXTENDS Profile, SessionProofs

LEMMA ProfileOnly ==
  ASSUME \/ ProfileStep \/ DownloadFails \/ UploadFails
         \/ \E a \in Account, r \in Owner, name \in Nickname : SaveName(a, r, name)
         \/ \E r \in Owner, picture \in Picture : PickImage(r, picture)
  PROVE  UNCHANGED vars
BY DEF ProfileStep, PictureArrives, HearOfNames, NamesRefused, UploadStored, UploadDone,
       CreateProfile, DownloadFails, UploadFails, SaveName, PickImage

LEMMA SessionSteps ==
  ASSUME Tap \/ FormAnswered \/ ProfileRelaunch \/ Elsewhere
  PROVE  Next
<1>1. CASE Tap
  BY <1>1 DEF Tap, Next
<1>2. CASE FormAnswered
  BY <1>2 DEF FormAnswered, AppStep, Next
<1>3. CASE ProfileRelaunch
  BY <1>3 DEF ProfileRelaunch, Next
<1>4. CASE Elsewhere
  BY <1>4 DEF Elsewhere, AppStep, Next
<1>. QED
  BY <1>1, <1>2, <1>3, <1>4

\* Every behaviour with names and pictures is one of Session.
THEOREM ProfileImplementsSession == ProfileSpec => Spec
<1>1. ProfileInit => Init
  BY DEF ProfileInit
<1>2. [ProfileNext]_allVars => [Next]_vars
  <2>1. CASE ProfileNext
    BY <2>1, ProfileOnly, SessionSteps DEF ProfileNext
  <2>2. CASE UNCHANGED allVars
    BY <2>2 DEF allVars
  <2>. QED
    BY <2>1, <2>2
<1>. QED
  BY <1>1, <1>2, PTL DEF ProfileSpec, Spec

\* So the tabs are never on a device nobody is signed in on, whatever registration
\* is still creating and whatever transfers are under way.
THEOREM SignedOutWithProfile == ProfileSpec => []SignedOutShowsNoTabs
BY ProfileImplementsSession, SignedOutIsShown, PTL

\* Nor is anything but the account's own page, habits and reminders there for a user
\* who waits.
THEOREM PageWithProfile == ASSUME Patient PROVE ProfileSpec => []PageIsUsers
BY ProfileImplementsSession, PageIsTheUsers, PTL

THEOREM RemindersWithProfile == ASSUME Patient PROVE ProfileSpec => []RemindersAreUsers
BY ProfileImplementsSession, RemindersAreTheUsers, PTL
-----------------------------------------------------------------------------
(* Bags                                                                    *)

LEMMA EmptyFacts ==
  /\ IsABag(EmptyBag) /\ BagToSet(EmptyBag) = {}
  /\ \A B : IsABag(B) /\ BagToSet(B) = {} => B = EmptyBag
BY DEF IsABag, EmptyBag, BagToSet, SetToBag

LEMMA BagMore ==
  ASSUME NEW B, IsABag(B), NEW S
  PROVE  IsABag(B (+) SetToBag(S)) /\ BagToSet(B (+) SetToBag(S)) = BagToSet(B) \cup S
BY DEF IsABag, BagToSet, SetToBag, (+)

LEMMA BagLess ==
  ASSUME NEW B, IsABag(B), NEW d \in BagToSet(B)
  PROVE  /\ IsABag(B (-) SetToBag({d}))
         /\ BagToSet(B (-) SetToBag({d})) \subseteq BagToSet(B)
         /\ BagToSet(B) \subseteq BagToSet(B (-) SetToBag({d})) \cup {d}
BY DEF IsABag, BagToSet, SetToBag, (-)

-----------------------------------------------------------------------------
(* The profile of a user who waits                                         *)

Naming == [Owner -> Nickname \cup {"Master", "Bot"}]
Image == Picture \cup {DefaultPicture}

ProfileTyped ==
  /\ names \in [Account -> Naming \cup {None}]
  /\ pictures \in [Account -> [Owner -> Image \cup {None}]]
  /\ shared.pictures \in [Owner -> Image]
  /\ DOMAIN shared = {"names", "pictures"}
  /\ watched \subseteq Account /\ heard \in Seq(Naming)
  /\ failures \in Nat

Home == Last(stack).page = "tabs"

\* Nothing is loaded, created or transferred.
Still == heard = <<>> /\ creations = <<>> /\ uploads = {} /\ downloads = EmptyBag

Empty(a) == names[a] = None /\ \A r \in Owner : pictures[a][r] = None

\* The names shown are, or are about to be, the account's.
NamesShown ==
  /\ names[user] = None => heard = <<>>
  /\ names[user] # None => IF heard = <<>> THEN shared.names = names[user]
                           ELSE Last(heard) = names[user]

Creates ==
  creations # <<>> => creations = <<user>> /\ Empty(user) /\ uploads = {}

\* Every transfer is for the account, no two of them for one row, and an upload
\* either gives its row the first picture or is the only transfer there is.
Transfers ==
  /\ IsABag(downloads)
  /\ \A d \in BagToSet(downloads) : \E r \in Owner : d = Download(user, r, Asked)
  /\ \A u \in uploads :
       /\ \E r \in Owner, p \in Image, s \in BOOLEAN : u = Upload(user, r, p, s)
       /\ \A v \in uploads : v.row = u.row => v = u
       /\ ~u.stored => \/ pictures[user][u.row] = None
                       \/ uploads = {u} /\ downloads = EmptyBag /\ u.picture \in Picture

\* A picture that is not shown is being loaded, or will be when its upload ends.
PicturesShown ==
  \A r \in Owner :
    Loadable(r, pictures[user][r]) /\ r \notin missed =>
      \/ shared.pictures[r] = pictures[user][r]
      \/ Download(user, r, Asked) \in BagToSet(downloads)
      \/ \E u \in uploads : u.row = r /\ u.stored

Loaded ==
  watched = {user} /\ NamesShown /\ Creates /\ Transfers /\ PicturesShown

\* A registration has still to create the profile.
Registering ==
  \/ creations # <<>>
  \/ \E b \in Range(mainQueue) : b.type = "signedIn" /\ b.new

Created ==
  kills = 0 =>
    \A a \in accounts :
      /\ names[a] = None => a = user /\ Registering
      /\ failures = 0 /\ names[a] # None =>
           \A r \in Owner : pictures[a][r] = None =>
             a = user /\ \E u \in uploads : u.row = r /\ ~u.stored

ProfileInv ==
  /\ ProfileTyped
  /\ user \in accounts \cup {NoUser}
  /\ IF Home THEN Loaded ELSE Still
  /\ signIns # {} \/ (user # NoUser /\ ~Home) => watched = {}
  /\ \A a \in Account \ accounts : Empty(a)
  /\ \A b \in Range(mainQueue) : b.type = "signedIn" /\ b.new => Empty(user)
  /\ Created


LEMMA Rows == "user" \in Owner /\ "bot" \in Owner /\ "user" # "bot"
BY DEF Owner

LEMMA Starters ==
  /\ DefaultNames \in Naming /\ DefaultPicture \in Image
  /\ [user |-> "Master", bot |-> "ChatBot"].user = "Master"
  /\ None \notin Naming /\ None \notin Image
BY NoneAssumption DEF DefaultNames, DefaultPicture, Naming, Image, Owner

\* The tabs are on the screen for whoever is signed in, and for nobody while a
\* form has still to show them.
LEMMA Whereabouts ==
  ASSUME SessionInv, PatientInv
  PROVE  /\ Home => user # NoUser /\ user \in Account /\ AtHome
         /\ user # NoUser /\ ~Home => SigningIn
         /\ SigningIn => ~Home
         /\ user \in Account \cup {NoUser} /\ NoUser \notin Account
<1>1. user \in Account \cup {NoUser} /\ NoUser \notin Account
  BY SessionAssumption DEF SessionInv, TypeOK
<1>2. user # NoUser => SigningIn \/ AtHome
  BY DEF PatientInv
<1>3. SigningIn => ~Home
  BY DEF SigningIn, Forms, Home
<1>4. AtHome => Home
  BY DEF AtHome, Home, Tabs
<1>5. user = NoUser => ~Home
  <2>1. Last(stack) \in Range(stack)
    BY EndInRange DEF SessionInv, TypeOK, Rooted
  <2>. QED
    BY <2>1 DEF Home, SessionInv, SignedOutShowsNoTabs
<1>. QED
  BY <1>1, <1>2, <1>3, <1>4, <1>5

LEMMA NextOfTail ==
  ASSUME NEW S, NEW q \in Seq(S), q # <<>>
  PROVE  /\ Tail(q) \in Seq(S) /\ Head(q) \in S
         /\ Tail(q) = <<>> => Head(q) = Last(q)
         /\ Tail(q) # <<>> => Last(Tail(q)) = Last(q)
<1> DEFINE t == Tail(q)
<1>1. /\ t \in Seq(S) /\ Head(q) = q[1] /\ q[1] \in S
      /\ Len(q) \in Nat \ {0} /\ Len(t) = Len(q) - 1
      /\ \A i \in 1 .. Len(q) - 1 : t[i] = q[i + 1]
  OBVIOUS
<1>. HIDE DEF t
<1>2. t = <<>> <=> Len(t) = 0
  BY <1>1
<1>3. /\ t = <<>> => Len(q) = 1
      /\ t # <<>> => Len(q) - 1 \in 1 .. Len(q) - 1 /\ (Len(q) - 1) + 1 = Len(q)
  BY <1>1, <1>2
<1>4. (t = <<>> => Head(q) = Last(q)) /\ (t # <<>> => Last(t) = Last(q))
  BY <1>1, <1>3 DEF Last
<1>. QED
  BY <1>1, <1>4 DEF t

\* A Home that is loaded with nothing under way.
LEMMA FreshHome ==
  ASSUME SessionInv', ProfileTyped, ProfileTyped', user' \in Account, NEW creation,
         watched' = {user'}, creations' = creation,
         heard' = <<>> \o NamesOf(user'),
         downloads' = EmptyBag (+) LoadImages(user'),
         uploads' = {}, names' = names, pictures' = pictures,
         creation # <<>> => creation = <<user'>> /\ Empty(user')
  PROVE  Loaded'
<1>1. PICK a \in Account : a = user'
  OBVIOUS
<1>2. /\ NamesOf(a) \in Seq(Naming)
      /\ names[a] = None => NamesOf(a) = <<>>
      /\ names[a] # None => NamesOf(a) # <<>> /\ Last(NamesOf(a)) = names[a]
      /\ LoadImages(a) = SetToBag({Download(a, r, Asked) : r \in Owner})
  <2>1. a # NoUser
    BY SessionAssumption
  <2>2. names[a] # None => names[a] \in Naming
    BY DEF ProfileTyped
  <2>. QED
    BY <2>1, <2>2 DEF NamesOf, LoadImages, Last
<1>3. heard' = NamesOf(a)
  BY <1>1, <1>2
<1>4. NamesShown'
  BY <1>1, <1>2, <1>3 DEF NamesShown
<1>5. /\ IsABag(downloads')
      /\ BagToSet(downloads') = {Download(a, r, Asked) : r \in Owner}
  BY <1>1, <1>2, EmptyFacts, BagMore
<1>6. Transfers'
  BY <1>1, <1>5 DEF Transfers
<1>7. PicturesShown'
  BY <1>1, <1>5 DEF PicturesShown
<1>8. Creates'
  BY <1>1 DEF Creates, Empty
<1>. QED
  BY <1>1, <1>4, <1>6, <1>7, <1>8 DEF Loaded

LEMMA ProfileInvInit == ProfileInit => ProfileInv
<1>1. SUFFICES ASSUME ProfileInit PROVE ProfileInv
  OBVIOUS
<1>2. Registered \subseteq Account /\ user = NoUser /\ accounts = Registered
      /\ signIns = {} /\ mainQueue = <<>> /\ kills = 0 /\ stack = <<Welcome>>
  BY <1>1, SessionAssumption DEF ProfileInit, Init
<1>3. ~Home
  BY <1>2 DEF Home, Last, Welcome
<1>4. ProfileTyped
  <2>1. names \in [Account -> Naming \cup {None}]
    BY <1>1, Starters DEF ProfileInit
  <2>2. pictures \in [Account -> [Owner -> Image \cup {None}]]
    BY <1>1, Starters DEF ProfileInit, Of
  <2>3. shared.pictures \in [Owner -> Image] /\ DOMAIN shared = {"names", "pictures"}
    BY <1>1, Starters DEF ProfileInit, NothingLoaded, Of
  <2>. QED
    BY <1>1, <2>1, <2>2, <2>3 DEF ProfileTyped, ProfileInit
<1>5. Still /\ watched = {}
  BY <1>1 DEF Still, ProfileInit
<1>6. \A a \in Account \ accounts : Empty(a)
  BY <1>1, <1>2 DEF ProfileInit, Empty, Of
<1>7. Created
  BY <1>1, <1>2, Starters DEF ProfileInit, Created, Of
<1>8. \A b \in Range(mainQueue) : b.type = "signedIn" /\ b.new => Empty(user)
  BY <1>2 DEF Range
<1>. QED
  BY <1>2, <1>3, <1>4, <1>5, <1>6, <1>7, <1>8 DEF ProfileInv

-----------------------------------------------------------------------------
(* The steps of the session                                                *)

\* Whatever the profile consists of stays as it is.
LEMMA ProfileStays ==
  ASSUME UNCHANGED profileVars
  PROVE  /\ ProfileTyped => ProfileTyped'
         /\ Still => Still'
         /\ \A a \in Account : Empty(a) => Empty(a)'
BY DEF profileVars, ProfileTyped, Still, Empty

LEMMA ProfileTap ==
  ASSUME Patient, SessionInv, SessionInv', PatientInv, PatientInv', ProfileInv, Tap
  PROVE  ProfileInv'
<1>1. ProfileQuiet /\ UNCHANGED profileVars
  BY DEF Tap
<1>2. /\ heard = <<>> /\ creations = <<>> /\ uploads = {} /\ downloads = EmptyBag
      /\ watched \subseteq {user} /\ watched \subseteq Account
  BY <1>1 DEF ProfileQuiet, ProfileInv, ProfileTyped
<1>3. PressLogin \/ PressRegister \/ Back \/ (\E a \in Account : LoginPress(a)) \/ Logout
  BY DEF Tap
<1>4. /\ mainQueue = <<>> /\ signIns = {} /\ mainQueue' = <<>> /\ user' = NoUser
      /\ UNCHANGED <<accounts, kills>>
      /\ signIns' # {} => user = NoUser
  <2>1. CASE PressLogin \/ PressRegister \/ Back
    BY <2>1, PatientTap DEF PressLogin, PressRegister, Back, TapOn
  <2>2. CASE \E a \in Account : LoginPress(a)
    BY <2>2, PatientTap DEF LoginPress, TapOn
  <2>3. CASE Logout
    BY <2>3, PatientTap DEF Logout, TapOn
  <2>. QED
    BY <1>3, <2>1, <2>2, <2>3
<1>5. ~Home'
  <2>1. Last(stack)' \in Range(stack')
    BY EndInRange DEF SessionInv, TypeOK, Rooted
  <2>. QED
    BY <1>4, <2>1 DEF Home, SessionInv, SignedOutShowsNoTabs
<1>6. ProfileTyped' /\ Still' /\ \A a \in Account \ accounts : Empty(a)'
  BY <1>1, <1>2, ProfileStays DEF ProfileInv, Still
<1>7. \A b \in Range(mainQueue') : ~(b.type = "signedIn" /\ b.new)
  BY <1>4 DEF Range
<1>8. signIns' # {} => watched' = {}
  BY <1>1, <1>2, <1>4, Whereabouts DEF profileVars
<1>9. ~Registering
  BY <1>2, <1>4 DEF Registering, Range
<1>10. Created'
  BY <1>1, <1>2, <1>4, <1>9 DEF ProfileInv, Created, profileVars
<1>. QED
  BY <1>4, <1>5, <1>6, <1>7, <1>8, <1>10 DEF ProfileInv

\* The answer finds nobody signed in, and nothing under way.
LEMMA ProfileAnswered ==
  ASSUME SessionInv, SessionInv', PatientInv, PatientInv', ProfileInv,
         AuthSucceeds, UNCHANGED profileVars
  PROVE  ProfileInv'
<1>1. PICK s \in signIns :
        /\ s.new <=> s.account \notin accounts
        /\ user' = s.account /\ accounts' = accounts \cup {s.account}
        /\ signIns' = signIns \ {s}
        /\ mainQueue' = Append(mainQueue, SignedIn(s.page, s.new))
        /\ UNCHANGED <<stack, kills>>
  BY DEF AuthSucceeds, bounds
<1>2. user = NoUser /\ Calling(s) /\ s.account \in Account
  BY <1>1 DEF PatientInv, SigningIn, AtHome, SignedOut, SessionInv, TypeOK, SignIn
<1>3. mainQueue = <<>> /\ mainQueue' = <<SignedIn(s.page, s.new)>> /\ signIns' = {}
  BY <1>1, <1>2 DEF Calling
<1>4. ~Home /\ ~Home' /\ Still /\ watched = {} /\ watched' = {}
  BY <1>1, <1>2, Whereabouts DEF ProfileInv, profileVars, Home
<1>5. ProfileTyped' /\ Still' /\ \A a \in Account \ accounts : Empty(a)'
  BY <1>4, ProfileStays DEF ProfileInv
<1>6. Range(mainQueue') = {SignedIn(s.page, s.new)} /\ Range(mainQueue) = {}
  BY <1>3 DEF Range
<1>7. \A b \in Range(mainQueue') : b.type = "signedIn" /\ b.new => Empty(user)'
  <2>1. s.new => Empty(s.account)'
    BY <1>1, <1>2, <1>5
  <2>. QED
    BY <1>1, <1>6, <2>1 DEF SignedIn, Empty
<1>8. s.new => Registering'
  BY <1>6 DEF Registering, SignedIn
<1>9. Created'
  <2>1. SUFFICES ASSUME kills = 0, NEW a \in accounts'
                 PROVE  /\ names[a] = None => a = user' /\ Registering'
                        /\ names[a] # None /\ failures = 0 =>
                             \A r \in Owner : pictures[a][r] # None
    BY <1>1 DEF Created, profileVars
  <2>2. CASE a \in accounts
    <3>1. a # user /\ uploads = {}
      BY <1>2, <1>4, <2>2, SessionAssumption DEF SessionInv, TypeOK, Still
    <3>. QED
      BY <2>1, <2>2, <3>1 DEF ProfileInv, Created
  <2>3. CASE a \notin accounts
    <3>1. a = s.account /\ Empty(a)
      BY <1>1, <1>2, <2>1, <2>3 DEF ProfileInv
    <3>. QED
      BY <1>1, <1>8, <2>3, <3>1 DEF Empty
  <2>. QED
    BY <2>2, <2>3
<1>. QED
  BY <1>1, <1>2, <1>4, <1>5, <1>7, <1>9 DEF ProfileInv

\* The blocks of the main queue that still show the tabs.
Answers(q) == {b \in Range(q) : b.type = "signedIn"}

LEMMA AnswersCalled ==
  ASSUME NEW S, NEW q \in Seq(S), NEW x \in S, NEW n \in Nat, x.type # "signedIn"
  PROVE  Answers(q \o Called(n, x)) = Answers(q)
<1> DEFINE c == Called(n, x)
<1>1. c \in Seq(S) /\ Len(q) \in Nat
  BY DEF Called
<1>. HIDE DEF c
<1>2. /\ DOMAIN q = 1 .. Len(q) /\ DOMAIN (q \o c) = 1 .. Len(q) + Len(c)
      /\ Len(c) \in Nat
      /\ \A i \in 1 .. Len(q) : (q \o c)[i] = q[i]
  BY <1>1
<1>3. Range(q) \subseteq Range(q \o c)
  <2>1. \A i \in 1 .. Len(q) : i \in 1 .. Len(q) + Len(c)
    BY <1>1, <1>2
  <2>. QED
    BY <1>2, <2>1 DEF Range
<1>4. Range(q \o c) \subseteq Range(q) \cup {x}
  BY RangeCalled DEF c
<1>. QED
  BY <1>3, <1>4 DEF Answers, c

LEMMA AnswersStay ==
  ASSUME SessionInv, PatientInv,
         HearOfHabits \/ HearOfError \/ ReloadTable \/ HabitsChange \/ ListenRefused
  PROVE  Answers(mainQueue') = Answers(mainQueue)
<1>1. mainQueue \in Seq(Block)
  BY DEF SessionInv, TypeOK
<1>2. CASE HearOfHabits \/ HearOfError \/ ReloadTable
  <2>1. mainQueue # <<>> /\ Head(mainQueue).type # "signedIn"
    BY <1>2 DEF HearOfHabits, HearOfError, ReloadTable, Reload
  <2>2. ~SigningIn
    BY <2>1 DEF SigningIn, SignedIn
  <2>3. Answers(mainQueue) = {}
    BY <2>2 DEF Answers, PatientInv, SignedOut, AtHome
  <2>4. Range(Tail(mainQueue)) \subseteq Range(mainQueue)
    BY <1>1, <2>1, RangeTail
  <2>5. mainQueue' = Tail(mainQueue) \/ mainQueue' = Append(Tail(mainQueue), Reload)
    BY <1>2 DEF HearOfHabits, HearOfError, ReloadTable
  <2>6. Range(mainQueue') \subseteq Range(mainQueue) \cup {Reload}
    <3>1. Range(Append(Tail(mainQueue), Reload)) = Range(Tail(mainQueue)) \cup {Reload}
      BY <1>1, <2>1, RangeRequeue, Messages
    <3>. QED
      BY <2>4, <2>5, <3>1
  <2>. QED
    BY <2>3, <2>6 DEF Answers, Reload
<1>3. CASE HabitsChange
  <2>1. PICK a \in accounts, list \in SUBSET Habit :
          mainQueue' = IF a # user THEN mainQueue
                       ELSE mainQueue \o Called(listeners[a], Snapshot(list))
    BY <1>3 DEF HabitsChange
  <2>2. a \in Account /\ listeners[a] \in Nat /\ Snapshot(list) \in Block
    BY Messages DEF SessionInv, TypeOK
  <2>. QED
    BY <1>1, <2>1, <2>2, AnswersCalled DEF Snapshot
<1>4. CASE ListenRefused
  <2>1. PICK a \in Account \ {user} :
          mainQueue' = mainQueue \o Called(listeners[a], ListenError)
    BY <1>4 DEF ListenRefused
  <2>2. listeners[a] \in Nat /\ ListenError \in Block
    BY Messages DEF SessionInv, TypeOK
  <2>. QED
    BY <1>1, <2>1, <2>2, AnswersCalled DEF ListenError
<1>. QED
  BY <1>2, <1>3, <1>4

\* What the profile has no part in.
LEMMA ProfileElsewhere ==
  ASSUME SessionInv, SessionInv', PatientInv, PatientInv', ProfileInv, Elsewhere
  PROVE  ProfileInv'
<1>1. UNCHANGED profileVars
  BY DEF Elsewhere
<1>2. CASE AuthSucceeds
  BY <1>1, <1>2, ProfileAnswered
<1>3. CASE ~AuthSucceeds
  <2>1. AuthFails \/ HearOfHabits \/ HearOfError \/ ReloadTable \/ HabitsChange
        \/ ListenRefused
    BY <1>3 DEF Elsewhere
  <2>2. UNCHANGED <<user, accounts, stack, kills>> /\ signIns' \subseteq signIns
    BY <2>1 DEF AuthFails, HearOfHabits, HearOfError, ReloadTable, HabitsChange,
                ListenRefused, bounds
  <2>3. Answers(mainQueue') = Answers(mainQueue)
    BY <2>1, AnswersStay DEF AuthFails, Answers
  <2>4. Registering' = Registering
    BY <1>1, <2>3 DEF Registering, Answers, profileVars
  <2>5. \A b \in Range(mainQueue') : b.type = "signedIn" /\ b.new => Empty(user)'
    BY <1>1, <2>2, <2>3 DEF Answers, Empty, ProfileInv, profileVars
  <2>6. Created'
    BY <1>1, <2>2, <2>4 DEF ProfileInv, Created, profileVars
  <2>7. Home' = Home /\ Loaded' = Loaded /\ Still' = Still
    BY <1>1, <2>2 DEF Home, Loaded, Still, NamesShown, Creates, Transfers, PicturesShown,
                      Empty, profileVars
  <2>8. ProfileTyped' /\ \A a \in Account \ accounts : Empty(a)'
    BY <1>1, ProfileStays DEF ProfileInv
  <2>. QED
    BY <1>1, <2>2, <2>5, <2>6, <2>7, <2>8 DEF ProfileInv, profileVars
<1>. QED
  BY <1>2, <1>3

\* The tabs are shown, and their Home loads the names and the pictures.
LEMMA ProfileShown ==
  ASSUME SessionInv, SessionInv', PatientInv, PatientInv', ProfileInv, FormAnswered
  PROVE  ProfileInv'
<1>1. ShowTabs /\ UNCHANGED <<names, pictures, shared, uploads, missed, edits, failures>>
  BY DEF FormAnswered
<1>2. Head(mainQueue).type = "signedIn" /\ Head(mainQueue) \in Range(mainQueue)
  BY <1>1, RangeTail DEF ShowTabs, SessionInv, TypeOK
<1>3. user # NoUser /\ SigningIn /\ user \in Account
  BY <1>2, Whereabouts DEF PatientInv, SignedOut, AtHome
<1>4. PICK new \in BOOLEAN : mainQueue = <<SignedIn(Last(stack).id, new)>>
  BY <1>3 DEF SigningIn
<1>5. stack \in Seq(Page) /\ stack # <<>> /\ Tabs(user) \in Page
  BY <1>3, Pages DEF SessionInv, TypeOK, Rooted
<1>6. Last(stack) \in Range(stack) /\ Last(stack).id = Head(mainQueue).page
  BY <1>4, <1>5, EndInRange DEF SignedIn
<1>7. /\ stack' = Append(stack, Tabs(user))
      /\ mainQueue' = Append(Tail(mainQueue), Snapshot(collections[user]))
      /\ UNCHANGED <<user, accounts, signIns, kills>>
  BY <1>1, <1>6 DEF ShowTabs, bounds
<1>8. stack' # stack
  BY <1>5, <1>7
<1>9. Home'
  BY <1>5, <1>7, EndOfAppend DEF Home, Tabs
<1>10. ~Home /\ Still /\ watched = {}
  BY <1>3, Whereabouts DEF ProfileInv
<1>11. creations' = IF new THEN <<user>> ELSE <<>>
  BY <1>3, <1>4, <1>10 DEF FormAnswered, CreationsAfter, SignedIn, Still
<1>12. /\ watched' = {user} /\ heard' = <<>> \o NamesOf(user)
       /\ downloads' = EmptyBag (+) LoadImages(user)
  BY <1>8, <1>10 DEF FormAnswered, HomeLoads, Still
<1>13. new => Empty(user)
  <2>1. Range(mainQueue) = {SignedIn(Last(stack).id, new)}
    BY <1>4 DEF Range
  <2>. QED
    BY <2>1 DEF ProfileInv, SignedIn
<1>14. NamesOf(user) \in Seq(Naming)
  BY <1>3 DEF NamesOf, ProfileInv, ProfileTyped
<1>15. ProfileTyped'
  BY <1>1, <1>3, <1>12, <1>14 DEF ProfileInv, ProfileTyped
<1>16. uploads' = {}
  BY <1>1, <1>10 DEF Still
<1>17. Loaded'
  BY <1>1, <1>3, <1>7, <1>11, <1>12, <1>13, <1>15, <1>16, FreshHome DEF ProfileInv, Empty
<1>18. \A b \in Range(mainQueue') : b.type # "signedIn"
  BY <1>4, <1>7 DEF Range, Snapshot
<1>19. Registering => Registering'
  <2>1. Registering => new
    BY <1>4, <1>10 DEF Registering, Still, Range, SignedIn
  <2>. QED
    BY <1>11, <2>1 DEF Registering
<1>20. Created'
  BY <1>1, <1>7, <1>10, <1>19 DEF ProfileInv, Created, Still
<1>21. \A a \in Account \ accounts' : Empty(a)'
  BY <1>1, <1>7 DEF ProfileInv, Empty
<1>22. signIns' = {}
  BY <1>3, <1>7 DEF SigningIn
<1>. QED
  BY <1>7, <1>9, <1>15, <1>17, <1>18, <1>20, <1>21, <1>22 DEF ProfileInv

LEMMA ProfileRelaunched ==
  ASSUME SessionInv, SessionInv', PatientInv, PatientInv', ProfileInv, ProfileRelaunch
  PROVE  ProfileInv'
<1>1. /\ Relaunch /\ creations' = <<>> /\ uploads' = {} /\ shared' = NothingLoaded
      /\ UNCHANGED <<names, pictures, edits, failures>>
  BY DEF ProfileRelaunch
<1>2. kills' > 0 /\ signIns' = {} /\ UNCHANGED <<user, accounts>>
  BY <1>1 DEF Relaunch, SessionInv, TypeOK
<1>3. Created' /\ \A a \in Account \ accounts' : Empty(a)'
  BY <1>1, <1>2 DEF Created, ProfileInv, Empty
<1>4. NothingLoaded.pictures \in [Owner -> Image] /\ DOMAIN NothingLoaded = {"names", "pictures"}
  BY Starters DEF NothingLoaded, Of
<1>5. CASE user = NoUser
  <2>1. /\ stack' = <<Welcome>> /\ mainQueue' = <<>>
        /\ watched' = {} /\ heard' = <<>> /\ downloads' = EmptyBag
    BY <1>1, <1>5 DEF ProfileRelaunch, Relaunch
  <2>2. ~Home' /\ Still'
    BY <1>1, <2>1 DEF Home, Last, Welcome, Still
  <2>3. ProfileTyped'
    BY <1>1, <1>4, <2>1 DEF ProfileInv, ProfileTyped
  <2>4. \A b \in Range(mainQueue') : b.type # "signedIn"
    BY <2>1 DEF Range
  <2>. QED
    BY <1>2, <1>3, <2>1, <2>2, <2>3, <2>4 DEF ProfileInv
<1>6. CASE user # NoUser
  <2>1. /\ stack' = <<Welcome, Tabs(user)>> /\ mainQueue' = <<Snapshot(collections[user])>>
        /\ watched' = {user} /\ heard' = <<>> \o NamesOf(user)
        /\ downloads' = EmptyBag (+) LoadImages(user)
    BY <1>1, <1>6 DEF ProfileRelaunch, Relaunch, HomeLoads
  <2>2. Home' /\ user \in Account
    BY <1>6, <2>1, Whereabouts DEF Home, Last, Tabs
  <2>3. NamesOf(user) \in Seq(Naming)
    BY <2>2 DEF NamesOf, ProfileInv, ProfileTyped
  <2>4. ProfileTyped'
    BY <1>1, <1>4, <2>1, <2>2, <2>3 DEF ProfileInv, ProfileTyped
  <2>5. Loaded'
    BY <1>1, <1>2, <2>1, <2>2, <2>4, FreshHome DEF ProfileInv
  <2>6. \A b \in Range(mainQueue') : b.type # "signedIn"
    BY <2>1 DEF Range, Snapshot
  <2>. QED
    BY <1>2, <1>3, <2>2, <2>4, <2>5, <2>6 DEF ProfileInv
<1>. QED
  BY <1>5, <1>6

-----------------------------------------------------------------------------
(* The steps of the profile                                                *)

\* The session stands still: what is left to show of the profile.
LEMMA SessionStands ==
  ASSUME UNCHANGED vars, ProfileInv, ProfileTyped', Created',
         Home => Loaded', ~Home => Still', watched' \subseteq watched,
         \A a \in Account \ accounts : Empty(a)',
         (\E b \in Range(mainQueue) : b.type = "signedIn" /\ b.new) => Empty(user)'
  PROVE  ProfileInv'
<1>1. /\ Home' = Home
      /\ UNCHANGED <<user, accounts, signIns, mainQueue>>
  BY DEF vars, Home
<1>. QED
  BY <1>1 DEF ProfileInv

\* A transfer of a Home.
LEMMA TransferAtHome ==
  ASSUME ProfileInv, uploads # {} \/ BagToSet(downloads) # {}
  PROVE  Home /\ Loaded
BY EmptyFacts DEF ProfileInv, Still

\* No two transfers are taken for one another.
LEMMA TransfersDiffer ==
  /\ \A a, b, r, s, x, y : Download(a, r, x) = Download(b, s, y) => a = b /\ r = s /\ x = y
  /\ \A a, r, p, s : /\ Upload(a, r, p, s).row = r /\ Upload(a, r, p, s).account = a
                     /\ Upload(a, r, p, s).picture = p /\ Upload(a, r, p, s).stored = s
BY DEF Download, Upload

LEMMA ProfileDownloads ==
  ASSUME SessionInv, PatientInv, ProfileInv, PictureArrives \/ DownloadFails
  PROVE  ProfileInv'
<1>1. PICK d \in BagToSet(downloads) :
        \/ /\ downloads' = downloads (-) SetToBag({d})
           /\ LET picture == IF d.picture = Asked THEN pictures[d.account][d.row]
                             ELSE d.picture IN
              \/ /\ Loadable(d.row, picture)
                 /\ shared' = [shared EXCEPT !.pictures[d.row] = picture]
                 /\ missed' = missed \ {d.row}
              \/ ~Loadable(d.row, picture) /\ UNCHANGED <<shared, missed>>
           /\ failures' = failures
        \/ /\ downloads' = downloads (-) SetToBag({d})
           /\ missed' = missed \cup {d.row} /\ failures' = failures + 1 /\ shared' = shared
  BY DEF PictureArrives, DownloadFails
<1>2. UNCHANGED <<vars, names, pictures, watched, heard, creations, uploads, edits>>
  BY DEF PictureArrives, DownloadFails
<1>3. Home /\ Loaded /\ user \in Account
  BY <1>1, TransferAtHome, Whereabouts
<1>4. PICK r \in Owner : d = Download(user, r, Asked)
  BY <1>1, <1>3 DEF Loaded, Transfers
<1>5. d.account = user /\ d.row = r /\ d.picture = Asked
  BY <1>4 DEF Download
<1>6. ProfileTyped /\ pictures[user][r] \in Image \cup {None}
  BY <1>3, <1>4 DEF ProfileInv, ProfileTyped
<1>7. /\ IsABag(downloads') /\ BagToSet(downloads') \subseteq BagToSet(downloads)
      /\ BagToSet(downloads) \subseteq BagToSet(downloads') \cup {d}
  BY <1>1, <1>3, BagLess DEF Loaded, Transfers
<1>8. \/ /\ Loadable(r, pictures[user][r])
         /\ shared' = [shared EXCEPT !.pictures[r] = pictures[user][r]]
         /\ missed' = missed \ {r} /\ failures' = failures
      \/ ~Loadable(r, pictures[user][r]) /\ UNCHANGED <<shared, missed, failures>>
      \/ missed' = missed \cup {r} /\ failures' = failures + 1 /\ shared' = shared
  BY <1>1, <1>5
<1>9. ProfileTyped'
  <2>1. shared'.pictures \in [Owner -> Image] /\ DOMAIN shared' = {"names", "pictures"}
    BY <1>4, <1>6, <1>8 DEF ProfileTyped, Loadable
  <2>2. failures' \in Nat
    BY <1>6, <1>8 DEF ProfileTyped
  <2>. QED
    BY <1>2, <1>6, <2>1, <2>2 DEF ProfileTyped
<1>10. shared'.names = shared.names
  BY <1>6, <1>8 DEF ProfileTyped
<1>11. UNCHANGED user
  BY <1>2 DEF vars
<1>12. NamesShown' /\ Creates'
  BY <1>2, <1>3, <1>10, <1>11 DEF Loaded, NamesShown, Creates, Empty
<1>13. Transfers'
  <2>1. \A e \in BagToSet(downloads') : \E s \in Owner : e = Download(user, s, Asked)
    BY <1>3, <1>7 DEF Loaded, Transfers
  <2>2. downloads # EmptyBag
    BY <1>1, EmptyFacts
  <2>. QED
    BY <1>2, <1>3, <1>7, <1>11, <2>1, <2>2 DEF Loaded, Transfers
<1>14. PicturesShown'
  <2>1. SUFFICES ASSUME NEW s \in Owner, Loadable(s, pictures[user][s]), s \notin missed'
                 PROVE  \/ shared'.pictures[s] = pictures[user][s]
                        \/ Download(user, s, Asked) \in BagToSet(downloads')
                        \/ \E u \in uploads : u.row = s /\ u.stored
    BY <1>2, <1>11 DEF PicturesShown
  <2>2. CASE s = r
    BY <1>6, <1>8, <2>1, <2>2 DEF ProfileTyped
  <2>3. CASE s # r
    <3>1. s \notin missed /\ shared'.pictures[s] = shared.pictures[s]
      BY <1>6, <1>8, <2>1, <2>3 DEF ProfileTyped
    <3>2. Download(user, s, Asked) # d
      BY <1>4, <2>3, TransfersDiffer
    <3>. QED
      BY <1>3, <1>7, <2>1, <3>1, <3>2 DEF Loaded, PicturesShown
  <2>. QED
    BY <2>2, <2>3
<1>15. Loaded'
  BY <1>2, <1>3, <1>11, <1>12, <1>13, <1>14 DEF Loaded
<1>16. Created'
  <2>1. failures' = 0 => failures = 0
    BY <1>6, <1>8 DEF ProfileTyped
  <2>2. UNCHANGED <<kills, accounts, user, mainQueue>>
    BY <1>2 DEF vars, bounds
  <2>. QED
    BY <1>2, <2>1, <2>2 DEF ProfileInv, Created, Registering
<1>17. /\ \A a \in Account \ accounts : Empty(a)'
       /\ (\E b \in Range(mainQueue) : b.type = "signedIn" /\ b.new) => Empty(user)'
  BY <1>2, <1>11 DEF ProfileInv, Empty
<1>. QED
  BY <1>2, <1>3, <1>9, <1>15, <1>16, <1>17, SessionStands

LEMMA ProfileHears ==
  ASSUME SessionInv, PatientInv, ProfileInv, HearOfNames
  PROVE  ProfileInv'
<1>1. /\ heard # <<>> /\ heard' = Tail(heard)
      /\ shared' = [shared EXCEPT !.names = Head(heard)]
      /\ UNCHANGED <<vars, names, pictures, watched, creations, uploads, downloads, missed,
                     edits, failures>>
  BY DEF HearOfNames
<1>2. Home /\ Loaded /\ ProfileTyped
  BY <1>1 DEF ProfileInv, Still
<1>3. UNCHANGED <<user, accounts, mainQueue, kills>>
  BY <1>1 DEF vars, bounds
<1>4. /\ heard' \in Seq(Naming)
      /\ heard' = <<>> => Head(heard) = Last(heard)
      /\ heard' # <<>> => Last(heard') = Last(heard)
  BY <1>1, <1>2, NextOfTail DEF ProfileTyped
<1>5. /\ shared'.pictures = shared.pictures /\ shared'.names = Head(heard)
      /\ DOMAIN shared' = DOMAIN shared
  BY <1>1, <1>2 DEF ProfileTyped
<1>6. ProfileTyped'
  BY <1>1, <1>2, <1>4, <1>5 DEF ProfileTyped
<1>7. NamesShown'
  BY <1>1, <1>2, <1>3, <1>4, <1>5 DEF Loaded, NamesShown
<1>8. Creates' /\ Transfers' /\ PicturesShown'
  BY <1>1, <1>2, <1>3, <1>5 DEF Loaded, Creates, Transfers, PicturesShown, Empty
<1>9. Created' /\ (\A a \in Account \ accounts : Empty(a)')
      /\ ((\E b \in Range(mainQueue) : b.type = "signedIn" /\ b.new) => Empty(user)')
  BY <1>1, <1>3 DEF ProfileInv, Created, Registering, Empty
<1>. QED
  BY <1>1, <1>2, <1>3, <1>6, <1>7, <1>8, <1>9, SessionStands DEF Loaded

\* Somebody else's names are listened to only once nobody is signed in.
LEMMA ProfileRefused ==
  ASSUME SessionInv, PatientInv, ProfileInv, NamesRefused
  PROVE  ProfileInv'
<1>1. /\ watched' \subseteq watched /\ watched \ {user} # {}
      /\ UNCHANGED <<vars, names, pictures, shared, heard, creations, uploads, downloads,
                     missed, edits, failures>>
  BY DEF NamesRefused
<1>2. ~Home /\ Still /\ ProfileTyped
  BY <1>1 DEF ProfileInv, Loaded
<1>3. UNCHANGED <<user, accounts, mainQueue, kills>>
  BY <1>1 DEF vars, bounds
<1>4. Created' /\ (\A a \in Account \ accounts : Empty(a)')
      /\ ((\E b \in Range(mainQueue) : b.type = "signedIn" /\ b.new) => Empty(user)')
  BY <1>1, <1>3 DEF ProfileInv, Created, Registering, Empty
<1>5. ProfileTyped' /\ Still'
  BY <1>1, <1>2 DEF ProfileTyped, Still
<1>. QED
  BY <1>1, <1>2, <1>4, <1>5, SessionStands

\* An upload that is not the first picture of its row is the only transfer there
\* is, so none of the row's downloads was served before it.
LEMMA NothingServed ==
  ASSUME ProfileInv, Home, NEW u \in uploads, ~u.stored,
         NEW n \in 0 .. Copies(Download(u.account, u.row, Asked)),
         n > 0 => pictures[u.account][u.row] # None
  PROVE  Served(n, u.account, u.row) = downloads
<1>1. Loaded /\ u.account = user
  BY DEF ProfileInv, Loaded, Transfers, Upload
<1>2. n = 0
  <2>1. CASE pictures[user][u.row] = None
    BY <1>1, <2>1
  <2>2. CASE pictures[user][u.row] # None
    <3>1. downloads = EmptyBag
      BY <1>1, <2>2 DEF Loaded, Transfers
    <3>2. Copies(Download(u.account, u.row, Asked)) = 0
      BY <3>1, EmptyFacts DEF Copies, BagIn
    <3>. QED
      BY <3>2
  <2>. QED
    BY <2>1, <2>2
<1>. QED
  BY <1>2 DEF Served

LEMMA ProfileStored ==
  ASSUME SessionInv, PatientInv, ProfileInv, UploadStored
  PROVE  ProfileInv'
<1>1. Home /\ Loaded /\ user \in Account /\ ProfileTyped
  BY TransferAtHome, Whereabouts DEF UploadStored, ProfileInv
<1>2. PICK u \in uploads :
        /\ ~u.stored
        /\ pictures' = [pictures EXCEPT ![u.account][u.row] = u.picture]
        /\ uploads' = (uploads \ {u}) \cup {Upload(u.account, u.row, u.picture, TRUE)}
        /\ downloads' = downloads
  BY <1>1, NothingServed DEF UploadStored
<1>3. UNCHANGED <<vars, names, shared, watched, heard, creations, missed, edits, failures>>
  BY DEF UploadStored
<1>4. UNCHANGED <<user, accounts, mainQueue, kills>>
  BY <1>3 DEF vars, bounds
<1>5. PICK r \in Owner, p \in Image : u = Upload(user, r, p, FALSE)
  BY <1>1, <1>2 DEF Loaded, Transfers, Upload
<1>6. u.account = user /\ u.row = r /\ u.picture = p
  BY <1>5 DEF Upload
<1>7. PICK w : w = Upload(user, r, p, TRUE)
  OBVIOUS
<1>8. w.row = r /\ w.stored /\ uploads' = (uploads \ {u}) \cup {w}
  BY <1>2, <1>6, <1>7 DEF Upload
<1>9. /\ pictures' \in [Account -> [Owner -> Image \cup {None}]]
      /\ \A a \in Account, s \in Owner :
           pictures'[a][s] = IF a = user /\ s = r THEN p ELSE pictures[a][s]
  BY <1>1, <1>2, <1>5, <1>6 DEF ProfileTyped
<1>10. p # None
  BY <1>5, Starters
<1>11. ProfileTyped'
  BY <1>1, <1>3, <1>9 DEF ProfileTyped
<1>12. NamesShown'
  BY <1>1, <1>3, <1>4 DEF Loaded, NamesShown
<1>13. Creates'
  BY <1>1, <1>2, <1>3, <1>4 DEF Loaded, Creates
<1>14. Transfers'
  <2>1. IsABag(downloads') /\ \A d \in BagToSet(downloads') :
          \E s \in Owner : d = Download(user', s, Asked)
    BY <1>1, <1>2, <1>4 DEF Loaded, Transfers
  <2>2. ASSUME NEW v \in uploads'
        PROVE  /\ \E s \in Owner, q \in Image, t \in BOOLEAN : v = Upload(user', s, q, t)
               /\ \A x \in uploads' : x.row = v.row => x = v
               /\ ~v.stored => pictures'[user'][v.row] = None
    <3>1. CASE v = w
      <4>1. \A x \in uploads \ {u} : x.row # r
        BY <1>1, <1>6 DEF Loaded, Transfers
      <4>. QED
        BY <1>4, <1>5, <1>7, <1>8, <3>1, <4>1
    <3>2. CASE v # w
      <4>1. v \in uploads /\ v # u
        BY <1>8, <3>2, <2>2
      <4>2. v.row # r
        BY <1>1, <1>6, <4>1 DEF Loaded, Transfers
      <4>3. \E s \in Owner, q \in Image, t \in BOOLEAN : v = Upload(user, s, q, t)
        BY <1>1, <4>1 DEF Loaded, Transfers
      <4>4. v.row \in Owner
        BY <4>3 DEF Upload
      <4>5. ~v.stored => pictures[user][v.row] = None
        BY <1>1, <4>1 DEF Loaded, Transfers
      <4>6. \A x \in uploads' : x.row = v.row => x = v
        BY <1>1, <1>8, <4>1, <4>2 DEF Loaded, Transfers
      <4>. QED
        BY <1>1, <1>4, <1>9, <4>2, <4>3, <4>4, <4>5, <4>6
    <3>. QED
      BY <3>1, <3>2
  <2>. QED
    BY <2>1, <2>2 DEF Transfers
<1>15. PicturesShown'
  <2>1. SUFFICES ASSUME NEW s \in Owner, s # r, Loadable(s, pictures[user][s]), s \notin missed
                 PROVE  \/ shared.pictures[s] = pictures[user][s]
                        \/ Download(user, s, Asked) \in BagToSet(downloads)
                        \/ \E v \in uploads' : v.row = s /\ v.stored
    BY <1>1, <1>2, <1>3, <1>4, <1>8, <1>9 DEF PicturesShown
  <2>2. \A v \in uploads : v.row = s => v \in uploads'
    BY <1>6, <1>8, <2>1
  <2>. QED
    BY <1>1, <2>1, <2>2 DEF Loaded, PicturesShown
<1>16. Loaded'
  BY <1>1, <1>3, <1>4, <1>12, <1>13, <1>14, <1>15 DEF Loaded
<1>17. user \in accounts
  BY <1>1, Whereabouts DEF ProfileInv
<1>18. Created'
  <2>1. SUFFICES ASSUME kills = 0, NEW a \in accounts
                 PROVE  /\ names[a] = None => a = user /\ Registering
                        /\ failures = 0 /\ names[a] # None =>
                             \A s \in Owner : pictures'[a][s] = None =>
                               a = user /\ \E v \in uploads' : v.row = s /\ ~v.stored
    BY <1>3, <1>4 DEF Created, Registering
  <2>2. a \in Account
    BY <2>1 DEF SessionInv, TypeOK
  <2>3. ASSUME failures = 0, names[a] # None, NEW s \in Owner, pictures'[a][s] = None
        PROVE  a = user /\ \E v \in uploads' : v.row = s /\ ~v.stored
    <3>1. pictures[a][s] = None /\ ~(a = user /\ s = r)
      BY <1>9, <1>10, <2>2, <2>3
    <3>2. a = user /\ \E v \in uploads : v.row = s /\ ~v.stored
      BY <2>1, <2>3, <3>1 DEF ProfileInv, Created
    <3>. QED
      BY <1>6, <1>8, <3>1, <3>2
  <2>. QED
    BY <2>1, <2>3 DEF ProfileInv, Created
<1>19. \A a \in Account \ accounts : Empty(a)'
  BY <1>3, <1>9, <1>17 DEF ProfileInv, Empty
<1>20. ~\E b \in Range(mainQueue) : b.type = "signedIn" /\ b.new
  BY <1>1, Whereabouts DEF AtHome
<1>. QED
  BY <1>1, <1>3, <1>11, <1>16, <1>18, <1>19, <1>20, SessionStands

LEMMA ProfileUploads ==
  ASSUME SessionInv, PatientInv, ProfileInv, UploadDone \/ UploadFails
  PROVE  ProfileInv'
<1>1. Home /\ Loaded /\ user \in Account /\ ProfileTyped
  BY TransferAtHome, Whereabouts DEF UploadDone, UploadFails, ProfileInv
<1>2. PICK u \in uploads :
        /\ uploads' = uploads \ {u}
        /\ \/ /\ u.stored /\ downloads' = downloads (+) LoadImages(user)
              /\ UNCHANGED <<missed, failures>>
           \/ /\ missed' = missed \cup {u.row} /\ failures' = failures + 1
              /\ downloads' = downloads
  BY DEF UploadDone, UploadFails
<1>3. UNCHANGED <<vars, names, pictures, shared, watched, heard, creations, edits>>
  BY DEF UploadDone, UploadFails
<1>4. UNCHANGED <<user, accounts, mainQueue, kills>>
  BY <1>3 DEF vars, bounds
<1>5. LoadImages(user) = SetToBag({Download(user, r, Asked) : r \in Owner})
  BY <1>1, SessionAssumption DEF LoadImages
<1>6. /\ IsABag(downloads') /\ BagToSet(downloads) \subseteq BagToSet(downloads')
      /\ \A d \in BagToSet(downloads') : \E r \in Owner : d = Download(user, r, Asked)
      /\ \A r \in Owner : u.stored /\ u.row = r /\ r \notin missed' =>
           Download(user, r, Asked) \in BagToSet(downloads')
  <2>1. CASE downloads' = downloads (+) LoadImages(user)
    <3>1. /\ IsABag(downloads')
          /\ BagToSet(downloads')
               = BagToSet(downloads) \cup {Download(user, r, Asked) : r \in Owner}
      BY <1>1, <1>5, <2>1, BagMore DEF Loaded, Transfers
    <3>. QED
      BY <1>1, <3>1 DEF Loaded, Transfers
  <2>2. CASE downloads' = downloads /\ u.row \in missed'
    BY <1>1, <2>2 DEF Loaded, Transfers
  <2>. QED
    BY <1>2, <2>1, <2>2
<1>7. ProfileTyped'
  BY <1>1, <1>2, <1>3 DEF ProfileTyped
<1>8. NamesShown' /\ Creates'
  BY <1>1, <1>2, <1>3, <1>4 DEF Loaded, NamesShown, Creates, Empty
<1>9. Transfers'
  <2>1. ASSUME NEW v \in uploads'
        PROVE  /\ \E s \in Owner, q \in Image, t \in BOOLEAN : v = Upload(user, s, q, t)
               /\ \A x \in uploads' : x.row = v.row => x = v
               /\ ~v.stored => pictures[user][v.row] = None
    BY <1>1, <1>2, <2>1 DEF Loaded, Transfers
  <2>. QED
    BY <1>3, <1>4, <1>6, <2>1 DEF Transfers
<1>10. PicturesShown'
  <2>1. SUFFICES ASSUME NEW s \in Owner, Loadable(s, pictures[user][s]), s \notin missed'
                 PROVE  \/ shared.pictures[s] = pictures[user][s]
                        \/ Download(user, s, Asked) \in BagToSet(downloads')
                        \/ \E v \in uploads' : v.row = s /\ v.stored
    BY <1>3, <1>4 DEF PicturesShown
  <2>2. s \notin missed
    BY <1>2, <2>1
  <2>3. ASSUME NEW v \in uploads, v.row = s, v.stored
        PROVE  v \in uploads' \/ Download(user, s, Asked) \in BagToSet(downloads')
    BY <1>2, <1>6, <2>1, <2>3
  <2>. QED
    BY <1>1, <1>6, <2>1, <2>2, <2>3 DEF Loaded, PicturesShown
<1>11. Loaded'
  BY <1>1, <1>3, <1>4, <1>8, <1>9, <1>10 DEF Loaded
<1>12. Created'
  <2>1. failures' = 0 => failures = 0 /\ u.stored
    BY <1>1, <1>2 DEF ProfileTyped
  <2>2. \A v \in uploads : ~v.stored /\ failures' = 0 => v \in uploads'
    BY <1>2, <2>1
  <2>. QED
    BY <1>3, <1>4, <2>1, <2>2 DEF ProfileInv, Created, Registering
<1>13. /\ \A a \in Account \ accounts : Empty(a)'
       /\ (\E b \in Range(mainQueue) : b.type = "signedIn" /\ b.new) => Empty(user)'
  BY <1>3, <1>4 DEF ProfileInv, Empty
<1>. QED
  BY <1>1, <1>3, <1>7, <1>11, <1>12, <1>13, SessionStands

\* Registration writes the names and asks for the pictures of an account that has
\* neither.
LEMMA ProfileCreated ==
  ASSUME SessionInv, PatientInv, ProfileInv, CreateProfile
  PROVE  ProfileInv'
<1>1. creations # <<>>
  BY DEF CreateProfile
<1>2. Home /\ Loaded /\ user \in Account /\ ProfileTyped
  BY <1>1, Whereabouts DEF ProfileInv, Still
<1>3. creations = <<user>> /\ Empty(user) /\ uploads = {} /\ watched = {user}
  BY <1>1, <1>2 DEF Loaded, Creates
<1>4. heard = <<>>
  BY <1>2, <1>3 DEF Loaded, NamesShown, Empty
<1>5. /\ names' = [names EXCEPT ![user] = DefaultNames]
      /\ heard' = Append(heard, DefaultNames)
      /\ uploads' = {Upload(user, r, DefaultPicture, FALSE) : r \in Owner}
      /\ creations' = <<>>
      /\ UNCHANGED <<vars, pictures, shared, watched, downloads, missed, edits, failures>>
  BY <1>3 DEF CreateProfile, DefaultUploads
<1>6. UNCHANGED <<user, accounts, mainQueue, kills>>
  BY <1>5 DEF vars, bounds
<1>7. heard' = <<DefaultNames>> /\ heard' \in Seq(Naming) /\ heard' # <<>>
      /\ Last(heard') = DefaultNames
  BY <1>4, <1>5, Starters DEF Last
<1>8. names' \in [Account -> Naming \cup {None}] /\ names'[user] = DefaultNames
      /\ \A a \in Account \ {user} : names'[a] = names[a]
  BY <1>2, <1>5, Starters DEF ProfileTyped
<1>9. ProfileTyped'
  BY <1>2, <1>5, <1>7, <1>8 DEF ProfileTyped
<1>10. NamesShown' /\ Creates'
  BY <1>5, <1>6, <1>7, <1>8, Starters DEF NamesShown, Creates
<1>11. Transfers'
  <2>1. ASSUME NEW v \in uploads'
        PROVE  /\ \E r \in Owner, p \in Image, s \in BOOLEAN : v = Upload(user, r, p, s)
               /\ \A x \in uploads' : x.row = v.row => x = v
               /\ pictures[user][v.row] = None
    <3>1. PICK r \in Owner : v = Upload(user, r, DefaultPicture, FALSE)
      BY <1>5, <2>1
    <3>2. v.row = r
      BY <3>1 DEF Upload
    <3>3. ASSUME NEW x \in uploads', x.row = r PROVE x = v
      <4>1. PICK s \in Owner : x = Upload(user, s, DefaultPicture, FALSE)
        BY <1>5, <3>3
      <4>2. s = r
        BY <3>3, <4>1 DEF Upload
      <4>. QED
        BY <3>1, <4>1, <4>2
    <3>. QED
      BY <1>3, <3>1, <3>2, <3>3, Starters DEF Empty
  <2>2. IsABag(downloads') /\ \A d \in BagToSet(downloads') :
          \E r \in Owner : d = Download(user', r, Asked)
    BY <1>2, <1>5, <1>6 DEF Loaded, Transfers
  <2>3. \A v \in uploads' :
          /\ \E r \in Owner, p \in Image, s \in BOOLEAN : v = Upload(user', r, p, s)
          /\ \A x \in uploads' : x.row = v.row => x = v
          /\ pictures'[user'][v.row] = None
    <3>1. user' = user /\ pictures' = pictures
      BY <1>5, <1>6
    <3>. QED
      BY <2>1, <3>1
  <2>. QED
    BY <2>2, <2>3 DEF Transfers
<1>12. PicturesShown'
  BY <1>3, <1>5, <1>6 DEF PicturesShown, Empty, Loadable
<1>13. Loaded'
  BY <1>2, <1>5, <1>6, <1>10, <1>11, <1>12 DEF Loaded
<1>14. ~\E b \in Range(mainQueue) : b.type = "signedIn" /\ b.new
  BY <1>2, Whereabouts DEF AtHome
<1>15. user \in accounts
  BY <1>2, Whereabouts DEF ProfileInv
<1>16. Created'
  <2>1. SUFFICES ASSUME kills = 0, NEW a \in accounts
                 PROVE  /\ names'[a] # None
                        /\ failures = 0 =>
                             \A r \in Owner : pictures[a][r] = None =>
                               a = user /\ \E u \in uploads' : u.row = r /\ ~u.stored
    BY <1>5, <1>6 DEF Created
  <2>2. a \in Account
    BY <2>1 DEF SessionInv, TypeOK
  <2>3. CASE a = user
    <3>1. \A r \in Owner : /\ Upload(user, r, DefaultPicture, FALSE).row = r
                           /\ ~Upload(user, r, DefaultPicture, FALSE).stored
      BY DEF Upload
    <3>2. names'[a] # None
      BY <1>8, <2>3, Starters
    <3>3. \A r \in Owner : \E u \in uploads' : u.row = r /\ ~u.stored
      BY <1>5, <3>1
    <3>. QED
      BY <2>3, <3>2, <3>3
  <2>4. CASE a # user
    BY <1>3, <1>8, <2>1, <2>2, <2>4 DEF ProfileInv, Created
  <2>. QED
    BY <2>3, <2>4
<1>17. \A a \in Account \ accounts : Empty(a)'
  BY <1>5, <1>8, <1>15 DEF ProfileInv, Empty
<1>. QED
  BY <1>2, <1>5, <1>9, <1>13, <1>14, <1>16, <1>17, SessionStands

LEMMA ProfileNamed ==
  ASSUME SessionInv, PatientInv, ProfileInv,
         NEW a \in Account, NEW r \in Owner, NEW name \in Nickname, SaveName(a, r, name)
  PROVE  ProfileInv'
<1>1. /\ names[a] # None /\ names' = [names EXCEPT ![a][r] = name]
      /\ heard' = IF a \in watched \cap {user} THEN Append(heard, names'[a]) ELSE heard
      /\ UNCHANGED <<vars, pictures, shared, watched, creations, uploads, downloads, missed,
                     failures>>
  BY DEF SaveName
<1>2. UNCHANGED <<user, accounts, mainQueue, kills>>
  BY <1>1 DEF vars, bounds
<1>3. ProfileTyped /\ names[a] \in Naming
  BY <1>1 DEF ProfileInv, ProfileTyped
<1>4. /\ names' \in [Account -> Naming \cup {None}] /\ names'[a] \in Naming
      /\ \A b \in Account \ {a} : names'[b] = names[b]
  BY <1>1, <1>3 DEF ProfileTyped, Naming
<1>5. heard' \in Seq(Naming)
  BY <1>1, <1>3, <1>4 DEF ProfileTyped
<1>6. ProfileTyped'
  BY <1>1, <1>3, <1>4, <1>5 DEF ProfileTyped
<1>7. \A b \in Account : Empty(b) => b # a /\ Empty(b)'
  BY <1>1, <1>4 DEF Empty
<1>8. a \in accounts
  BY <1>7 DEF ProfileInv
<1>9. ~Home => Still'
  <2>1. ASSUME ~Home PROVE a \notin watched \cap {user}
    BY <2>1, Whereabouts, SessionAssumption DEF ProfileInv
  <2>. QED
    BY <1>1, <2>1 DEF ProfileInv, Still
<1>10. Home => Loaded'
  <2>1. SUFFICES ASSUME Home PROVE Loaded'
    OBVIOUS
  <2>2. Loaded /\ user \in Account /\ watched = {user}
    BY <2>1, Whereabouts DEF ProfileInv, Loaded
  <2>3. NamesShown'
    <3>1. CASE a = user
      <4>1. heard' = Append(heard, names'[a])
        BY <1>1, <2>2, <3>1
      <4>2. heard' # <<>> /\ Last(heard') = names'[a]
        BY <1>3, <1>4, <4>1, EndOfAppend DEF ProfileTyped
      <4>. QED
        BY <1>2, <1>4, <3>1, <4>2, Starters DEF NamesShown
    <3>2. CASE a # user
      BY <1>1, <1>2, <1>4, <2>2, <3>2 DEF Loaded, NamesShown
    <3>. QED
      BY <3>1, <3>2
  <2>4. Creates'
    BY <1>1, <1>2, <1>7, <2>2 DEF Loaded, Creates, Empty
  <2>5. Transfers' /\ PicturesShown'
    BY <1>1, <1>2, <2>2 DEF Loaded, Transfers, PicturesShown
  <2>. QED
    BY <1>1, <1>2, <2>2, <2>3, <2>4, <2>5 DEF Loaded
<1>11. Created'
  <2>1. SUFFICES ASSUME kills = 0, NEW b \in accounts
                 PROVE  /\ names'[b] = None => b = user /\ Registering
                        /\ failures = 0 /\ names'[b] # None =>
                             \A s \in Owner : pictures[b][s] = None =>
                               b = user /\ \E u \in uploads : u.row = s /\ ~u.stored
    BY <1>1, <1>2 DEF Created, Registering
  <2>2. b \in Account /\ (names'[b] = None <=> names[b] = None)
    BY <1>1, <1>4, <2>1, Starters DEF SessionInv, TypeOK
  <2>. QED
    BY <2>1, <2>2 DEF ProfileInv, Created
<1>12. \A b \in Account \ accounts : Empty(b)'
  BY <1>7 DEF ProfileInv
<1>13. (\E b \in Range(mainQueue) : b.type = "signedIn" /\ b.new) => Empty(user)'
  BY <1>1, <1>2, <1>4, Whereabouts DEF ProfileInv, Empty
<1>. QED
  BY <1>1, <1>6, <1>9, <1>10, <1>11, <1>12, <1>13, SessionStands

LEMMA ProfilePicked ==
  ASSUME Patient, SessionInv, PatientInv, ProfileInv,
         NEW r \in Owner, NEW picture \in Picture, PickImage(r, picture)
  PROVE  ProfileInv'
<1>1. /\ Home /\ uploads = {} /\ downloads = EmptyBag /\ creations = <<>>
      /\ uploads' = {Upload(user, r, picture, FALSE)}
      /\ UNCHANGED <<vars, names, pictures, shared, watched, heard, creations, downloads,
                     missed, failures>>
  BY DEF PickImage, ProfileQuiet, Home
<1>2. UNCHANGED <<user, accounts, mainQueue, kills>>
  BY <1>1 DEF vars, bounds
<1>3. Loaded /\ ProfileTyped
  BY <1>1 DEF ProfileInv
<1>4. ProfileTyped'
  BY <1>1, <1>3 DEF ProfileTyped
<1>5. NamesShown' /\ Creates'
  BY <1>1, <1>2, <1>3 DEF Loaded, NamesShown, Creates
<1>6. Transfers'
  <2>1. /\ picture \in Image /\ Upload(user, r, picture, FALSE).picture = picture
        /\ FALSE \in BOOLEAN
    BY DEF Image, Upload
  <2>. QED
    BY <1>1, <1>2, <2>1, EmptyFacts DEF Transfers
<1>7. PicturesShown'
  BY <1>1, <1>2, <1>3 DEF Loaded, PicturesShown
<1>8. Created' /\ (\A a \in Account \ accounts : Empty(a)')
      /\ ((\E b \in Range(mainQueue) : b.type = "signedIn" /\ b.new) => Empty(user)')
  BY <1>1, <1>2 DEF ProfileInv, Created, Registering, Empty
<1>. QED
  BY <1>1, <1>2, <1>3, <1>4, <1>5, <1>6, <1>7, <1>8, SessionStands DEF Loaded

LEMMA ProfileInvNext ==
  ASSUME Patient, SessionInv, SessionInv', PatientInv, PatientInv', ProfileInv,
         [ProfileNext]_allVars
  PROVE  ProfileInv'
<1>1. CASE ProfileNext
  BY <1>1, ProfileTap, ProfileShown, ProfileRelaunched, ProfileElsewhere, ProfileDownloads,
     ProfileHears, ProfileRefused, ProfileStored, ProfileUploads, ProfileCreated,
     ProfileNamed, ProfilePicked DEF ProfileNext, ProfileStep
<1>2. CASE UNCHANGED allVars
  <2>1. UNCHANGED vars /\ UNCHANGED profileVars
    BY <1>2 DEF allVars
  <2>2. UNCHANGED <<user, accounts, stack, signIns, mainQueue, kills>>
    BY <2>1 DEF vars, bounds
  <2>. QED
    BY <2>1, <2>2 DEF profileVars, ProfileInv, ProfileTyped, Home, Loaded, Still, NamesShown,
         Creates, Transfers, PicturesShown, Created, Registering, Empty
<1>. QED
  BY <1>1, <1>2

-----------------------------------------------------------------------------
(* What it says of the profile                                             *)

LEMMA ProfileIsShown ==
  ASSUME SessionInv, PatientInv, ProfileInv
  PROVE  ProfileIsUsers
<1>1. SUFFICES ASSUME Quiet, ProfileQuiet, user # NoUser
               PROVE  /\ names[user] # None => shared.names = names[user]
                      /\ \A r \in Owner : Loadable(r, pictures[user][r]) /\ r \notin missed
                                          => shared.pictures[r] = pictures[user][r]
  BY DEF ProfileIsUsers
<1>2. Loaded
  BY <1>1, Whereabouts DEF Quiet, SigningIn, ProfileInv
<1>3. heard = <<>> /\ uploads = {} /\ BagToSet(downloads) = {}
  BY <1>1, EmptyFacts DEF ProfileQuiet
<1>. QED
  BY <1>2, <1>3 DEF Loaded, NamesShown, PicturesShown

LEMMA ProfileIsWhole == ASSUME ProfileInv PROVE RegisteredWhole
<1>1. SUFFICES ASSUME Quiet, ProfileQuiet, kills = 0, NEW a \in accounts
               PROVE  names[a] # None /\ (failures = 0 => \A r \in Owner : pictures[a][r] # None)
  BY DEF RegisteredWhole
<1>2. ~Registering /\ uploads = {}
  BY <1>1 DEF Quiet, ProfileQuiet, Registering, Range
<1>. QED
  BY <1>1, <1>2 DEF ProfileInv, Created

LEMMA ChosenStays ==
  ASSUME SessionInv, PatientInv, ProfileInv, ProfileNext
  PROVE  \A a \in Account, r \in Owner :
           /\ names[a] # None /\ names[a][r] \in Nickname => names'[a][r] \in Nickname
           /\ pictures[a][r] \in Picture => pictures'[a][r] \in Picture
<1>1. ProfileTyped
  BY DEF ProfileInv
<1>2. CASE UNCHANGED <<names, pictures>>
  BY <1>2
<1>3. CASE CreateProfile
  <2>1. Empty(user) /\ creations = <<user>>
    BY <1>3 DEF CreateProfile, ProfileInv, Still, Loaded, Creates
  <2>2. names' = [names EXCEPT ![user] = DefaultNames] /\ pictures' = pictures
    BY <1>3, <2>1 DEF CreateProfile
  <2>3. \A a \in Account : names[a] # None => names'[a] = names[a]
    BY <1>1, <2>1, <2>2 DEF Empty, ProfileTyped
  <2>. QED
    BY <2>2, <2>3
<1>4. ASSUME NEW b \in Account, NEW s \in Owner, NEW name \in Nickname, SaveName(b, s, name)
      PROVE  \A a \in Account, r \in Owner :
               /\ names[a] # None /\ names[a][r] \in Nickname => names'[a][r] \in Nickname
               /\ pictures[a][r] \in Picture => pictures'[a][r] \in Picture
  <2>1. names[b] # None /\ names' = [names EXCEPT ![b][s] = name] /\ pictures' = pictures
    BY <1>4 DEF SaveName
  <2>2. names[b] \in Naming
    BY <1>1, <2>1 DEF ProfileTyped
  <2>3. \A a \in Account, r \in Owner :
          names'[a][r] = IF a = b /\ r = s THEN name ELSE names[a][r]
    BY <1>1, <2>1, <2>2 DEF ProfileTyped, Naming
  <2>. QED
    BY <2>1, <2>3
<1>5. CASE UploadStored
  <2>1. PICK u \in uploads :
          ~u.stored /\ pictures' = [pictures EXCEPT ![u.account][u.row] = u.picture]
    BY <1>5 DEF UploadStored
  <2>2. Loaded
    BY <2>1, TransferAtHome
  <2>3. u.account = user /\ (pictures[user][u.row] = None \/ u.picture \in Picture)
    BY <2>1, <2>2 DEF Loaded, Transfers, Upload
  <2>4. None \notin Picture
    BY NoneAssumption
  <2>5. \A a \in Account, r \in Owner :
          pictures[a][r] \in Picture => pictures'[a][r] \in Picture
    BY <1>1, <2>1, <2>3, <2>4 DEF ProfileTyped
  <2>. QED
    BY <1>5, <2>5 DEF UploadStored
<1>. QED
  <2>1. Tap \/ FormAnswered \/ ProfileRelaunch \/ Elsewhere \/ PictureArrives \/ HearOfNames
        \/ NamesRefused \/ UploadDone \/ DownloadFails \/ UploadFails
        \/ (\E r \in Owner, picture \in Picture : PickImage(r, picture))
        => UNCHANGED <<names, pictures>>
    BY DEF Tap, FormAnswered, ProfileRelaunch, Elsewhere, PictureArrives, HearOfNames,
           NamesRefused, UploadDone, DownloadFails, UploadFails, PickImage, profileVars
  <2>. QED
    BY <1>2, <1>3, <1>4, <1>5, <2>1 DEF ProfileNext, ProfileStep

\* The invariant the three theorems below rest on.
LEMMA ProfileHolds ==
  ASSUME Patient
  PROVE  ProfileSpec => [](SessionInv /\ PatientInv /\ ProfileInv)
<1>1. ProfileInit => SessionInv /\ PatientInv /\ ProfileInv
  BY InvInit, PatientInit, ProfileInvInit DEF ProfileInit
<1>2. SessionInv /\ PatientInv /\ ProfileInv /\ [ProfileNext]_allVars
        => SessionInv' /\ PatientInv' /\ ProfileInv'
  <2>1. [ProfileNext]_allVars => [Next]_vars
    BY ProfileOnly, SessionSteps DEF ProfileNext, allVars
  <2>. QED
    BY <2>1, InvNext, PatientNext, ProfileInvNext
<1>. QED
  BY <1>1, <1>2, PTL DEF ProfileSpec

\* A user who waits is shown the names and the pictures of the account signed in,
\* each in its own row, whoever was signed in before, however often the names and
\* pictures were changed, here or elsewhere, and whichever transfers failed.
THEOREM ProfileIsTheUsers == ASSUME Patient PROVE ProfileSpec => []ProfileIsUsers
BY ProfileHolds, ProfileIsShown, PTL

\* An account that was registered has its names and its pictures, unless a transfer
\* failed or the process was killed on the way.
THEOREM RegistrationIsWhole == ASSUME Patient PROVE ProfileSpec => []RegisteredWhole
BY ProfileHolds, ProfileIsWhole, PTL

\* No registration and no upload puts a default in the place of a name or of a
\* picture that was chosen.
THEOREM ChoicesStay == ASSUME Patient PROVE ProfileSpec => DefaultsReplaceNothing
<1>1. SessionInv /\ PatientInv /\ ProfileInv /\ [ProfileNext]_allVars
        => [\A a \in Account, r \in Owner :
              /\ names[a] # None /\ names[a][r] \in Nickname => names'[a][r] \in Nickname
              /\ pictures[a][r] \in Picture => pictures'[a][r] \in Picture]_allVars
  BY ChosenStays
<1>. QED
  BY <1>1, ProfileHolds, PTL DEF ProfileSpec, DefaultsReplaceNothing

=============================================================================
