------------------------------ MODULE Profile ------------------------------
(***************************************************************************)
(* The names and pictures of the user and of the robot, on top of Session: *)
(* registration creates them, every Home loads them, Settings and other    *)
(* devices change them.  The names are a document that is listened to; the *)
(* pictures are files that are uploaded and downloaded, and Shared, which  *)
(* shows both, is emptied by nothing but a launch.                         *)
(***************************************************************************)
EXTENDS Session, Bags

CONSTANTS
  None,           \* no document, or no file
  Nickname,       \* the names a user may choose
  Picture,        \* the pictures a user may pick
  Large,          \* those of more than a megabyte
  MaxEvents       \* bound: names and pictures changed and transfers that fail, with
                  \* Session's changes and kills beside them

ASSUME ProfileAssumption ==
  /\ Large \subseteq Picture
  /\ MaxEvents \in Nat

VARIABLES
  names,          \* account -> row -> name, or None without a document
  pictures,       \* account -> row -> picture in the storage
  shared,         \* Shared's names and pictures
  watched,        \* the accounts whose names are listened to
  heard,          \* the names the listener is still to be called with
  creations,      \* the accounts whose creation waits on the main queue
  uploads,        \* under way
  downloads,      \* a bag, under way
  missed,         \* the rows whose last transfer failed
  edits, failures

profileVars == <<names, pictures, shared, watched, heard, creations, uploads,
                 downloads, missed, edits, failures>>

allVars == <<vars, profileVars>>

\* The rows of Settings; a picture's file is named by its row.
Owner == {"user", "bot"}

DefaultNames == [user |-> "Master", bot |-> "Bot"]
DefaultPicture == "default_avatar"
Of(x) == [r \in Owner |-> x]

\* Neither a document nor a file is the lack of one.
ASSUME NoneAssumption ==
  /\ None \notin [Owner -> Nickname \cup {"Master", "Bot"}]
  /\ None \notin Picture \cup {DefaultPicture}

\* What Shared has at first.
NothingLoaded ==
  [names |-> [user |-> "Master", bot |-> "ChatBot"], pictures |-> Of(DefaultPicture)]

\* A download has the content of when it was served, which matters only if the
\* file has changed since; until then its content is open.
Asked == "asked"
Download(a, r, picture) == [account |-> a, row |-> r, picture |-> picture]
Upload(a, r, picture, stored) ==
  [account |-> a, row |-> r, picture |-> picture, stored |-> stored]

ProfileInit ==
  /\ Init
  /\ names = [a \in Account |-> IF a \in Registered THEN DefaultNames ELSE None]
  /\ pictures = [a \in Account |-> Of(IF a \in Registered THEN DefaultPicture ELSE None)]
  /\ shared = NothingLoaded
  /\ watched = {} /\ heard = <<>> /\ creations = <<>>
  /\ uploads = {} /\ downloads = EmptyBag
  /\ missed = {} /\ edits = 0 /\ failures = 0

-----------------------------------------------------------------------------
(* Loading                                                                 *)

\* loadImages: both pictures of whoever is signed in are asked for.
LoadImages(account) ==
  IF account = NoUser THEN EmptyBag
  ELSE SetToBag({Download(account, r, Asked) : r \in Owner})

\* loadNames: the listener is called at once if there is a document.
NamesOf(account) == IF names[account] = None THEN <<>> ELSE <<names[account]>>

\* viewDidLoad of Home, with what is still under way.
HomeLoads(account, queue, transfers) ==
  /\ heard' = queue \o NamesOf(account)
  /\ downloads' = transfers (+) LoadImages(account)

\* A file that is missing, or larger than the limit of its row, is an error.
Loadable(r, picture) ==
  /\ picture # None
  /\ r = "bot" => picture \notin Large

\* The picture is shown, of whatever account it is; an error changes nothing.
PictureArrives ==
  \E d \in BagToSet(downloads) :
    LET picture == IF d.picture = Asked THEN pictures[d.account][d.row] ELSE d.picture IN
    /\ downloads' = downloads (-) SetToBag({d})
    /\ \/ /\ Loadable(d.row, picture)
          /\ shared' = [shared EXCEPT !.pictures[d.row] = picture]
          /\ missed' = missed \ {d.row}
       \/ ~Loadable(d.row, picture) /\ UNCHANGED <<shared, missed>>
    /\ UNCHANGED <<vars, names, pictures, watched, heard, creations, uploads, edits,
                   failures>>

DownloadFails ==
  \E d \in BagToSet(downloads) :
    /\ failures' = failures + 1
    /\ downloads' = downloads (-) SetToBag({d})
    /\ missed' = missed \cup {d.row}
    /\ UNCHANGED <<vars, names, pictures, shared, watched, heard, creations, uploads,
                   edits>>

\* The listener of loadNames.
HearOfNames ==
  /\ heard # <<>>
  /\ shared' = [shared EXCEPT !.names = Head(heard)]
  /\ heard' = Tail(heard)
  /\ UNCHANGED <<vars, names, pictures, watched, creations, uploads, downloads, missed,
                 edits, failures>>

\* The server refuses the document of another account; the error is ignored.
NamesRefused ==
  /\ \E a \in watched \ {user} : watched' = watched \ {a}
  /\ UNCHANGED <<vars, names, pictures, shared, heard, creations, uploads, downloads,
                 missed, edits, failures>>

-----------------------------------------------------------------------------
(* Uploading                                                               *)

\* So many downloads of a file have been served what it was, if it was there.
Served(n, a, r) ==
  LET asked == [d \in {Download(a, r, Asked)} |-> n]
      served == [d \in {Download(a, r, pictures[a][r])} |-> n]
  IN IF n = 0 THEN downloads ELSE (downloads (-) asked) (+) served

Copies(d) == IF BagIn(d, downloads) THEN downloads[d] ELSE 0

\* putData has stored the file; some of its downloads were served before.
UploadStored ==
  \E u \in uploads : \E n \in 0 .. Copies(Download(u.account, u.row, Asked)) :
    /\ ~u.stored
    /\ n > 0 => pictures[u.account][u.row] # None
    /\ pictures' = [pictures EXCEPT ![u.account][u.row] = u.picture]
    /\ uploads' = (uploads \ {u}) \cup {Upload(u.account, u.row, u.picture, TRUE)}
    /\ downloads' = Served(n, u.account, u.row)
    /\ UNCHANGED <<vars, names, shared, watched, heard, creations, missed, edits,
                   failures>>

\* Seeded fault: the pictures are not loaded again.
UploadUnheeded ==
  \E u \in uploads :
    /\ u.stored
    /\ uploads' = uploads \ {u}
    /\ UNCHANGED <<vars, names, pictures, shared, watched, heard, creations, downloads,
                   missed, edits, failures>>

\* The completion block: the pictures are loaded again.
UploadDone ==
  \E u \in uploads :
    /\ u.stored
    /\ uploads' = uploads \ {u}
    /\ downloads' = downloads (+) LoadImages(user)
    /\ UNCHANGED <<vars, names, pictures, shared, watched, heard, creations, missed,
                   edits, failures>>

UploadFails ==
  \E u \in uploads :
    /\ failures' = failures + 1
    /\ uploads' = uploads \ {u}
    /\ missed' = missed \cup {u.row}
    /\ UNCHANGED <<vars, names, pictures, shared, watched, heard, creations, downloads,
                   edits>>

-----------------------------------------------------------------------------
(* The steps of the session                                                *)

ProfileQuiet ==
  /\ watched \subseteq {user} /\ heard = <<>> /\ creations = <<>>
  /\ uploads = {} /\ downloads = EmptyBag

\* A user who waits also waits for the pictures.
Tap ==
  /\ PressLogin \/ PressRegister \/ Back \/ (\E a \in Account : LoginPress(a)) \/ Logout
  /\ Patient => ProfileQuiet
  /\ UNCHANGED profileVars

\* Seeded fault: the form of a login creates the account's profile as well.
CreationsAtLogin(answer) ==
  IF user = NoUser THEN creations ELSE Append(creations, user)

\* The completion block of createUser goes by who is signed in when it runs.
CreationsAfter(answer) ==
  IF answer.new /\ user # NoUser THEN Append(creations, user) ELSE creations

\* The form's completion block, which may show the tabs and with them a Home.
FormAnswered ==
  /\ ShowTabs
  /\ creations' = CreationsAfter(Head(mainQueue))
  /\ \/ /\ stack' # stack
        /\ watched' = watched \cup {user}
        /\ HomeLoads(user, heard, downloads)
     \/ stack' = stack /\ UNCHANGED <<watched, heard, downloads>>
  /\ UNCHANGED <<names, pictures, shared, uploads, missed, edits, failures>>

\* Seeded fault: the loop over the pictures ends before the last.
DefaultUploadsButLast(a) == {Upload(a, "user", DefaultPicture, FALSE)}

DefaultUploads(a) == {Upload(a, r, DefaultPicture, FALSE) : r \in Owner}

\* The block registration leaves on the main queue: the document is written, and
\* the listener is called with it; the default pictures are uploaded.
CreateProfile ==
  /\ creations # <<>> /\ creations' = Tail(creations)
  /\ LET a == Head(creations) IN
       /\ names' = [names EXCEPT ![a] = DefaultNames]
       /\ heard' = IF a \in watched \cap {user} THEN Append(heard, DefaultNames) ELSE heard
       /\ uploads' = uploads \cup DefaultUploads(a)
  /\ UNCHANGED <<vars, pictures, shared, watched, downloads, missed, edits, failures>>

\* Transfers, blocks and listeners are lost with the process.
ProfileRelaunch ==
  /\ Relaunch
  /\ shared' = NothingLoaded
  /\ creations' = <<>> /\ uploads' = {} /\ missed' = {}
  /\ \/ user = NoUser /\ watched' = {} /\ heard' = <<>> /\ downloads' = EmptyBag
     \/ user # NoUser /\ watched' = {user} /\ HomeLoads(user, <<>>, EmptyBag)
  /\ UNCHANGED <<names, pictures, edits, failures>>

\* What the names and pictures have no part in.
Elsewhere ==
  /\ \/ AuthSucceeds \/ AuthFails \/ HearOfHabits \/ HearOfError \/ ReloadTable
     \/ HabitsChange \/ ListenRefused
  /\ UNCHANGED profileVars

-----------------------------------------------------------------------------
(* Editing                                                                 *)

\* A name is saved in Settings, here or on another device.  The update of an
\* account without a document fails.
SaveName(a, r, name) ==
  /\ edits' = edits + 1
  /\ names[a] # None
  /\ names' = [names EXCEPT ![a][r] = name]
  /\ heard' = IF a \in watched \cap {user} THEN Append(heard, names'[a]) ELSE heard
  /\ UNCHANGED <<vars, pictures, shared, watched, creations, uploads, downloads, missed,
                 failures>>

\* A picture is picked in Settings.
PickImage(r, picture) ==
  /\ edits' = edits + 1
  /\ Last(stack).page = "tabs" /\ user # NoUser
  /\ Patient => Quiet /\ ProfileQuiet
  /\ uploads' = uploads \cup {Upload(user, r, picture, FALSE)}
  /\ UNCHANGED <<vars, names, pictures, shared, watched, heard, creations, downloads,
                 missed, failures>>

-----------------------------------------------------------------------------
(* Specification                                                           *)

\* What goes on by itself once it was asked for.
ProfileStep ==
  \/ PictureArrives \/ HearOfNames \/ NamesRefused
  \/ UploadStored \/ UploadDone \/ CreateProfile

ProfileNext ==
  /\ \/ Tap \/ FormAnswered \/ ProfileRelaunch \/ Elsewhere
     \/ ProfileStep \/ DownloadFails \/ UploadFails
     \/ \E a \in Account, r \in Owner, name \in Nickname : SaveName(a, r, name)
     \/ \E r \in Owner, picture \in Picture : PickImage(r, picture)
  /\ edits' + failures' > 0 => edits' + failures' + changes' + kills' <= MaxEvents

ProfileSpec == ProfileInit /\ [][ProfileNext]_allVars

\* As for Session; a transfer ends, one way or the other.
ProfileFairSpec ==
  /\ ProfileSpec
  /\ WF_allVars(AppStep /\ (FormAnswered \/ Elsewhere))
  /\ WF_allVars((AuthSucceeds \/ AuthFails) /\ Elsewhere)
  /\ WF_allVars(ListenRefused /\ Elsewhere)
  /\ WF_allVars(ProfileStep)

-----------------------------------------------------------------------------
(* Properties                                                              *)

\* When nothing is under way the names and pictures shown are those of the account
\* signed in, whoever was before it and whatever was edited on the way, and never
\* the robot's for the user's.  An account that was left without them, or whose
\* picture cannot be loaded, goes on showing what was there.
ProfileIsUsers ==
  Quiet /\ ProfileQuiet /\ user # NoUser =>
    /\ names[user] # None => shared.names = names[user]
    /\ \A r \in Owner : Loadable(r, pictures[user][r]) /\ r \notin missed
                        => shared.pictures[r] = pictures[user][r]

\* No registration or login writes its defaults over names that were chosen or
\* pictures that were picked.
DefaultsReplaceNothing ==
  [][\A a \in Account, r \in Owner :
       /\ names[a] # None /\ names[a][r] \in Nickname => names'[a][r] \in Nickname
       /\ pictures[a][r] \in Picture => pictures'[a][r] \in Picture]_allVars

\* Every account has its names, and its pictures unless a transfer failed, when
\* nothing is under way: only a kill can leave a registration half done.
RegisteredWhole ==
  Quiet /\ ProfileQuiet /\ kills = 0 =>
    \A a \in accounts :
      names[a] # None /\ (failures = 0 => \A r \in Owner : pictures[a][r] # None)
=============================================================================
