--------------------------- MODULE HabitDocument ---------------------------
(***************************************************************************)
(* A habit as Firestore stores it, and the writes the app makes to it.     *)
(* The document of a habit is named after the habit.  Its form fields      *)
(* (name, added date, reminder, days, time, colour) are written together   *)
(* by the editor and are one value here; `checked' is a map from the noon  *)
(* of a day to the time of the check, of which only the keys matter.       *)
(***************************************************************************)

CONSTANTS
  Day,      \* the keys of `checked': one noon per calendar day
  Form,     \* what the editor can write in the form fields
  NoForm    \* the form fields of a document that has none

ASSUME NoFormAssumption == NoForm \notin Form

Data == [form : Form \cup {NoForm}, checked : SUBSET Day]

EmptyData == [form |-> NoForm, checked |-> {}]

(***************************************************************************)
(* MaybeDocument: a document, the knowledge that there is none, or         *)
(* `unknown', when the server has accepted a write the cache cannot apply. *)
(***************************************************************************)
Document(data) == [type |-> "document", data |-> data]
NoDocument == [type |-> "none", data |-> EmptyData]
UnknownDocument == [type |-> "unknown", data |-> EmptyData]

MaybeDocument ==
  [type : {"document"}, data : Data] \cup {NoDocument, UnknownDocument}

IsDocument(doc) == doc.type = "document"

(***************************************************************************)
(* The four writes of the app: setData of the whole form (add and edit),   *)
(* setData with merge of one day (Done), updateData deleting one day       *)
(* (Undo) and delete.                                                      *)
(***************************************************************************)
SetMutation(data) == [op |-> "set", data |-> data]
CheckMutation(day) == [op |-> "check", day |-> day]
UncheckMutation(day) == [op |-> "uncheck", day |-> day]
DeleteMutation == [op |-> "delete"]

Mutation ==
  [op : {"set"}, data : [form : Form, checked : SUBSET Day]]
    \cup [op : {"check", "uncheck"}, day : Day]
    \cup [op : {"delete"}]

\* Only updateData asks that the document exist.
IsValidFor(m, doc) == m.op = "uncheck" => IsDocument(doc)

\* A patch of what is no document starts from the empty object, which is the
\* data of the two non-documents.
Written(m, data) ==
  IF m.op = "set" THEN m.data
  ELSE [data EXCEPT !.checked = IF m.op = "check" THEN @ \cup {m.day}
                                                  ELSE @ \ {m.day}]

Result(m, doc) ==
  IF m.op = "delete" THEN NoDocument ELSE Document(Written(m, doc.data))

\* The effect of a write not acknowledged yet.
ApplyToLocalView(m, doc) ==
  IF IsValidFor(m, doc) THEN Result(m, doc) ELSE doc

\* Seeded fault: a patch is taken to ask that the document exist.
ApplyToRemotePatchingNothing(m, doc) ==
  IF m.op \in {"check", "uncheck"} => IsDocument(doc)
  THEN Result(m, doc) ELSE UnknownDocument

\* The effect of an acknowledged write on the cached server document.
ApplyToRemoteDocument(m, doc) ==
  IF IsValidFor(m, doc) THEN Result(m, doc) ELSE UnknownDocument
=============================================================================
