------------------------------ MODULE WriteLog ------------------------------
(***************************************************************************)
(* What the Firestore client promises the app about its writes.            *)
(*                                                                         *)
(* Each device keeps its writes in the order they were made.  They take    *)
(* effect on the shared documents in that order; a write leaves the log    *)
(* only once it took effect or was refused, and may take effect again      *)
(* when the connection that carried the answer is lost.  A device that is  *)
(* restarted keeps its log but not the completion blocks waiting on it.    *)
(***************************************************************************)
EXTENDS HabitDocument, Naturals, Sequences

CONSTANTS
  Device,   \* the installations signed in to one account
  Name,     \* the names of habits, which are the document ids
  BatchId   \* the numbers a device gives its writes, a set of naturals

VARIABLES
  documents,   \* the server's documents
  pending,     \* each device's log of unresolved writes
  applied,     \* how many of them have taken effect on this connection
  waiting      \* the writes whose completion block is still to be called

logVars == <<documents, pending, applied, waiting>>

Write == [id : BatchId, name : Name, mutation : Mutation]

LogInit ==
  /\ documents = [n \in Name |-> NoDocument]
  /\ pending = [d \in Device |-> <<>>]
  /\ applied = [d \in Device |-> 0]
  /\ waiting = [d \in Device |-> {}]

Issue(d, w) ==
  /\ \A i \in 1 .. Len(pending[d]) : pending[d][i].id < w.id
  /\ pending' = [pending EXCEPT ![d] = Append(@, w)]
  /\ waiting' = [waiting EXCEPT ![d] = @ \cup {w.id}]
  /\ UNCHANGED <<documents, applied>>

\* The next write takes effect, or is refused and leaves no effect.
TakeEffect(d) ==
  /\ applied[d] < Len(pending[d])
  /\ LET w == pending[d][applied[d] + 1] IN
       documents' = [documents EXCEPT ![w.name] = ApplyToLocalView(w.mutation, @)]
  /\ applied' = [applied EXCEPT ![d] = @ + 1]
  /\ UNCHANGED <<pending, waiting>>

\* The oldest write leaves the log and its completion block is called.  A
\* refusal ends the connection, so nothing behind it has taken effect.
Resolve(d) ==
  /\ applied[d] > 0
  /\ pending' = [pending EXCEPT ![d] = Tail(@)]
  /\ applied' = [applied EXCEPT ![d] = @ - 1]
  /\ waiting' = [waiting EXCEPT ![d] = @ \ {Head(pending[d]).id}]
  /\ UNCHANGED documents

LoseConnection(d) ==
  /\ applied' = [applied EXCEPT ![d] = 0]
  /\ UNCHANGED <<documents, pending, waiting>>

LoseProcess(d) ==
  /\ applied' = [applied EXCEPT ![d] = 0]
  /\ waiting' = [waiting EXCEPT ![d] = {}]
  /\ UNCHANGED <<documents, pending>>

LogNext ==
  \E d \in Device :
    \/ \E w \in Write : Issue(d, w)
    \/ TakeEffect(d)
    \/ Resolve(d)
    \/ LoseConnection(d)
    \/ LoseProcess(d)

LogSpec == LogInit /\ [][LogNext]_logVars
=============================================================================
