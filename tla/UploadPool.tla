----------------------------- MODULE UploadPool -----------------------------
(***************************************************************************)
(* What the upload side of the daemon promises: the abstract specification *)
(* that DaemonUpload implements.  Accepted tasks wait in one pool, without *)
(* an order.  An uploader takes a batch out of it, which nobody else has   *)
(* or will have, stores the whole batch or nothing of it, and is done with *)
(* it.  Queues, aggregation, fsync and rm do not show.                     *)
(***************************************************************************)
CONSTANTS Tasks, Uploaders

VARIABLES
  waiting,   \* accepted tasks that no uploader has
  held,      \* held[u]: the batch of uploader u
  stored,    \* tasks whose file is in the file system, from their upload
  done       \* tasks nobody will look at again

vars == <<waiting, held, stored, done>>

Init ==
  /\ waiting = {}
  /\ held = [u \in Uploaders |-> {}]
  /\ stored = {}
  /\ done = {}

\* A task is accepted once.
Accept(t) ==
  /\ t \notin waiting \cup done
  /\ \A u \in Uploaders : t \notin held[u]
  /\ waiting' = waiting \cup {t}
  /\ UNCHANGED <<held, stored, done>>

Take(u, batch) ==
  /\ held[u] = {}
  /\ batch \subseteq waiting
  /\ waiting' = waiting \ batch
  /\ held' = [held EXCEPT ![u] = batch]
  /\ UNCHANGED <<stored, done>>

\* No task is stored a second time.
Store(u) ==
  /\ held[u] \cap stored = {}
  /\ stored' = stored \cup held[u]
  /\ UNCHANGED <<waiting, held, done>>

\* The batch may have been refused: then it is done without being stored.
Finish(u) ==
  /\ done' = done \cup held[u]
  /\ held' = [held EXCEPT ![u] = {}]
  /\ UNCHANGED <<waiting, stored>>

StoreAndFinish(u) ==
  /\ held[u] \cap stored = {}
  /\ stored' = stored \cup held[u]
  /\ done' = done \cup held[u]
  /\ held' = [held EXCEPT ![u] = {}]
  /\ UNCHANGED waiting

Next ==
  \/ \E t \in Tasks : Accept(t)
  \/ \E u \in Uploaders : \/ \E batch \in SUBSET waiting : Take(u, batch)
                          \/ Store(u) \/ Finish(u) \/ StoreAndFinish(u)

Spec == Init /\ [][Next]_vars
=============================================================================
