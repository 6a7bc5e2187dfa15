-------------------------- MODULE NamenodeSnapshot --------------------------
(***************************************************************************)
(* Snapshots of a namenode: RaftNN::on_snapshot_save and on_snapshot_load  *)
(* (node/raft_nn.cpp) over the backups of RocksDB (node/rocksdb.cpp).      *)
(*                                                                         *)
(* on_snapshot_save makes a new backup of the store; braft writes down the *)
(* index the snapshot stands for in a later step, from another thread, and *)
(* only then counts the snapshot.  A namenode that starts with a snapshot  *)
(* throws its store away, takes the newest backup, whichever snapshot that *)
(* was made for, and applies the log from the snapshot's index; without a  *)
(* snapshot it starts as in module Namenode.                               *)
(*                                                                         *)
(* Everything else is module Namenode's.  Snapshots are local: the copy of *)
(* a snapshot to a namenode whose log is too old is not modelled.          *)
(***************************************************************************)
EXTENDS Namenode

CONSTANT MaxSnapshots   \* bound: number of snapshots begun

ASSUME SnapshotAssumption == MaxSnapshots \in Nat

VARIABLES
  backup,      \* backup[n]: the newest backup in n's backup_dir
  saving,      \* saving[n]: index of the snapshot being saved, 0 for none
  snap,        \* snap[n]: index of n's last snapshot, 0 for none
  snapshots    \* snapshots begun so far

snapvars == <<backup, saving, snap, snapshots>>
svars == <<vars, snapvars>>

\* Mutant: what was being saved is taken up again after the crash.
LoseNothing(n) == UNCHANGED snapvars

\* The backups and the snapshot survive a crash, a save under way does not.
Lose(n) == saving' = [saving EXCEPT ![n] = 0] /\ UNCHANGED <<backup, snap, snapshots>>

\* RocksDB::snapshot: a new backup of the open store.
Backup(n) == backup' = [backup EXCEPT ![n] = db[n]]

\* RocksDB::load_snapshot: closes the store, puts the newest backup over it
\* and opens it again.
Restore(n) == db' = [db EXCEPT ![n] = backup[n]]

\* Called by the thread that applies the log, so between two entries.  braft
\* does not call it when nothing was applied since the last snapshot.
on_snapshot_save(n) ==
  /\ up[n] /\ saving[n] = 0 /\ snapshots < MaxSnapshots
  /\ applied[n] > snap[n]
  /\ Backup(n)
  /\ saving' = [saving EXCEPT ![n] = applied[n]]
  /\ snapshots' = snapshots + 1
  /\ UNCHANGED <<vars, snap>>

\* Mutant: the snapshot is given the index that is applied by now.
SnapshotDoneLate(n) ==
  /\ up[n] /\ saving[n] > 0
  /\ snap' = [snap EXCEPT ![n] = applied[n]]
  /\ saving' = [saving EXCEPT ![n] = 0]
  /\ UNCHANGED <<vars, backup, snapshots>>

\* The closure of the save has run: braft stores the snapshot's index.
SnapshotDone(n) ==
  /\ up[n] /\ saving[n] > 0
  /\ snap' = [snap EXCEPT ![n] = saving[n]]
  /\ saving' = [saving EXCEPT ![n] = 0]
  /\ UNCHANGED <<vars, backup, snapshots>>

\* Mutant: the backup is taken for the store of the whole log.
on_snapshot_load_no_replay(n) ==
  /\ ~up[n] /\ snap[n] > 0
  /\ up' = [up EXCEPT ![n] = TRUE]
  /\ Restore(n)
  /\ applied' = [applied EXCEPT ![n] = Len(log)]
  /\ UNCHANGED <<log, hist, leader, clock, rpc, calls, faults, snapvars>>

\* The start of a process with a snapshot.  The reader with the snapshot's own
\* files is not looked at.
on_snapshot_load(n) ==
  /\ ~up[n] /\ snap[n] > 0
  /\ up' = [up EXCEPT ![n] = TRUE]
  /\ Restore(n)
  /\ applied' = [applied EXCEPT ![n] = snap[n]]
  /\ UNCHANGED <<log, hist, leader, clock, rpc, calls, faults, snapvars>>

StartWithout(n) == snap[n] = 0 /\ Restart(n) /\ UNCHANGED snapvars

SInit ==
  /\ Init
  /\ backup = [n \in Nodes |-> EmptyDatabase]
  /\ saving = [n \in Nodes |-> 0]
  /\ snap = [n \in Nodes |-> 0]
  /\ snapshots = 0

Ends(n) == (Abort(n) \/ Crash(n)) /\ Lose(n)

Serves ==
  /\ \/ \E h \in Handlers : Handle(h) \/ \E n \in Nodes, r \in Requests : Call(h, n, r)
     \/ \E n \in Nodes : OnApply(n) \/ Elect(n)
     \/ StepDown
     \/ Tick
  /\ UNCHANGED snapvars

Starts(n) == StartWithout(n) \/ on_snapshot_load(n)

SNext ==
  \/ Serves
  \/ \E n \in Nodes : Ends(n) \/ Starts(n) \/ on_snapshot_save(n) \/ SnapshotDone(n)

SSpec == SInit /\ [][SNext]_svars

\* The processes keep running: handlers, replicas and elections make progress,
\* and a namenode that went down is started again.  Requests, crashes, the
\* clock and snapshots are the environment's; a snapshot that is begun need
\* not end.
SFairSpec ==
  /\ SSpec
  /\ \A h \in Handlers : WF_svars(Handle(h) /\ UNCHANGED snapvars)
  /\ \A n \in Nodes : /\ WF_svars(\/ OnApply(n) /\ UNCHANGED snapvars
                                  \/ Abort(n) /\ Lose(n))
                      /\ WF_svars(Starts(n))
  /\ WF_svars((\E n \in Nodes : Elect(n)) /\ UNCHANGED snapvars)

-----------------------------------------------------------------------------
(* Properties                                                              *)

\* The store that comes of store d when the entries after index s are applied
\* to it one by one.
Replay(d, s) ==
  LET after[i \in s..Len(log)] == IF i = s THEN d ELSE Writes(after[i - 1], log[i])
  IN  after[Len(log)]

\* The store a start of n would end with: the log applied to what the start
\* begins with.
Recovered(n) == IF snap[n] > 0 THEN Replay(backup[n], snap[n]) ELSE Replay(db[n], 0)

\* A crash loses nothing at any moment: between the backup and the note of its
\* index, while entries are applied in between, while an older snapshot is
\* combined with a newer backup, what is on disk leads back to the store of
\* the whole log.
CrashRecoverable == Healthy => \A n \in Nodes : Recovered(n) = hist[Len(log) + 1]

\* A snapshot stands for entries that were applied here, and its backup is as
\* new as it says.
SnapshotTypeOK ==
  /\ backup \in [Nodes -> Database]
  /\ saving \in [Nodes -> 0..Len(log)] /\ snap \in [Nodes -> 0..Len(log)]
  /\ \A n \in Nodes : saving[n] > 0 => saving[n] > snap[n] /\ saving[n] <= applied[n]
=============================================================================
