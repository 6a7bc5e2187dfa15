----------------------- MODULE NamenodeSnapshotProofs -----------------------
(***************************************************************************)
(* Proofs about module NamenodeSnapshot: namenodes that save snapshots and *)
(* start from them keep the invariants of module Namenode, and agree when  *)
(* they have caught up.                                                    *)
(*                                                                         *)
(* A start from a snapshot combines the newest backup with the index of    *)
(* the last snapshot that was completed, and the two need not belong       *)
(* together.  What makes this right is that a backup is never older than   *)
(* the index of the snapshot: each of its cells is that of a store of the  *)
(* history at least as new (NewEnough of NamenodeReplicaProofs).           *)
(***************************************************************************)
EXTENDS NamenodeSnapshot, NamenodeReplicaProofs, NaturalsInduction, WellFoundedInduction

\* The history never loses a record.
HistGrows == \A i, j \in 1..Len(hist) : i <= j => Rec(hist[i]) \subseteq Rec(hist[j])

\* A backup d may be started from with the entries from a + 1 on.
Startable(d, a) ==
  /\ d \in Store
  /\ Rec(hist[a + 1]) \subseteq Rec(d) /\ Rec(d) \subseteq LastRec /\ NoDangling(d)
  /\ NewEnough(d, a, log, hist)

IndexesOK ==
  /\ saving \in [Nodes -> 0..Len(log)] /\ snap \in [Nodes -> 0..Len(log)]
  /\ \A n \in Nodes : saving[n] > 0 => saving[n] > snap[n] /\ saving[n] <= applied[n]
  /\ \A n \in Nodes : ~up[n] => saving[n] = 0

BackupInv ==
  /\ backup \in [Nodes -> Store]
  /\ \A n \in Nodes : /\ Startable(backup[n], snap[n])
                      /\ saving[n] > 0 => Startable(backup[n], saving[n])

\* The inductive invariant.
SInv == IInv /\ ReplicaInv /\ HistGrows /\ IndexesOK /\ BackupInv

-----------------------------------------------------------------------------

\* At first a backup is as empty as the store.
LEMMA SnapshotInit == SInit => SInv
<1> SUFFICES ASSUME SInit PROVE SInv
  OBVIOUS
<1>1. IInv /\ ReplicaInv
  BY InitInv, ReplicaInit DEF SInit
<1>2. /\ Len(log) = 0 /\ Len(hist) = 1 /\ hist[1] = EmptyDatabase
      /\ \A n \in Nodes : db[n] = EmptyDatabase /\ applied[n] = 0
  BY DEF SInit, Init
<1>3. HistGrows
  BY <1>2 DEF HistGrows
<1>4. IndexesOK
  BY <1>2 DEF IndexesOK, SInit
<1>5. ASSUME NEW n \in Nodes PROVE Startable(EmptyDatabase, 0)
  BY <1>1, <1>2, <1>5 DEF IInv, TypeInv, DbInv, ReplicaInv, Startable
<1>6. EmptyDatabase \in Store
  BY DEF EmptyDatabase, Store
<1>7. BackupInv
  BY <1>5, <1>6 DEF BackupInv, SInit
<1> QED
  BY <1>1, <1>3, <1>4, <1>7 DEF SInv

\* An appended entry keeps the history growing and a backup startable.
LEMMA ProposeKeeps ==
  ASSUME IInv, IInv', HistGrows, NEW h \in Handlers, Propose(h)
  PROVE  /\ HistGrows'
         /\ Len(log') = Len(log) + 1
         /\ \A d \in Store, a \in 0..Len(log) : Startable(d, a) => Startable(d, a)'
<1> DEFINE e == Head(rpc[h].entries)
           s == Writes(hist[Len(hist)], e)
<1>1. log' = Append(log, e) /\ hist' = Append(hist, s)
  BY DEF Propose
<1>2. TypeInv /\ TypeInv'
  BY DEF IInv
<1>3. /\ log \in Seq(Entry) /\ hist \in Seq(Store) /\ Len(hist) = Len(log) + 1 /\ Len(log) \in Nat
  BY <1>2 DEF TypeInv
<1>4. e \in Entry
  <2>1. rpc[h] \in Active /\ rpc[h].entries # << >>
    BY <1>2 DEF TypeInv, Propose
  <2>2. rpc[h].entries \in Seq(Entry)
    BY <2>1 DEF Active
  <2> QED
    BY <2>1, <2>2
<1>5. s \in Store /\ LastRec \subseteq Rec(s)
  <2>1. hist[Len(hist)] \in Store
    BY <1>3
  <2> QED
    BY <1>4, <2>1, ApplyEntry DEF LastRec
<1> HIDE DEF e, s
<1>6. /\ Len(log') = Len(log) + 1 /\ Len(hist') = Len(hist) + 1
      /\ \A i \in 1..Len(hist) : hist'[i] = hist[i]
      /\ hist'[Len(hist) + 1] = s
  BY <1>1, <1>3, <1>4, <1>5
<1>7. LastRec' = Rec(s)
  BY <1>3, <1>6 DEF LastRec
<1>8. HistGrows'
  <2> SUFFICES ASSUME NEW i \in 1..Len(hist'), NEW j \in 1..Len(hist'), i <= j
               PROVE  Rec(hist'[i]) \subseteq Rec(hist'[j])
    BY DEF HistGrows
  <2>1. CASE j \in 1..Len(hist)
    BY <1>3, <1>6, <2>1 DEF HistGrows
  <2>2. CASE j = Len(hist) + 1 /\ i \in 1..Len(hist)
    BY <1>3, <1>5, <1>6, <2>2 DEF IInv, HistInv
  <2>3. CASE i = Len(hist) + 1 /\ j = Len(hist) + 1
    BY <2>3
  <2> QED
    BY <1>3, <1>6, <2>1, <2>2, <2>3
<1>9. ASSUME NEW d \in Store, NEW a \in 0..Len(log), Startable(d, a)
      PROVE  Startable(d, a)'
  <2>1. NewEnough(d, a, log', hist')
    BY <1>1, <1>2, <1>4, <1>5, <1>9, GrowthNewEnough DEF Startable
  <2>2. hist'[a + 1] = hist[a + 1]
    BY <1>3, <1>6
  <2> QED
    BY <1>5, <1>7, <1>9, <2>1, <2>2 DEF Startable
<1> QED
  BY <1>6, <1>8, <1>9

\* Steps of module Namenode that do not end a process.
LEMMA ServesKeeps == SInv /\ Serves => SInv'
<1> SUFFICES ASSUME SInv, Serves PROVE SInv'
  OBVIOUS
<1>1. Next /\ UNCHANGED <<backup, saving, snap>>
  BY DEF Serves, Next, Handle, snapvars
<1>2. IInv' /\ ReplicaInv'
  BY <1>1, NextInv, ReplicaNext DEF SInv
<1>3. IInv /\ TypeInv
  BY DEF SInv, IInv
<1>4. ASSUME UNCHANGED <<log, hist, up>>, \A n \in Nodes : applied[n] <= applied'[n]
      PROVE  HistGrows' /\ IndexesOK' /\ BackupInv'
  <2>1. HistGrows' /\ BackupInv'
    BY <1>1, <1>4 DEF SInv, HistGrows, BackupInv, Startable, LastRec
  <2>2. /\ Len(log) \in Nat
        /\ \A n \in Nodes : applied[n] \in Nat /\ applied'[n] \in Nat
    BY <1>2, <1>3 DEF IInv, TypeInv
  <2>3. IndexesOK
    BY DEF SInv
  <2>4. \A n \in Nodes : saving[n] \in Nat /\ snap[n] \in Nat
    BY <2>2, <2>3 DEF IndexesOK
  <2>5. \A n \in Nodes : saving[n] > 0 => saving[n] > snap[n] /\ saving[n] <= applied'[n]
    BY <1>4, <2>2, <2>3, <2>4 DEF IndexesOK
  <2>6. IndexesOK'
    BY <1>1, <1>4, <2>3, <2>5 DEF IndexesOK
  <2> QED
    BY <2>1, <2>6
<1>5. CASE \E h \in Handlers : Propose(h)
  <2>1. PICK h \in Handlers : Propose(h)
    BY <1>5
  <2>2. /\ HistGrows' /\ Len(log') = Len(log) + 1
        /\ \A d \in Store, a \in 0..Len(log) : Startable(d, a) => Startable(d, a)'
    BY <1>2, <2>1, ProposeKeeps DEF SInv
  <2>3. applied' = applied /\ up' = up /\ Len(log) \in Nat
    BY <1>3, <2>1 DEF Propose, TypeInv
  <2>4. IndexesOK'
    BY <1>1, <2>2, <2>3 DEF SInv, IndexesOK
  <2>5. BackupInv'
    BY <1>1, <2>2 DEF SInv, BackupInv, IndexesOK
  <2> QED
    BY <1>2, <2>2, <2>4, <2>5 DEF SInv
<1>6. CASE \E n \in Nodes : OnApply(n)
  <2>1. UNCHANGED <<log, hist, up>> /\ \A n \in Nodes : applied[n] <= applied'[n]
    BY <1>3, <1>6 DEF OnApply, TypeInv
  <2> QED
    BY <1>2, <1>4, <2>1 DEF SInv
<1>7. CASE UNCHANGED <<log, hist, applied, up>>
  BY <1>2, <1>3, <1>4, <1>7 DEF SInv, TypeInv
<1>8. \/ \E h \in Handlers : Propose(h)
      \/ \E n \in Nodes : OnApply(n)
      \/ UNCHANGED <<log, hist, applied, up>>
  BY DEF Serves, Handle, Call, Prepare, PrepareThrows, ProposeFails, Respond, Elect, StepDown, Tick
<1> QED
  BY <1>5, <1>6, <1>7, <1>8

\* A process ends, or starts without a snapshot.
LEMMA EndsKeeps ==
  ASSUME SInv, NEW n \in Nodes, Ends(n) \/ StartWithout(n)
  PROVE  SInv'
<1>1. Next /\ UNCHANGED <<log, hist, db>>
  BY DEF Ends, StartWithout, Next, Abort, Crash, Gone, Restart
<1>2. IInv' /\ ReplicaInv'
  BY <1>1, NextInv, ReplicaNext DEF SInv
<1>3. HistGrows'
  BY <1>1 DEF SInv, HistGrows
<1>4. UNCHANGED <<backup, snap>>
  BY DEF Ends, Lose, StartWithout, snapvars
<1>5. \A d, a : Startable(d, a) => Startable(d, a)'
  BY <1>1 DEF Startable, LastRec
<1>6. CASE Ends(n)
  <2>1. saving' = [saving EXCEPT ![n] = 0] /\ applied' = applied
    BY <1>6 DEF Ends, Lose, Abort, Crash, Gone
  <2>2. Len(log) \in Nat /\ \A m \in Nodes : m # n => up'[m] = up[m]
    BY <1>6 DEF SInv, IInv, TypeInv, Ends, Abort, Crash, Gone
  <2>3. IndexesOK'
    BY <1>1, <1>4, <2>1, <2>2 DEF SInv, IndexesOK
  <2>4. BackupInv'
    BY <1>1, <1>4, <2>1 DEF SInv, BackupInv, IndexesOK, Startable, LastRec
  <2> QED
    BY <1>2, <1>3, <2>3, <2>4 DEF SInv
<1>7. CASE StartWithout(n)
  <2>1. UNCHANGED <<saving>> /\ saving[n] = 0 /\ \A m \in Nodes : m # n => UNCHANGED <<up[m], applied[m]>>
    BY <1>7 DEF StartWithout, Restart, snapvars, SInv, IndexesOK, IInv, TypeInv
  <2>2. IndexesOK'
    BY <1>1, <1>4, <2>1 DEF SInv, IndexesOK
  <2>3. BackupInv'
    BY <1>1, <1>4, <2>1 DEF SInv, BackupInv, Startable, LastRec
  <2> QED
    BY <1>2, <1>3, <2>2, <2>3 DEF SInv
<1> QED
  BY <1>6, <1>7

\* A backup of the store may be started from with the applied index, and with
\* every older one.
LEMMA DbStartable ==
  ASSUME SInv, NEW n \in Nodes, NEW a \in 0..applied[n]
  PROVE  Startable(db[n], a)
<1>1. /\ db[n] \in Store /\ applied[n] \in Nat /\ applied[n] <= Len(log)
      /\ Len(hist) = Len(log) + 1 /\ Len(log) \in Nat
  BY DEF SInv, IInv, TypeInv
<1>2. Rec(hist[a + 1]) \subseteq Rec(hist[applied[n] + 1])
  <2>1. a + 1 \in 1..Len(hist) /\ applied[n] + 1 \in 1..Len(hist) /\ a + 1 <= applied[n] + 1
    BY <1>1
  <2> QED
    BY <2>1 DEF SInv, HistGrows
<1>3. NewEnough(db[n], a, log, hist)
  BY <1>1, OlderNewEnough DEF SInv, ReplicaInv
<1> QED
  BY <1>1, <1>2, <1>3 DEF SInv, IInv, DbInv, Startable

\* A snapshot is begun, with a backup of the store as it is.
LEMMA SaveKeeps ==
  ASSUME SInv, NEW n \in Nodes, on_snapshot_save(n)
  PROVE  SInv'
<1>1. UNCHANGED vars /\ UNCHANGED snap
  BY DEF on_snapshot_save
<1>2. IInv' /\ ReplicaInv' /\ HistGrows'
  <2>1. IInv' /\ ReplicaInv'
    BY <1>1, NextInv, ReplicaNext DEF SInv
  <2> QED
    BY <1>1, <2>1 DEF SInv, HistGrows, vars
<1>3. /\ up[n] /\ applied[n] > snap[n]
      /\ backup' = [backup EXCEPT ![n] = db[n]]
      /\ saving' = [saving EXCEPT ![n] = applied[n]]
      /\ UNCHANGED <<log, hist, applied, up>>
  BY <1>1 DEF on_snapshot_save, Backup, vars
<1>4. /\ applied[n] \in 0..Len(log) /\ snap[n] \in 0..applied[n] /\ applied[n] \in 0..applied[n]
      /\ applied[n] > 0
  BY <1>3 DEF SInv, IInv, TypeInv, IndexesOK
<1>5. IndexesOK'
  BY <1>1, <1>3, <1>4 DEF SInv, IndexesOK
<1>6. Startable(db[n], snap[n]) /\ Startable(db[n], applied[n])
  BY <1>4, DbStartable
<1>7. \A m \in Nodes : /\ Startable(backup'[m], snap[m])
                       /\ saving'[m] > 0 => Startable(backup'[m], saving'[m])
  BY <1>3, <1>6 DEF SInv, BackupInv, IndexesOK
<1>8. backup' \in [Nodes -> Store]
  BY <1>3, <1>6 DEF SInv, BackupInv, Startable
<1>9. BackupInv'
  BY <1>1, <1>3, <1>7, <1>8 DEF BackupInv, Startable, LastRec
<1> QED
  BY <1>2, <1>5, <1>9 DEF SInv

\* A snapshot is completed: its index, not the one applied by now, is noted.
LEMMA DoneKeeps ==
  ASSUME SInv, NEW n \in Nodes, SnapshotDone(n)
  PROVE  SInv'
<1>1. UNCHANGED vars /\ UNCHANGED backup
  BY DEF SnapshotDone
<1>2. IInv' /\ ReplicaInv' /\ HistGrows'
  <2>1. IInv' /\ ReplicaInv'
    BY <1>1, NextInv, ReplicaNext DEF SInv
  <2> QED
    BY <1>1, <2>1 DEF SInv, HistGrows, vars
<1>3. /\ saving[n] > 0
      /\ snap' = [snap EXCEPT ![n] = saving[n]]
      /\ saving' = [saving EXCEPT ![n] = 0]
      /\ UNCHANGED <<log, hist, applied, up>>
  BY <1>1 DEF SnapshotDone, vars
<1>4. Len(log) \in Nat
  BY DEF SInv, IInv, TypeInv
<1>5. IndexesOK'
  BY <1>3, <1>4 DEF SInv, IndexesOK
<1>6. \A m \in Nodes : /\ Startable(backup[m], snap'[m])
                       /\ saving'[m] > 0 => Startable(backup[m], saving'[m])
  BY <1>3 DEF SInv, BackupInv, IndexesOK
<1>7. BackupInv'
  BY <1>1, <1>3, <1>6 DEF SInv, BackupInv, Startable, LastRec
<1> QED
  BY <1>2, <1>5, <1>7 DEF SInv

\* A process starts from the newest backup and the index of the last snapshot.
LEMMA LoadKeeps ==
  ASSUME SInv, NEW n \in Nodes, on_snapshot_load(n)
  PROVE  SInv'
<1>1. /\ ~up[n]
      /\ up' = [up EXCEPT ![n] = TRUE]
      /\ db' = [db EXCEPT ![n] = backup[n]]
      /\ applied' = [applied EXCEPT ![n] = snap[n]]
      /\ UNCHANGED <<log, hist, leader, clock, rpc, calls, faults>>
      /\ UNCHANGED <<backup, saving, snap>>
  BY DEF on_snapshot_load, Restore, snapvars
<1>2. Startable(backup[n], snap[n]) /\ snap[n] \in 0..Len(log) /\ saving[n] = 0
  BY <1>1 DEF SInv, BackupInv, IndexesOK
<1>3. IInv
  BY DEF SInv
<1>4. TypeInv'
  <2>1. db' \in [Nodes -> Store] /\ applied' \in [Nodes -> Nat] /\ up' \in [Nodes -> BOOLEAN]
    BY <1>1, <1>2, <1>3 DEF IInv, TypeInv, Startable
  <2>2. \A m \in Nodes : applied'[m] <= Len(log)
    BY <1>1, <1>2, <1>3 DEF IInv, TypeInv
  <2> QED
    BY <1>1, <1>3, <2>1, <2>2 DEF IInv, TypeInv
<1>5. LastRec' = LastRec /\ HistInv' /\ RpcInv'
  BY <1>1, <1>3 DEF IInv, HistInv, RpcInv, LastRec
<1>6. \A m \in Nodes : \/ m = n /\ db'[m] = backup[n] /\ applied'[m] = snap[n]
                       \/ m # n /\ db'[m] = db[m] /\ applied'[m] = applied[m] /\ up'[m] = up[m]
  BY <1>1, <1>3 DEF IInv, TypeInv
<1>7. DbInv'
  BY <1>1, <1>2, <1>3, <1>5, <1>6 DEF IInv, DbInv, Startable
<1>8. ReplicaInv'
  <2>1. \A m \in Nodes : NewEnough(db'[m], applied'[m], log, hist)
    BY <1>2, <1>6 DEF SInv, ReplicaInv, Startable
  <2> QED
    BY <1>1, <2>1 DEF SInv, ReplicaInv, HistoryIsLog
<1>9. IndexesOK'
  BY <1>1, <1>2, <1>6 DEF SInv, IndexesOK
<1>10. HistGrows' /\ BackupInv'
  BY <1>1 DEF SInv, HistGrows, BackupInv, Startable, LastRec
<1> QED
  BY <1>4, <1>5, <1>7, <1>8, <1>9, <1>10 DEF SInv, IInv

\* SInv is an invariant of NamenodeSnapshot.
THEOREM SnapshotInvariance == SSpec => []SInv
<1>1. SInv /\ [SNext]_svars => SInv'
  <2> SUFFICES ASSUME SInv, [SNext]_svars PROVE SInv'
    OBVIOUS
  <2>1. CASE Serves
    BY <2>1, ServesKeeps
  <2>2. CASE \E n \in Nodes : Ends(n) \/ StartWithout(n)
    BY <2>2, EndsKeeps
  <2>3. CASE \E n \in Nodes : on_snapshot_load(n)
    BY <2>3, LoadKeeps
  <2>4. CASE \E n \in Nodes : on_snapshot_save(n)
    BY <2>4, SaveKeeps
  <2>5. CASE \E n \in Nodes : SnapshotDone(n)
    BY <2>5, DoneKeeps
  <2>6. CASE UNCHANGED svars
    <3>1. UNCHANGED vars /\ UNCHANGED <<backup, saving, snap>>
      BY <2>6 DEF svars, snapvars
    <3>2. IInv' /\ ReplicaInv'
      BY <3>1, NextInv, ReplicaNext DEF SInv
    <3>3. UNCHANGED <<log, hist, applied, up>>
      BY <3>1 DEF vars
    <3> QED
      BY <3>1, <3>2, <3>3 DEF SInv, HistGrows, IndexesOK, BackupInv, Startable, LastRec
  <2> QED
    BY <2>1, <2>2, <2>3, <2>4, <2>5, <2>6 DEF SNext, Starts
<1> QED
  BY <1>1, SnapshotInit, PTL DEF SSpec

\* A snapshot stands for entries that were applied, and the one being saved is
\* newer than the last one.
THEOREM SnapshotTypeCorrect == SSpec => []SnapshotTypeOK
<1>1. SInv => SnapshotTypeOK
  <2>1. Store \subseteq Database
    BY CleanIsInode DEF Store, Database
  <2> QED
    BY <2>1 DEF SInv, BackupInv, IndexesOK, SnapshotTypeOK
<1> QED
  BY <1>1, SnapshotInvariance, PTL

\* Also with snapshots, a namenode that has caught up holds the store of the
\* log, although a start may combine an old index with a newer backup
\* (on_snapshot_load ignores the snapshot's own files).
THEOREM SnapshotCaughtUp == SSpec => []CaughtUpReplicasAgree
<1>1. SInv => CaughtUpReplicasAgree
  BY InvCaughtUp DEF SInv
<1> QED
  BY <1>1, SnapshotInvariance, PTL

\* Also with snapshots, no store lists a path it has no record of.
THEOREM SnapshotNoDanglingEntries == SSpec => []DentryHasRecord
<1>1. SInv => DentryHasRecord
  BY DEF SInv, IInv, DbInv, NoDangling, ListsOnly, Rec, DentryHasRecord
<1> QED
  BY <1>1, SnapshotInvariance, PTL

-----------------------------------------------------------------------------
(* What is on disk leads back to the store of the whole log                *)

\* A set of numbers that is not empty has a smallest member.
LEMMA SmallestIndex ==
  ASSUME NEW S \in SUBSET Nat, S # {}
  PROVE  \E x \in S : \A y \in S : x <= y
<1>1. PICK x \in S : \A y \in S : ~(<<y, x>> \in OpToRel(<, Nat))
  BY NatLessThanWellFounded, WFMin
<1>2. \A y \in S : ~(y < x)
  BY <1>1 DEF OpToRel
<1> QED
  BY <1>2

\* The stores of a replay exist: f[i] is the one after entry i.
Runs(f, d, s, t) == f = [i \in s..t |-> IF i = s THEN d ELSE Writes(f[i - 1], log[i])]

\* A replay can be made up to any index.
LEMMA RunsExist ==
  ASSUME NEW d, NEW s \in Nat, NEW t \in Nat, s <= t
  PROVE  \E f : Runs(f, d, s, t)
<1> DEFINE S == {m \in Nat : s <= m /\ ~(\E f : Runs(f, d, s, m))}
<1> SUFFICES ASSUME S # {} PROVE FALSE
  OBVIOUS
<1>1. PICK m \in S : \A y \in S : m <= y
  BY SmallestIndex
<1>2. m \in Nat /\ s <= m /\ ~(\E f : Runs(f, d, s, m))
  BY <1>1
<1>3. CASE m = s
  <2> DEFINE f == [i \in s..m |-> d]
  <2>1. \A i \in s..m : i = s
    BY <1>2, <1>3
  <2>2. Runs(f, d, s, m)
    BY <2>1, Zenon DEF Runs
  <2> QED
    BY <1>2, <2>2
<1>4. CASE m # s
  <2>1. m - 1 \in Nat /\ s <= m - 1 /\ m - 1 \notin S
    BY <1>1, <1>2, <1>4
  <2>2. PICK g : Runs(g, d, s, m - 1)
    BY <2>1
  <2> DEFINE f == [i \in s..m |-> IF i = m THEN Writes(g[m - 1], log[m]) ELSE g[i]]
             F == [i \in s..m |-> IF i = s THEN d ELSE Writes(f[i - 1], log[i])]
  <2>3. ASSUME NEW i \in s..m PROVE f[i] = F[i]
    <3>1. CASE i = s
      <4>1. f[i] = g[i] /\ i \in s..(m - 1)
        BY <1>2, <1>4, <3>1
      <4>2. g[i] = d
        BY <2>2, <3>1, <4>1 DEF Runs
      <4> QED
        BY <3>1, <4>1, <4>2
    <3>2. CASE i # s /\ i = m
      <4>1. m - 1 \in s..m /\ m - 1 # m
        BY <1>2, <2>1
      <4>2. f[m - 1] = g[m - 1]
        BY <4>1
      <4>3. f[i] = Writes(g[m - 1], log[m])
        BY <3>2
      <4> QED
        BY <3>2, <4>2, <4>3
    <3>3. CASE i # s /\ i # m
      <4>1. i - 1 \in s..m /\ i - 1 # m /\ i \in s..(m - 1)
        BY <1>2, <2>1, <3>3
      <4>2. f[i - 1] = g[i - 1] /\ f[i] = g[i]
        BY <3>3, <4>1
      <4>3. g[i] = Writes(g[i - 1], log[i])
        BY <2>2, <3>3, <4>1 DEF Runs
      <4> QED
        BY <3>3, <4>2, <4>3
    <3> QED
      BY <3>1, <3>2, <3>3
  <2>4. f = F
    <3> HIDE DEF Runs
    <3> QED
      BY <2>3
  <2>5. Runs(f, d, s, m)
    BY <2>4 DEF Runs
  <2> QED
    BY <1>2, <2>5
<1> QED
  BY <1>3, <1>4

\* Replay is the last store of a replay.
LEMMA ReplayRuns ==
  ASSUME NEW d, NEW s \in Nat, Len(log) \in Nat, s <= Len(log)
  PROVE  \E f : Runs(f, d, s, Len(log)) /\ Replay(d, s) = f[Len(log)]
<1> DEFINE F == CHOOSE f : Runs(f, d, s, Len(log))
<1>1. Runs(F, d, s, Len(log))
  BY RunsExist
<1>2. Replay(d, s) = F[Len(log)]
  BY DEF Replay, Runs
<1> QED
  BY <1>1, <1>2

\* In a healthy group a store that may be started from at index a may be
\* started from at a + 1 once that entry is applied to it.
LEMMA StartableStep ==
  ASSUME SInv, Healthy, NEW d, NEW a \in 0..(Len(log) - 1), Startable(d, a)
  PROVE  Startable(Writes(d, log[a + 1]), a + 1)
<1> DEFINE e == log[a + 1]
           w == Writes(d, e)
<1>1. /\ a + 1 \in 1..Len(log) /\ Len(log) \in Nat /\ Len(hist) = Len(log) + 1
      /\ e \in Entry /\ TypeInv /\ HistoryIsLog
  BY HistTypes DEF SInv, IInv, TypeInv, ReplicaInv
<1>2. /\ d \in Store /\ Rec(hist[a + 1]) \subseteq Rec(d) /\ Rec(d) \subseteq LastRec
      /\ NoDangling(d) /\ NewEnough(d, a, log, hist)
  BY DEF Startable
<1>3. /\ Rec(hist[(a + 1) + 1]) = Rec(hist[a + 1]) \cup Added(e)
      /\ EntryOK(e, Rec(hist[a + 1]))
  BY <1>1 DEF SInv, IInv, HistInv
<1>4. Rec(hist[(a + 1) + 1]) \subseteq LastRec
  BY <1>1 DEF SInv, IInv, HistInv
<1>5. ~Trips(hist[a + 1], e)
  BY <1>1 DEF Healthy
<1> HIDE DEF e
<1>6. ~Trips(d, e)
  <2> SUFFICES ASSUME Trips(d, e) PROVE FALSE
    OBVIOUS
  <2>1. PICK p \in DOMAIN e.inodes : ParentMissing(d, p)
    BY DEF Trips
  <2>2. e.op \in {"OP_MKDIR", "OP_PUTOK", "OP_PUTOKBATCH", "OP_RM"}
    BY DEF Trips
  <2>3. ~ParentMissing(hist[a + 1], p)
    BY <1>5, <2>1, <2>2 DEF Trips
  <2>4. p \in Paths
    BY <1>1, <2>1, <2>2, EntryShape
  <2>5. Parent[p] \in Paths
    BY <2>4, NamespaceAssumption
  <2> QED
    BY <1>2, <2>1, <2>3, <2>5 DEF ParentMissing, Rec
<1>7. EntryOK(e, Rec(d))
  BY <1>2, <1>3, EntryOKMore
<1>8. w \in Store /\ Rec(w) = Rec(d) \cup Added(e) /\ NoDangling(w)
  BY <1>1, <1>2, <1>7, ApplyEntry
<1>9. NewEnough(w, a + 1, log, hist)
  BY <1>1, <1>2, <1>6, ApplyNewEnough DEF e
<1> HIDE DEF w
<1>10. Rec(hist[(a + 1) + 1]) \subseteq Rec(w) /\ Rec(w) \subseteq LastRec
  BY <1>2, <1>3, <1>4, <1>8
<1>11. Startable(w, a + 1)
  BY <1>8, <1>9, <1>10 DEF Startable
<1> QED
  BY <1>11 DEF w, e

\* So in a healthy group every store of a replay may be started from.
LEMMA RunsStartable ==
  ASSUME SInv, Healthy, NEW d, NEW s \in 0..Len(log), Startable(d, s),
         NEW f, Runs(f, d, s, Len(log)), NEW t \in s..Len(log)
  PROVE  Startable(f[t], t)
<1>1. Len(log) \in Nat /\ s \in Nat
  BY HistTypes DEF SInv, IInv
<1> DEFINE S == {m \in Nat : m \in s..Len(log) /\ ~Startable(f[m], m)}
<1> SUFFICES ASSUME S # {} PROVE FALSE
  BY <1>1
<1>2. PICK m \in S : \A y \in S : m <= y
  BY SmallestIndex
<1>3. m \in Nat /\ m \in s..Len(log) /\ ~Startable(f[m], m)
  BY <1>2
<1>4. CASE m = s
  <2>1. f[m] = d
    BY <1>3, <1>4 DEF Runs
  <2> QED
    BY <1>3, <1>4, <2>1
<1>5. CASE m # s
  <2>1. /\ m - 1 \in Nat /\ m - 1 \in s..Len(log) /\ m - 1 \in 0..(Len(log) - 1) /\ m - 1 \notin S
        /\ (m - 1) + 1 = m
    BY <1>1, <1>2, <1>3, <1>5
  <2>2. Startable(f[m - 1], m - 1)
    BY <2>1
  <2>3. Startable(Writes(f[m - 1], log[(m - 1) + 1]), (m - 1) + 1)
    BY <2>1, <2>2, StartableStep
  <2>4. f[m] = Writes(f[m - 1], log[m])
    BY <1>3, <1>5 DEF Runs
  <2> QED
    BY <1>3, <2>1, <2>3, <2>4
<1> QED
  BY <1>4, <1>5

\* Only the newest store may be started from with no entry left.
LEMMA StartableLast ==
  ASSUME SInv, NEW d, Startable(d, Len(log))
  PROVE  d = hist[Len(log) + 1]
<1>1. d \in Store /\ hist[Len(log) + 1] \in Store /\ Len(log) \in Nat
  BY HistTypes DEF SInv, IInv, Startable
<1>2. ASSUME NEW x \in Cells PROVE Agree(d, hist[Len(log) + 1], x)
  <2>1. PICK j \in Len(log)..Len(log) : Agree(d, hist[j + 1], x)
    BY DEF Startable, NewEnough
  <2> QED
    BY <1>1, <2>1
<1> QED
  BY <1>1, <1>2, CellsDetermine

\* A replay from where a store may be started from ends with the newest store.
LEMMA ReplayEnds ==
  ASSUME SInv, Healthy, NEW d, NEW s \in 0..Len(log), Startable(d, s)
  PROVE  Replay(d, s) = hist[Len(log) + 1]
<1>1. Len(log) \in Nat /\ s \in Nat /\ s <= Len(log)
  BY HistTypes DEF SInv, IInv
<1>2. PICK f : Runs(f, d, s, Len(log)) /\ Replay(d, s) = f[Len(log)]
  BY <1>1, ReplayRuns
<1>3. Len(log) \in s..Len(log)
  BY <1>1
<1>4. Startable(f[Len(log)], Len(log))
  BY <1>2, <1>3, RunsStartable
<1> QED
  BY <1>2, <1>4, StartableLast

\* A crash loses nothing at any moment: whatever of a save is done, and however
\* far the entries are applied meanwhile, the backup with the index of the
\* last snapshot, or without one the store itself, leads back to the store of
\* the whole log (on_snapshot_save and on_snapshot_load of raft_nn.cpp).
THEOREM CrashLosesNothing == SSpec => []CrashRecoverable
<1>1. SInv => CrashRecoverable
  <2> SUFFICES ASSUME SInv, Healthy, NEW n \in Nodes
               PROVE  Recovered(n) = hist[Len(log) + 1]
    BY DEF CrashRecoverable
  <2>1. snap[n] \in 0..Len(log) /\ Startable(backup[n], snap[n])
    BY DEF SInv, IndexesOK, BackupInv
  <2>2. 0 \in 0..applied[n] /\ 0 \in 0..Len(log)
    BY HistTypes DEF SInv, IInv
  <2>3. Startable(db[n], 0)
    BY <2>2, DbStartable
  <2>4. Replay(backup[n], snap[n]) = hist[Len(log) + 1] /\ Replay(db[n], 0) = hist[Len(log) + 1]
    BY <2>1, <2>2, <2>3, ReplayEnds
  <2> QED
    BY <2>4 DEF Recovered
<1> QED
  BY <1>1, SnapshotInvariance, PTL
=============================================================================
