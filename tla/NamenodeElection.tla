-------------------------- MODULE NamenodeElection --------------------------
(***************************************************************************)
(* Which machines run a namenode: class RaftDN (node/raft_dn.cpp), class   *)
(* Server (node/server.cpp) and the scans of common/node.cpp.              *)
(*                                                                         *)
(* All machines run a datanode and form one raft group, whose log holds    *)
(* lists of namenodes.  Its leader chooses a list when it starts to lead,  *)
(* and again when its timer finds a namenode of the list offline; whoever  *)
(* applies a list starts, reconfigures or stops its own namenode.          *)
(*                                                                         *)
(* braft is external: one committed log, a leader, snapshots.  A list is   *)
(* kept as a set; only datanode_list has an order that matters.            *)
(***************************************************************************)
EXTENDS Naturals, Sequences, FiniteSets, SequencesExt

CONSTANTS
  datanode_list,   \* all machines, in the order of the command line
  expected_nn,     \* FLAGS_expected_nn
  NoLeader,        \* leader_id() is empty
  NoNamenode,      \* nn_raft_ptr is null
  MaxFaults,       \* bound: crashes and leader changes
  MaxSnapshots,    \* bound: snapshots taken
  MaxLog,          \* bound: entries of the log
  MaxTimers,       \* bound: timers left behind on one machine
  MaxHasty         \* bound: hasty timers

Machines == Range(datanode_list)

ASSUME ElectionAssumption ==
  /\ datanode_list \in Seq(Machines) /\ datanode_list # << >>
  /\ Cardinality(Machines) = Len(datanode_list)
  /\ expected_nn \in Nat \ {0}
  /\ NoLeader \notin Machines /\ MaxHasty \in Nat
  /\ MaxFaults \in Nat /\ MaxSnapshots \in Nat /\ MaxLog \in Nat /\ MaxTimers \in Nat

VARIABLES
  up,             \* up[m]: the process of m runs
  dlog,           \* committed lists
  dapplied,       \* dapplied[m]: entries m has applied
  namenode_list,  \* namenode_list[m]: RaftDN::namenode_list, empty at first
  leader,         \* leader of the datanode group
  elected,        \* on_leader_start has not been called yet
  nn,             \* nn[m]: m's namenode, [peers, how], or NoNamenode
  nn_timer,       \* nn_timer[m]: "none", "running" or "ended"
  leaked,         \* leaked[m]: running timers nn_timer no longer points to
  plan,           \* plan[m]: lists m has chosen and will propose
  snapshot,       \* snapshot[m]: [index, list], survives a crash
  snapshots,      \* snapshots taken so far
  faults,         \* crashes and leader changes so far
  hasty           \* hasty timers so far

vars == <<up, dlog, dapplied, namenode_list, leader, elected, nn, nn_timer, leaked,
          plan, snapshot, snapshots, faults, hasty>>

-----------------------------------------------------------------------------
(* on_leader_start                                                         *)

\* Node::scan: a machine answers on the datanode port while its process runs,
DatanodeOnline(m) == up[m]

\* Mutant: the scan asks the datanode port.
NamenodeOnlineByDatanode(m) == up[m]

\* and on the namenode port while it also runs a namenode.
NamenodeOnline(m) == up[m] /\ nn[m] # NoNamenode

\* Mutant: the limit is only looked at between two windows of expected_nn.
ChosenWindow(m) ==
  LET keep == {x \in namenode_list[m] : NamenodeOnline(x)}
  IN  IF Cardinality(keep) >= expected_nn THEN keep
      ELSE keep \cup {x \in Machines : DatanodeOnline(x)}

\* The namenodes of the old list that answer, filled up to expected_nn with
\* the first datanodes that do.  (They are scanned in windows of expected_nn,
\* which does not change who is taken.)
Chosen(m) ==
  LET keep == {x \in namenode_list[m] : NamenodeOnline(x)}
      others == {i \in DOMAIN datanode_list :
                   datanode_list[i] \notin keep /\ DatanodeOnline(datanode_list[i])}
      place(i) == Cardinality({j \in others : j <= i})
  IN  keep \cup {datanode_list[i] : i \in {j \in others :
                   Cardinality(keep) + place(j) <= expected_nn}}

\* A majority of the machines is up.
Majority ==
  \E Q \in SUBSET Machines : /\ 2 * Cardinality(Q) > Cardinality(Machines)
                             /\ \A x \in Q : up[x]

\* A majority of the machines elects.
Elect(m) ==
  /\ leader = NoLeader /\ up[m]
  /\ Majority
  /\ leader' = m
  /\ elected' = TRUE
  /\ UNCHANGED <<up, dlog, dapplied, namenode_list, nn, nn_timer, leaked, plan,
                 snapshot, snapshots, faults, hasty>>

\* braft calls it when the entries of earlier terms are applied.
on_leader_start(m) ==
  /\ leader = m /\ elected
  /\ dapplied[m] = Len(dlog)
  /\ elected' = FALSE
  /\ plan' = [plan EXCEPT ![m] = @ \cup {Chosen(m)}]
  /\ UNCHANGED <<up, dlog, dapplied, namenode_list, leader, nn, nn_timer, leaked,
                 snapshot, snapshots, faults, hasty>>

\* A machine that is up has not applied the whole log.  A timer that fires now is
\* hasty: it may miss a namenode that is about to start.
Lagging == \E x \in Machines : up[x] /\ dapplied[x] < Len(dlog)

\* Mutant: a timer that was left behind is taken for one that runs.
on_nodes_loss_any_timer(m) ==
  /\ up[m]
  /\ \E x \in namenode_list[m] : ~NamenodeOnline(x)
  /\ leaked' = [leaked EXCEPT ![m] = @ - 1]
  /\ plan' = [plan EXCEPT ![m] = @ \cup {Chosen(m)}]
  /\ UNCHANGED <<up, dlog, dapplied, namenode_list, leader, elected, nn, nn_timer, snapshot,
                 snapshots, faults, hasty>>

\* A timer finds a namenode of the list offline, several times in a row, and
\* calls on_nodes_loss; its thread ends.  It does not ask whether m leads, nor
\* whether the others have applied the list: a new timer, or one left behind,
\* may fire as soon as the list is there (MaxHasty bounds how often).
on_nodes_loss(m) ==
  /\ up[m]
  /\ \E x \in namenode_list[m] : ~NamenodeOnline(x)
  /\ \/ /\ nn_timer[m] = "running"
        /\ nn_timer' = [nn_timer EXCEPT ![m] = "ended"]
        /\ UNCHANGED leaked
     \/ /\ leaked[m] > 0
        /\ leaked' = [leaked EXCEPT ![m] = @ - 1]
        /\ UNCHANGED nn_timer
  /\ plan' = [plan EXCEPT ![m] = @ \cup {Chosen(m)}]
  /\ Lagging => hasty < MaxHasty
  /\ hasty' = IF Lagging THEN hasty + 1 ELSE hasty
  /\ UNCHANGED <<up, dlog, dapplied, namenode_list, leader, elected, nn, snapshot,
                 snapshots, faults>>

\* raft_node->apply: committed once a majority is up, and lost without a word
\* unless m leads.
Propose(m, list) ==
  /\ up[m] /\ list \in plan[m]
  /\ plan' = [plan EXCEPT ![m] = @ \ {list}]
  /\ \/ leader = m /\ Majority /\ Len(dlog) < MaxLog /\ dlog' = Append(dlog, list)
     \/ leader # m /\ UNCHANGED dlog
  /\ UNCHANGED <<up, dapplied, namenode_list, leader, elected, nn, nn_timer, leaked,
                 snapshot, snapshots, faults, hasty>>

-----------------------------------------------------------------------------
(* on_apply                                                                *)

\* More than half of the new list comes from the old one.
KeepsMajority(old, new) == Cardinality(old \cap new) > Cardinality(new) \div 2

\* Mutant: a namenode that is not in the list any more goes on.
on_namenodes_change_no_stop(m, list) ==
  IF m \notin list THEN nn[m]
  ELSE IF nn[m] = NoNamenode THEN [peers |-> list, how |-> "start"]
  ELSE [peers |-> list,
        how |-> IF KeepsMajority(nn[m].peers, list) THEN "change_peers" ELSE "reset_peers"]

\* Server::on_namenodes_change and change_namenodes_list.
on_namenodes_change(m, list) ==
  IF m \notin list THEN NoNamenode
  ELSE IF nn[m] = NoNamenode THEN [peers |-> list, how |-> "start"]
  ELSE [peers |-> list,
        how |-> IF KeepsMajority(nn[m].peers, list) THEN "change_peers" ELSE "reset_peers"]

\* One call for the entries up to j; only the last one counts.  Without a
\* known leader m takes itself for it.  The leader starts a new timer; the one
\* it had goes on running.
on_apply(m, j) ==
  /\ up[m] /\ j \in (dapplied[m] + 1)..Len(dlog)
  /\ dapplied' = [dapplied EXCEPT ![m] = j]
  /\ namenode_list' = [namenode_list EXCEPT ![m] = dlog[j]]
  /\ nn' = [nn EXCEPT ![m] = on_namenodes_change(m, dlog[j])]
  /\ IF leader \in {m, NoLeader}
     THEN /\ nn_timer' = [nn_timer EXCEPT ![m] = "running"]
          /\ leaked' = [leaked EXCEPT ![m] =
               IF nn_timer[m] = "running" /\ @ < MaxTimers THEN @ + 1 ELSE @]
     ELSE /\ nn_timer' = [nn_timer EXCEPT ![m] = "none"]
          /\ UNCHANGED leaked
  /\ UNCHANGED <<up, dlog, leader, elected, plan, snapshot, snapshots, faults, hasty>>

on_snapshot_save(m) ==
  /\ up[m] /\ snapshots < MaxSnapshots
  /\ snapshot[m].index < dapplied[m]
  /\ snapshot' = [snapshot EXCEPT ![m] = [index |-> dapplied[m], list |-> namenode_list[m]]]
  /\ snapshots' = snapshots + 1
  /\ UNCHANGED <<up, dlog, dapplied, namenode_list, leader, elected, nn, nn_timer, leaked,
                 plan, faults, hasty>>

-----------------------------------------------------------------------------
(* Faults                                                                  *)

Crash(m) ==
  /\ up[m] /\ faults < MaxFaults
  /\ faults' = faults + 1
  /\ up' = [up EXCEPT ![m] = FALSE]
  /\ leader' = IF leader = m THEN NoLeader ELSE leader
  /\ elected' = (elected /\ leader # m)
  /\ nn' = [nn EXCEPT ![m] = NoNamenode]
  /\ nn_timer' = [nn_timer EXCEPT ![m] = "none"]
  /\ leaked' = [leaked EXCEPT ![m] = 0]
  /\ plan' = [plan EXCEPT ![m] = {}]
  /\ namenode_list' = [namenode_list EXCEPT ![m] = {}]
  /\ dapplied' = [dapplied EXCEPT ![m] = 0]
  /\ UNCHANGED <<dlog, snapshot, snapshots, hasty>>

\* The process starts again with the snapshot, if there is one.
\* on_snapshot_load sets the list and leaves the namenode alone.
Restart(m) ==
  /\ ~up[m]
  /\ up' = [up EXCEPT ![m] = TRUE]
  /\ dapplied' = [dapplied EXCEPT ![m] = snapshot[m].index]
  /\ namenode_list' = [namenode_list EXCEPT ![m] = snapshot[m].list]
  /\ UNCHANGED <<dlog, leader, elected, nn, nn_timer, leaked, plan, snapshot, snapshots,
                 faults, hasty>>

StepDown ==
  /\ leader # NoLeader /\ faults < MaxFaults
  /\ leader' = NoLeader /\ elected' = FALSE
  /\ faults' = faults + 1
  /\ UNCHANGED <<up, dlog, dapplied, namenode_list, nn, nn_timer, leaked, plan, snapshot,
                 snapshots, hasty>>

-----------------------------------------------------------------------------

Init ==
  /\ up = [m \in Machines |-> TRUE]
  /\ dlog = << >>
  /\ dapplied = [m \in Machines |-> 0]
  /\ namenode_list = [m \in Machines |-> {}]
  /\ leader = NoLeader
  /\ elected = FALSE
  /\ nn = [m \in Machines |-> NoNamenode]
  /\ nn_timer = [m \in Machines |-> "none"]
  /\ leaked = [m \in Machines |-> 0]
  /\ plan = [m \in Machines |-> {}]
  /\ snapshot = [m \in Machines |-> [index |-> 0, list |-> {}]]
  /\ snapshots = 0
  /\ faults = 0
  /\ hasty = 0

OnApply(m) == \E j \in 1..Len(dlog) : on_apply(m, j)
SomePropose(m) == \E list \in plan[m] : Propose(m, list)

Next ==
  \/ \E m \in Machines :
       \/ Elect(m) \/ on_leader_start(m) \/ on_nodes_loss(m) \/ SomePropose(m)
       \/ OnApply(m) \/ on_snapshot_save(m) \/ Crash(m) \/ Restart(m)
  \/ StepDown

Spec == Init /\ [][Next]_vars

\* Elections succeed in the end, what is committed is applied, timers fire.
\* Nobody has to restart a machine.
FairSpec ==
  /\ Spec
  /\ WF_vars(\E m \in Machines : Elect(m))
  /\ \A m \in Machines : /\ WF_vars(on_leader_start(m)) /\ WF_vars(on_nodes_loss(m))
                         /\ WF_vars(SomePropose(m)) /\ WF_vars(OnApply(m))

-----------------------------------------------------------------------------
(* Properties                                                              *)

\* Every variable has the shape the code gives it.
TypeOK ==
  /\ up \in [Machines -> BOOLEAN]
  /\ dlog \in Seq(SUBSET Machines) /\ Len(dlog) <= MaxLog
  /\ dapplied \in [Machines -> 0..Len(dlog)]
  /\ namenode_list \in [Machines -> SUBSET Machines]
  /\ leader \in Machines \cup {NoLeader}
  /\ \A m \in Machines : nn[m] # NoNamenode =>
       nn[m] \in [peers : SUBSET Machines,
                  how : {"start", "change_peers", "reset_peers"}]
  /\ nn_timer \in [Machines -> {"none", "running", "ended"}]
  /\ leaked \in [Machines -> 0..MaxTimers]
  /\ plan \in [Machines -> SUBSET SUBSET Machines]
  /\ \A m \in Machines : snapshot[m].index \in 0..Len(dlog)
  /\ hasty \in 0..MaxHasty

\* Every list the group agrees on names somebody, and never more than
\* expected_nn machines, whatever answered while it was put together
\* ("no node ready" is not thrown: the leader itself answers).
ListsAreSized ==
  \A i \in 1..Len(dlog) : dlog[i] # {} /\ Cardinality(dlog[i]) <= expected_nn

\* A machine that runs a namenode is in the list it has applied, its group is
\* that list, and the list is the one every other machine has or had at the
\* same position of the log, also after restarts from a snapshot.
NamenodeMatchesList ==
  \A m \in Machines :
    /\ up[m] /\ dapplied[m] > 0 => namenode_list[m] = dlog[dapplied[m]]
    /\ nn[m] # NoNamenode => m \in namenode_list[m] /\ nn[m].peers = namenode_list[m]

\* The machines that are up agree on a list, and those in it run a namenode
\* that is up.
Settled ==
  \E list \in SUBSET Machines :
    /\ \A m \in Machines : up[m] => namenode_list[m] = list
    /\ list # {} /\ \A m \in list : up[m] /\ nn[m] # NoNamenode

\* As long as a majority is up in the end, the lost namenodes are replaced and
\* the machines settle: the timer of the leader notices a crash, also one that
\* happened before it was started, and a machine that came back from a
\* snapshot without starting its namenode.  Hasty timers, whose lists name
\* machines anew that were about to start a namenode, do not prevent it as long
\* as they are finitely many.
NamenodesRecover == <>[]Majority => <>[]Settled
=============================================================================
