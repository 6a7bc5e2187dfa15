----------------------- MODULE NamenodeElectionProofs -----------------------
(***************************************************************************)
(* Proofs about module NamenodeElection, for any list of machines, any     *)
(* expected_nn and any number of faults and snapshots.                     *)
(*                                                                         *)
(* A list is chosen from the list the leader has, travels as a proposal    *)
(* through the log to the machines, and into their snapshots.  So SizeInv  *)
(* says of every list, wherever it is, what ListsAreSized says of the log. *)
(* A machine that comes back gets its list from the snapshot: MatchInv     *)
(* says that the snapshot's list is the log's at the snapshot's index, and *)
(* that a machine that is down runs no namenode.                           *)
(***************************************************************************)
EXTENDS NamenodeElection, FiniteSetTheorems, WellFoundedInduction, TLAPS

Namenode == [peers : SUBSET Machines, how : {"start", "change_peers", "reset_peers"}]

TypeInv ==
  /\ up \in [Machines -> BOOLEAN]
  /\ dlog \in Seq(SUBSET Machines) /\ Len(dlog) <= MaxLog
  /\ dapplied \in [Machines -> Nat] /\ \A m \in Machines : dapplied[m] <= Len(dlog)
  /\ namenode_list \in [Machines -> SUBSET Machines]
  /\ leader \in Machines \cup {NoLeader}
  /\ nn \in [Machines -> Namenode \cup {NoNamenode}]
  /\ nn_timer \in [Machines -> {"none", "running", "ended"}]
  /\ leaked \in [Machines -> 0..MaxTimers]
  /\ plan \in [Machines -> SUBSET SUBSET Machines]
  /\ snapshot \in [Machines -> [index : Nat, list : SUBSET Machines]]
  /\ \A m \in Machines : snapshot[m].index <= Len(dlog)

\* Whoever leads runs.
LeaderInv == leader # NoLeader => up[leader]

Sized(list) == Cardinality(list) <= expected_nn

\* No list is too long, wherever it is, and what is proposed names somebody.
SizeInv ==
  /\ \A i \in 1..Len(dlog) : dlog[i] # {} /\ Sized(dlog[i])
  /\ \A m \in Machines : /\ Sized(namenode_list[m]) /\ Sized(snapshot[m].list)
                         /\ \A list \in plan[m] : list # {} /\ Sized(list)

\* Lists are those of the log, and a namenode runs only where the process does.
MatchInv ==
  /\ NamenodeMatchesList
  /\ \A m \in Machines : /\ ~up[m] => nn[m] = NoNamenode
                         /\ snapshot[m].index > 0 => snapshot[m].list = dlog[snapshot[m].index]

\* The inductive invariant.
IInv == TypeInv /\ LeaderInv /\ SizeInv /\ MatchInv

-----------------------------------------------------------------------------
(* The lists that are chosen                                               *)

\* There are finitely many machines.
LEMMA MachinesFinite ==
  /\ Len(datanode_list) \in Nat /\ DOMAIN datanode_list = 1..Len(datanode_list)
  /\ IsFiniteSet(Machines) /\ expected_nn \in Nat /\ expected_nn > 0
  /\ NoLeader \notin Machines
  /\ \A x \in Machines : \E i \in DOMAIN datanode_list : datanode_list[i] = x
  /\ \A i \in DOMAIN datanode_list : datanode_list[i] \in Machines
<1>1. datanode_list \in Seq(Machines)
  BY ElectionAssumption
<1>2. Len(datanode_list) \in Nat /\ DOMAIN datanode_list = 1..Len(datanode_list)
  BY <1>1
<1>3. Machines = {datanode_list[i] : i \in DOMAIN datanode_list}
  BY DEF Machines, Range
<1>4. IsFiniteSet(DOMAIN datanode_list)
  BY <1>2, FS_Interval
<1>5. IsFiniteSet(Machines)
  <2> DEFINE f == [i \in DOMAIN datanode_list |-> datanode_list[i]]
  <2>1. f \in Surjection(DOMAIN datanode_list, Machines)
    BY <1>3 DEF Surjection
  <2> QED
    BY <1>4, <2>1, FS_Surjection
<1> QED
  BY <1>2, <1>3, <1>5, ElectionAssumption

\* A set of numbers that is not empty has a smallest one.
LEMMA Smallest ==
  ASSUME NEW S \in SUBSET Nat, S # {}
  PROVE  \E x \in S : \A y \in S : x <= y
<1>1. PICK x \in S : \A y \in S : ~(<<y, x>> \in OpToRel(<, Nat))
  BY NatLessThanWellFounded, WFMin
<1>2. \A y \in S : ~(y < x)
  BY <1>1 DEF OpToRel
<1> QED
  BY <1>2

\* A set of numbers up to n that is not empty has a largest one.
LEMMA Largest ==
  ASSUME NEW n \in Nat, NEW S \in SUBSET (1..n), S # {}
  PROVE  \E x \in S : \A y \in S : y <= x
<1> DEFINE T == {n - x : x \in S}
<1>1. T \in SUBSET Nat /\ T # {}
  <2>1. \A x \in S : n - x \in Nat
    OBVIOUS
  <2> QED
    BY <2>1
<1>2. PICK z \in T : \A y \in T : z <= y
  BY <1>1, Smallest
<1>3. PICK x \in S : z = n - x
  BY <1>2
<1> QED
  BY <1>2, <1>3

\* Of the machines that are not kept, no more are taken than there is room for,
\* and the first one is, if there is room for one.
LEMMA TakenSize ==
  ASSUME NEW n \in Nat, NEW others \in SUBSET (1..n), NEW k \in Nat, NEW limit \in Nat, k <= limit
  PROVE  LET taken == {j \in others : k + Cardinality({x \in others : x <= j}) <= limit}
         IN  /\ IsFiniteSet(taken) /\ k + Cardinality(taken) <= limit
             /\ others # {} /\ k < limit => taken # {}
<1> DEFINE upTo(j) == {x \in others : x <= j}
           taken == {j \in others : k + Cardinality(upTo(j)) <= limit}
<1>1. IsFiniteSet(others)
  <2>1. IsFiniteSet(1..n)
    BY FS_Interval
  <2> QED
    BY <2>1, FS_Subset
<1>2. \A j : IsFiniteSet(upTo(j)) /\ Cardinality(upTo(j)) \in Nat
  BY <1>1, FS_Subset, FS_CardinalityType
<1>3. IsFiniteSet(taken) /\ Cardinality(taken) \in Nat
  BY <1>1, FS_Subset, FS_CardinalityType
<1>4. k + Cardinality(taken) <= limit
  <2>1. CASE taken = {}
    <3>1. Cardinality(taken) = 0
      BY <2>1, FS_EmptySet
    <3> QED
      BY <3>1
  <2>2. CASE taken # {}
    <3>1. taken \in SUBSET (1..n)
      OBVIOUS
    <3>2. PICK x \in taken : \A y \in taken : y <= x
      BY <2>2, <3>1, Largest
    <3>3. taken \subseteq upTo(x)
      BY <3>2
    <3>4. Cardinality(taken) <= Cardinality(upTo(x))
      BY <1>2, <3>3, FS_Subset
    <3>5. k + Cardinality(upTo(x)) <= limit
      BY <3>2
    <3> HIDE DEF taken, upTo
    <3> QED
      BY <1>2, <1>3, <3>4, <3>5
  <2> QED
    BY <2>1, <2>2
<1>5. ASSUME others # {}, k < limit PROVE taken # {}
  <2>1. PICK x \in others : \A y \in others : x <= y
    BY <1>5, Smallest
  <2>2. upTo(x) = {x}
    <3>0. \A y \in others : y \in Nat
      OBVIOUS
    <3> SUFFICES ASSUME NEW y \in others, y <= x PROVE y = x
      BY <2>1, <3>0
    <3>1. x \in Nat /\ y \in Nat /\ x <= y
      BY <2>1, <3>0
    <3> QED
      BY <3>1
  <2>3. Cardinality(upTo(x)) = 1
    BY <2>2, FS_Singleton
  <2>4. k + Cardinality(upTo(x)) <= limit
    <3> HIDE DEF upTo
    <3> QED
      BY <1>5, <2>3
  <2> QED
    BY <2>1, <2>4
<1> QED
  BY <1>3, <1>4, <1>5

\* What on_leader_start and on_nodes_loss choose is no longer than expected_nn,
\* and it names somebody, since the machine itself answers.
LEMMA ChosenSized ==
  ASSUME TypeInv, SizeInv, NEW m \in Machines, up[m]
  PROVE  Chosen(m) \in SUBSET Machines /\ Chosen(m) # {} /\ Sized(Chosen(m))
<1> DEFINE keep == {x \in namenode_list[m] : NamenodeOnline(x)}
           others == {i \in DOMAIN datanode_list :
                        datanode_list[i] \notin keep /\ DatanodeOnline(datanode_list[i])}
           k == Cardinality(keep)
           taken == {j \in others : k + Cardinality({x \in others : x <= j}) <= expected_nn}
           new == {datanode_list[i] : i \in taken}
<1>1. Chosen(m) = keep \cup new
  BY DEF Chosen
<1>2. keep \subseteq namenode_list[m] /\ namenode_list[m] \in SUBSET Machines
  BY DEF TypeInv
<1>3. IsFiniteSet(keep) /\ k \in Nat /\ k <= expected_nn
  <2>1. IsFiniteSet(namenode_list[m])
    BY <1>2, MachinesFinite, FS_Subset
  <2>2. IsFiniteSet(keep) /\ k <= Cardinality(namenode_list[m])
    BY <1>2, <2>1, FS_Subset
  <2>3. k \in Nat /\ Cardinality(namenode_list[m]) \in Nat
    BY <2>1, <2>2, FS_CardinalityType
  <2>4. Cardinality(namenode_list[m]) <= expected_nn
    BY DEF SizeInv, Sized
  <2> HIDE DEF k
  <2> QED
    BY <2>2, <2>3, <2>4, MachinesFinite
<1>4. others \in SUBSET (1..Len(datanode_list))
  BY MachinesFinite
<1>5. others = {} => keep # {}
  <2>1. PICK i \in DOMAIN datanode_list : datanode_list[i] = m
    BY MachinesFinite
  <2> QED
    BY <2>1 DEF DatanodeOnline
<1> HIDE DEF keep, others, k
<1>6. /\ IsFiniteSet(taken) /\ k + Cardinality(taken) <= expected_nn
      /\ others # {} /\ k < expected_nn => taken # {}
  BY <1>3, <1>4, MachinesFinite, TakenSize
<1>7. taken \subseteq DOMAIN datanode_list
  BY DEF others
<1> HIDE DEF taken
<1>8. IsFiniteSet(new) /\ Cardinality(new) <= Cardinality(taken) /\ new \in SUBSET Machines
  <2> DEFINE f == [i \in taken |-> datanode_list[i]]
  <2>1. f \in Surjection(taken, new)
    BY DEF Surjection
  <2>2. IsFiniteSet(new) /\ Cardinality(new) <= Cardinality(taken)
    BY <1>6, <2>1, FS_Surjection
  <2> QED
    BY <1>7, <2>2, MachinesFinite
<1>9. Chosen(m) # {}
  <2>1. CASE keep # {}
    BY <1>1, <2>1
  <2>2. CASE keep = {}
    <3>1. k = 0
      BY <2>2, FS_EmptySet DEF k
    <3>2. taken # {}
      BY <1>5, <1>6, <2>2, <3>1, MachinesFinite
    <3> QED
      BY <1>1, <3>2
  <2> QED
    BY <2>1, <2>2
<1> HIDE DEF new
<1>10. Cardinality(keep \cup new) <= expected_nn
  <2>1. /\ Cardinality(keep \cup new) = Cardinality(keep) + Cardinality(new) - Cardinality(keep \cap new)
        /\ IsFiniteSet(keep \cup new)
    BY <1>3, <1>8, FS_Union
  <2>2. Cardinality(keep \cap new) \in Nat
    BY <1>3, FS_Intersection, FS_CardinalityType
  <2>3. Cardinality(new) \in Nat /\ Cardinality(taken) \in Nat /\ Cardinality(keep) = k
    BY <1>6, <1>8, FS_CardinalityType DEF k
  <2> QED
    BY <1>3, <1>6, <1>8, <2>1, <2>2, <2>3, MachinesFinite
<1> QED
  BY <1>1, <1>2, <1>8, <1>9, <1>10 DEF Sized

-----------------------------------------------------------------------------
(* The steps                                                               *)

\* The invariant holds initially.
LEMMA InitInv == Init => IInv
<1> SUFFICES ASSUME Init PROVE IInv
  OBVIOUS
<1>1. TypeInv
  <2>1. dlog \in Seq(SUBSET Machines) /\ Len(dlog) = 0 /\ Len(dlog) <= MaxLog
    BY ElectionAssumption DEF Init
  <2>2. leaked \in [Machines -> 0..MaxTimers]
    BY ElectionAssumption DEF Init
  <2>3. up \in [Machines -> BOOLEAN]
    BY DEF Init
  <2>4. nn \in [Machines -> Namenode \cup {NoNamenode}]
    BY DEF Init
  <2>5. /\ snapshot \in [Machines -> [index : Nat, list : SUBSET Machines]]
        /\ \A m \in Machines : snapshot[m].index <= Len(dlog)
    BY <2>1 DEF Init
  <2>6. /\ dapplied \in [Machines -> Nat] /\ \A m \in Machines : dapplied[m] <= Len(dlog)
        /\ namenode_list \in [Machines -> SUBSET Machines]
        /\ leader \in Machines \cup {NoLeader}
        /\ nn_timer \in [Machines -> {"none", "running", "ended"}]
        /\ plan \in [Machines -> SUBSET SUBSET Machines]
    BY <2>1 DEF Init
  <2> QED
    BY <2>1, <2>2, <2>3, <2>4, <2>5, <2>6 DEF TypeInv
<1>2. LeaderInv
  BY DEF Init, LeaderInv
<1>3. SizeInv
  <2>1. Sized({})
    BY FS_EmptySet, MachinesFinite DEF Sized
  <2>2. Len(dlog) = 0
    BY DEF Init
  <2>3. \A m \in Machines : namenode_list[m] = {} /\ snapshot[m].list = {} /\ plan[m] = {}
    BY DEF Init
  <2>4. \A i \in 1..Len(dlog) : FALSE
    BY <2>2
  <2> QED
    BY <2>1, <2>3, <2>4 DEF SizeInv
<1>4. MatchInv
  BY DEF Init, MatchInv, NamenodeMatchesList
<1> QED
  BY <1>1, <1>2, <1>3, <1>4 DEF IInv

\* The election of a leader, and its end.
LEMMA LeaderSteps ==
  ASSUME IInv, StepDown \/ \E m \in Machines : Elect(m)
  PROVE  IInv'
<1>1. /\ UNCHANGED <<up, dlog, dapplied, namenode_list, nn, nn_timer, leaked, plan, snapshot>>
      /\ leader' = NoLeader \/ (leader' \in Machines /\ up[leader'])
  BY DEF StepDown, Elect
<1>2. TypeInv'
  BY <1>1 DEF IInv, TypeInv
<1>3. LeaderInv'
  BY <1>1 DEF LeaderInv
<1>4. SizeInv'
  BY <1>1 DEF IInv, SizeInv
<1>5. MatchInv'
  BY <1>1 DEF IInv, MatchInv, NamenodeMatchesList
<1> QED
  BY <1>2, <1>3, <1>4, <1>5 DEF IInv

\* The choice of a list.
LEMMA ChoiceSteps ==
  ASSUME IInv, NEW m \in Machines, on_leader_start(m) \/ on_nodes_loss(m)
  PROVE  IInv'
<1>1. UNCHANGED <<up, dlog, dapplied, namenode_list, leader, nn, snapshot>>
  BY DEF on_leader_start, on_nodes_loss
<1>2. plan' = [plan EXCEPT ![m] = plan[m] \cup {Chosen(m)}]
  BY DEF on_leader_start, on_nodes_loss
<1>3. up[m]
  BY MachinesFinite DEF on_leader_start, on_nodes_loss, IInv, LeaderInv
<1>4. Chosen(m) \in SUBSET Machines /\ Chosen(m) # {} /\ Sized(Chosen(m))
  BY <1>3, ChosenSized DEF IInv
<1>5. plan \in [Machines -> SUBSET SUBSET Machines]
  BY DEF IInv, TypeInv
<1> DEFINE new == Chosen(m)
<1> HIDE DEF new
<1>6. plan' = [plan EXCEPT ![m] = plan[m] \cup {new}] /\ new \in SUBSET Machines /\ new # {} /\ Sized(new)
  BY <1>2, <1>4 DEF new
<1>7. plan' \in [Machines -> SUBSET SUBSET Machines]
  BY <1>5, <1>6
<1>8. \A x \in Machines : \A list \in plan'[x] : list \in plan[x] \/ list = new
  BY <1>5, <1>6
<1>9. nn_timer' \in [Machines -> {"none", "running", "ended"}] /\ leaked' \in [Machines -> 0..MaxTimers]
  <2>1. nn_timer \in [Machines -> {"none", "running", "ended"}] /\ leaked \in [Machines -> 0..MaxTimers]
    BY DEF IInv, TypeInv
  <2>2. CASE on_leader_start(m)
    BY <2>1, <2>2 DEF on_leader_start
  <2>3. CASE on_nodes_loss(m)
    <3>1. nn_timer' \in [Machines -> {"none", "running", "ended"}]
      BY <2>1, <2>3 DEF on_nodes_loss
    <3>2. leaked' = leaked \/ (leaked[m] > 0 /\ leaked' = [leaked EXCEPT ![m] = leaked[m] - 1])
      BY <2>3 DEF on_nodes_loss
    <3>3. leaked[m] > 0 => leaked[m] - 1 \in 0..MaxTimers
      BY <2>1, ElectionAssumption
    <3>4. leaked' \in [Machines -> 0..MaxTimers]
      BY <2>1, <3>2, <3>3
    <3> QED
      BY <3>1, <3>4
  <2> QED
    BY <2>2, <2>3
<1>10. TypeInv'
  BY <1>1, <1>7, <1>9 DEF IInv, TypeInv
<1>11. LeaderInv'
  BY <1>1 DEF IInv, LeaderInv
<1>12. SizeInv'
  BY <1>1, <1>6, <1>8 DEF IInv, SizeInv
<1>13. MatchInv'
  BY <1>1 DEF IInv, MatchInv, NamenodeMatchesList
<1> QED
  BY <1>10, <1>11, <1>12, <1>13 DEF IInv

\* The log grows by a proposed list.
LEMMA ProposeStep ==
  ASSUME IInv, NEW m \in Machines, NEW list \in plan[m], Propose(m, list)
  PROVE  IInv'
<1>0. /\ plan \in [Machines -> SUBSET SUBSET Machines] /\ dlog \in Seq(SUBSET Machines) /\ Len(dlog) \in Nat
      /\ dapplied \in [Machines -> Nat] /\ \A x \in Machines : dapplied[x] <= Len(dlog)
      /\ snapshot \in [Machines -> [index : Nat, list : SUBSET Machines]]
      /\ \A x \in Machines : snapshot[x].index <= Len(dlog)
  BY DEF IInv, TypeInv
<1>1. /\ UNCHANGED <<up, dapplied, namenode_list, leader, nn, nn_timer, leaked, snapshot>>
      /\ plan' = [plan EXCEPT ![m] = plan[m] \ {list}]
      /\ dlog' = dlog \/ (Len(dlog) < MaxLog /\ dlog' = Append(dlog, list))
  BY DEF Propose
<1>2. plan' \in [Machines -> SUBSET SUBSET Machines] /\ \A x \in Machines : plan'[x] \subseteq plan[x]
  BY <1>0, <1>1
<1>3. list \in SUBSET Machines /\ list # {} /\ Sized(list)
  BY <1>0 DEF IInv, SizeInv
<1>4. /\ dlog' \in Seq(SUBSET Machines) /\ Len(dlog') \in Nat /\ Len(dlog) <= Len(dlog') /\ Len(dlog') <= MaxLog
      /\ \A i \in 1..Len(dlog) : dlog'[i] = dlog[i]
      /\ \A i \in 1..Len(dlog') : i \in 1..Len(dlog) \/ dlog'[i] = list
  <2>0. Len(dlog) <= MaxLog
    BY DEF IInv, TypeInv
  <2>1. CASE dlog' = dlog
    BY <1>0, <2>0, <2>1
  <2>2. CASE Len(dlog) < MaxLog /\ dlog' = Append(dlog, list)
    <3>1. dlog' \in Seq(SUBSET Machines) /\ Len(dlog') = Len(dlog) + 1
      BY <1>0, <1>3, <2>2
    <3>2. /\ \A i \in 1..Len(dlog) : dlog'[i] = dlog[i]
          /\ dlog'[Len(dlog) + 1] = list
      BY <1>0, <1>3, <2>2
    <3>3. /\ Len(dlog') \in Nat /\ Len(dlog) <= Len(dlog') /\ Len(dlog') <= MaxLog
          /\ \A i \in 1..Len(dlog') : i \in 1..Len(dlog) \/ i = Len(dlog) + 1
      BY <1>0, <2>2, <3>1, ElectionAssumption
    <3> QED
      BY <3>1, <3>2, <3>3
  <2> QED
    BY <1>1, <2>1, <2>2
<1>5. TypeInv'
  <2>1. \A x \in Machines : dapplied'[x] <= Len(dlog') /\ snapshot'[x].index <= Len(dlog')
    BY <1>0, <1>1, <1>4
  <2> QED
    BY <1>1, <1>2, <1>4, <2>1 DEF IInv, TypeInv
<1>6. LeaderInv'
  BY <1>1 DEF IInv, LeaderInv
<1>7. SizeInv'
  BY <1>1, <1>2, <1>3, <1>4 DEF IInv, SizeInv
<1>8. MatchInv'
  <2>1. ASSUME NEW x \in Machines, up[x], dapplied[x] > 0 PROVE namenode_list'[x] = dlog'[dapplied'[x]]
    <3>1. dapplied[x] \in 1..Len(dlog) /\ namenode_list[x] = dlog[dapplied[x]]
      BY <1>0, <2>1 DEF IInv, MatchInv, NamenodeMatchesList
    <3> QED
      BY <1>1, <1>4, <3>1
  <2>2. ASSUME NEW x \in Machines, snapshot[x].index > 0 PROVE snapshot'[x].list = dlog'[snapshot'[x].index]
    <3>1. snapshot[x].index \in 1..Len(dlog) /\ snapshot[x].list = dlog[snapshot[x].index]
      BY <1>0, <2>2 DEF IInv, MatchInv
    <3> QED
      BY <1>1, <1>4, <3>1
  <2> QED
    BY <1>1, <2>1, <2>2 DEF IInv, MatchInv, NamenodeMatchesList
<1> QED
  BY <1>5, <1>6, <1>7, <1>8 DEF IInv

\* A machine applies a list: its namenode is started, changed or stopped.
LEMMA ApplyStep ==
  ASSUME IInv, NEW m \in Machines, NEW j \in 1..Len(dlog), on_apply(m, j)
  PROVE  IInv'
<1>0. /\ up \in [Machines -> BOOLEAN] /\ dlog \in Seq(SUBSET Machines)
      /\ dapplied \in [Machines -> Nat] /\ \A x \in Machines : dapplied[x] <= Len(dlog)
      /\ namenode_list \in [Machines -> SUBSET Machines]
      /\ nn \in [Machines -> Namenode \cup {NoNamenode}]
      /\ nn_timer \in [Machines -> {"none", "running", "ended"}] /\ leaked \in [Machines -> 0..MaxTimers]
  BY DEF IInv, TypeInv
<1> DEFINE new == on_namenodes_change(m, dlog[j])
<1>1. /\ UNCHANGED <<up, dlog, leader, plan, snapshot>> /\ up[m]
      /\ dapplied' = [dapplied EXCEPT ![m] = j]
      /\ namenode_list' = [namenode_list EXCEPT ![m] = dlog[j]]
      /\ nn' = [nn EXCEPT ![m] = new]
  BY DEF on_apply
<1>2. dlog[j] \in SUBSET Machines /\ j \in Nat /\ j <= Len(dlog) /\ j > 0
  BY <1>0
<1>3. /\ new \in Namenode \cup {NoNamenode}
      /\ new # NoNamenode => m \in dlog[j] /\ new.peers = dlog[j]
  <2> DEFINE l == dlog[j]
  <2>1. l \in SUBSET Machines
    BY <1>2
  <2>2. new = IF m \notin l THEN NoNamenode
              ELSE IF nn[m] = NoNamenode THEN [peers |-> l, how |-> "start"]
              ELSE [peers |-> l,
                    how |-> IF KeepsMajority(nn[m].peers, l) THEN "change_peers" ELSE "reset_peers"]
    BY DEF on_namenodes_change
  <2> HIDE DEF l, new
  <2>3. new = NoNamenode \/ (m \in l /\ \E h \in {"start", "change_peers", "reset_peers"} : new = [peers |-> l, how |-> h])
    BY <2>2
  <2>4. ASSUME m \in l, NEW h \in {"start", "change_peers", "reset_peers"}, new = [peers |-> l, how |-> h]
        PROVE  new \in Namenode /\ m \in l /\ new.peers = l
    BY <2>1, <2>4 DEF Namenode
  <2>5. (new \in Namenode \/ new = NoNamenode) /\ (new # NoNamenode => m \in l /\ new.peers = l)
    BY <2>3, <2>4
  <2> QED
    BY <2>5 DEF l
<1> HIDE DEF new
<1>4. /\ dapplied'[m] = j /\ namenode_list'[m] = dlog[j] /\ nn'[m] = new
      /\ \A x \in Machines : x # m => /\ dapplied'[x] = dapplied[x] /\ namenode_list'[x] = namenode_list[x]
                                      /\ nn'[x] = nn[x]
  BY <1>0, <1>1
<1>5. nn_timer' \in [Machines -> {"none", "running", "ended"}] /\ leaked' \in [Machines -> 0..MaxTimers]
  <2>1. \/ nn_timer' = [nn_timer EXCEPT ![m] = "running"]
        \/ nn_timer' = [nn_timer EXCEPT ![m] = "none"]
    BY DEF on_apply
  <2>2. nn_timer' \in [Machines -> {"none", "running", "ended"}]
    BY <1>0, <2>1
  <2>3. \/ leaked' = leaked
        \/ leaked' = [leaked EXCEPT ![m] = leaked[m]]
        \/ leaked[m] < MaxTimers /\ leaked' = [leaked EXCEPT ![m] = leaked[m] + 1]
    BY DEF on_apply
  <2>4. leaked[m] < MaxTimers => leaked[m] + 1 \in 0..MaxTimers
    BY <1>0, ElectionAssumption
  <2>5. leaked' \in [Machines -> 0..MaxTimers]
    BY <1>0, <2>3, <2>4
  <2> QED
    BY <2>2, <2>5
<1>6. TypeInv'
  <2>1. dapplied' \in [Machines -> Nat] /\ \A x \in Machines : dapplied'[x] <= Len(dlog)
    BY <1>0, <1>1, <1>2, <1>4
  <2>2. namenode_list' \in [Machines -> SUBSET Machines]
    BY <1>0, <1>1, <1>2
  <2>3. nn' \in [Machines -> Namenode \cup {NoNamenode}]
    BY <1>0, <1>1, <1>3
  <2> QED
    BY <1>1, <1>5, <2>1, <2>2, <2>3 DEF IInv, TypeInv
<1>7. LeaderInv'
  BY <1>1 DEF IInv, LeaderInv
<1>8. SizeInv'
  <2>1. Sized(dlog[j])
    BY DEF IInv, SizeInv
  <2>2. \A x \in Machines : Sized(namenode_list'[x])
    BY <1>4, <2>1 DEF IInv, SizeInv
  <2> QED
    BY <1>1, <2>2 DEF IInv, SizeInv
<1>9. MatchInv'
  <2>1. ASSUME NEW x \in Machines
        PROVE  /\ up'[x] /\ dapplied'[x] > 0 => namenode_list'[x] = dlog'[dapplied'[x]]
               /\ nn'[x] # NoNamenode => x \in namenode_list'[x] /\ nn'[x].peers = namenode_list'[x]
               /\ ~up'[x] => nn'[x] = NoNamenode
    <3>1. CASE x = m
      BY <1>1, <1>3, <1>4, <3>1
    <3>2. CASE x # m
      BY <1>1, <1>4, <3>2 DEF IInv, MatchInv, NamenodeMatchesList
    <3> QED
      BY <3>1, <3>2
  <2> QED
    BY <1>1, <2>1 DEF IInv, MatchInv, NamenodeMatchesList
<1> QED
  BY <1>6, <1>7, <1>8, <1>9 DEF IInv

\* A snapshot is taken of the list that was applied.
LEMMA SnapshotStep ==
  ASSUME IInv, NEW m \in Machines, on_snapshot_save(m)
  PROVE  IInv'
<1>0. /\ dapplied \in [Machines -> Nat] /\ \A x \in Machines : dapplied[x] <= Len(dlog)
      /\ namenode_list \in [Machines -> SUBSET Machines]
      /\ snapshot \in [Machines -> [index : Nat, list : SUBSET Machines]]
      /\ \A x \in Machines : snapshot[x].index <= Len(dlog)
  BY DEF IInv, TypeInv
<1> DEFINE new == [index |-> dapplied[m], list |-> namenode_list[m]]
<1>1. /\ UNCHANGED <<up, dlog, dapplied, namenode_list, leader, nn, nn_timer, leaked, plan>>
      /\ up[m] /\ snapshot' = [snapshot EXCEPT ![m] = new]
  BY DEF on_snapshot_save
<1>2. new \in [index : Nat, list : SUBSET Machines] /\ new.index = dapplied[m] /\ new.list = namenode_list[m]
  BY <1>0
<1> HIDE DEF new
<1>3. snapshot'[m] = new /\ \A x \in Machines : x # m => snapshot'[x] = snapshot[x]
  BY <1>0, <1>1
<1>4. TypeInv'
  <2>1. snapshot' \in [Machines -> [index : Nat, list : SUBSET Machines]]
    BY <1>0, <1>1, <1>2
  <2>2. \A x \in Machines : snapshot'[x].index <= Len(dlog)
    BY <1>0, <1>2, <1>3
  <2> QED
    BY <1>1, <2>1, <2>2 DEF IInv, TypeInv
<1>5. LeaderInv'
  BY <1>1 DEF IInv, LeaderInv
<1>6. SizeInv'
  BY <1>1, <1>2, <1>3 DEF IInv, SizeInv
<1>7. MatchInv'
  <2>1. ASSUME NEW x \in Machines, snapshot'[x].index > 0 PROVE snapshot'[x].list = dlog[snapshot'[x].index]
    BY <1>1, <1>2, <1>3, <2>1 DEF IInv, MatchInv, NamenodeMatchesList
  <2> QED
    BY <1>1, <2>1 DEF IInv, MatchInv, NamenodeMatchesList
<1> QED
  BY <1>4, <1>5, <1>6, <1>7 DEF IInv

\* A machine goes down, or comes back with its snapshot.
LEMMA FaultSteps ==
  ASSUME IInv, NEW m \in Machines, Crash(m) \/ Restart(m)
  PROVE  IInv'
<1>0. /\ up \in [Machines -> BOOLEAN] /\ dapplied \in [Machines -> Nat]
      /\ namenode_list \in [Machines -> SUBSET Machines]
      /\ nn \in [Machines -> Namenode \cup {NoNamenode}]
      /\ nn_timer \in [Machines -> {"none", "running", "ended"}] /\ leaked \in [Machines -> 0..MaxTimers]
      /\ plan \in [Machines -> SUBSET SUBSET Machines]
      /\ snapshot \in [Machines -> [index : Nat, list : SUBSET Machines]]
      /\ Len(dlog) \in Nat
  BY DEF IInv, TypeInv
<1>1. CASE Crash(m)
  <2>1. /\ UNCHANGED <<dlog, snapshot>>
        /\ up' = [up EXCEPT ![m] = FALSE] /\ leader' = IF leader = m THEN NoLeader ELSE leader
        /\ nn' = [nn EXCEPT ![m] = NoNamenode] /\ nn_timer' = [nn_timer EXCEPT ![m] = "none"]
        /\ leaked' = [leaked EXCEPT ![m] = 0] /\ plan' = [plan EXCEPT ![m] = {}]
        /\ namenode_list' = [namenode_list EXCEPT ![m] = {}] /\ dapplied' = [dapplied EXCEPT ![m] = 0]
    BY <1>1 DEF Crash
  <2>2. /\ up'[m] = FALSE /\ nn'[m] = NoNamenode /\ plan'[m] = {} /\ namenode_list'[m] = {} /\ dapplied'[m] = 0
        /\ \A x \in Machines : x # m =>
             /\ nn'[x] = nn[x] /\ plan'[x] = plan[x]
             /\ namenode_list'[x] = namenode_list[x] /\ dapplied'[x] = dapplied[x]
    BY <1>0, <2>1
  <2>3. \A x \in Machines : x # m => up'[x] = up[x]
    BY <1>0, <2>1
  <2>4. TypeInv'
    <3>1. up' \in [Machines -> BOOLEAN]
      BY <1>0, <2>1
    <3>2. nn' \in [Machines -> Namenode \cup {NoNamenode}]
      BY <1>0, <2>1
    <3>3. leaked' \in [Machines -> 0..MaxTimers]
      BY <1>0, <2>1, ElectionAssumption
    <3>4. dapplied' \in [Machines -> Nat] /\ \A x \in Machines : dapplied'[x] <= Len(dlog)
      BY <1>0, <2>1, <2>2 DEF IInv, TypeInv
    <3>5. /\ namenode_list' \in [Machines -> SUBSET Machines]
          /\ nn_timer' \in [Machines -> {"none", "running", "ended"}]
          /\ plan' \in [Machines -> SUBSET SUBSET Machines]
      BY <1>0, <2>1
    <3>6. leader' \in Machines \cup {NoLeader}
      BY <2>1 DEF IInv, TypeInv
    <3> QED
      BY <2>1, <3>1, <3>2, <3>3, <3>4, <3>5, <3>6 DEF IInv, TypeInv
  <2>5. LeaderInv'
    <3>1. leader \in Machines \cup {NoLeader}
      BY DEF IInv, TypeInv
    <3> QED
      BY <2>1, <2>3, <3>1 DEF IInv, LeaderInv
  <2>6. SizeInv'
    <3>1. Sized({})
      BY FS_EmptySet, MachinesFinite DEF Sized
    <3> QED
      BY <2>1, <2>2, <3>1 DEF IInv, SizeInv
  <2>7. MatchInv'
    <3>1. ASSUME NEW x \in Machines
          PROVE  /\ up'[x] /\ dapplied'[x] > 0 => namenode_list'[x] = dlog'[dapplied'[x]]
                 /\ nn'[x] # NoNamenode => x \in namenode_list'[x] /\ nn'[x].peers = namenode_list'[x]
                 /\ ~up'[x] => nn'[x] = NoNamenode
      <4>1. CASE x = m
        BY <2>2, <4>1
      <4>2. CASE x # m
        BY <2>1, <2>2, <2>3, <4>2 DEF IInv, MatchInv, NamenodeMatchesList
      <4> QED
        BY <4>1, <4>2
    <3> QED
      BY <2>1, <3>1 DEF IInv, MatchInv, NamenodeMatchesList
  <2> QED
    BY <2>4, <2>5, <2>6, <2>7 DEF IInv
<1>2. CASE Restart(m)
  <2>1. /\ UNCHANGED <<dlog, leader, nn, nn_timer, leaked, plan, snapshot>> /\ ~up[m]
        /\ up' = [up EXCEPT ![m] = TRUE]
        /\ dapplied' = [dapplied EXCEPT ![m] = snapshot[m].index]
        /\ namenode_list' = [namenode_list EXCEPT ![m] = snapshot[m].list]
    BY <1>2 DEF Restart
  <2>2. snapshot[m].index \in Nat /\ snapshot[m].list \in SUBSET Machines /\ snapshot[m].index <= Len(dlog)
    BY <1>0 DEF IInv, TypeInv
  <2>3. /\ namenode_list'[m] = snapshot[m].list /\ dapplied'[m] = snapshot[m].index
        /\ \A x \in Machines : x # m => namenode_list'[x] = namenode_list[x] /\ dapplied'[x] = dapplied[x]
    BY <1>0, <2>1
  <2>4. up'[m] = TRUE /\ \A x \in Machines : x # m => up'[x] = up[x]
    BY <1>0, <2>1
  <2>5. TypeInv'
    <3>1. up' \in [Machines -> BOOLEAN]
      BY <1>0, <2>1
    <3>2. dapplied' \in [Machines -> Nat] /\ \A x \in Machines : dapplied'[x] <= Len(dlog)
      BY <1>0, <2>1, <2>2, <2>3 DEF IInv, TypeInv
    <3>3. namenode_list' \in [Machines -> SUBSET Machines]
      BY <1>0, <2>1, <2>2
    <3> QED
      BY <2>1, <3>1, <3>2, <3>3 DEF IInv, TypeInv
  <2>6. LeaderInv'
    BY <2>1, <2>4 DEF IInv, TypeInv, LeaderInv
  <2>7. SizeInv'
    BY <2>1, <2>3 DEF IInv, SizeInv
  <2>8. MatchInv'
    <3>1. ASSUME NEW x \in Machines
          PROVE  /\ up'[x] /\ dapplied'[x] > 0 => namenode_list'[x] = dlog'[dapplied'[x]]
                 /\ nn'[x] # NoNamenode => x \in namenode_list'[x] /\ nn'[x].peers = namenode_list'[x]
                 /\ ~up'[x] => nn'[x] = NoNamenode
      <4>1. CASE x = m
        BY <2>1, <2>3, <2>4, <4>1 DEF IInv, MatchInv
      <4>2. CASE x # m
        BY <2>1, <2>3, <2>4, <4>2 DEF IInv, MatchInv, NamenodeMatchesList
      <4> QED
        BY <4>1, <4>2
    <3> QED
      BY <2>1, <3>1 DEF IInv, MatchInv, NamenodeMatchesList
  <2> QED
    BY <2>5, <2>6, <2>7, <2>8 DEF IInv
<1> QED
  BY <1>1, <1>2

\* The inductive invariant.
THEOREM Invariance == Spec => []IInv
<1>1. IInv /\ [Next]_vars => IInv'
  <2> SUFFICES ASSUME IInv, [Next]_vars PROVE IInv'
    OBVIOUS
  <2>1. CASE UNCHANGED vars
    BY <2>1 DEF IInv, TypeInv, LeaderInv, SizeInv, MatchInv, NamenodeMatchesList, vars
  <2> QED
    BY <2>1, LeaderSteps, ChoiceSteps, ProposeStep, ApplyStep, SnapshotStep, FaultSteps
       DEF Next, SomePropose, OnApply
<1> QED
  BY InitInv, <1>1, PTL DEF Spec

\* The bound on hasty timers is kept.
LEMMA HastyBounded == Spec => [](hasty \in 0..MaxHasty)
<1>1. Init => hasty \in 0..MaxHasty
  BY ElectionAssumption DEF Init
<1>2. hasty \in 0..MaxHasty /\ [Next]_vars => (hasty \in 0..MaxHasty)'
  <2> SUFFICES ASSUME hasty \in 0..MaxHasty, [Next]_vars PROVE hasty' \in 0..MaxHasty
    OBVIOUS
  <2>1. ASSUME NEW m \in Machines, on_nodes_loss(m) PROVE hasty' \in 0..MaxHasty
    BY <2>1, ElectionAssumption DEF on_nodes_loss
  <2>2. ASSUME NEW m \in Machines,
               \/ Elect(m) \/ on_leader_start(m) \/ SomePropose(m) \/ OnApply(m)
               \/ on_snapshot_save(m) \/ Crash(m) \/ Restart(m) \/ StepDown
        PROVE  hasty' = hasty
    BY <2>2 DEF Elect, on_leader_start, SomePropose, Propose, OnApply, on_apply,
                on_snapshot_save, Crash, Restart, StepDown
  <2> QED
    BY <2>1, <2>2 DEF Next, StepDown, vars
<1> QED
  BY <1>1, <1>2, PTL DEF Spec

\* Every variable has the shape the code gives it.
THEOREM TypeCorrect == Spec => []TypeOK
<1>1. TypeInv /\ hasty \in 0..MaxHasty => TypeOK
  <2> SUFFICES ASSUME TypeInv, hasty \in 0..MaxHasty PROVE TypeOK
    OBVIOUS
  <2>1. Len(dlog) \in Nat
    BY DEF TypeInv
  <2>2. dapplied \in [Machines -> 0..Len(dlog)]
    BY <2>1 DEF TypeInv
  <2>3. \A m \in Machines : snapshot[m].index \in 0..Len(dlog)
    BY <2>1 DEF TypeInv
  <2>4. \A m \in Machines : nn[m] # NoNamenode => nn[m] \in Namenode
    BY DEF TypeInv
  <2> QED
    BY <2>2, <2>3, <2>4 DEF TypeInv, TypeOK, Namenode
<1> QED
  BY Invariance, HastyBounded, <1>1, PTL DEF IInv

\* Every list the group agrees on names somebody, and never more than
\* expected_nn machines.
THEOREM ListsSized == Spec => []ListsAreSized
<1>1. SizeInv => ListsAreSized
  BY DEF SizeInv, ListsAreSized, Sized
<1> QED
  BY Invariance, <1>1, PTL DEF IInv

\* A machine's namenode is the one of the list it has applied, also after it
\* came back with a snapshot.
THEOREM NamenodeMatches == Spec => []NamenodeMatchesList
<1>1. MatchInv => NamenodeMatchesList
  BY DEF MatchInv
<1> QED
  BY Invariance, <1>1, PTL DEF IInv
=============================================================================
