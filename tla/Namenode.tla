------------------------------ MODULE Namenode ------------------------------
(***************************************************************************)
(* The namenode service (node/namenode.cpp) on top of its raft group       *)
(* (node/raft_nn.cpp).                                                     *)
(*                                                                         *)
(* A request handler runs on one namenode in several steps: it checks that *)
(* the node is the leader, reads the LOCAL store to decide whether the     *)
(* operation is possible (prepare), and proposes the inode it read as a    *)
(* log entry.  Every replica applies the committed entries later and in    *)
(* order (on_apply); the store may have changed in between, and nothing is *)
(* checked again.                                                          *)
(*                                                                         *)
(* braft is external and reduced to what the code relies on: one committed *)
(* log, a leader that only accepts proposals while it leads, replicas that *)
(* lag arbitrarily, and a restart that replays the log from its beginning, *)
(* because the applied position is not stored with the RocksDB data.       *)
(***************************************************************************)
EXTENDS Namespace, Sequences

CONSTANTS
  Nodes,       \* the namenodes
  NoLeader,    \* braft::Node::leader_id() is empty
  Handlers,    \* how many requests are served at a time, overall
  Requests,    \* the requests clients make: [op, paths, blocks]
  MaxCalls,    \* bound: number of requests
  MaxFaults,   \* bound: number of crashes and leader changes
  MaxTime      \* bound: the clock

VARIABLES
  log,         \* committed entries of the raft group
  hist,        \* history: hist[i+1] is the store after entries 1..i, once each
  db,          \* db[n]: the RocksDB store of n, survives a crash
  applied,     \* applied[n]: entries n has applied since it started
  up,          \* up[n]: n's process is running
  leader,      \* the leader, or NoLeader
  clock,       \* get_time(), in units of its own
  rpc,         \* rpc[h]: the request handler h is serving
  calls,       \* requests made so far
  faults       \* crashes and leader changes so far

vars == <<log, hist, db, applied, up, leader, clock, rpc, calls, faults>>

OpTypes == {"OP_MKDIR", "OP_PUT", "OP_PUTOK", "OP_PUTBATCH", "OP_PUTOKBATCH", "OP_RM"}

RequestOps == {"mkdir", "rm", "put", "put_batch", "put_ok", "put_ok_batch", "update_lock"}

Request == [op : RequestOps, paths : SUBSET Paths, blocks : SUBSET Blocks]

\* A log entry: the operation and the inodes it carries, or an AggInode.
IsEntry(e) == \/ /\ DOMAIN e = {"op", "inodes"}
                 /\ e.op \in OpTypes
                 /\ IsInodeMap(e.inodes)
                 /\ DOMAIN e.inodes # {}
              \/ /\ DOMAIN e = {"op", "id", "files"}
                 /\ e.op = "OP_PUTAGG"
                 /\ e.id \in AggIds
                 /\ e.files \in SUBSET Paths

ASSUME NamenodeAssumption ==
  /\ AggIds = (1..MaxTime) \X Nodes
  /\ NoLeader \notin Nodes
  /\ Requests \subseteq Request
  /\ \A r \in Requests :
        /\ r.paths # {}
        /\ r.op \notin {"put_batch", "put_ok_batch", "update_lock"}
              => \E p \in Paths : r.paths = {p}
  /\ MaxCalls \in Nat /\ MaxFaults \in Nat /\ MaxTime \in Nat \ {0}

-----------------------------------------------------------------------------
(* Applying an entry: the body of RaftNN::on_apply.                        *)

Writes(d, e) ==
  LET p == CHOOSE q \in DOMAIN e.inodes : TRUE
      inode == e.inodes[p]
  IN  CASE e.op = "OP_PUTAGG"     -> internal_put_agg(d, e.id, e.files)
        [] e.op = "OP_PUTBATCH"   -> internal_put_batch(d, e.inodes)
        [] e.op = "OP_PUTOKBATCH" -> internal_put_ok_batch(d, e.inodes)
        [] e.op = "OP_MKDIR"      -> internal_mkdir(d, p, inode)
        [] e.op = "OP_PUT"        -> internal_put(d, p, inode)
        [] e.op = "OP_PUTOK"      -> internal_put_ok(d, p, inode)
        [] e.op = "OP_RM"         -> internal_rm(d, p, inode)

\* Applying e fails the assertion of get_parent_inode and aborts the process.
Trips(d, e) ==
  /\ e.op \in {"OP_MKDIR", "OP_PUTOK", "OP_PUTOKBATCH", "OP_RM"}
  /\ \E p \in DOMAIN e.inodes : ParentMissing(d, p)

-----------------------------------------------------------------------------
(* Request handlers                                                        *)

Idle == [op |-> "idle"]

\* The paths of todo are still to be prepared, inodes are prepared, entries
\* are still to be proposed, and the response waits for entry wait (0: for
\* none yet).
Busy(r, n, id) == [op |-> r.op, node |-> n, todo |-> r.paths, blocks |-> r.blocks,
                   id |-> id, inodes |-> << >>, entries |-> << >>, wait |-> 0]

\* The machine the namenode of n names as leader: itself when raft's leader_id
\* is empty.
RaftNNLeader(n) == IF leader = NoLeader THEN n ELSE leader

check_leader(n) == RaftNNLeader(n) = n

\* The entries a handler proposes once every inode is prepared.
Proposals(op, inodes, id) ==
  CASE op = "mkdir"        -> <<[op |-> "OP_MKDIR", inodes |-> inodes]>>
    [] op = "rm"           -> <<[op |-> "OP_RM", inodes |-> inodes]>>
    [] op = "put"          -> <<[op |-> "OP_PUT", inodes |-> inodes]>>
    [] op = "update_lock"  -> <<[op |-> "OP_PUT", inodes |-> inodes]>>
    [] op = "put_batch"    -> <<[op |-> "OP_PUTBATCH", inodes |-> inodes]>>
    [] op = "put_ok"       -> <<[op |-> "OP_PUTOK", inodes |-> inodes]>>
    [] op = "put_ok_batch" -> <<[op |-> "OP_PUTOKBATCH", inodes |-> inodes],
                                [op |-> "OP_PUTAGG", id |-> id,
                                 files |-> DOMAIN inodes]>>

\* The prepare step of the operation on one path does not throw.
CanPrepare(c, p) ==
  LET d == db[c.node]
  IN  CASE c.op = "mkdir"                    -> CanMkdir(d, p)
        [] c.op = "rm"                       -> CanRm(d, p)
        [] c.op \in {"put", "put_batch"}     -> CanPut(d, p, clock)
        [] c.op \in {"put_ok", "put_ok_batch"} -> CanPutOk(d, p)
        [] c.op = "update_lock"              -> CanLs(d, p)

\* The inode it prepares.  update_lock takes whatever is stored at the path
\* and moves its deadline; it asks neither who holds the lock nor whether
\* the path is a file.
Prepared(c, p) ==
  LET d == db[c.node]
  IN  CASE c.op = "mkdir"                -> get_default_dir
        [] c.op = "rm"                   -> prepare_rm
        [] c.op \in {"put", "put_batch"} -> prepare_put(d, p, clock)
        [] c.op = "put_ok"               -> prepare_put_ok(d, p, c.blocks)
        [] c.op = "put_ok_batch"         ->
             [prepare_put_ok(d, p, c.blocks) EXCEPT !.agg_inode_id = c.id]
        [] c.op = "update_lock"          -> update_ddl_lock(get_inode(d, p), clock)

\* A request arrives at n, which passes check_leader.  mkdir already reads
\* the parent here, the path in the next step.  The id of an aggregate file
\* comes from a generator made for this one request, so it is the time and
\* the node.
Call(h, n, r) ==
  /\ rpc[h] = Idle
  /\ calls < MaxCalls
  /\ up[n]
  /\ check_leader(n)
  /\ r.op = "mkdir" => \A p \in r.paths : ParentExists(db[n], p)
  /\ rpc' = [rpc EXCEPT ![h] =
       Busy(r, n, IF r.op = "put_ok_batch" THEN <<clock, n>> ELSE NoAgg)]
  /\ calls' = calls + 1
  /\ UNCHANGED <<log, hist, db, applied, up, leader, clock, faults>>

\* The handler's loop over its paths.  update_lock proposes path by path,
\* the others when all inodes are prepared.
Prepare(h, p) ==
  LET c == rpc[h]
      now == [q \in DOMAIN c.inodes \cup {p} |->
                IF q = p THEN Prepared(c, p) ELSE c.inodes[q]]
      ready == c.op = "update_lock" \/ c.todo = {p}
  IN  /\ c # Idle
      /\ p \in c.todo
      /\ c.entries = << >>
      /\ CanPrepare(c, p)
      /\ rpc' = [rpc EXCEPT ![h] =
           [c EXCEPT !.todo = @ \ {p},
                     !.inodes = IF ready THEN << >> ELSE now,
                     !.entries = IF ready THEN Proposals(c.op, now, c.id) ELSE @]]
      /\ UNCHANGED <<log, hist, db, applied, up, leader, clock, calls, faults>>

\* prepare_* or ls throws: the handler answers with the failure.  Entries an
\* update_lock has proposed for earlier paths stay proposed.
PrepareThrows(h, p) ==
  LET c == rpc[h]
  IN  /\ c # Idle
      /\ p \in c.todo
      /\ c.entries = << >>
      /\ ~CanPrepare(c, p)
      /\ rpc' = [rpc EXCEPT ![h] = Idle]
      /\ UNCHANGED <<log, hist, db, applied, up, leader, clock, calls, faults>>

\* raft_node->apply(task) on the leader; only the first task of a request
\* carries the closure that sends the response.
Propose(h) ==
  LET c == rpc[h]
      e == Head(c.entries)
  IN  /\ c # Idle
      /\ c.entries # << >>
      /\ leader = c.node
      /\ log' = Append(log, e)
      /\ hist' = Append(hist, Writes(hist[Len(hist)], e))
      /\ rpc' = [rpc EXCEPT ![h] =
           [c EXCEPT !.entries = Tail(@),
                     !.wait = IF @ = 0 THEN Len(log) + 1 ELSE @]]
      /\ UNCHANGED <<db, applied, up, leader, clock, calls, faults>>

\* The node does not lead (any more): the task fails, its entry is lost.
ProposeFails(h) ==
  LET c == rpc[h]
  IN  /\ c # Idle
      /\ c.entries # << >>
      /\ leader # c.node
      /\ rpc' = [rpc EXCEPT ![h] = [c EXCEPT !.entries = Tail(@)]]
      /\ UNCHANGED <<log, hist, db, applied, up, leader, clock, calls, faults>>

\* Mutant: the closure of a task that failed does not run.
RespondOnSuccess(h) ==
  LET c == rpc[h]
  IN  /\ c # Idle
      /\ c.todo = {}
      /\ c.entries = << >>
      /\ c.wait > 0 /\ applied[c.node] >= c.wait
      /\ rpc' = [rpc EXCEPT ![h] = Idle]
      /\ UNCHANGED <<log, hist, db, applied, up, leader, clock, calls, faults>>

\* The closure has run: its entry is applied here, or the node lost its
\* leadership and braft failed the closure, applied or not.
Respond(h) ==
  LET c == rpc[h]
  IN  /\ c # Idle
      /\ c.todo = {}
      /\ c.entries = << >>
      /\ applied[c.node] >= c.wait \/ leader # c.node
      /\ rpc' = [rpc EXCEPT ![h] = Idle]
      /\ UNCHANGED <<log, hist, db, applied, up, leader, clock, calls, faults>>

-----------------------------------------------------------------------------
(* Replicas                                                                *)

\* Mutant: the iterator is advanced twice.
OnApplySkips(n) ==
  LET e == log[applied[n] + 1]
  IN  /\ up[n]
      /\ applied[n] < Len(log)
      /\ ~Trips(db[n], e)
      /\ db' = [db EXCEPT ![n] = Writes(@, e)]
      /\ applied' = [applied EXCEPT ![n] = @ + 2]
      /\ UNCHANGED <<log, hist, up, leader, clock, rpc, calls, faults>>

OnApply(n) ==
  LET e == log[applied[n] + 1]
  IN  /\ up[n]
      /\ applied[n] < Len(log)
      /\ ~Trips(db[n], e)
      /\ db' = [db EXCEPT ![n] = Writes(@, e)]
      /\ applied' = [applied EXCEPT ![n] = @ + 1]
      /\ UNCHANGED <<log, hist, up, leader, clock, rpc, calls, faults>>

\* What the end of n's process means for everybody else.
Gone(n) ==
  /\ up' = [up EXCEPT ![n] = FALSE]
  /\ leader' = IF leader = n THEN NoLeader ELSE leader
  /\ rpc' = [h \in Handlers |->
       IF rpc[h] # Idle /\ rpc[h].node = n THEN Idle ELSE rpc[h]]
  /\ UNCHANGED <<log, hist, db, applied, clock, calls>>

\* The assertion in get_parent_inode fails.
Abort(n) ==
  /\ up[n]
  /\ applied[n] < Len(log)
  /\ Trips(db[n], log[applied[n] + 1])
  /\ Gone(n)
  /\ UNCHANGED faults

Crash(n) ==
  /\ up[n]
  /\ faults < MaxFaults
  /\ Gone(n)
  /\ faults' = faults + 1

\* Mutant: a restart takes the store for current and skips the replay.
RestartNoReplay(n) ==
  /\ ~up[n]
  /\ up' = [up EXCEPT ![n] = TRUE]
  /\ applied' = [applied EXCEPT ![n] = Len(log)]
  /\ UNCHANGED <<log, hist, db, leader, clock, rpc, calls, faults>>

\* The process starts again: the store is as it was left, and braft replays
\* the log from the first entry.
Restart(n) ==
  /\ ~up[n]
  /\ up' = [up EXCEPT ![n] = TRUE]
  /\ applied' = [applied EXCEPT ![n] = 0]
  /\ UNCHANGED <<log, hist, db, leader, clock, rpc, calls, faults>>

\* An election.  The new leader has every committed entry, but it need not
\* have applied them.
Elect(n) ==
  /\ up[n]
  /\ leader = NoLeader
  /\ leader' = n
  /\ UNCHANGED <<log, hist, db, applied, up, clock, rpc, calls, faults>>

StepDown ==
  /\ leader # NoLeader
  /\ faults < MaxFaults
  /\ leader' = NoLeader
  /\ faults' = faults + 1
  /\ UNCHANGED <<log, hist, db, applied, up, clock, rpc, calls>>

Tick ==
  /\ clock < MaxTime
  /\ clock' = clock + 1
  /\ UNCHANGED <<log, hist, db, applied, up, leader, rpc, calls, faults>>

-----------------------------------------------------------------------------

Init ==
  /\ log = << >>
  /\ hist = <<EmptyDatabase>>
  /\ db = [n \in Nodes |-> EmptyDatabase]
  /\ applied = [n \in Nodes |-> 0]
  /\ up = [n \in Nodes |-> TRUE]
  /\ leader = NoLeader
  /\ clock = 1
  /\ rpc = [h \in Handlers |-> Idle]
  /\ calls = 0
  /\ faults = 0

Handle(h) == \/ \E p \in Paths : Prepare(h, p) \/ PrepareThrows(h, p)
             \/ Propose(h) \/ ProposeFails(h)
             \/ Respond(h)

Next ==
  \/ \E h \in Handlers : \/ \E n \in Nodes, r \in Requests : Call(h, n, r)
                         \/ Handle(h)
  \/ \E n \in Nodes : OnApply(n) \/ Abort(n) \/ Crash(n) \/ Restart(n) \/ Elect(n)
  \/ StepDown
  \/ Tick

Spec == Init /\ [][Next]_vars

-----------------------------------------------------------------------------
(* Properties                                                              *)

\* Every variable has the shape the code gives it.
TypeOK ==
  /\ \A i \in 1..Len(log) : IsEntry(log[i])
  /\ hist \in Seq(Database) /\ Len(hist) = Len(log) + 1
  /\ db \in [Nodes -> Database]
  /\ applied \in [Nodes -> 0..Len(log)]
  /\ up \in [Nodes -> BOOLEAN]
  /\ leader \in Nodes \cup {NoLeader}
  /\ clock \in 1..MaxTime
  /\ \A h \in Handlers : rpc[h] # Idle =>
       /\ rpc[h].op \in RequestOps
       /\ rpc[h].node \in Nodes
       /\ rpc[h].todo \subseteq Paths
       /\ IsInodeMap(rpc[h].inodes)
       /\ \A i \in 1..Len(rpc[h].entries) : IsEntry(rpc[h].entries[i])
       /\ rpc[h].wait \in 0..Len(log)
  /\ calls \in 0..MaxCalls
  /\ faults \in 0..MaxFaults

\* Replaying is harmless.  A namenode that has applied the whole log holds the
\* store that applying it once, in order, to an empty store gives, however
\* often it crashed and replayed the log over data that was already newer
\* (raft_nn.cpp on_apply, with RocksDB kept across restarts).
CaughtUpReplicasAgree ==
  \A n \in Nodes : applied[n] = Len(log) => db[n] = hist[Len(log) + 1]

\* No dangling entry: whatever a listing names has a record in the same store,
\* on every replica, at every moment, under every interleaving of handlers
\* (internal_mkdir and internal_put_ok write entry and record in one batch,
\* update_lock and put write back listings read earlier).
DentryHasRecord ==
  \A n \in Nodes, q, p \in Paths, k \in BOOLEAN :
    /\ db[n].inodes[q] # NotFound
    /\ db[n].inodes[q].sub[Dentry(p, k)] > 0
    => db[n].inodes[p] # NotFound

\* A listing names nothing twice (the find() before every push_back), also
\* after a replay.
NoDuplicateDentry ==
  \A n \in Nodes, q \in Paths :
    db[n].inodes[q] # NotFound => \A x \in Items : db[n].inodes[q].sub[x] <= 1

\* However late a mkdir is applied, and whatever was removed meanwhile, it
\* never fails the assertion of get_parent_inode: only requests that did not
\* check the parent can (prepare_mkdir checks it, prepare_put does not).
MkdirNeverTrips ==
  \A i \in 1..Len(log) : log[i].op = "OP_MKDIR" => ~Trips(hist[i], log[i])

\* No entry of the log is bound to abort every namenode that applies it.
Healthy == \A i \in 1..Len(log) : ~Trips(hist[i], log[i])

\* What a valid directory lists exists and is of the listed kind.  Requests
\* that overlap can break it, requests one after the other cannot.
ListedChildMatches ==
  Healthy => \A n \in Nodes, q, p \in Paths, k \in BOOLEAN :
    LET dir == db[n].inodes[q]
    IN  dir # NotFound /\ dir.valid /\ dir.is_directory /\ dir.sub[Dentry(p, k)] > 0
          => /\ db[n].inodes[p] # NotFound
             /\ db[n].inodes[p].valid
             /\ db[n].inodes[p].is_directory = k

\* put is granted only while nobody holds an unexpired lock on the path
\* (Inode::lock throws "file is being edit!").
GrantRespectsLock ==
  [][\A h \in Handlers :
       Healthy /\ Propose(h) /\ rpc[h].op \in {"put", "put_batch"} =>
         \A p \in DOMAIN Head(rpc[h].entries).inodes :
           ~LockConflict(get_inode(hist[Len(hist)], p), clock)]_vars

\* Taking or refreshing a lock leaves the blocks of every file and the entries
\* of every directory as they are: sub holds what the last put_ok stored
\* (put and update_lock write back the whole inode they read).
LockOpsKeepContent ==
  Healthy => \A i \in 1..Len(log) : log[i].op \in {"OP_PUT", "OP_PUTBATCH"} =>
    \A p \in Paths : get_inode(hist[i + 1], p).sub = get_inode(hist[i], p).sub

\* assert(inode.parent_path() == "/") of get_parent_inode holds whenever an
\* entry is applied: a parent without a record is "/".
ParentPathMustBeRoot ==
  \A n \in Nodes : up[n] /\ applied[n] < Len(log)
                     => ~Trips(db[n], log[applied[n] + 1])

\* Every request is answered, although its node may crash, lose its
\* leadership, or throw at any step.
EveryRequestAnswered == \A h \in Handlers : (rpc[h] # Idle) ~> (rpc[h] = Idle)

\* Once requests and crashes stop, all namenodes hold the same store, unless an
\* entry aborts each of them again and again.
ReplicasConverge == <>[](Healthy => \A m, n \in Nodes : db[m] = db[n])
=============================================================================
