---------------------------- MODULE DaemonUpload ----------------------------
(***************************************************************************)
(* The client daemon's upload side (client/daemon_upload.cpp and           *)
(* daemon_upload_queue.cpp), with SDK::put and SDK::putAggFile as the      *)
(* upload threads run them, and DaemonDownload.                            *)
(*                                                                         *)
(* A task sits in one of two queues.  One thread uploads big files one by  *)
(* one; small files are uploaded in aggregates, by a second thread when    *)
(* there are enough of them and by a timer thread when time has passed.    *)
(* Client requests (put, sync, rm, get, stop) run concurrently.  Each step *)
(* below runs under one mutex or makes one remote call.                    *)
(*                                                                         *)
(* The namenode is external: a remote path is locked by put and update_lock*)
(* unlocked by put_ok, and gone after rm.  Any call of it may fail: it     *)
(* cannot be reached, or it does not lead (check_response).                *)
(***************************************************************************)
EXTENDS Naturals, Sequences, FiniteSets, SequencesExt

CONSTANTS
  Tasks,             \* the uploads clients request, each made once
  Remote,            \* Remote[t]: remote_path of task t
  Size,              \* Size[t]: size of its file
  FilesizeBoundary,  \* files up to this size are small
  AggSizeBoundary,   \* FLAGS_agg_size_boundary
  NoTask,            \* nullptr
  Removed,           \* the remote paths clients call rm for
  Fetched,           \* the remote paths clients call get for
  MayStop,           \* whether stop() is called
  MaxFailed          \* bound: no call fails any more after this many tasks failed

Names == {Remote[t] : t \in Tasks}

\* Where rm(p) is while it does not wait for a task.
RmSteps == {"idle", "small", "remote", "removing", "removed", "done"}

ASSUME DaemonAssumption ==
  /\ IsFiniteSet(Tasks) /\ NoTask \notin Tasks /\ Tasks \cap RmSteps = {}
  /\ DOMAIN Remote = Tasks
  /\ Size \in [Tasks -> Nat]
  /\ FilesizeBoundary \in Nat /\ AggSizeBoundary \in Nat \ {0}
  /\ Removed \subseteq Names /\ Fetched \subseteq Names
  /\ MayStop \in BOOLEAN /\ MaxFailed \in Nat

VARIABLES
  que,       \* que[q]: UploadQueue::_que of queue q
  map,       \* map[q][p]: UploadQueue::_map, never erased
  task,      \* task[t]: [status, belong_que, stage]; stage tells how far the task
             \* has come: "new", "queued", "done"
  stop,      \* DaemonUpload::_stop
  dead,      \* an exception left a thread function: std::terminate
  mutex,     \* mutex[q]: _mtx_small_file / _mtx_big_file is held by the thread
  notified,  \* notified[q]: the waiting thread of q has been notified
  pc,        \* pc[q]: where the upload thread of q is
  current,   \* the big file being uploaded
  agg,       \* agg[a]: the aggregate upload made by thread a
  recent,    \* less than agg_timer_interval since last_small_file_upload
  moving,    \* tasks fsync has taken out of the small queue
  rms,       \* rms[p]: where DaemonUpload::rm(p) is
  remote,    \* remote[p]: the inode at p, [exists, locked]
  uploaded,  \* history: tasks whose put_ok went through
  failed,    \* history: tasks in whose upload a call failed, NoTask for a call
             \* made for an empty batch
  gets       \* gets[p]: where DaemonDownload::download(p) is, and, for history,
             \* whether an upload of p had been accepted when it began

vars == <<que, map, task, stop, dead, mutex, notified, pc, current, agg, recent,
          moving, rms, remote, uploaded, failed, gets>>

Queues == {"small", "big"}
Aggregators == {"small", "timer"}
Status == {"NONE", "WAITING", "DATA_UPLOADING", "META_UPLOADING", "CANCELED", "FINISHED"}

QueueFor(t) == IF Size[t] <= FilesizeBoundary THEN "small" ELSE "big"

-----------------------------------------------------------------------------
(* UploadQueue                                                             *)

empty(q) == que[q] = << >>

\* Queues have no capacity limit here (capacity -1).  A task that enters a
\* queue is WAITING, whatever it was.
push_back(q, t) ==
  /\ que' = [que EXCEPT ![q] = Append(@, t)]
  /\ map' = [map EXCEPT ![q][Remote[t]] = t]
  /\ task' = [task EXCEPT ![t] = [status |-> "WAITING", belong_que |-> q, stage |-> "queued"]]

Total(s) == FoldSeq(LAMBDA t, sum : Size[t] + sum, 0, s)

current_all_smallfile_size == Total(que["small"])

\* The longest prefix that stays below the limit.
FittingPrefixes(s, limit) == {i \in 0..Len(s) : i > 0 => Total(SubSeq(s, 1, i)) < limit}
get_until_size(limit) ==
  LET s == que["small"]
      n == Max(FittingPrefixes(s, limit))
  IN  SubSeq(s, 1, n)
AfterGetUntilSize(limit) ==
  LET s == que["small"] IN SubSeq(s, Len(get_until_size(limit)) + 1, Len(s))

find_in_map(q, p) == map[q][p]

\* The status is that of the task the map holds for the path, which is not
\* necessarily the task being uploaded.
change_status(q, p, s) ==
  IF map[q][p] = NoTask THEN task ELSE [task EXCEPT ![map[q][p]].status = s]

\* Mutant: UploadQueue::ls does not look into the map.
LookupQueueOnly(q, p) ==
  LET queued == {t \in Range(que[q]) : Remote[t] = p}
  IN  IF queued # {} THEN CHOOSE t \in queued : TRUE ELSE NoTask

\* UploadQueue::ls: a queued task first, then the map unless cancelled.
Lookup(q, p) ==
  LET queued == {t \in Range(que[q]) : Remote[t] = p}
  IN  IF queued # {} THEN CHOOSE t \in queued : TRUE
      ELSE IF map[q][p] # NoTask /\ task[map[q][p]].status # "CANCELED"
      THEN map[q][p] ELSE NoTask

\* Mutant: notify_one is forgotten.
NotifyNobody(q) == UNCHANGED notified

\* notify_one only reaches a thread that is waiting.
Notify(q) == notified' = [notified EXCEPT ![q] = @ \/ pc[q] = "waiting"]

Alive == ~dead

-----------------------------------------------------------------------------
(* Client requests                                                         *)

\* Requests are served until the daemon is torn down: ~Daemon stops the RPC
\* server and waits for the requests under way, and only then are its members
\* destroyed, which is what calls DaemonUpload::stop.
Serving == ~dead /\ ~stop

\* The request waits for the queue's mutex; a big file holds it all through
\* its upload.
Upload(t) ==
  LET q == QueueFor(t)
  IN  /\ Serving /\ task[t].stage = "new"
      /\ ~mutex[q]
      /\ push_back(q, t)
      /\ Notify(q)
      /\ UNCHANGED <<stop, dead, mutex, pc, current, agg, recent, moving,
                     rms, remote, uploaded, failed, gets>>

\* Mutant: exist_in_que leaves the task in the queue.
FsyncTakeNoErase(t) ==
  /\ Serving /\ t \in Range(que["small"])
  /\ moving' = moving \cup {t}
  /\ UNCHANGED <<que, map, task, stop, dead, mutex, notified, pc, current, agg, recent,
                 rms, remote, uploaded, failed, gets>>

\* fsync: exist_in_que takes the task out of the small queue ...
FsyncTake(t) ==
  /\ Serving
  /\ \E x \in DOMAIN que["small"] : /\ que["small"][x] = t
                                   /\ que' = [que EXCEPT !["small"] = RemoveAt(@, x)]
  /\ moving' = moving \cup {t}
  /\ UNCHANGED <<map, task, stop, dead, mutex, notified, pc, current, agg, recent,
                 rms, remote, uploaded, failed, gets>>

\* ... and puts it into the big one, once the big-file thread lets it.
FsyncPush(t) ==
  /\ Alive /\ t \in moving
  /\ ~mutex["big"]
  /\ moving' = moving \ {t}
  /\ push_back("big", t)
  /\ Notify("big")
  /\ UNCHANGED <<stop, dead, mutex, pc, current, agg, recent, rms, remote, uploaded,
                 failed, gets>>

\* Mutant: find_in_map's null is not looked at.
RmStartUnchecked(p) ==
  /\ Serving /\ rms[p] = "idle"
  /\ rms' = [rms EXCEPT ![p] = find_in_map("big", p)]
  /\ UNCHANGED <<que, map, task, stop, dead, mutex, notified, pc, current, agg, recent,
                 moving, remote, uploaded, failed, gets>>

\* Where rm(p) is: "idle", spinning on a task, "small", "remote", "removing",
\* "removed" (after a spin) or "done".
RmStart(p) ==
  /\ Serving /\ rms[p] = "idle"
  /\ rms' = [rms EXCEPT ![p] = IF find_in_map("big", p) # NoTask
                               THEN find_in_map("big", p) ELSE "small"]
  /\ UNCHANGED <<que, map, task, stop, dead, mutex, notified, pc, current, agg, recent,
                 moving, remote, uploaded, failed, gets>>

\* Mutant: rm does not wait for the end of the upload.
RmSpinNoWait(p) ==
  /\ Alive /\ rms[p] \in Tasks
  /\ rms' = [rms EXCEPT ![p] = "removing"]
  /\ UNCHANGED <<que, map, task, stop, dead, mutex, notified, pc, current, agg, recent,
                 moving, remote, uploaded, failed, gets>>

\* A big file: spin until it is uploaded.
RmSpin(p) ==
  /\ Alive /\ rms[p] \in Tasks
  /\ task[rms[p]].status = "FINISHED"
  /\ rms' = [rms EXCEPT ![p] = "removing"]
  /\ UNCHANGED <<que, map, task, stop, dead, mutex, notified, pc, current, agg, recent,
                 moving, remote, uploaded, failed, gets>>

\* A small file: UploadQueue::rm cancels it unless its metadata is on its way.
RmSmall(p) ==
  LET t == find_in_map("small", p)
  IN  /\ Alive /\ rms[p] = "small"
      /\ rms' = [rms EXCEPT ![p] = IF t = NoTask THEN "remote" ELSE "done"]
      /\ task' = IF t # NoTask /\ task[t].status \in {"WAITING", "DATA_UPLOADING"}
                 THEN change_status("small", p, "CANCELED") ELSE task
      /\ UNCHANGED <<que, map, stop, dead, mutex, notified, pc, current, agg, recent,
                     moving, remote, uploaded, failed, gets>>

\* sdk.rm(p); the namenode refuses a path that is not there.  When the call
\* fails the client is told so.
RmRemote(p) ==
  /\ Alive /\ rms[p] \in {"remote", "removing"}
  /\ \/ /\ rms' = [rms EXCEPT ![p] = IF @ = "removing" THEN "removed" ELSE "done"]
        /\ remote' = [remote EXCEPT ![p] = [exists |-> FALSE, locked |-> FALSE]]
     \/ rms' = [rms EXCEPT ![p] = "done"] /\ UNCHANGED remote
  /\ UNCHANGED <<que, map, task, stop, dead, mutex, notified, pc, current, agg, recent,
                 moving, uploaded, failed, gets>>

\* DaemonDownload::download(p): the two queues are asked one after the other,
\* each under its own mutex.  A path that one of them knows goes to local_que
\* and is copied from the local file, otherwise it goes to remote_que.
Download(p) ==
  /\ Serving /\ gets[p].step = "idle"
  /\ gets' = [gets EXCEPT ![p] =
       [step     |-> IF Lookup("big", p) # NoTask THEN "local_que" ELSE "ask_small",
        accepted |-> \E t \in Tasks : Remote[t] = p /\ task[t].stage # "new"]]
  /\ UNCHANGED <<que, map, task, stop, dead, mutex, notified, pc, current, agg, recent,
                 moving, rms, remote, uploaded, failed>>

DownloadAskSmall(p) ==
  /\ Alive /\ gets[p].step = "ask_small"
  /\ gets' = [gets EXCEPT ![p].step =
                IF Lookup("small", p) # NoTask THEN "local_que" ELSE "remote_que"]
  /\ UNCHANGED <<que, map, task, stop, dead, mutex, notified, pc, current, agg, recent,
                 moving, rms, remote, uploaded, failed>>

NoDownload == [step |-> "idle", accepted |-> FALSE]

\* The copying threads: an error is logged and the request is over.
thread_file_download(p) ==
  /\ Alive /\ gets[p].step \in {"local_que", "remote_que"}
  /\ gets' = [gets EXCEPT ![p] = NoDownload]
  /\ UNCHANGED <<que, map, task, stop, dead, mutex, notified, pc, current, agg, recent,
                 moving, rms, remote, uploaded, failed>>

\* stop() sets the flag and joins the threads; nobody is notified.
Stop ==
  /\ Serving /\ MayStop
  /\ moving = {} /\ \A p \in Names : gets[p].step # "ask_small"
  /\ \A p \in Names : rms[p] \in {"idle", "removed", "done"}
  /\ stop' = TRUE
  /\ UNCHANGED <<que, map, task, dead, mutex, notified, pc, current, agg, recent,
                 moving, rms, remote, uploaded, failed, gets>>

-----------------------------------------------------------------------------
(* The upload threads: while (!_stop) { lock; wait; work; exit check }     *)

LoopTop(q) ==
  /\ Alive /\ pc[q] = "top"
  /\ \/ stop /\ pc' = [pc EXCEPT ![q] = "exited"] /\ UNCHANGED mutex
     \/ /\ ~stop /\ ~mutex[q]
        /\ pc' = [pc EXCEPT ![q] = "check"]
        /\ mutex' = [mutex EXCEPT ![q] = TRUE]
  /\ UNCHANGED <<que, map, task, stop, dead, notified, current, agg, recent, moving,
                 rms, remote, uploaded, failed, gets>>

\* The predicate of cv.wait is false: release the mutex and sleep.
Sleep(q) ==
  /\ Alive /\ pc[q] = "check"
  /\ empty(q) /\ ~stop
  /\ pc' = [pc EXCEPT ![q] = "waiting"]
  /\ mutex' = [mutex EXCEPT ![q] = FALSE]
  /\ UNCHANGED <<que, map, task, stop, dead, notified, current, agg, recent, moving,
                 rms, remote, uploaded, failed, gets>>

Wake(q) ==
  /\ Alive /\ pc[q] = "waiting"
  /\ notified[q] /\ ~mutex[q]
  /\ notified' = [notified EXCEPT ![q] = FALSE]
  /\ pc' = [pc EXCEPT ![q] = "check"]
  /\ mutex' = [mutex EXCEPT ![q] = TRUE]
  /\ UNCHANGED <<que, map, task, stop, dead, current, agg, recent, moving,
                 rms, remote, uploaded, failed, gets>>

\* The end of the loop body, and the release of the mutex.
LoopEnd(q) ==
  /\ Alive /\ pc[q] = "end"
  /\ pc' = [pc EXCEPT ![q] = IF stop /\ empty(q) THEN "exited" ELSE "top"]
  /\ mutex' = [mutex EXCEPT ![q] = FALSE]
  /\ UNCHANGED <<que, map, task, stop, dead, notified, current, agg, recent, moving,
                 rms, remote, uploaded, failed, gets>>

-----------------------------------------------------------------------------
(* Big files: SDK::put, with _mtx_big_file held throughout.                *)

\* A call made for the tasks ts fails and changes nothing at the namenode.  (When
\* only its answer is lost, put and put_ok go on as if the call had succeeded,
\* and the others end the daemon.)
CallFails(ts) ==
  /\ Cardinality(failed) < MaxFailed
  /\ failed' = failed \cup (IF ts = {} THEN {NoTask} ELSE ts)

\* Mutant: the file is uploaded from the front of the queue and left there.
BigTakeFront ==
  /\ Alive /\ pc["big"] = "check"
  /\ ~empty("big")
  /\ current' = Head(que["big"])
  /\ pc' = [pc EXCEPT !["big"] = "put"]
  /\ UNCHANGED <<que, map, task, stop, dead, mutex, notified, agg, recent, moving, rms,
                 remote, uploaded, failed, gets>>

BigTake ==
  /\ Alive /\ pc["big"] = "check"
  /\ \/ /\ ~empty("big")
        /\ current' = Head(que["big"])
        /\ que' = [que EXCEPT !["big"] = Tail(@)]
        /\ pc' = [pc EXCEPT !["big"] = "put"]
     \/ /\ empty("big") /\ stop
        /\ pc' = [pc EXCEPT !["big"] = "end"]
        /\ UNCHANGED <<que, current>>
  /\ UNCHANGED <<map, task, stop, dead, mutex, notified, agg, recent, moving, rms,
                 remote, uploaded, failed, gets>>

\* namenode_put: a lock conflict is printed and otherwise ignored, and so is a
\* call that fails.
BigNamenodePut ==
  /\ Alive /\ pc["big"] = "put"
  /\ \/ /\ remote' = [remote EXCEPT ![Remote[current]] = [exists |-> TRUE, locked |-> TRUE]]
        /\ UNCHANGED failed
     \/ CallFails({current}) /\ UNCHANGED remote
  /\ pc' = [pc EXCEPT !["big"] = "lock"]
  /\ UNCHANGED <<que, map, task, stop, dead, mutex, notified, current, agg, recent,
                 moving, rms, uploaded, gets>>

\* _lock_remote throws for a path that is not there and when the call fails, and
\* nothing catches it.
BigLockRemote ==
  LET p == Remote[current]
  IN  /\ Alive /\ pc["big"] = "lock"
      /\ \/ /\ (~remote[p].exists /\ UNCHANGED failed) \/ CallFails({current})
            /\ dead' = TRUE
            /\ UNCHANGED <<remote, task, pc>>
         \/ /\ remote[p].exists
            /\ remote' = [remote EXCEPT ![p].locked = TRUE]
            /\ task' = change_status(task[current].belong_que, p, "DATA_UPLOADING")
            /\ pc' = [pc EXCEPT !["big"] = "data"]
            /\ UNCHANGED <<dead, failed>>
      /\ UNCHANGED <<que, map, stop, mutex, notified, current, agg, recent, moving,
                     rms, uploaded, gets>>

\* datanode_put throws when the datanode it asks for the list of datanodes
\* (get_online_datanodes) does not answer.
BigDatanodePut ==
  /\ Alive /\ pc["big"] = "data"
  /\ \/ /\ CallFails({current})
        /\ dead' = TRUE
        /\ UNCHANGED <<task, pc>>
     \/ /\ task' = change_status(task[current].belong_que, Remote[current], "META_UPLOADING")
        /\ pc' = [pc EXCEPT !["big"] = "putok"]
        /\ UNCHANGED <<dead, failed>>
  /\ UNCHANGED <<que, map, stop, mutex, notified, current, agg, recent, moving,
                 rms, remote, uploaded, gets>>

\* namenode_putok: a failure is printed and otherwise ignored.
BigNamenodePutOk ==
  LET p == Remote[current]
  IN  /\ Alive /\ pc["big"] = "putok"
      /\ \/ /\ remote[p].exists
            /\ remote' = [remote EXCEPT ![p].locked = FALSE]
            /\ uploaded' = uploaded \cup {current}
            /\ UNCHANGED failed
         \/ /\ (~remote[p].exists /\ UNCHANGED failed) \/ CallFails({current})
            /\ UNCHANGED <<remote, uploaded>>
      /\ pc' = [pc EXCEPT !["big"] = "finish"]
      /\ UNCHANGED <<que, map, task, stop, dead, mutex, notified, current, agg, recent,
                     moving, rms, gets>>

BigFinish ==
  /\ Alive /\ pc["big"] = "finish"
  /\ task' = [change_status(task[current].belong_que, Remote[current], "FINISHED")
               EXCEPT ![current].stage = "done"]
  /\ current' = NoTask
  /\ pc' = [pc EXCEPT !["big"] = "end"]
  /\ UNCHANGED <<que, map, stop, dead, mutex, notified, agg, recent, moving,
                 rms, remote, uploaded, failed, gets>>

-----------------------------------------------------------------------------
(* Small files: small_file_aggregate_upload and SDK::putAggFile.           *)

\* FileInfo::task_ptr is null in the aggregates the daemon builds, so none of
\* putAggFile's branches on it is taken: it neither looks at the status of a
\* task nor sets it.

Batch(a) == Range(agg[a].files)
BatchNames(a) == {Remote[t] : t \in Batch(a)}
NoAggregate == [step |-> "none", files |-> << >>]

\* The small-file thread uploads when enough has come together; otherwise it
\* goes round its loop again.
SmallCheck ==
  /\ Alive /\ pc["small"] = "check"
  /\ ~empty("small") \/ stop
  /\ pc' = [pc EXCEPT !["small"] =
       IF current_all_smallfile_size >= AggSizeBoundary THEN "take" ELSE "end"]
  /\ UNCHANGED <<que, map, task, stop, dead, mutex, notified, current, agg, recent, moving,
                 rms, remote, uploaded, failed, gets>>

\* Mutant: the batch stays in the queue while it is uploaded.
SmallTakeNoPop ==
  /\ Alive /\ pc["small"] = "take"
  /\ agg' = [agg EXCEPT !["small"] =
               [step |-> "put_batch", files |-> get_until_size(AggSizeBoundary)]]
  /\ pc' = [pc EXCEPT !["small"] = "upload"]
  /\ UNCHANGED <<que, map, task, stop, dead, mutex, notified, current, recent, moving, rms,
                 remote, uploaded, failed, gets>>

\* By now fsync or the timer may have taken what was counted; the batch may
\* even be empty, and is uploaded all the same.
SmallTake ==
  /\ Alive /\ pc["small"] = "take"
  /\ agg' = [agg EXCEPT !["small"] =
               [step |-> "put_batch", files |-> get_until_size(AggSizeBoundary)]]
  /\ que' = [que EXCEPT !["small"] = AfterGetUntilSize(AggSizeBoundary)]
  /\ pc' = [pc EXCEPT !["small"] = "upload"]
  /\ UNCHANGED <<map, task, stop, dead, mutex, notified, current, recent, moving, rms,
                 remote, uploaded, failed, gets>>

\* The timer thread takes what there is, without _mtx_small_file.
TimerTake ==
  /\ Alive /\ agg["timer"] = NoAggregate
  /\ ~recent
  /\ get_until_size(AggSizeBoundary) # << >>
  /\ agg' = [agg EXCEPT !["timer"] =
               [step |-> "put_batch", files |-> get_until_size(AggSizeBoundary)]]
  /\ que' = [que EXCEPT !["small"] = AfterGetUntilSize(AggSizeBoundary)]
  /\ UNCHANGED <<map, task, stop, dead, mutex, notified, pc, current, recent, moving, rms,
                 remote, uploaded, failed, gets>>

\* The next three calls throw when they fail, also when one path of the batch is
\* locked or not there, and the exception leaves the thread function.  (What a
\* call that fails has changed at the namenode, no thread is left to see.)
AggCallThrows(a, paths) ==
  /\ (paths # {} /\ UNCHANGED failed) \/ CallFails(Batch(a))
  /\ dead' = TRUE
  /\ UNCHANGED <<remote, agg, task, uploaded, recent, pc>>

AggPutBatch(a) ==
  /\ Alive /\ agg[a].step = "put_batch"
  /\ \/ AggCallThrows(a, {p \in BatchNames(a) : remote[p].locked})
     \/ /\ \A p \in BatchNames(a) : ~remote[p].locked
        /\ remote' = [p \in Names |-> IF p \in BatchNames(a)
                        THEN [exists |-> TRUE, locked |-> TRUE] ELSE remote[p]]
        /\ agg' = [agg EXCEPT ![a].step = "lock"]
        /\ UNCHANGED <<task, pc, recent, uploaded, dead, failed>>
  /\ UNCHANGED <<que, map, stop, mutex, notified, current, moving, rms, gets>>

\* _lock_remote for every file, then the aggregate goes to the datanodes; the
\* call for the list of datanodes (get_online_datanodes) may fail too.
AggLock(a) ==
  /\ Alive /\ agg[a].step = "lock"
  /\ \/ AggCallThrows(a, {p \in BatchNames(a) : ~remote[p].exists})
     \/ /\ \A p \in BatchNames(a) : remote[p].exists
        /\ remote' = [p \in Names |-> IF p \in BatchNames(a)
                        THEN [exists |-> TRUE, locked |-> TRUE] ELSE remote[p]]
        /\ agg' = [agg EXCEPT ![a].step = "put_ok_batch"]
        /\ UNCHANGED <<task, pc, recent, uploaded, dead, failed>>
  /\ UNCHANGED <<que, map, stop, mutex, notified, current, moving, rms, gets>>

\* put_ok_batch, and the return to the caller, which notes the time.
AggPutOkBatch(a) ==
  /\ Alive /\ agg[a].step = "put_ok_batch"
  /\ \/ AggCallThrows(a, {p \in BatchNames(a) : ~remote[p].exists})
     \/ /\ \A p \in BatchNames(a) : remote[p].exists
        /\ remote' = [p \in Names |-> IF p \in BatchNames(a)
                        THEN [exists |-> TRUE, locked |-> FALSE] ELSE remote[p]]
        /\ uploaded' = uploaded \cup Batch(a)
        /\ task' = [t \in Tasks |-> IF t \in Batch(a)
                      THEN [task[t] EXCEPT !.stage = "done"] ELSE task[t]]
        /\ recent' = TRUE
        /\ agg' = [agg EXCEPT ![a] = NoAggregate]
        /\ pc' = IF a = "small" THEN [pc EXCEPT !["small"] = "end"] ELSE pc
        /\ UNCHANGED <<dead, failed>>
  /\ UNCHANGED <<que, map, stop, mutex, notified, current, moving, rms, gets>>

IntervalPasses ==
  /\ Alive /\ recent
  /\ recent' = FALSE
  /\ UNCHANGED <<que, map, task, stop, dead, mutex, notified, pc, current, agg, moving,
                 rms, remote, uploaded, failed, gets>>

\* The threads do not refresh their locks; the namenode lets them run out.  (Once
\* the daemon has ended nobody asks for them.)
LockExpires(p) ==
  /\ Alive /\ remote[p].locked
  /\ remote' = [remote EXCEPT ![p].locked = FALSE]
  /\ UNCHANGED <<que, map, task, stop, dead, mutex, notified, pc, current, agg, recent,
                 moving, rms, uploaded, failed, gets>>

-----------------------------------------------------------------------------

Init ==
  /\ que = [q \in Queues |-> << >>]
  /\ map = [q \in Queues |-> [p \in Names |-> NoTask]]
  /\ task = [t \in Tasks |-> [status |-> "NONE", belong_que |-> QueueFor(t), stage |-> "new"]]
  /\ stop = FALSE
  /\ dead = FALSE
  /\ mutex = [q \in Queues |-> FALSE]
  /\ notified = [q \in Queues |-> FALSE]
  /\ pc = [q \in Queues |-> "top"]
  /\ current = NoTask
  /\ agg = [a \in Aggregators |-> NoAggregate]
  /\ recent = FALSE
  /\ moving = {}
  /\ rms = [p \in Names |-> "idle"]
  /\ remote = [p \in Names |-> [exists |-> FALSE, locked |-> FALSE]]
  /\ uploaded = {}
  /\ failed = {}
  /\ gets = [p \in Names |-> NoDownload]

Loop(q) == LoopTop(q) \/ Sleep(q) \/ Wake(q) \/ LoopEnd(q)

BigThread == \/ Loop("big") \/ BigTake \/ BigNamenodePut \/ BigLockRemote
             \/ BigDatanodePut \/ BigNamenodePutOk \/ BigFinish

Aggregate(a) == AggPutBatch(a) \/ AggLock(a) \/ AggPutOkBatch(a)

SmallThread == Loop("small") \/ SmallCheck \/ SmallTake \/ Aggregate("small")

TimerThread == TimerTake \/ Aggregate("timer")

Client ==
  \/ \E t \in Tasks : Upload(t) \/ FsyncTake(t) \/ FsyncPush(t)
  \/ \E p \in Removed : RmStart(p) \/ RmSpin(p) \/ RmSmall(p) \/ RmRemote(p)
  \/ \E p \in Fetched : Download(p) \/ DownloadAskSmall(p)
  \/ Stop

Next == \/ BigThread \/ SmallThread \/ TimerThread \/ Client \/ IntervalPasses
        \/ \E p \in Names : LockExpires(p) \/ thread_file_download(p)

Spec == Init /\ [][Next]_vars

\* Threads run, time passes, and a request that waits for a mutex gets it once it
\* stays free.
FairSpec ==
  /\ Spec
  /\ WF_vars(BigThread) /\ WF_vars(SmallThread) /\ WF_vars(TimerThread)
  /\ WF_vars(IntervalPasses)
  /\ WF_vars(\E t \in Tasks : FsyncPush(t))

-----------------------------------------------------------------------------
(* Properties                                                              *)

\* Every variable has the shape the code gives it.
TypeOK ==
  /\ que \in [Queues -> Seq(Tasks)]
  /\ map \in [Queues -> [Names -> Tasks \cup {NoTask}]]
  /\ task \in [Tasks -> [status : Status, belong_que : Queues,
                         stage : {"new", "queued", "done"}]]
  /\ mutex \in [Queues -> BOOLEAN] /\ notified \in [Queues -> BOOLEAN]
  /\ pc \in [Queues -> {"top", "check", "waiting", "take", "upload", "put", "lock",
                        "data", "putok", "finish", "end", "exited"}]
  /\ current \in Tasks \cup {NoTask}
  /\ \A a \in Aggregators : agg[a].files \in Seq(Tasks)
  /\ moving \subseteq Tasks
  /\ rms \in [Names -> Tasks \cup RmSteps]
  /\ remote \in [Names -> [exists : BOOLEAN, locked : BOOLEAN]]
  /\ uploaded \subseteq Tasks /\ failed \subseteq Tasks \cup {NoTask}
  /\ gets \in [Names -> [step : {"idle", "ask_small", "local_que", "remote_que"},
                      accepted : BOOLEAN]]

\* How often a task occurs in the queues and in the hands of the threads.
Occurrences(t) ==
  LET in(s) == Cardinality({i \in DOMAIN s : s[i] = t})
  IN  in(que["small"]) + in(que["big"]) + in(agg["small"].files) + in(agg["timer"].files)
      + (IF current = t THEN 1 ELSE 0) + (IF t \in moving THEN 1 ELSE 0)

\* Nothing is lost and nothing is uploaded twice: an accepted task is in one
\* queue, or with one thread, or done, although fsync, the timer and the
\* small-file thread take tasks out of the same queue without a common lock
\* (exist_in_que and get_until_size only share _mtx_que), and the daemon may
\* stop.
TaskInOnePlace ==
  \A t \in Tasks : Occurrences(t) = IF task[t].stage = "queued" THEN 1 ELSE 0

\* No two tasks name one remote path.
DistinctRemote == \A t, u \in Tasks : Remote[t] = Remote[u] => t = u

\* Once rm of a file that the big-file queue knows has returned, the file is
\* gone for good: no step of its upload comes after the removal and brings it
\* back, also when fsync moved the file there (the spin of DaemonUpload::rm on
\* FINISHED).
RemovedStaysRemoved ==
  DistinctRemote => \A p \in Names : rms[p] = "removed" => ~remote[p].exists

\* An exception leaves a thread, and ends the daemon, only after a call of an
\* upload has failed or somebody has asked to remove a file: otherwise no lock
\* conflict and no missing path meets an upload, whatever fsync and the timer
\* move between the queues.
UploadsDoNotClash ==
  DistinctRemote /\ dead => failed # {} \/ \E p \in Names : rms[p] # "idle"

\* The accepted tasks that are still to be stored: a client waits for them
\* rightly, since no call of their uploads has failed, their paths are not
\* removed and the daemon goes on.
Pending == {t \in Tasks : /\ task[t].stage # "new" /\ t \notin uploaded \cup failed
                         /\ rms[Remote[t]] = "idle" /\ ~stop /\ ~dead}

\* Every accepted task is stored in the end, unless a call of its upload fails,
\* its path is removed or the daemon ends: the condition variable misses no
\* push, files too few for an aggregate are taken by the timer, nobody waits
\* for a mutex for ever, and what is FINISHED without having been stored has met
\* a failure (namenode_putok swallows it).
UploadsComplete == Pending # {} ~> Pending = {}

\* A file that was accepted for upload is served from its local copy until it is
\* uploaded, unless somebody removes it: download's two lookups miss it neither
\* while fsync moves it from the small to the big queue nor while a thread has
\* taken it out of its queue.
DownloadsFindUploads ==
  \A t \in Tasks :
    LET p == Remote[t] IN
    gets[p].step = "remote_que" /\ gets[p].accepted => t \in uploaded \/ rms[p] # "idle"

\* Who has a task out of its queue, and the tasks nobody has.
Uploaders == {"big"} \cup Aggregators
Held == [u \in Uploaders |-> IF u = "big" THEN {current} \ {NoTask} ELSE Batch(u)]
Done == {t \in Tasks : task[t].stage = "done"}
Waiting == {t \in Tasks : task[t].stage = "queued" /\ \A u \in Uploaders : t \notin Held[u]}

Pool == INSTANCE UploadPool WITH
  waiting <- Waiting, held <- Held, stored <- uploaded, done <- Done

\* The two queues, fsync, the aggregates and the timer come to the same as one
\* pool of tasks: each accepted task is taken by one uploader, stored at most
\* once and by that one, a batch is stored as a whole, and only what an
\* uploader is through with is done (get_until_size, exist_in_que, pop_front).
ImplementsPool == Pool!Spec

\* rm cancels the upload of a small file that is not yet under way.
CancelledNotUploaded ==
  [][\A t \in Tasks : task[t].status = "CANCELED" => t \in uploaded \/ t \notin uploaded']_vars
=============================================================================
