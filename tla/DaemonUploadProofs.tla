------------------------- MODULE DaemonUploadProofs -------------------------
(***************************************************************************)
(* Proofs about module DaemonUpload, for any tasks, paths and sizes.       *)
(*                                                                         *)
(* A task is in one place at a time (OnePlaceInv): every step that takes   *)
(* one out of a place puts it into another one, and sequences hold it at   *)
(* most once.  From that, with a path for every task: a path is written to *)
(* only by the thread that has its task, so the path is not locked before  *)
(* its upload begins, is there while it goes on unless a call has failed   *)
(* (ClashInv), and is left alone after it (RemoveInv).  The maps never     *)
(* forget a path (MapInv), which is why a download finds an upload that was *)
(* accepted (GetInv).                                                      *)
(* The last section shows that the daemon implements UploadPool.           *)
(***************************************************************************)
EXTENDS DaemonUpload, FiniteSetTheorems, WellFoundedInduction, TLAPS

Stages == {"new", "queued", "done"}
Task == [status : Status, belong_que : Queues, stage : Stages]
AggSteps == {"none", "put_batch", "lock", "put_ok_batch"}
BigSteps == {"put", "lock", "data", "putok", "finish"}

TypeInv ==
  /\ que \in [Queues -> Seq(Tasks)]
  /\ map \in [Queues -> [Names -> Tasks \cup {NoTask}]]
  /\ task \in [Tasks -> Task]
  /\ mutex \in [Queues -> BOOLEAN] /\ notified \in [Queues -> BOOLEAN]
  /\ pc \in [Queues -> {"top", "check", "waiting", "take", "upload", "put", "lock",
                        "data", "putok", "finish", "end", "exited"}]
  /\ current \in Tasks \cup {NoTask}
  /\ agg \in [Aggregators -> [step : AggSteps, files : Seq(Tasks)]]
  /\ moving \subseteq Tasks
  /\ rms \in [Names -> Tasks \cup RmSteps]
  /\ remote \in [Names -> [exists : BOOLEAN, locked : BOOLEAN]]
  /\ uploaded \subseteq Tasks
  /\ gets \in [Names -> [step : {"idle", "ask_small", "local_que", "remote_que"},
                         accepted : BOOLEAN]]

\* The threads hold tasks only while they upload.
ThreadInv ==
  /\ current # NoTask <=> pc["big"] \in BigSteps
  /\ pc["small"] = "upload" <=> agg["small"].step # "none"
  /\ \A a \in Aggregators : agg[a].step = "none" => agg[a].files = << >>

NoDup(s) == \A x, y \in 1..Len(s) : x # y => s[x] # s[y]

Places == {"small", "big", "agg_small", "agg_timer", "current", "moving"}

\* The task is at the place.
Has(w, t) ==
  \/ (w = "small" /\ t \in Range(que["small"]))
  \/ (w = "big" /\ t \in Range(que["big"]))
  \/ (w = "agg_small" /\ t \in Batch("small"))
  \/ (w = "agg_timer" /\ t \in Batch("timer"))
  \/ (w = "current" /\ t = current)
  \/ (w = "moving" /\ t \in moving)

\* Tasks under way are in one place, the others in none.
OnePlaceInv ==
  \A t \in Tasks :
    /\ \A w, v \in Places : Has(w, t) /\ Has(v, t) => w = v
    /\ task[t].stage = "queued" <=> \E w \in Places : Has(w, t)

NoDupInv ==
  /\ \A q \in Queues : NoDup(que[q])
  /\ \A a \in Aggregators : NoDup(agg[a].files)

\* The maps hold tasks under their own path, and keep a path once a task for it
\* has been accepted.  Only rm cancels.
MapInv ==
  /\ \A q \in Queues, p \in Names : map[q][p] # NoTask => Remote[map[q][p]] = p
  /\ \A t \in Tasks : task[t].stage # "new" => /\ map[QueueFor(t)][Remote[t]] # NoTask
                                               /\ map[task[t].belong_que][Remote[t]] # NoTask
  /\ \A t \in Tasks : task[t].status = "CANCELED" => rms[Remote[t]] # "idle"

\* A download that misses an accepted path does so only after an rm.
GetInv ==
  \A p \in Names :
    /\ (gets[p].step = "ask_small" /\ gets[p].accepted) =>
         map["small"][p] # NoTask \/ rms[p] # "idle"
    /\ (gets[p].step = "remote_que" /\ gets[p].accepted) => rms[p] # "idle"

\* rm spins on the task of its own path; when the spin is over so is the upload.
RemoveInv ==
  DistinctRemote =>
    /\ \A t \in Tasks : task[t].status = "FINISHED" => task[t].stage = "done"
    /\ \A p \in Names :
         /\ rms[p] \in Tasks => Remote[rms[p]] = p
         /\ rms[p] \in {"removing", "removed"} =>
              \E t \in Tasks : Remote[t] = p /\ task[t].stage = "done"
         /\ rms[p] = "removed" => ~remote[p].exists

\* The upload of the task has not begun.
Untouched(t) ==
  \/ task[t].stage = "new"
  \/ Has("small", t) \/ Has("big", t) \/ Has("moving", t)
  \/ (Has("agg_small", t) /\ agg["small"].step = "put_batch")
  \/ (Has("agg_timer", t) /\ agg["timer"].step = "put_batch")
  \/ (Has("current", t) /\ pc["big"] = "put")

\* While nobody removes anything and no call fails, a path is not locked before
\* its upload begins and is there until the upload ends.
ClashInv ==
  DistinctRemote /\ failed = {} /\ (\A p \in Names : rms[p] = "idle") =>
    /\ ~dead
    /\ \A t \in Tasks : Untouched(t) => ~remote[Remote[t]].locked
    /\ \A t \in Tasks : (task[t].stage = "queued" /\ ~Untouched(t)) => remote[Remote[t]].exists

\* The inductive invariant.
IInv == /\ TypeInv /\ ThreadInv /\ OnePlaceInv /\ NoDupInv /\ MapInv
        /\ GetInv /\ RemoveInv /\ ClashInv

-----------------------------------------------------------------------------
(* Sequences                                                               *)

\* A sequence as the values at its indices.
LEMMA RangeIs ==
  ASSUME NEW S, NEW s \in Seq(S)
  PROVE  /\ Range(s) = {s[x] : x \in 1..Len(s)} /\ Range(s) \subseteq S
         /\ Len(s) \in Nat
<1>1. DOMAIN s = 1..Len(s) /\ Len(s) \in Nat /\ \A x \in 1..Len(s) : s[x] \in S
  OBVIOUS
<1> QED
  BY <1>1 DEF Range

\* push_back of what is not there.
LEMMA AppendRange ==
  ASSUME NEW S, NEW s \in Seq(S), NEW e \in S
  PROVE  /\ Append(s, e) \in Seq(S)
         /\ Range(Append(s, e)) = Range(s) \cup {e}
         /\ (NoDup(s) /\ e \notin Range(s)) => NoDup(Append(s, e))
<1> DEFINE r == Append(s, e)
<1>1. /\ r \in Seq(S) /\ Len(r) = Len(s) + 1 /\ Len(s) \in Nat
      /\ \A x \in 1..Len(s) : r[x] = s[x]
      /\ r[Len(s) + 1] = e
  OBVIOUS
<1> HIDE DEF r
<1>2. \A x \in 1..Len(r) : x \in 1..Len(s) \/ x = Len(s) + 1
  BY <1>1
<1>3. 1..Len(s) \subseteq 1..Len(r) /\ Len(s) + 1 \in 1..Len(r)
  BY <1>1
<1>4. Range(s) = {s[x] : x \in 1..Len(s)} /\ Range(r) = {r[x] : x \in 1..Len(r)}
  BY <1>1, RangeIs
<1>5. Range(r) = Range(s) \cup {e}
  BY <1>1, <1>2, <1>3, <1>4
<1>6. (NoDup(s) /\ e \notin Range(s)) => NoDup(r)
  BY <1>1, <1>2, <1>4 DEF NoDup
<1> QED
  BY <1>1, <1>5, <1>6 DEF r

\* A piece of a sequence.
LEMMA SubSeqIs ==
  ASSUME NEW S, NEW s \in Seq(S), NEW m \in Nat \ {0}, NEW n \in Nat, n <= Len(s)
  PROVE  /\ SubSeq(s, m, n) \in Seq(S)
         /\ Range(SubSeq(s, m, n)) = {s[x] : x \in m..n}
         /\ NoDup(s) => NoDup(SubSeq(s, m, n))
<1> DEFINE r == SubSeq(s, m, n)
           L == IF m <= n THEN n - m + 1 ELSE 0
<1>1. /\ r \in Seq(S) /\ Len(r) = L /\ L \in Nat
  OBVIOUS
<1>2. \A x \in 1..L : r[x] = s[m + x - 1]
  OBVIOUS
<1> HIDE DEF r
<1>3. Range(r) = {r[x] : x \in 1..L}
  BY <1>1, RangeIs
<1>4. \A x \in 1..L : m + x - 1 \in m..n /\ m + x - 1 \in 1..Len(s)
  OBVIOUS
<1>5. \A y \in m..n : y - m + 1 \in 1..L /\ y = m + (y - m + 1) - 1
  OBVIOUS
<1>6. Range(r) = {s[x] : x \in m..n}
  <2>1. \A e \in Range(r) : e \in {s[x] : x \in m..n}
    BY <1>2, <1>3, <1>4
  <2>2. \A y \in m..n : s[y] \in Range(r)
    <3> TAKE y \in m..n
    <3>1. y - m + 1 \in 1..L /\ m + (y - m + 1) - 1 = y
      BY <1>5
    <3>2. r[y - m + 1] = s[m + (y - m + 1) - 1]
      BY <1>2, <3>1
    <3>3. r[y - m + 1] \in Range(r)
      BY <1>3, <3>1
    <3> QED
      BY <3>1, <3>2, <3>3
  <2> QED
    BY <2>1, <2>2
<1>7. NoDup(s) => NoDup(r)
  BY <1>1, <1>2, <1>4 DEF NoDup
<1> QED
  BY <1>1, <1>6, <1>7 DEF r

\* A sequence without doubles in two: nothing is lost and nothing is in both.
LEMMA SplitRange ==
  ASSUME NEW S, NEW s \in Seq(S), NoDup(s), NEW n \in 0..Len(s)
  PROVE  LET first == SubSeq(s, 1, n)
             rest == SubSeq(s, n + 1, Len(s))
         IN  /\ first \in Seq(S) /\ rest \in Seq(S)
             /\ NoDup(first) /\ NoDup(rest)
             /\ Range(first) \subseteq Range(s)
             /\ Range(rest) = Range(s) \ Range(first)
<1> DEFINE first == SubSeq(s, 1, n)
           rest == SubSeq(s, n + 1, Len(s))
<1>1. Len(s) \in Nat /\ n \in Nat /\ n <= Len(s) /\ n + 1 \in Nat \ {0}
  OBVIOUS
<1>2. /\ first \in Seq(S) /\ NoDup(first) /\ Range(first) = {s[x] : x \in 1..n}
  BY <1>1, SubSeqIs
<1>3. /\ rest \in Seq(S) /\ NoDup(rest) /\ Range(rest) = {s[x] : x \in (n + 1)..Len(s)}
  BY <1>1, SubSeqIs
<1>4. Range(s) = {s[x] : x \in 1..Len(s)}
  BY RangeIs
<1>5. \A x \in 1..Len(s) : x \in 1..n \/ x \in (n + 1)..Len(s)
  BY <1>1
<1>6. \A x \in 1..n, y \in (n + 1)..Len(s) : x \in 1..Len(s) /\ y \in 1..Len(s) /\ x # y
  BY <1>1
<1>7. \A x \in 1..n, y \in (n + 1)..Len(s) : s[x] # s[y]
  BY <1>6 DEF NoDup
<1>8. 1..n \subseteq 1..Len(s) /\ (n + 1)..Len(s) \subseteq 1..Len(s)
  BY <1>1
<1> HIDE DEF first, rest
<1>9. Range(first) \subseteq Range(s)
  BY <1>2, <1>4, <1>8
<1>10. Range(rest) = Range(s) \ Range(first)
  <2>1. \A e \in Range(rest) : e \in Range(s) /\ e \notin Range(first)
    BY <1>2, <1>3, <1>4, <1>7, <1>8
  <2>2. \A e \in Range(s) : e \in Range(rest) \/ e \in Range(first)
    BY <1>2, <1>3, <1>4, <1>5
  <2> QED
    BY <2>1, <2>2
<1> QED
  BY <1>2, <1>3, <1>9, <1>10 DEF first, rest

\* pop_front of a sequence without doubles.
LEMMA TailRange ==
  ASSUME NEW S, NEW s \in Seq(S), NoDup(s), s # << >>
  PROVE  /\ Tail(s) \in Seq(S) /\ NoDup(Tail(s))
         /\ Head(s) \in Range(s)
         /\ Range(Tail(s)) = Range(s) \ {Head(s)}
<1>1. Len(s) \in Nat /\ Len(s) > 0 /\ Head(s) = s[1]
  OBVIOUS
<1>2. Tail(s) \in Seq(S) /\ Len(Tail(s)) = Len(s) - 1 /\ \A x \in 1..(Len(s) - 1) : Tail(s)[x] = s[x + 1]
  BY <1>1
<1>3. Range(s) = {s[x] : x \in 1..Len(s)} /\ Range(Tail(s)) = {Tail(s)[x] : x \in 1..Len(Tail(s))}
  BY <1>2, RangeIs
<1>4. \A x \in 1..(Len(s) - 1) : x + 1 \in 1..Len(s) /\ x + 1 # 1
  BY <1>1
<1>5. \A y \in 1..Len(s) : y = 1 \/ (y - 1 \in 1..(Len(s) - 1) /\ y = (y - 1) + 1)
  BY <1>1
<1>6. 1 \in 1..Len(s)
  BY <1>1
<1>7. NoDup(Tail(s))
  BY <1>2, <1>4 DEF NoDup
<1>8. Range(Tail(s)) = Range(s) \ {Head(s)}
  <2>1. \A e \in Range(Tail(s)) : e \in Range(s) /\ e # Head(s)
    BY <1>1, <1>2, <1>3, <1>4, <1>6 DEF NoDup
  <2>2. \A e \in Range(s) : e = Head(s) \/ e \in Range(Tail(s))
    <3> SUFFICES ASSUME NEW y \in 1..Len(s), y # 1
                 PROVE  s[y] \in Range(Tail(s))
      BY <1>1, <1>3
    <3>1. y - 1 \in 1..(Len(s) - 1) /\ Tail(s)[y - 1] = s[y]
      BY <1>2, <1>5
    <3> QED
      BY <1>2, <1>3, <3>1
  <2> QED
    BY <2>1, <2>2
<1> QED
  BY <1>1, <1>2, <1>3, <1>6, <1>7, <1>8

\* erase of one element of a sequence without doubles.
LEMMA EraseRange ==
  ASSUME NEW S, NEW s \in Seq(S), NoDup(s), NEW x \in 1..Len(s)
  PROVE  /\ RemoveAt(s, x) \in Seq(S) /\ NoDup(RemoveAt(s, x))
         /\ Range(RemoveAt(s, x)) = Range(s) \ {s[x]}
<1> DEFINE r == RemoveAt(s, x)
           F == SubSeq(s, 1, x - 1)
           G == SubSeq(s, x + 1, Len(s))
           at(y) == IF y < x THEN y ELSE y + 1
<1>1. Len(s) \in Nat /\ x \in Nat
  OBVIOUS
<1>2. F \in Seq(S) /\ Len(F) = x - 1 /\ \A y \in 1..(x - 1) : F[y] = s[y]
  BY <1>1
<1>3. G \in Seq(S) /\ Len(G) = Len(s) - x /\ \A y \in 1..(Len(s) - x) : G[y] = s[x + y]
  BY <1>1
<1>4. r = F \o G
  BY DEF RemoveAt
<1> HIDE DEF F, G, r
<1>5. /\ r \in Seq(S) /\ Len(r) = Len(s) - 1
      /\ \A y \in 1..(Len(s) - 1) : r[y] = IF y <= x - 1 THEN F[y] ELSE G[y - (x - 1)]
  BY <1>1, <1>2, <1>3, <1>4
<1>6. \A y \in 1..(Len(s) - 1) : r[y] = s[at(y)]
  <2> TAKE y \in 1..(Len(s) - 1)
  <2>1. CASE y < x
    <3>1. y <= x - 1 /\ y \in 1..(x - 1)
      BY <1>1, <2>1
    <3> QED
      BY <1>2, <1>5, <2>1, <3>1
  <2>2. CASE ~(y < x)
    <3>1. ~(y <= x - 1) /\ y - (x - 1) \in 1..(Len(s) - x) /\ x + (y - (x - 1)) = y + 1
      BY <1>1, <2>2
    <3>2. r[y] = G[y - (x - 1)]
      BY <1>5, <3>1
    <3>3. G[y - (x - 1)] = s[x + (y - (x - 1))]
      BY <1>3, <3>1
    <3> QED
      BY <2>2, <3>1, <3>2, <3>3
  <2> QED
    BY <2>1, <2>2
<1>7. \A y \in 1..(Len(s) - 1) : at(y) \in 1..Len(s) /\ at(y) # x
  BY <1>1
<1>8. \A z \in 1..Len(s) : z # x => \E y \in 1..(Len(s) - 1) : z = at(y)
  <2> SUFFICES ASSUME NEW z \in 1..Len(s), z # x
               PROVE  \E y \in 1..(Len(s) - 1) : z = at(y)
    OBVIOUS
  <2>1. CASE z < x
    <3>1. z \in 1..(Len(s) - 1) /\ z = at(z)
      BY <1>1, <2>1
    <3> QED
      BY <3>1
  <2>2. CASE z > x
    <3>1. z - 1 \in 1..(Len(s) - 1) /\ z = at(z - 1)
      BY <1>1, <2>2
    <3> QED
      BY <3>1
  <2> QED
    BY <1>1, <2>1, <2>2
<1>9. \A y, z \in 1..(Len(s) - 1) : y # z => at(y) # at(z)
  BY <1>1
<1> HIDE DEF at
<1>10. NoDup(r)
  BY <1>5, <1>6, <1>7, <1>9 DEF NoDup
<1>11. Range(s) = {s[y] : y \in 1..Len(s)} /\ Range(r) = {r[y] : y \in 1..(Len(s) - 1)}
  <2>1. Range(r) = {r[y] : y \in 1..Len(r)}
    BY <1>5, RangeIs
  <2> QED
    BY <1>5, <2>1, RangeIs
<1>12. \A e \in Range(r) : e \in Range(s) /\ e # s[x]
  BY <1>6, <1>7, <1>11 DEF NoDup
<1>13. \A e \in Range(s) : e = s[x] \/ e \in Range(r)
  BY <1>6, <1>8, <1>11
<1>14. Range(r) = Range(s) \ {s[x]}
  BY <1>12, <1>13
<1> QED
  BY <1>5, <1>10, <1>14 DEF r

\* How often a task is in a sequence without doubles.
LEMMA CountIn ==
  ASSUME NEW S, NEW s \in Seq(S), NoDup(s), NEW t
  PROVE  Cardinality({x \in DOMAIN s : s[x] = t}) = IF t \in Range(s) THEN 1 ELSE 0
<1> DEFINE C == {x \in DOMAIN s : s[x] = t}
<1>1. DOMAIN s = 1..Len(s) /\ Range(s) = {s[x] : x \in 1..Len(s)}
  BY RangeIs
<1>2. CASE t \in Range(s)
  <2>1. PICK x \in 1..Len(s) : s[x] = t
    BY <1>1, <1>2
  <2>2. C = {x}
    BY <1>1, <2>1 DEF NoDup
  <2> QED
    BY <1>2, <2>2, FS_Singleton
<1>3. CASE t \notin Range(s)
  <2>1. C = {}
    BY <1>1, <1>3
  <2> QED
    BY <1>3, <2>1, FS_EmptySet
<1> QED
  BY <1>2, <1>3

-----------------------------------------------------------------------------
(* What the steps have in common                                           *)

\* A set of numbers that is not empty has a smallest one.
LEMMA Smallest ==
  ASSUME NEW S \in SUBSET Nat, S # {}
  PROVE  \E x \in S : \A y \in S : x <= y
<1>1. PICK x \in S : \A y \in S : ~(<<y, x>> \in OpToRel(<, Nat))
  BY NatLessThanWellFounded, WFMin
<1>2. \A y \in S : ~(y < x)
  BY <1>1 DEF OpToRel
<1> QED
  BY <1>2

\* The largest of some numbers up to n is one of them.
LEMMA MaxIn ==
  ASSUME NEW n \in Nat, NEW S \in SUBSET (0..n), S # {}
  PROVE  Max(S) \in S
<1> DEFINE T == {n - x : x \in S}
<1>1. T \in SUBSET Nat /\ T # {}
  <2>1. \A x \in S : n - x \in Nat
    OBVIOUS
  <2> QED
    BY <2>1
<1>2. PICK z \in T : \A y \in T : z <= y
  BY <1>1, Smallest
<1>3. PICK x \in S : z = n - x
  BY <1>2
<1>4. \A y \in S : x >= y
  BY <1>2, <1>3
<1> QED
  BY <1>4 DEF Max

\* get_until_size takes the front of the queue and leaves the rest.
LEMMA TakenIs ==
  ASSUME TypeInv, NEW limit
  PROVE  \E n \in 0..Len(que["small"]) :
           /\ get_until_size(limit) = SubSeq(que["small"], 1, n)
           /\ AfterGetUntilSize(limit) = SubSeq(que["small"], n + 1, Len(que["small"]))
<1> DEFINE s == que["small"]
           F == FittingPrefixes(s, limit)
<1>1. s \in Seq(Tasks) /\ Len(s) \in Nat
  BY DEF TypeInv, Queues
<1>2. F \in SUBSET (0..Len(s)) /\ 0 \in F
  <2>1. 0 \in 0..Len(s) /\ ~(0 > 0)
    <3> HIDE DEF s
    <3> QED
      BY <1>1
  <2> QED
    BY <2>1, Zenon DEF FittingPrefixes
<1>3. Max(F) \in 0..Len(s)
  <2> HIDE DEF F, s
  <2>1. Max(F) \in F
    BY <1>1, <1>2, MaxIn
  <2> QED
    BY <1>2, <2>1
<1> DEFINE n == Max(F)
<1>4. get_until_size(limit) = SubSeq(s, 1, n)
  BY Zenon DEF get_until_size
<1> HIDE DEF F, n
<1>5. Len(SubSeq(s, 1, n)) = n
  <2>1. n \in 0..Len(s)
    BY <1>3 DEF n
  <2> HIDE DEF s
  <2> QED
    BY <1>1, <2>1
<1>6. AfterGetUntilSize(limit) = SubSeq(s, n + 1, Len(s))
  BY <1>4, <1>5 DEF AfterGetUntilSize
<1> QED
  BY <1>3, <1>4, <1>6 DEF n

\* change_status changes a status and nothing else.
LEMMA StatusIs ==
  ASSUME TypeInv, NEW q \in Queues, NEW p \in Names, NEW s \in Status
  PROVE  LET new == change_status(q, p, s)
         IN  /\ new \in [Tasks -> Task]
             /\ \A t \in Tasks : /\ new[t].stage = task[t].stage
                                 /\ new[t].belong_que = task[t].belong_que
                                 /\ new[t].status = IF t = map[q][p] THEN s ELSE task[t].status
<1> DEFINE new == change_status(q, p, s)
           m == map[q][p]
<1>1. task \in [Tasks -> Task] /\ m \in Tasks \cup {NoTask} /\ NoTask \notin Tasks
  BY DaemonAssumption DEF TypeInv
<1>2. CASE m = NoTask
  BY <1>1, <1>2 DEF change_status, Task
<1>3. CASE m \in Tasks
  <2>1. new = [task EXCEPT ![m].status = s]
    BY <1>1, <1>3 DEF change_status
  <2>2. \A t \in Tasks : new[t] = IF t = m THEN [task[t] EXCEPT !.status = s] ELSE task[t]
    BY <1>1, <1>3, <2>1
  <2>3. new \in [Tasks -> Task]
    <3>1. \A t \in Tasks : task[t] \in Task
      BY <1>1
    <3>2. \A t \in Tasks : [task[t] EXCEPT !.status = s] \in Task
      BY <3>1 DEF Task
    <3> QED
      BY <1>1, <1>3, <2>1, <3>2
  <2>4. ASSUME NEW t \in Tasks
        PROVE  /\ new[t].stage = task[t].stage
               /\ new[t].belong_que = task[t].belong_que
               /\ new[t].status = IF t = m THEN s ELSE task[t].status
    <3>1. task[t] \in Task
      BY <1>1
    <3> QED
      BY <2>2, <3>1 DEF Task
  <2> HIDE DEF new, m
  <2> QED
    BY <2>3, <2>4 DEF new, m
<1> QED
  BY <1>1, <1>2, <1>3

\* Tasks that move from one place to another, or start or end their way, leave
\* every task in one place.
LEMMA MoveKeeps ==
  ASSUME OnePlaceInv, NEW M, NEW to \in Places \cup {"nowhere"},
         \A t \in Tasks, w \in Places : Has(w, t)' <=> (IF t \in M THEN w = to ELSE Has(w, t)),
         \A t \in Tasks : task'[t].stage = "queued" <=>
                            (IF t \in M THEN to # "nowhere" ELSE task[t].stage = "queued")
  PROVE  OnePlaceInv'
<1>1. "nowhere" \notin Places
  BY DEF Places
<1>2. ASSUME NEW t \in Tasks, t \in M
      PROVE  /\ \A w, v \in Places : Has(w, t)' /\ Has(v, t)' => w = v
             /\ task'[t].stage = "queued" <=> \E w \in Places : Has(w, t)'
  <2>1. \A w \in Places : Has(w, t)' <=> w = to
    BY <1>2
  <2>2. task'[t].stage = "queued" <=> to # "nowhere"
    BY <1>2
  <2> QED
    BY <1>1, <2>1, <2>2, Zenon
<1>3. ASSUME NEW t \in Tasks, t \notin M
      PROVE  /\ \A w, v \in Places : Has(w, t)' /\ Has(v, t)' => w = v
             /\ task'[t].stage = "queued" <=> \E w \in Places : Has(w, t)'
  <2>1. \A w \in Places : Has(w, t)' <=> Has(w, t)
    BY <1>3
  <2>2. task'[t].stage = "queued" <=> task[t].stage = "queued"
    BY <1>3
  <2>3. /\ \A w, v \in Places : Has(w, t) /\ Has(v, t) => w = v
        /\ task[t].stage = "queued" <=> \E w \in Places : Has(w, t)
    BY <1>3 DEF OnePlaceInv
  <2> QED
    BY <2>1, <2>2, <2>3, Zenon
<1> QED
  BY <1>2, <1>3, Zenon DEF OnePlaceInv

\* What was asked to be removed, or has failed, stays so.
RmGoesOn ==
  /\ \A p \in Names : rms[p] # "idle" => rms'[p] # "idle"
  /\ failed # {} => failed' # {}

\* The maps keep what they know, and only rm cancels.
LEMMA MapFrame ==
  ASSUME MapInv, RmGoesOn, map' = map,
         \A t \in Tasks : /\ task'[t].stage # "new" => task[t].stage # "new"
                          /\ task'[t].belong_que = task[t].belong_que
                          /\ task'[t].status = "CANCELED" =>
                               task[t].status = "CANCELED" \/ rms'[Remote[t]] # "idle"
  PROVE  MapInv'
<1>1. \A t \in Tasks : Remote[t] \in Names
  BY DEF Names
<1> QED
  BY <1>1 DEF MapInv, RmGoesOn

\* A download that waits to ask the small queue finds the same or more.
LEMMA GetFrame ==
  ASSUME GetInv, RmGoesOn, gets' = gets,
         \A p \in Names : map["small"][p] # NoTask => map'["small"][p] # NoTask
  PROVE  GetInv'
BY DEF GetInv, RmGoesOn

\* What is done stays done, and nobody touches the path of a task that is done.
LEMMA RemoveFrame ==
  ASSUME RemoveInv, DistinctRemote =>
         /\ \A t \in Tasks : /\ task[t].stage = "done" => task'[t].stage = "done"
                             /\ task'[t].status = "FINISHED" =>
                                  task[t].status = "FINISHED" \/ task'[t].stage = "done"
         /\ \A p \in Names : rms'[p] = rms[p]
         /\ \A t \in Tasks : task[t].stage = "done" =>
              (remote'[Remote[t]].exists => remote[Remote[t]].exists)
  PROVE  RemoveInv'
<1> SUFFICES ASSUME DistinctRemote
             PROVE  /\ \A t \in Tasks : task'[t].status = "FINISHED" => task'[t].stage = "done"
                    /\ \A p \in Names :
                         /\ rms'[p] \in Tasks => Remote[rms'[p]] = p
                         /\ rms'[p] \in {"removing", "removed"} =>
                              \E t \in Tasks : Remote[t] = p /\ task'[t].stage = "done"
                         /\ rms'[p] = "removed" => ~remote'[p].exists
  BY DEF RemoveInv, DistinctRemote
<1> QED
  BY DEF RemoveInv

\* Nobody locks the path of a task before its upload begins, nor removes the
\* path of one that is under way.
LEMMA ClashFrame ==
  ASSUME ClashInv, RmGoesOn,
         (DistinctRemote /\ failed = {} /\ failed' = {}
          /\ \A p \in Names : rms[p] = "idle" /\ rms'[p] = "idle") =>
           /\ dead' => dead
           /\ \A t \in Tasks : Untouched(t)' =>
                /\ Untouched(t)
                /\ remote'[Remote[t]].locked => remote[Remote[t]].locked
           /\ \A t \in Tasks : (task'[t].stage = "queued" /\ ~Untouched(t)') =>
                \/ remote'[Remote[t]].exists
                \/ /\ task[t].stage = "queued" /\ ~Untouched(t)
                   /\ remote[Remote[t]].exists => remote'[Remote[t]].exists
  PROVE  ClashInv'
<1> SUFFICES ASSUME DistinctRemote, failed' = {}, \A p \in Names : rms'[p] = "idle"
             PROVE  /\ ~dead'
                    /\ \A t \in Tasks : Untouched(t)' => ~remote'[Remote[t]].locked
                    /\ \A t \in Tasks : (task'[t].stage = "queued" /\ ~Untouched(t)') =>
                         remote'[Remote[t]].exists
  BY DEF ClashInv, DistinctRemote
<1>1. failed = {} /\ \A p \in Names : rms[p] = "idle"
  BY DEF RmGoesOn
<1> QED
  BY <1>1 DEF ClashInv

\* Who leaves the queues and the threads' tasks alone moves nothing.
LEMMA HasFrame ==
  ASSUME UNCHANGED <<que, current, moving>>,
         agg'["small"].files = agg["small"].files, agg'["timer"].files = agg["timer"].files
  PROVE  \A w, t : Has(w, t)' <=> Has(w, t)
BY DEF Has, Batch

\* A step that moves no task and leaves the namenode and the maps alone.
LEMMA QuietInv ==
  ASSUME IInv, UNCHANGED <<que, map, task, dead, current, agg, moving, remote, failed>>, RmGoesOn,
         (pc'["big"] = "put") <=> (pc["big"] = "put"),
         TypeInv', ThreadInv', GetInv', RemoveInv'
  PROVE  IInv'
<1>1. \A w, t : Has(w, t)' <=> Has(w, t)
  BY HasFrame
<1>2. OnePlaceInv'
  <2>1. OnePlaceInv
    BY DEF IInv
  <2> QED
    BY <1>1, <2>1, Zenon DEF OnePlaceInv
<1>3. NoDupInv'
  BY DEF IInv, NoDupInv, NoDup
<1>4. MapInv'
  BY MapFrame DEF IInv
<1>5. ClashInv'
  <2>1. \A t : Untouched(t)' <=> Untouched(t)
    BY <1>1 DEF Untouched
  <2> QED
    BY <2>1, ClashFrame DEF IInv
<1> QED
  BY <1>2, <1>3, <1>4, <1>5 DEF IInv

\* The loops of the upload threads.
LEMMA LoopInv ==
  ASSUME IInv, NEW q \in Queues, Loop(q)
  PROVE  IInv'
<1>1. TypeInv /\ ThreadInv
  BY DEF IInv
<1>2. /\ UNCHANGED <<que, map, task, dead, current, agg, moving, rms, remote, uploaded, failed, gets>>
  BY DEF Loop, LoopTop, Sleep, Wake, LoopEnd
<1>3. \E s \in {"check", "waiting", "end", "top", "exited"} :
        pc[q] \in {"top", "check", "waiting", "end"} /\ pc' = [pc EXCEPT ![q] = s]
  BY DEF Loop, LoopTop, Sleep, Wake, LoopEnd
<1>4. mutex' \in [Queues -> BOOLEAN] /\ notified' \in [Queues -> BOOLEAN]
  BY <1>1 DEF Loop, LoopTop, Sleep, Wake, LoopEnd, TypeInv
<1>5. TypeInv'
  BY <1>1, <1>2, <1>3, <1>4 DEF TypeInv
<1>6. /\ (pc'["big"] = "put") <=> (pc["big"] = "put")
      /\ pc'["big"] \in BigSteps <=> pc["big"] \in BigSteps
      /\ (pc'["small"] = "upload") <=> (pc["small"] = "upload")
  BY <1>1, <1>3 DEF TypeInv, Queues, BigSteps
<1>7. ThreadInv'
  BY <1>1, <1>2, <1>6 DEF ThreadInv
<1>8. RmGoesOn
  BY <1>2 DEF RmGoesOn
<1>9. GetInv'
  BY <1>2, <1>8, GetFrame DEF IInv
<1>10. RemoveInv'
  BY <1>2, RemoveFrame DEF IInv
<1> QED
  BY <1>2, <1>5, <1>6, <1>7, <1>8, <1>9, <1>10, QuietInv

\* Steps that change neither a place, nor a map, nor a request of a client.
LEMMA IdleInv ==
  ASSUME IInv, SmallCheck \/ Stop \/ IntervalPasses
  PROVE  IInv'
<1>1. TypeInv /\ ThreadInv
  BY DEF IInv
<1>2. /\ UNCHANGED <<que, map, task, dead, mutex, notified, current, agg, moving, rms, remote,
                     uploaded, failed, gets>>
  BY DEF SmallCheck, Stop, IntervalPasses
<1>3. pc' = pc \/ \E s \in {"take", "end"} : pc["small"] = "check" /\ pc' = [pc EXCEPT !["small"] = s]
  BY DEF SmallCheck, Stop, IntervalPasses
<1>4. pc' \in [Queues -> {"top", "check", "waiting", "take", "upload", "put", "lock",
                          "data", "putok", "finish", "end", "exited"}]
  BY <1>1, <1>3 DEF TypeInv, Queues
<1>5. TypeInv'
  BY <1>1, <1>2, <1>4 DEF TypeInv
<1>6. pc'["big"] = pc["big"] /\ ((pc'["small"] = "upload") <=> (pc["small"] = "upload"))
  BY <1>1, <1>3 DEF TypeInv, Queues
<1>7. ThreadInv'
  BY <1>1, <1>2, <1>6 DEF ThreadInv
<1>8. RmGoesOn
  BY <1>2 DEF RmGoesOn
<1>9. GetInv'
  BY <1>2, <1>8, GetFrame DEF IInv
<1>10. RemoveInv'
  BY <1>2, RemoveFrame DEF IInv
<1> QED
  BY <1>2, <1>5, <1>6, <1>7, <1>8, <1>9, <1>10, QuietInv

\* What the lookup of a path that a map knows and nobody cancelled finds.
LEMMA LookupFinds ==
  ASSUME IInv, NEW q \in Queues, NEW p \in Names, map[q][p] # NoTask, rms[p] = "idle"
  PROVE  Lookup(q, p) # NoTask
<1> DEFINE queued == {t \in Range(que[q]) : Remote[t] = p}
<1>1. map[q][p] \in Tasks /\ NoTask \notin Tasks
  BY DaemonAssumption DEF IInv, TypeInv
<1>2. Remote[map[q][p]] = p
  BY DEF IInv, MapInv
<1>3. task[map[q][p]].status # "CANCELED"
  BY <1>1, <1>2 DEF IInv, MapInv
<1>4. que[q] \in Seq(Tasks)
  BY DEF IInv, TypeInv
<1>5. queued \subseteq Tasks
  BY <1>4, RangeIs
<1>6. queued # {} => (CHOOSE t \in queued : TRUE) \in Tasks
  <2> SUFFICES ASSUME queued # {}
               PROVE  (CHOOSE t \in queued : TRUE) \in queued
    BY <1>5
  <2> QED
    OBVIOUS
<1>7. Lookup(q, p) = IF queued # {} THEN CHOOSE t \in queued : TRUE ELSE map[q][p]
  BY <1>3 DEF Lookup
<1> HIDE DEF queued
<1> QED
  BY <1>1, <1>6, <1>7

\* The downloads.
LEMMA DownloadInv ==
  ASSUME IInv, NEW p \in Names, Download(p) \/ DownloadAskSmall(p) \/ thread_file_download(p)
  PROVE  IInv'
<1>1. TypeInv /\ ThreadInv /\ GetInv /\ MapInv
  BY DEF IInv
<1>2. UNCHANGED <<que, map, task, stop, dead, mutex, notified, pc, current, agg, recent,
                  moving, rms, remote, uploaded, failed>>
  BY DEF Download, DownloadAskSmall, thread_file_download
<1> DEFINE Request == [step : {"idle", "ask_small", "local_que", "remote_que"}, accepted : BOOLEAN]
<1>3. gets \in [Names -> Request]
  BY <1>1 DEF TypeInv
<1>4. \E r \in Request :
        /\ gets' = [gets EXCEPT ![p] = r]
        /\ (r.step = "ask_small" /\ r.accepted) => map["small"][p] # NoTask \/ rms[p] # "idle"
        /\ (r.step = "remote_que" /\ r.accepted) => rms[p] # "idle"
  <2>1. CASE Download(p)
    <3> DEFINE acc == \E t \in Tasks : Remote[t] = p /\ task[t].stage # "new"
               st == IF Lookup("big", p) # NoTask THEN "local_que" ELSE "ask_small"
               r == [step |-> st, accepted |-> acc]
    <3>1. gets' = [gets EXCEPT ![p] = r]
      BY <2>1 DEF Download
    <3>2. r \in Request
      <4>1. st \in {"idle", "ask_small", "local_que", "remote_que"}
        OBVIOUS
      <4>2. acc \in BOOLEAN
        OBVIOUS
      <4> HIDE DEF st, acc
      <4> QED
        BY <4>1, <4>2
    <3>3. r.step = st /\ (r.accepted <=> acc)
      <4> HIDE DEF st, acc
      <4> QED
        OBVIOUS
    <3>4. ASSUME st = "ask_small", acc, rms[p] = "idle"
          PROVE  map["small"][p] # NoTask
      <4>1. PICK t \in Tasks : Remote[t] = p /\ task[t].stage # "new"
        BY <3>4
      <4>2. Lookup("big", p) = NoTask
        BY <3>4
      <4>3. map["big"][p] = NoTask
        BY <3>4, <4>2, LookupFinds DEF Queues
      <4>4. map[QueueFor(t)][p] # NoTask
        BY <1>1, <4>1 DEF MapInv
      <4> QED
        BY <4>3, <4>4 DEF QueueFor
    <3>5. st # "remote_que"
      OBVIOUS
    <3> HIDE DEF st, acc
    <3> QED
      BY <3>1, <3>2, <3>3, <3>4, <3>5
  <2>2. CASE DownloadAskSmall(p)
    <3> DEFINE st == IF Lookup("small", p) # NoTask THEN "local_que" ELSE "remote_que"
               r == [gets[p] EXCEPT !.step = st]
    <3>1. gets[p].step = "ask_small" /\ gets[p] \in Request
      BY <1>3, <2>2 DEF DownloadAskSmall
    <3>2. gets' = [gets EXCEPT ![p] = r]
      BY <2>2 DEF DownloadAskSmall
    <3>3. st \in {"local_que", "remote_que"}
      OBVIOUS
    <3>4. r \in Request /\ r.step = st /\ r.accepted = gets[p].accepted
      <4> HIDE DEF st
      <4> QED
        BY <3>1, <3>3
    <3>5. ASSUME st = "remote_que", gets[p].accepted, rms[p] = "idle"
          PROVE  FALSE
      <4>1. Lookup("small", p) = NoTask
        BY <3>5
      <4>2. map["small"][p] = NoTask
        BY <3>5, <4>1, LookupFinds DEF Queues
      <4> QED
        BY <1>1, <3>1, <3>5, <4>2 DEF GetInv
    <3> HIDE DEF st, r
    <3> QED
      BY <3>2, <3>3, <3>4, <3>5
  <2>3. CASE thread_file_download(p)
    <3>1. gets' = [gets EXCEPT ![p] = NoDownload]
      BY <2>3 DEF thread_file_download
    <3>2. NoDownload \in Request /\ NoDownload.step = "idle"
      BY DEF NoDownload
    <3> QED
      BY <3>1, <3>2
  <2> QED
    BY <2>1, <2>2, <2>3
<1>5. PICK r \in Request :
        /\ gets' = [gets EXCEPT ![p] = r]
        /\ (r.step = "ask_small" /\ r.accepted) => map["small"][p] # NoTask \/ rms[p] # "idle"
        /\ (r.step = "remote_que" /\ r.accepted) => rms[p] # "idle"
  BY <1>4
<1>6. gets' \in [Names -> Request]
  BY <1>3, <1>5
<1>7. TypeInv'
  BY <1>1, <1>2, <1>6 DEF TypeInv
<1>8. ThreadInv'
  BY <1>1, <1>2 DEF ThreadInv
<1>9. RmGoesOn
  BY <1>2 DEF RmGoesOn
<1>10. GetInv'
  <2>1. ASSUME NEW c \in Names
        PROVE  gets'[c] = IF c = p THEN r ELSE gets[c]
    BY <1>3, <1>5
  <2> QED
    BY <1>1, <1>2, <1>5, <2>1 DEF GetInv
<1>11. RemoveInv'
  BY <1>2, RemoveFrame DEF IInv
<1> QED
  BY <1>2, <1>7, <1>8, <1>9, <1>10, <1>11, QuietInv

-----------------------------------------------------------------------------
(* rm                                                                      *)

\* rm begins, and rm has waited for the end of the upload.
LEMMA RmSpinInv ==
  ASSUME IInv, NEW p \in Names, RmStart(p) \/ RmSpin(p)
  PROVE  IInv'
<1>1. TypeInv /\ ThreadInv /\ GetInv /\ MapInv /\ RemoveInv
  BY DEF IInv
<1>2. UNCHANGED <<que, map, task, stop, dead, mutex, notified, pc, current, agg, recent,
                  moving, remote, uploaded, failed, gets>>
  BY DEF RmStart, RmSpin
<1>3. rms \in [Names -> Tasks \cup RmSteps] /\ Tasks \cap RmSteps = {} /\ "idle" \in RmSteps
  BY <1>1, DaemonAssumption DEF TypeInv, RmSteps
<1>4. \E v \in (Tasks \cup {"small", "removing"}) :
        /\ rms' = [rms EXCEPT ![p] = v]
        /\ v \in Tasks => Remote[v] = p
        /\ (DistinctRemote /\ v = "removing") =>
              \E t \in Tasks : Remote[t] = p /\ task[t].stage = "done"
  <2>1. CASE RmStart(p)
    <3> DEFINE v == IF map["big"][p] # NoTask THEN map["big"][p] ELSE "small"
    <3>1. rms' = [rms EXCEPT ![p] = v]
      BY <2>1 DEF RmStart, find_in_map
    <3>2. map["big"][p] \in Tasks \cup {NoTask} /\ (map["big"][p] # NoTask => Remote[map["big"][p]] = p)
      BY <1>1 DEF TypeInv, MapInv, Queues
    <3>3. "small" \notin Tasks /\ "removing" \notin Tasks
      BY <1>3 DEF RmSteps
    <3>4. v \in Tasks \cup {"small", "removing"} /\ (v \in Tasks => Remote[v] = p) /\ v # "removing"
      BY <3>2, <3>3
    <3> HIDE DEF v
    <3> QED
      BY <3>1, <3>4
  <2>2. CASE RmSpin(p)
    <3>1. /\ rms[p] \in Tasks /\ task[rms[p]].status = "FINISHED"
          /\ rms' = [rms EXCEPT ![p] = "removing"]
      BY <2>2 DEF RmSpin
    <3>2. DistinctRemote => Remote[rms[p]] = p /\ task[rms[p]].stage = "done"
      BY <1>1, <3>1 DEF RemoveInv
    <3>3. "removing" \notin Tasks
      BY <1>3 DEF RmSteps
    <3> QED
      BY <3>1, <3>2, <3>3
  <2> QED
    BY <2>1, <2>2
<1>5. PICK v \in (Tasks \cup {"small", "removing"}) :
        /\ rms' = [rms EXCEPT ![p] = v]
        /\ v \in Tasks => Remote[v] = p
        /\ (DistinctRemote /\ v = "removing") =>
              \E t \in Tasks : Remote[t] = p /\ task[t].stage = "done"
  BY <1>4
<1>6. v # "idle" /\ v # "removed" /\ v \in Tasks \cup RmSteps
  BY <1>3, <1>5 DEF RmSteps
<1>7. \A c \in Names : rms'[c] = IF c = p THEN v ELSE rms[c]
  BY <1>3, <1>5
<1>8. rms' \in [Names -> Tasks \cup RmSteps]
  BY <1>3, <1>5, <1>6
<1>9. TypeInv'
  BY <1>1, <1>2, <1>8 DEF TypeInv
<1>10. ThreadInv'
  BY <1>1, <1>2 DEF ThreadInv
<1>11. RmGoesOn
  BY <1>2, <1>6, <1>7 DEF RmGoesOn
<1>12. GetInv'
  BY <1>1, <1>2, <1>11, GetFrame
<1>13. RemoveInv'
  <2> SUFFICES ASSUME DistinctRemote
               PROVE  /\ \A t \in Tasks : task'[t].status = "FINISHED" => task'[t].stage = "done"
                      /\ \A c \in Names :
                           /\ rms'[c] \in Tasks => Remote[rms'[c]] = c
                           /\ rms'[c] \in {"removing", "removed"} =>
                                \E t \in Tasks : Remote[t] = c /\ task'[t].stage = "done"
                           /\ rms'[c] = "removed" => ~remote'[c].exists
    BY DEF RemoveInv, DistinctRemote
  <2>1. /\ \A t \in Tasks : task[t].status = "FINISHED" => task[t].stage = "done"
        /\ \A c \in Names :
             /\ rms[c] \in Tasks => Remote[rms[c]] = c
             /\ rms[c] \in {"removing", "removed"} =>
                  \E t \in Tasks : Remote[t] = c /\ task[t].stage = "done"
             /\ rms[c] = "removed" => ~remote[c].exists
    BY <1>1 DEF RemoveInv
  <2> QED
    BY <1>2, <1>5, <1>6, <1>7, <2>1
<1> QED
  BY <1>2, <1>9, <1>10, <1>11, <1>12, <1>13, QuietInv

\* Steps that leave the places, the maps and the downloads alone and change the
\* status of tasks, the namenode, or how far rm is.
LEMMA StillInv ==
  ASSUME IInv, UNCHANGED <<que, map, current, moving, gets>>,
         \A a \in Aggregators : agg'[a].files = agg[a].files,
         TypeInv', ThreadInv', RmGoesOn, RemoveInv', ClashInv',
         \A t \in Tasks : /\ task'[t].stage = task[t].stage
                          /\ task'[t].belong_que = task[t].belong_que
                          /\ task'[t].status = "CANCELED" =>
                               task[t].status = "CANCELED" \/ rms'[Remote[t]] # "idle"
  PROVE  IInv'
<1>1. \A w, t : Has(w, t)' <=> Has(w, t)
  BY HasFrame DEF Aggregators
<1>2. OnePlaceInv'
  <2>1. OnePlaceInv
    BY DEF IInv
  <2> QED
    BY <1>1, <2>1, Zenon DEF OnePlaceInv
<1>3. NoDupInv'
  BY DEF IInv, NoDupInv, NoDup
<1>4. MapInv'
  BY MapFrame DEF IInv
<1>5. GetInv'
  BY GetFrame DEF IInv
<1> QED
  BY <1>2, <1>3, <1>4, <1>5 DEF IInv

\* rm cancels a small file.
LEMMA RmSmallInv ==
  ASSUME IInv, NEW p \in Names, RmSmall(p)
  PROVE  IInv'
<1> DEFINE t0 == map["small"][p]
           v == IF t0 = NoTask THEN "remote" ELSE "done"
<1>1. TypeInv /\ ThreadInv /\ MapInv /\ RemoveInv
  BY DEF IInv
<1>2. /\ UNCHANGED <<que, map, stop, dead, mutex, notified, pc, current, agg, recent, moving,
                     remote, uploaded, failed, gets>>
      /\ rms[p] = "small" /\ rms' = [rms EXCEPT ![p] = v]
  BY DEF RmSmall, find_in_map
<1>3. rms \in [Names -> Tasks \cup RmSteps] /\ Tasks \cap RmSteps = {}
  BY <1>1, DaemonAssumption DEF TypeInv
<1>4. v \in {"remote", "done"} /\ v \in RmSteps /\ v \notin Tasks
  BY <1>3 DEF RmSteps
<1> HIDE DEF v
<1>5. \A c \in Names : rms'[c] = IF c = p THEN v ELSE rms[c]
  BY <1>2, <1>3
<1>6. /\ task' \in [Tasks -> Task]
      /\ \A t \in Tasks : /\ task'[t].stage = task[t].stage
                          /\ task'[t].belong_que = task[t].belong_que
                          /\ task'[t].status = task[t].status
                             \/ (task'[t].status = "CANCELED" /\ Remote[t] = p)
  <2>1. task \in [Tasks -> Task]
    BY <1>1 DEF TypeInv
  <2>2. CASE task' = task
    BY <2>1, <2>2
  <2>3. CASE task' = change_status("small", p, "CANCELED")
    <3>1. "small" \in Queues /\ "CANCELED" \in Status
      BY DEF Queues, Status
    <3>2. /\ task' \in [Tasks -> Task]
          /\ \A t \in Tasks : /\ task'[t].stage = task[t].stage
                              /\ task'[t].belong_que = task[t].belong_que
                              /\ task'[t].status = IF t = t0 THEN "CANCELED" ELSE task[t].status
      BY <1>1, <2>3, <3>1, StatusIs
    <3>3. \A t \in Tasks : t = t0 => Remote[t] = p
      BY <1>1, <3>1, DaemonAssumption DEF MapInv
    <3> QED
      BY <3>2, <3>3
  <2> QED
    BY <2>2, <2>3 DEF RmSmall
<1>7. TypeInv'
  <2>1. rms' \in [Names -> Tasks \cup RmSteps]
    BY <1>2, <1>3, <1>4
  <2> QED
    BY <1>1, <1>2, <1>6, <2>1 DEF TypeInv
<1>8. ThreadInv'
  BY <1>1, <1>2 DEF ThreadInv
<1>9. RmGoesOn
  BY <1>2, <1>4, <1>5 DEF RmGoesOn
<1>10. RemoveInv'
  <2> SUFFICES ASSUME DistinctRemote
               PROVE  /\ \A t \in Tasks : task'[t].status = "FINISHED" => task'[t].stage = "done"
                      /\ \A c \in Names :
                           /\ rms'[c] \in Tasks => Remote[rms'[c]] = c
                           /\ rms'[c] \in {"removing", "removed"} =>
                                \E t \in Tasks : Remote[t] = c /\ task'[t].stage = "done"
                           /\ rms'[c] = "removed" => ~remote'[c].exists
    BY DEF RemoveInv, DistinctRemote
  <2>1. /\ \A t \in Tasks : task[t].status = "FINISHED" => task[t].stage = "done"
        /\ \A c \in Names :
             /\ rms[c] \in Tasks => Remote[rms[c]] = c
             /\ rms[c] \in {"removing", "removed"} =>
                  \E t \in Tasks : Remote[t] = c /\ task[t].stage = "done"
             /\ rms[c] = "removed" => ~remote[c].exists
    BY <1>1 DEF RemoveInv
  <2> QED
    BY <1>2, <1>4, <1>5, <1>6, <2>1
<1>11. ClashInv'
  <2>1. rms[p] # "idle"
    BY <1>2
  <2> QED
    BY <1>9, <2>1, ClashFrame DEF IInv
<1>12. \A t \in Tasks : task'[t].status = "CANCELED" =>
         task[t].status = "CANCELED" \/ rms'[Remote[t]] # "idle"
  <2>1. v # "idle"
    BY <1>4
  <2> QED
    BY <1>5, <1>6, <2>1
<1> QED
  BY <1>2, <1>6, <1>7, <1>8, <1>9, <1>10, <1>11, <1>12, StillInv

\* The namenode removes the path.
LEMMA RmRemoteInv ==
  ASSUME IInv, NEW p \in Names, RmRemote(p)
  PROVE  IInv'
<1>1. TypeInv /\ ThreadInv /\ RemoveInv
  BY DEF IInv
<1>2. /\ UNCHANGED <<que, map, task, stop, dead, mutex, notified, pc, current, agg, recent,
                     moving, uploaded, failed, gets>>
      /\ rms[p] \in {"remote", "removing"}
  BY DEF RmRemote
<1>3. rms \in [Names -> Tasks \cup RmSteps] /\ Tasks \cap RmSteps = {}
      /\ remote \in [Names -> [exists : BOOLEAN, locked : BOOLEAN]]
  BY <1>1, DaemonAssumption DEF TypeInv
<1>4. PICK v \in {"removed", "done"} :
        /\ rms' = [rms EXCEPT ![p] = v]
        /\ v = "removed" => rms[p] = "removing"
        /\ \/ remote' = [remote EXCEPT ![p] = [exists |-> FALSE, locked |-> FALSE]]
           \/ v = "done" /\ remote' = remote
  BY DEF RmRemote
<1>5. v \in RmSteps /\ v \notin Tasks /\ v # "idle"
  BY <1>3 DEF RmSteps
<1>6. \A c \in Names : rms'[c] = IF c = p THEN v ELSE rms[c]
  BY <1>3, <1>4
<1>7. /\ remote' \in [Names -> [exists : BOOLEAN, locked : BOOLEAN]]
      /\ v = "removed" => ~remote'[p].exists
      /\ \A c \in Names : c # p => remote'[c] = remote[c]
  <2> DEFINE gone == [exists |-> FALSE, locked |-> FALSE]
  <2>1. gone \in [exists : BOOLEAN, locked : BOOLEAN] /\ ~gone.exists
    OBVIOUS
  <2>2. CASE remote' = [remote EXCEPT ![p] = gone]
    <3> HIDE DEF gone
    <3> QED
      BY <1>3, <2>1, <2>2
  <2>3. CASE v = "done" /\ remote' = remote
    BY <1>3, <2>3
  <2> QED
    BY <1>4, <2>2, <2>3
<1>8. TypeInv'
  <2>1. rms' \in [Names -> Tasks \cup RmSteps]
    BY <1>3, <1>4, <1>5
  <2> QED
    BY <1>1, <1>2, <1>7, <2>1 DEF TypeInv
<1>9. ThreadInv'
  BY <1>1, <1>2 DEF ThreadInv
<1>10. RmGoesOn
  BY <1>2, <1>5, <1>6 DEF RmGoesOn
<1>11. RemoveInv'
  <2> SUFFICES ASSUME DistinctRemote
               PROVE  /\ \A t \in Tasks : task'[t].status = "FINISHED" => task'[t].stage = "done"
                      /\ \A c \in Names :
                           /\ rms'[c] \in Tasks => Remote[rms'[c]] = c
                           /\ rms'[c] \in {"removing", "removed"} =>
                                \E t \in Tasks : Remote[t] = c /\ task'[t].stage = "done"
                           /\ rms'[c] = "removed" => ~remote'[c].exists
    BY DEF RemoveInv, DistinctRemote
  <2>1. /\ \A t \in Tasks : task[t].status = "FINISHED" => task[t].stage = "done"
        /\ \A c \in Names :
             /\ rms[c] \in Tasks => Remote[rms[c]] = c
             /\ rms[c] \in {"removing", "removed"} =>
                  \E t \in Tasks : Remote[t] = c /\ task[t].stage = "done"
             /\ rms[c] = "removed" => ~remote[c].exists
    BY <1>1 DEF RemoveInv
  <2> QED
    BY <1>2, <1>4, <1>5, <1>6, <1>7, <2>1
<1>12. ClashInv'
  <2>1. rms[p] # "idle"
    BY <1>2
  <2> QED
    BY <1>10, <2>1, ClashFrame DEF IInv
<1> QED
  BY <1>2, <1>8, <1>9, <1>10, <1>11, <1>12, StillInv

\* A lock runs out.
LEMMA LockExpiresInv ==
  ASSUME IInv, NEW p \in Names, LockExpires(p)
  PROVE  IInv'
<1>1. TypeInv /\ ThreadInv
  BY DEF IInv
<1>2. /\ UNCHANGED <<que, map, task, stop, dead, mutex, notified, pc, current, agg, recent,
                     moving, rms, uploaded, failed, gets>>
      /\ remote' = [remote EXCEPT ![p].locked = FALSE]
  BY DEF LockExpires
<1>3. remote \in [Names -> [exists : BOOLEAN, locked : BOOLEAN]]
  BY <1>1 DEF TypeInv
<1>4. remote' \in [Names -> [exists : BOOLEAN, locked : BOOLEAN]]
  BY <1>2, <1>3
<1>5. \A c \in Names : /\ remote'[c].exists <=> remote[c].exists
                       /\ remote'[c].locked => remote[c].locked
  BY <1>2, <1>3
<1>6. \A t \in Tasks : Remote[t] \in Names
  BY DEF Names
<1>7. TypeInv' /\ ThreadInv'
  BY <1>1, <1>2, <1>4 DEF TypeInv, ThreadInv
<1>8. RmGoesOn
  BY <1>2 DEF RmGoesOn
<1>9. RemoveInv'
  BY <1>2, <1>5, <1>6, RemoveFrame DEF IInv
<1>10. ClashInv'
  <2>1. \A w, t : Has(w, t)' <=> Has(w, t)
    BY <1>2, HasFrame
  <2>2. \A t : Untouched(t)' <=> Untouched(t)
    BY <1>2, <2>1 DEF Untouched
  <2> QED
    BY <1>2, <1>5, <1>6, <1>8, <2>2, ClashFrame DEF IInv
<1> QED
  BY <1>2, <1>7, <1>8, <1>9, <1>10, StillInv

-----------------------------------------------------------------------------
(* The big-file thread                                                     *)

\* The file being uploaded is nowhere else, and with a path for every task its
\* status is what change_status changes.
LEMMA CurrentIs ==
  ASSUME IInv, pc["big"] \in BigSteps
  PROVE  /\ current \in Tasks /\ Remote[current] \in Names
         /\ task[current].stage = "queued" /\ task[current].belong_que \in Queues
         /\ \A w \in Places : Has(w, current) <=> w = "current"
         /\ Untouched(current) <=> pc["big"] = "put"
         /\ DistinctRemote => map[task[current].belong_que][Remote[current]] = current
         /\ DistinctRemote => \A t \in Tasks : t # current => Remote[t] # Remote[current]
<1>1. TypeInv /\ ThreadInv /\ OnePlaceInv /\ MapInv
  BY DEF IInv
<1>2. current \in Tasks
  BY <1>1 DEF TypeInv, ThreadInv
<1>3. Remote[current] \in Names
  BY <1>2 DEF Names
<1>4. Has("current", current) /\ "current" \in Places
  BY DEF Has, Places
<1>5. task[current].stage = "queued" /\ \A w \in Places : Has(w, current) => w = "current"
  BY <1>1, <1>2, <1>4, Zenon DEF OnePlaceInv
<1>6. task[current] \in Task
  BY <1>1, <1>2 DEF TypeInv
<1>7. task[current].belong_que \in Queues
  BY <1>6 DEF Task
<1>8. Untouched(current) <=> pc["big"] = "put"
  <2>1. ~Has("small", current) /\ ~Has("big", current) /\ ~Has("moving", current)
        /\ ~Has("agg_small", current) /\ ~Has("agg_timer", current)
    BY <1>5 DEF Places
  <2> QED
    BY <1>4, <1>5, <2>1 DEF Untouched
<1>9. DistinctRemote => map[task[current].belong_que][Remote[current]] = current
  <2> DEFINE q == task[current].belong_que
             m == map[q][Remote[current]]
  <2>1. m # NoTask
    BY <1>1, <1>2, <1>5 DEF MapInv
  <2>2. m \in Tasks
    BY <1>1, <1>3, <1>7, <2>1 DEF TypeInv
  <2>3. Remote[m] = Remote[current]
    BY <1>1, <1>3, <1>7, <2>1 DEF MapInv
  <2> HIDE DEF m
  <2> QED
    BY <1>2, <2>2, <2>3 DEF DistinctRemote, m
<1>10. DistinctRemote => \A t \in Tasks : t # current => Remote[t] # Remote[current]
  BY <1>2 DEF DistinctRemote
<1> QED
  BY <1>2, <1>3, <1>4, <1>5, <1>7, <1>8, <1>9, <1>10

\* The remote calls of SDK::put.
LEMMA BigStepInv ==
  ASSUME IInv, BigNamenodePut \/ BigLockRemote \/ BigDatanodePut \/ BigNamenodePutOk
  PROVE  IInv'
<1> DEFINE p == Remote[current]
           after == {"lock", "data", "putok", "finish"}
           Inode == [exists : BOOLEAN, locked : BOOLEAN]
<1>1. TypeInv /\ ThreadInv /\ RemoveInv /\ ClashInv
  BY DEF IInv
<1>2. pc["big"] \in BigSteps
  BY DEF BigNamenodePut, BigLockRemote, BigDatanodePut, BigNamenodePutOk, BigSteps
<1>3. /\ current \in Tasks /\ p \in Names
      /\ task[current].stage = "queued" /\ task[current].belong_que \in Queues
      /\ \A w \in Places : Has(w, current) <=> w = "current"
      /\ Untouched(current) <=> pc["big"] = "put"
      /\ DistinctRemote => \A t \in Tasks : t # current => Remote[t] # p
  BY <1>2, CurrentIs
<1>4. UNCHANGED <<que, map, stop, mutex, notified, current, agg, recent, moving, rms, gets>>
  BY DEF BigNamenodePut, BigLockRemote, BigDatanodePut, BigNamenodePutOk
<1>5. remote \in [Names -> Inode] /\ task \in [Tasks -> Task] /\ uploaded \subseteq Tasks
      /\ pc \in [Queues -> {"top", "check", "waiting", "take", "upload", "put", "lock",
                            "data", "putok", "finish", "end", "exited"}]
  BY <1>1 DEF TypeInv
<1>6. /\ pc' = [pc EXCEPT !["big"] = pc'["big"]] /\ pc'["big"] \in after
  <2>1. \E s \in after : pc' = [pc EXCEPT !["big"] = s]
    <3>1. /\ pc["big"] = "lock" => pc = [pc EXCEPT !["big"] = "lock"]
          /\ pc["big"] = "data" => pc = [pc EXCEPT !["big"] = "data"]
      BY <1>5 DEF Queues
    <3> QED
      BY <3>1 DEF BigNamenodePut, BigLockRemote, BigDatanodePut, BigNamenodePutOk
  <2> QED
    BY <1>5, <2>1 DEF Queues
<1>7. \E r \in Inode :
        /\ remote' = [remote EXCEPT ![p] = r]
        /\ remote[p].exists => r.exists
        /\ (pc["big"] = "put" /\ failed' = {}) => r.exists
  <2>1. remote[p] \in Inode /\ remote = [remote EXCEPT ![p] = remote[p]]
    BY <1>3, <1>5
  <2>2. CASE BigNamenodePut
    <3> DEFINE r == [exists |-> TRUE, locked |-> TRUE]
    <3>1. r \in Inode /\ r.exists
      OBVIOUS
    <3>2. remote' = [remote EXCEPT ![p] = r] \/ (remote' = remote /\ failed' # {})
      BY <2>2 DEF BigNamenodePut, CallFails
    <3> QED
      BY <2>1, <3>1, <3>2
  <2>3. CASE remote' = remote /\ pc["big"] # "put"
    BY <2>1, <2>3
  <2>4. ASSUME NEW b \in BOOLEAN, remote' = [remote EXCEPT ![p].locked = b], pc["big"] # "put"
        PROVE  \E r \in Inode :
                 /\ remote' = [remote EXCEPT ![p] = r]
                 /\ remote[p].exists => r.exists
    <3> DEFINE r == [remote[p] EXCEPT !.locked = b]
    <3>1. r \in Inode /\ (r.exists <=> remote[p].exists)
      BY <2>1, <2>4
    <3>2. remote' = [remote EXCEPT ![p] = r]
      BY <2>4
    <3> HIDE DEF r
    <3> QED
      BY <3>1, <3>2
  <2>5. CASE ~BigNamenodePut
    <3>1. /\ pc["big"] # "put"
          /\ \/ remote' = remote
             \/ remote' = [remote EXCEPT ![p].locked = TRUE]
             \/ remote' = [remote EXCEPT ![p].locked = FALSE]
      BY <2>5 DEF BigLockRemote, BigDatanodePut, BigNamenodePutOk
    <3> QED
      BY <2>3, <2>4, <3>1
  <2> QED
    BY <2>2, <2>5
<1>8. /\ remote' \in [Names -> Inode]
      /\ \A c \in Names : c # p => remote'[c] = remote[c]
      /\ remote[p].exists => remote'[p].exists
      /\ (pc["big"] = "put" /\ failed' = {}) => remote'[p].exists
  BY <1>3, <1>5, <1>7
<1>9. /\ task' \in [Tasks -> Task]
      /\ \A t \in Tasks : /\ task'[t].stage = task[t].stage
                          /\ task'[t].belong_que = task[t].belong_que
                          /\ \/ task'[t].status = task[t].status
                             \/ task'[t].status \in {"DATA_UPLOADING", "META_UPLOADING"}
  <2>1. CASE task' = task
    BY <1>5, <2>1
  <2>2. ASSUME NEW s \in {"DATA_UPLOADING", "META_UPLOADING"},
               task' = change_status(task[current].belong_que, p, s)
        PROVE  /\ task' \in [Tasks -> Task]
               /\ \A t \in Tasks : /\ task'[t].stage = task[t].stage
                                   /\ task'[t].belong_que = task[t].belong_que
                                   /\ \/ task'[t].status = task[t].status
                                      \/ task'[t].status \in {"DATA_UPLOADING", "META_UPLOADING"}
    <3>1. s \in Status
      BY DEF Status
    <3> DEFINE q == task[current].belong_que
    <3>2. q \in Queues
      BY <1>3
    <3>3. task' = change_status(q, p, s)
      BY <2>2
    <3> HIDE DEF q, p
    <3>4. /\ task' \in [Tasks -> Task]
          /\ \A t \in Tasks : /\ task'[t].stage = task[t].stage
                              /\ task'[t].belong_que = task[t].belong_que
                              /\ task'[t].status = IF t = map[q][p] THEN s ELSE task[t].status
      BY <1>1, <1>3, <3>1, <3>2, <3>3, StatusIs
    <3> QED
      BY <3>4
  <2> QED
    BY <2>1, <2>2 DEF BigNamenodePut, BigLockRemote, BigDatanodePut, BigNamenodePutOk
<1>10. uploaded' \subseteq Tasks
  BY <1>3, <1>5 DEF BigNamenodePut, BigLockRemote, BigDatanodePut, BigNamenodePutOk
<1>11. TypeInv'
  <2>1. pc' \in [Queues -> {"top", "check", "waiting", "take", "upload", "put", "lock",
                            "data", "putok", "finish", "end", "exited"}]
    BY <1>5, <1>6 DEF Queues
  <2> QED
    BY <1>1, <1>4, <1>8, <1>9, <1>10, <2>1 DEF TypeInv
<1>12. pc'["small"] = pc["small"] /\ pc'["big"] \in BigSteps /\ pc'["big"] # "put"
  BY <1>5, <1>6 DEF Queues, BigSteps
<1>13. ThreadInv'
  BY <1>1, <1>2, <1>4, <1>12 DEF ThreadInv
<1>14. RmGoesOn
  <2>1. failed # {} => failed' # {}
    BY DEF BigNamenodePut, BigLockRemote, BigDatanodePut, BigNamenodePutOk, CallFails
  <2> QED
    BY <1>4, <2>1 DEF RmGoesOn
<1>15. \A t \in Tasks : Remote[t] \in Names
  BY DEF Names
<1>16. RemoveInv'
  <2>1. \A t \in Tasks : task[t].stage = "done" => t # current
    BY <1>3
  <2>2. ASSUME DistinctRemote
        PROVE  \A t \in Tasks : task[t].stage = "done" =>
                 (remote'[Remote[t]].exists => remote[Remote[t]].exists)
    BY <1>3, <1>8, <1>15, <2>1, <2>2
  <2>3. \A t \in Tasks : /\ task[t].stage = "done" => task'[t].stage = "done"
                         /\ task'[t].status = "FINISHED" => task[t].status = "FINISHED"
    BY <1>9
  <2> QED
    BY <1>1, <1>4, <2>2, <2>3, RemoveFrame
<1>17. ClashInv'
  <2> SUFFICES ASSUME DistinctRemote, failed = {}, failed' = {},
                      \A c \in Names : rms[c] = "idle" /\ rms'[c] = "idle"
               PROVE  /\ dead' => dead
                      /\ \A t \in Tasks : Untouched(t)' =>
                           /\ Untouched(t)
                           /\ remote'[Remote[t]].locked => remote[Remote[t]].locked
                      /\ \A t \in Tasks : (task'[t].stage = "queued" /\ ~Untouched(t)') =>
                           \/ remote'[Remote[t]].exists
                           \/ /\ task[t].stage = "queued" /\ ~Untouched(t)
                              /\ remote[Remote[t]].exists => remote'[Remote[t]].exists
    BY <1>1, <1>14, ClashFrame
  <2>1. dead' => dead
    <3>1. pc["big"] = "lock" => remote[p].exists
      BY <1>1, <1>3 DEF ClashInv
    <3> QED
      BY <3>1 DEF BigNamenodePut, BigLockRemote, BigDatanodePut, BigNamenodePutOk, CallFails
  <2>2. \A w, t : Has(w, t)' <=> Has(w, t)
    BY <1>4, HasFrame
  <2>3. ~Untouched(current)'
    <3>1. ~Has("small", current) /\ ~Has("big", current) /\ ~Has("moving", current)
          /\ ~Has("agg_small", current) /\ ~Has("agg_timer", current)
      BY <1>3 DEF Places
    <3>2. current' = current /\ task'[current].stage = "queued" /\ pc'["big"] # "put"
      BY <1>3, <1>4, <1>9, <1>12
    <3> QED
      BY <2>2, <3>1, <3>2 DEF Untouched
  <2>4. ASSUME NEW t \in Tasks, t # current
        PROVE  (Untouched(t)' <=> Untouched(t)) /\ remote'[Remote[t]] = remote[Remote[t]]
    <3>1. ~Has("current", t)
      BY <2>4 DEF Has
    <3>2. Untouched(t)' <=> Untouched(t)
      BY <1>4, <1>9, <2>2, <3>1 DEF Untouched
    <3> QED
      BY <1>3, <1>8, <1>15, <2>4, <3>2
  <2>5. ASSUME NEW t \in Tasks
        PROVE  /\ Untouched(t)' =>
                           /\ Untouched(t)
                           /\ remote'[Remote[t]].locked => remote[Remote[t]].locked
               /\ (task'[t].stage = "queued" /\ ~Untouched(t)') =>
                           \/ remote'[Remote[t]].exists
                           \/ /\ task[t].stage = "queued" /\ ~Untouched(t)
                              /\ remote[Remote[t]].exists => remote'[Remote[t]].exists
    <3>1. CASE t # current
      BY <1>9, <2>4, <3>1
    <3>2. CASE t = current
      <4>1. ~Untouched(t)' /\ Remote[t] = p /\ task[t].stage = "queued"
        BY <1>3, <1>4, <2>3, <3>2
      <4>2. Untouched(t) <=> pc["big"] = "put"
        BY <1>3, <3>2
      <4> HIDE DEF p
      <4> QED
        BY <1>8, <4>1, <4>2
    <3> QED
      BY <3>1, <3>2
  <2> QED
    BY <2>1, <2>5
<1>18. \A t \in Tasks : task'[t].status = "CANCELED" => task[t].status = "CANCELED"
  BY <1>9
<1> QED
  BY <1>4, <1>9, <1>11, <1>13, <1>14, <1>16, <1>17, <1>18, StillInv

-----------------------------------------------------------------------------
(* Steps that move tasks                                                   *)

\* Tasks whose upload has not begun move to a place where it has not begun.
LEMMA MoveInv ==
  ASSUME IInv, UNCHANGED <<dead, rms, remote, failed, gets>>,
         NEW M, NEW to \in Places,
         \A t \in Tasks, w \in Places : Has(w, t)' <=> (IF t \in M THEN w = to ELSE Has(w, t)),
         \A t \in Tasks : t \in M => Untouched(t),
         \/ to \in {"small", "big", "moving"}
         \/ (to = "agg_small" /\ agg'["small"].step = "put_batch")
         \/ (to = "agg_timer" /\ agg'["timer"].step = "put_batch")
         \/ (to = "current" /\ pc'["big"] = "put"),
         \A t \in Tasks \ M :
           /\ Has("agg_small", t) => agg'["small"].step = agg["small"].step
           /\ Has("agg_timer", t) => agg'["timer"].step = agg["timer"].step
           /\ Has("current", t) => pc'["big"] = pc["big"],
         \A t \in Tasks : /\ task'[t].stage = IF t \in M THEN "queued" ELSE task[t].stage
                          /\ task'[t].status \in {"WAITING", task[t].status},
         \A p \in Names : map["small"][p] # NoTask => map'["small"][p] # NoTask,
         TypeInv', ThreadInv', NoDupInv', MapInv'
  PROVE  IInv'
<1>1. TypeInv /\ OnePlaceInv /\ GetInv /\ RemoveInv /\ ClashInv
  BY DEF IInv
<1>2. to # "nowhere"
  BY DEF Places
<1>3. OnePlaceInv'
  BY <1>1, <1>2, MoveKeeps
<1>4. RmGoesOn
  BY DEF RmGoesOn
<1>5. GetInv'
  BY <1>1, <1>4, GetFrame
<1>6. {"small", "big", "agg_small", "agg_timer", "current", "moving"} = Places
  BY DEF Places
<1>7. \A t \in Tasks : task[t].stage = "done" => t \notin M
  <2>1. \A t \in Tasks : Untouched(t) => task[t].stage \in {"new", "queued"}
    BY <1>1, <1>6 DEF Untouched, OnePlaceInv
  <2> QED
    BY <2>1
<1>8. RemoveInv'
  <2>1. \A t \in Tasks : /\ task[t].stage = "done" => task'[t].stage = "done"
                         /\ task'[t].status = "FINISHED" => task[t].status = "FINISHED"
    BY <1>7
  <2> QED
    BY <1>1, <2>1, RemoveFrame
<1>9. ASSUME NEW t \in Tasks
      PROVE  Untouched(t)' <=> Untouched(t)
  <2>1. CASE t \in M
    <3>1. Has(to, t)'
      BY <2>1
    <3>2. Untouched(t)'
      BY <3>1 DEF Untouched
    <3> QED
      BY <2>1, <3>2
  <2>2. CASE t \notin M
    <3>1. \A w \in Places : Has(w, t)' <=> Has(w, t)
      BY <2>2
    <3>2. /\ Has("small", t)' <=> Has("small", t)
          /\ Has("big", t)' <=> Has("big", t)
          /\ Has("moving", t)' <=> Has("moving", t)
          /\ Has("agg_small", t)' <=> Has("agg_small", t)
          /\ Has("agg_timer", t)' <=> Has("agg_timer", t)
          /\ Has("current", t)' <=> Has("current", t)
      BY <1>6, <3>1
    <3>3. task'[t].stage = task[t].stage
      BY <2>2
    <3> QED
      BY <2>2, <3>2, <3>3 DEF Untouched
  <2> QED
    BY <2>1, <2>2
<1>10. ASSUME NEW t \in Tasks, ~Untouched(t), task'[t].stage = "queued"
       PROVE  task[t].stage = "queued"
  <2>1. t \notin M
    BY <1>10
  <2> QED
    BY <1>10, <2>1
<1>11. ClashInv'
  BY <1>1, <1>4, <1>9, <1>10, ClashFrame
<1> QED
  BY <1>3, <1>5, <1>8, <1>11 DEF IInv

\* What the places hold, as Has sees it.
LEMMA HasIs ==
  ASSUME NEW t
  PROVE  /\ Has("small", t) <=> t \in Range(que["small"])
         /\ Has("big", t) <=> t \in Range(que["big"])
         /\ Has("agg_small", t) <=> t \in Range(agg["small"].files)
         /\ Has("agg_timer", t) <=> t \in Range(agg["timer"].files)
         /\ Has("current", t) <=> t = current
         /\ Has("moving", t) <=> t \in moving
BY DEF Has, Batch

\* The same after a step.
LEMMA HasNextIs ==
  ASSUME NEW t
  PROVE  /\ Has("small", t)' <=> t \in Range(que'["small"])
         /\ Has("big", t)' <=> t \in Range(que'["big"])
         /\ Has("agg_small", t)' <=> t \in Range(agg'["small"].files)
         /\ Has("agg_timer", t)' <=> t \in Range(agg'["timer"].files)
         /\ Has("current", t)' <=> t = current'
         /\ Has("moving", t)' <=> t \in moving'
BY DEF Has, Batch

\* push_back puts a task that is not in the queue at its end, and under its path.
LEMMA PushIs ==
  ASSUME IInv, NEW q \in Queues, NEW t \in Tasks, t \notin Range(que[q]), push_back(q, t),
         rms' = rms, (task[t].stage = "new" => q = QueueFor(t))
  PROVE  /\ que' \in [Queues -> Seq(Tasks)]
         /\ \A c \in Queues : NoDup(que'[c])
         /\ Range(que'[q]) = Range(que[q]) \cup {t}
         /\ \A c \in Queues : c # q => que'[c] = que[c]
         /\ map' \in [Queues -> [Names -> Tasks \cup {NoTask}]]
         /\ \A c \in Queues, p \in Names : map[c][p] # NoTask => map'[c][p] # NoTask
         /\ task' \in [Tasks -> Task]
         /\ task'[t].stage = "queued" /\ task'[t].status = "WAITING"
         /\ \A u \in Tasks : u # t => task'[u] = task[u]
         /\ MapInv'
<1>1. TypeInv /\ MapInv /\ NoDupInv
  BY DEF IInv
<1>2. que \in [Queues -> Seq(Tasks)] /\ map \in [Queues -> [Names -> Tasks \cup {NoTask}]]
      /\ task \in [Tasks -> Task] /\ Remote[t] \in Names /\ NoTask \notin Tasks
  BY <1>1, DaemonAssumption DEF TypeInv, Names
<1> DEFINE new == [status |-> "WAITING", belong_que |-> q, stage |-> "queued"]
           longer == Append(que[q], t)
<1>3. /\ que' = [que EXCEPT ![q] = longer]
      /\ map' = [map EXCEPT ![q][Remote[t]] = t]
      /\ task' = [task EXCEPT ![t] = new]
  BY DEF push_back
<1>4. longer \in Seq(Tasks) /\ Range(longer) = Range(que[q]) \cup {t} /\ NoDup(longer)
  <2>1. que[q] \in Seq(Tasks) /\ NoDup(que[q])
    BY <1>1, <1>2 DEF NoDupInv
  <2> QED
    BY <2>1, AppendRange
<1> HIDE DEF longer
<1>5. /\ que' \in [Queues -> Seq(Tasks)] /\ que'[q] = longer
      /\ \A c \in Queues : c # q => que'[c] = que[c]
  BY <1>2, <1>3, <1>4
<1>6. \A c \in Queues : NoDup(que'[c])
  BY <1>1, <1>4, <1>5 DEF NoDupInv
<1>7. /\ map' \in [Queues -> [Names -> Tasks \cup {NoTask}]]
      /\ \A c \in Queues, p \in Names :
           map'[c][p] = IF c = q /\ p = Remote[t] THEN t ELSE map[c][p]
  BY <1>2, <1>3
<1>8. new \in Task /\ new.stage = "queued" /\ new.status = "WAITING" /\ new.belong_que = q
  BY DEF Task, Status, Stages
<1> HIDE DEF new
<1>9. /\ task' \in [Tasks -> Task] /\ task'[t] = new
      /\ \A u \in Tasks : u # t => task'[u] = task[u]
  BY <1>2, <1>3, <1>8
<1>10. \A c \in Queues, p \in Names : map[c][p] # NoTask => map'[c][p] # NoTask
  BY <1>2, <1>7
<1>11. MapInv'
  <2>1. \A c \in Queues, p \in Names : map'[c][p] # NoTask => Remote[map'[c][p]] = p
    BY <1>1, <1>7 DEF MapInv
  <2>2. ASSUME NEW u \in Tasks, task'[u].stage # "new"
        PROVE  /\ map'[QueueFor(u)][Remote[u]] # NoTask
               /\ map'[task'[u].belong_que][Remote[u]] # NoTask
    <3>1. QueueFor(u) \in Queues /\ Remote[u] \in Names /\ QueueFor(u)' = QueueFor(u)
      BY DEF QueueFor, Queues, Names
    <3>2. CASE u # t
      <4>1. task'[u] = task[u] /\ task[u] \in Task
        BY <1>2, <1>9, <3>2
      <4>2. task[u].belong_que \in Queues
        BY <4>1 DEF Task
      <4>3. map[QueueFor(u)][Remote[u]] # NoTask /\ map[task[u].belong_que][Remote[u]] # NoTask
        BY <1>1, <2>2, <4>1 DEF MapInv
      <4> QED
        BY <1>10, <3>1, <4>1, <4>2, <4>3
    <3>3. CASE u = t
      <4>1. map'[q][Remote[t]] = t /\ task'[u].belong_que = q
        BY <1>2, <1>7, <1>8, <1>9, <3>3
      <4>2. task[t].stage # "new" => map[QueueFor(t)][Remote[t]] # NoTask
        BY <1>1 DEF MapInv
      <4> QED
        BY <1>2, <1>7, <3>1, <3>3, <4>1, <4>2
    <3> QED
      BY <3>2, <3>3
  <2>3. \A u \in Tasks : task'[u].status = "CANCELED" => rms'[Remote[u]] # "idle"
    BY <1>1, <1>8, <1>9 DEF MapInv
  <2> QED
    BY <2>1, <2>2, <2>3 DEF MapInv, QueueFor
<1>12. Range(que'[q]) = Range(que[q]) \cup {t}
  BY <1>4, <1>5
<1>13. task'[t].stage = "queued" /\ task'[t].status = "WAITING"
  BY <1>8, <1>9
<1> QED
  BY <1>5, <1>6, <1>7, <1>9, <1>10, <1>11, <1>12, <1>13

\* notify_one keeps the shape of the flags.
LEMMA NotifyType ==
  ASSUME TypeInv, NEW q \in Queues, Notify(q)
  PROVE  notified' \in [Queues -> BOOLEAN]
<1>1. notified \in [Queues -> BOOLEAN]
  BY DEF TypeInv
<1> DEFINE b == notified[q] \/ pc[q] = "waiting"
<1>2. b \in BOOLEAN
  OBVIOUS
<1>3. notified' = [notified EXCEPT ![q] = b]
  BY DEF Notify
<1> HIDE DEF b
<1> QED
  BY <1>1, <1>2, <1>3

\* A request to upload, and the second half of fsync.
LEMMA PushInv ==
  ASSUME IInv, NEW t \in Tasks, Upload(t) \/ FsyncPush(t)
  PROVE  IInv'
<1> DEFINE q == IF Upload(t) THEN QueueFor(t) ELSE "big"
<1>1. TypeInv /\ ThreadInv /\ OnePlaceInv /\ NoDupInv
  BY DEF IInv
<1>2. q \in Queues
  BY DEF QueueFor, Queues
<1>3. push_back(q, t) /\ Notify(q)
  BY DEF Upload, FsyncPush
<1>4. UNCHANGED <<stop, dead, mutex, pc, current, agg, recent, rms, remote, uploaded, failed, gets>>
  BY DEF Upload, FsyncPush
<1>5. moving' = moving \ {t}
  <2>1. Upload(t) => moving' = moving /\ task[t].stage = "new"
    BY DEF Upload
  <2>2. task[t].stage = "new" => t \notin moving
    BY <1>1, HasIs DEF OnePlaceInv, Places
  <2> QED
    BY <2>1, <2>2 DEF FsyncPush
<1>6. \A w \in Places : Has(w, t) => w = "moving"
  <2>1. Upload(t) => task[t].stage = "new"
    BY DEF Upload
  <2>2. task[t].stage = "new" => \A w \in Places : ~Has(w, t)
    BY <1>1 DEF OnePlaceInv
  <2>3. ~Upload(t) => Has("moving", t)
    BY DEF FsyncPush, Has
  <2>4. "moving" \in Places
    BY DEF Places
  <2> QED
    BY <1>1, <2>1, <2>2, <2>3, <2>4, Zenon DEF OnePlaceInv
<1>7. Untouched(t) /\ (task[t].stage = "new" => q = QueueFor(t))
  <2>1. CASE Upload(t)
    BY <2>1 DEF Upload, Untouched
  <2>2. CASE ~Upload(t)
    <3>1. Has("moving", t) /\ "moving" \in Places
      BY <2>2 DEF FsyncPush, Has, Places
    <3>2. task[t].stage = "queued"
      BY <1>1, <3>1 DEF OnePlaceInv
    <3> QED
      BY <3>1, <3>2 DEF Untouched
  <2> QED
    BY <2>1, <2>2
<1>8. /\ t \notin Range(que["small"]) /\ t \notin Range(que["big"])
      /\ t \notin Range(agg["small"].files) /\ t \notin Range(agg["timer"].files)
      /\ t # current
  <2>1. ~Has("small", t) /\ ~Has("big", t) /\ ~Has("agg_small", t) /\ ~Has("agg_timer", t)
        /\ ~Has("current", t)
    BY <1>6 DEF Places
  <2> QED
    BY <2>1, HasIs
<1>9. t \notin Range(que[q])
  BY <1>2, <1>8 DEF Queues
<1> HIDE DEF q
<1>10. /\ que' \in [Queues -> Seq(Tasks)]
       /\ \A c \in Queues : NoDup(que'[c])
       /\ Range(que'[q]) = Range(que[q]) \cup {t}
       /\ \A c \in Queues : c # q => que'[c] = que[c]
       /\ map' \in [Queues -> [Names -> Tasks \cup {NoTask}]]
       /\ \A c \in Queues, p \in Names : map[c][p] # NoTask => map'[c][p] # NoTask
       /\ task' \in [Tasks -> Task]
       /\ task'[t].stage = "queued" /\ task'[t].status = "WAITING"
       /\ \A u \in Tasks : u # t => task'[u] = task[u]
       /\ MapInv'
  BY <1>2, <1>3, <1>4, <1>7, <1>9, PushIs
<1>11. notified' \in [Queues -> BOOLEAN]
  BY <1>1, <1>2, <1>3, NotifyType
<1>12. TypeInv'
  BY <1>1, <1>4, <1>5, <1>10, <1>11 DEF TypeInv
<1>13. ThreadInv'
  BY <1>1, <1>4 DEF ThreadInv
<1>14. NoDupInv'
  BY <1>1, <1>4, <1>10 DEF NoDupInv
<1>15. ASSUME NEW u \in Tasks, NEW w \in Places
       PROVE  Has(w, u)' <=> (IF u \in {t} THEN w = q ELSE Has(w, u))
  <2>1. /\ u \in Range(que'["small"]) <=> (u \in Range(que["small"]) \/ (u = t /\ q = "small"))
        /\ u \in Range(que'["big"]) <=> (u \in Range(que["big"]) \/ (u = t /\ q = "big"))
        /\ u \in moving' <=> (u \in moving /\ u # t)
    BY <1>2, <1>5, <1>10 DEF Queues
  <2>2. q \in {"small", "big"} /\ agg' = agg /\ current' = current
    BY <1>2, <1>4 DEF Queues
  <2> QED
    BY <1>8, <2>1, <2>2 DEF Has, Batch, Places
<1>16. q \in {"small", "big", "moving"} /\ q \in Places
  BY <1>2 DEF Queues, Places
<1>17. \A u \in Tasks : /\ task'[u].stage = IF u \in {t} THEN "queued" ELSE task[u].stage
                        /\ task'[u].status \in {"WAITING", task[u].status}
  BY <1>10
<1>18. \A p \in Names : map["small"][p] # NoTask => map'["small"][p] # NoTask
  BY <1>10 DEF Queues
<1>19. UNCHANGED <<dead, rms, remote, failed, gets>> /\ agg' = agg /\ pc' = pc /\ MapInv'
       /\ \A u \in Tasks : u \in {t} => Untouched(u)
  BY <1>4, <1>7, <1>10
<1> QED
  BY <1>12, <1>13, <1>14, <1>15, <1>16, <1>17, <1>18, <1>19, MoveInv

\* A task in a queue or in fsync's hands has not begun its upload.
LEMMA QueuedIs ==
  ASSUME IInv, NEW t \in Tasks, NEW from \in {"small", "big", "moving"}, Has(from, t)
  PROVE  /\ Untouched(t) /\ task[t].stage = "queued"
         /\ \A w \in Places : Has(w, t) <=> w = from
<1>1. from \in Places
  BY DEF Places
<1>2. Untouched(t)
  BY DEF Untouched
<1>3. task[t].stage = "queued" /\ \A w \in Places : Has(w, t) => w = from
  BY <1>1, Zenon DEF IInv, OnePlaceInv
<1> QED
  BY <1>2, <1>3

\* The first half of fsync.
LEMMA FsyncTakeInv ==
  ASSUME IInv, NEW t \in Tasks, FsyncTake(t)
  PROVE  IInv'
<1>1. TypeInv /\ ThreadInv /\ OnePlaceInv /\ NoDupInv /\ MapInv
  BY DEF IInv
<1>2. /\ UNCHANGED <<map, task, stop, dead, mutex, notified, pc, current, agg, recent,
                     rms, remote, uploaded, failed, gets>>
      /\ moving' = moving \cup {t}
  BY DEF FsyncTake
<1>3. que \in [Queues -> Seq(Tasks)] /\ que["small"] \in Seq(Tasks) /\ NoDup(que["small"])
      /\ {"small", "big"} = Queues /\ task \in [Tasks -> Task]
  BY <1>1 DEF TypeInv, NoDupInv, Queues
<1>4. DOMAIN que["small"] = 1..Len(que["small"])
  BY <1>3
<1>5. PICK x \in 1..Len(que["small"]) :
        que["small"][x] = t /\ que' = [que EXCEPT !["small"] = RemoveAt(que["small"], x)]
  BY <1>4 DEF FsyncTake
<1> DEFINE rest == RemoveAt(que["small"], x)
<1>6. rest \in Seq(Tasks) /\ NoDup(rest) /\ Range(rest) = Range(que["small"]) \ {t}
  BY <1>3, <1>5, EraseRange
<1>7. t \in Range(que["small"])
  BY <1>3, <1>5, RangeIs
<1> HIDE DEF rest
<1>8. que' \in [Queues -> Seq(Tasks)] /\ que'["small"] = rest /\ que'["big"] = que["big"]
  BY <1>3, <1>5, <1>6 DEF rest
<1>9. TypeInv' /\ ThreadInv'
  <2>1. moving' \subseteq Tasks
    BY <1>1, <1>2 DEF TypeInv
  <2> QED
    BY <1>1, <1>2, <1>8, <2>1 DEF TypeInv, ThreadInv
<1>10. NoDupInv'
  BY <1>1, <1>2, <1>3, <1>6, <1>8 DEF NoDupInv
<1>11. MapInv'
  <2>1. RmGoesOn
    BY <1>2 DEF RmGoesOn
  <2> QED
    BY <1>1, <1>2, <2>1, MapFrame
<1>12. /\ Untouched(t) /\ task[t].stage = "queued"
       /\ \A w \in Places : Has(w, t) <=> w = "small"
  <2>1. Has("small", t)
    BY <1>7, HasIs
  <2> QED
    BY <2>1, QueuedIs
<1>13. ASSUME NEW u \in Tasks, NEW w \in Places
       PROVE  Has(w, u)' <=> (IF u \in {t} THEN w = "moving" ELSE Has(w, u))
  <2>1. /\ u \in Range(que'["small"]) <=> (u \in Range(que["small"]) /\ u # t)
        /\ u \in Range(que'["big"]) <=> u \in Range(que["big"])
        /\ u \in moving' <=> (u \in moving \/ u = t)
    BY <1>2, <1>6, <1>8
  <2>2. agg' = agg /\ current' = current
    BY <1>2
  <2>3. u = t => (Has(w, u) <=> w = "small")
    BY <1>12
  <2> QED
    BY <2>1, <2>2, <2>3 DEF Has, Batch, Places
<1>14. "moving" \in Places
  BY DEF Places
<1>15. \A u \in Tasks : task'[u].stage = IF u \in {t} THEN "queued" ELSE task[u].stage
  BY <1>2, <1>12
<1> QED
  BY <1>2, <1>9, <1>10, <1>11, <1>12, <1>13, <1>14, <1>15, MoveInv

\* The big-file thread takes a file.
LEMMA BigTakeInv ==
  ASSUME IInv, BigTake
  PROVE  IInv'
<1>1. TypeInv /\ ThreadInv /\ OnePlaceInv /\ NoDupInv /\ MapInv
  BY DEF IInv
<1>2. /\ UNCHANGED <<map, task, stop, dead, mutex, notified, agg, recent, moving, rms,
                     remote, uploaded, failed, gets>>
      /\ pc["big"] = "check"
  BY DEF BigTake
<1>3. que \in [Queues -> Seq(Tasks)] /\ que["big"] \in Seq(Tasks) /\ NoDup(que["big"])
      /\ {"small", "big"} = Queues /\ task \in [Tasks -> Task]
      /\ pc \in [Queues -> {"top", "check", "waiting", "take", "upload", "put", "lock",
                            "data", "putok", "finish", "end", "exited"}]
  BY <1>1 DEF TypeInv, NoDupInv, Queues
<1>4. RmGoesOn
  BY <1>2 DEF RmGoesOn
<1>5. current = NoTask /\ NoTask \notin Tasks
  BY <1>1, <1>2, DaemonAssumption DEF ThreadInv, BigSteps
<1>6. CASE empty("big") /\ UNCHANGED <<que, current>> /\ pc' = [pc EXCEPT !["big"] = "end"]
  <2>1. pc'["big"] = "end" /\ pc'["small"] = pc["small"] /\ pc' \in [Queues ->
          {"top", "check", "waiting", "take", "upload", "put", "lock",
           "data", "putok", "finish", "end", "exited"}]
    BY <1>3, <1>6
  <2>2. TypeInv'
    BY <1>1, <1>2, <1>6, <2>1 DEF TypeInv
  <2>3. ThreadInv'
    BY <1>1, <1>2, <1>5, <1>6, <2>1 DEF ThreadInv, BigSteps
  <2>4. GetInv'
    BY <1>2, <1>4, GetFrame DEF IInv
  <2>5. RemoveInv'
    BY <1>2, RemoveFrame DEF IInv
  <2> QED
    BY <1>2, <1>4, <1>6, <2>1, <2>2, <2>3, <2>4, <2>5, QuietInv
<1>7. CASE ~empty("big") /\ current' = Head(que["big"]) /\ pc' = [pc EXCEPT !["big"] = "put"]
           /\ que' = [que EXCEPT !["big"] = Tail(que["big"])]
  <2> DEFINE rest == Tail(que["big"])
             t == Head(que["big"])
  <2>1. que["big"] # << >>
    BY <1>7 DEF empty
  <2>2. /\ rest \in Seq(Tasks) /\ NoDup(rest) /\ t \in Range(que["big"])
        /\ Range(rest) = Range(que["big"]) \ {t}
    BY <1>3, <2>1, TailRange
  <2>3. t \in Tasks
    BY <1>3, <2>2, RangeIs
  <2> HIDE DEF rest, t
  <2>4. que' \in [Queues -> Seq(Tasks)] /\ que'["big"] = rest /\ que'["small"] = que["small"]
    BY <1>3, <1>7, <2>2 DEF rest
  <2>5. current' = t
    BY <1>7 DEF t
  <2>6. pc'["big"] = "put" /\ pc'["small"] = pc["small"] /\ pc' \in [Queues ->
          {"top", "check", "waiting", "take", "upload", "put", "lock",
           "data", "putok", "finish", "end", "exited"}]
    BY <1>3, <1>7
  <2>7. TypeInv'
    BY <1>1, <1>2, <2>3, <2>4, <2>5, <2>6 DEF TypeInv
  <2>8. ThreadInv'
    BY <1>1, <1>2, <1>5, <2>3, <2>5, <2>6 DEF ThreadInv, BigSteps
  <2>9. NoDupInv'
    BY <1>1, <1>2, <1>3, <2>2, <2>4 DEF NoDupInv
  <2>10. MapInv'
    BY <1>1, <1>2, <1>4, MapFrame
  <2>11. /\ Untouched(t) /\ task[t].stage = "queued"
         /\ \A w \in Places : Has(w, t) <=> w = "big"
    <3>1. Has("big", t)
      BY <2>2, HasIs
    <3> QED
      BY <2>3, <3>1, QueuedIs
  <2>12. ASSUME NEW u \in Tasks, NEW w \in Places
         PROVE  Has(w, u)' <=> (IF u \in {t} THEN w = "current" ELSE Has(w, u))
    <3>1. /\ u \in Range(que'["small"]) <=> u \in Range(que["small"])
          /\ u \in Range(que'["big"]) <=> (u \in Range(que["big"]) /\ u # t)
          /\ u = current' <=> u = t
      BY <2>2, <2>4, <2>5
    <3>2. agg' = agg /\ moving' = moving /\ u # current
      BY <1>2, <1>5
    <3>3. u = t => (Has(w, u) <=> w = "big")
      BY <2>11
    <3> QED
      BY <3>1, <3>2, <3>3 DEF Has, Batch, Places
  <2>13. "current" \in Places
    BY DEF Places
  <2>14. \A u \in Tasks : task'[u].stage = IF u \in {t} THEN "queued" ELSE task[u].stage
    BY <1>2, <2>11
  <2>15. \A u \in Tasks : ~Has("current", u)
    BY <1>5, HasIs
  <2>16. UNCHANGED <<dead, rms, remote, failed, gets>> /\ agg' = agg /\ task' = task /\ map' = map
         /\ \A u \in Tasks : u \in {t} => Untouched(u)
    BY <1>2, <2>11
  <2> QED
    BY <2>6, <2>7, <2>8, <2>9, <2>10, <2>12, <2>13, <2>14, <2>15, <2>16, MoveInv
<1> QED
  BY <1>6, <1>7 DEF BigTake

\* An aggregate is put together out of the front of the small queue.
LEMMA AggTakeInv ==
  ASSUME IInv, SmallTake \/ TimerTake
  PROVE  IInv'
<1> DEFINE a == IF SmallTake THEN "small" ELSE "timer"
           to == IF SmallTake THEN "agg_small" ELSE "agg_timer"
           batch == get_until_size(AggSizeBoundary)
           rest == AfterGetUntilSize(AggSizeBoundary)
           s == que["small"]
           new == [step |-> "put_batch", files |-> batch]
<1>1. TypeInv /\ ThreadInv /\ OnePlaceInv /\ NoDupInv /\ MapInv
  BY DEF IInv
<1>2. /\ UNCHANGED <<map, task, stop, dead, mutex, notified, current, recent, moving, rms,
                     remote, uploaded, failed, gets>>
      /\ agg' = [agg EXCEPT ![a] = new]
      /\ que' = [que EXCEPT !["small"] = rest]
  BY DEF SmallTake, TimerTake
<1>3. que \in [Queues -> Seq(Tasks)] /\ s \in Seq(Tasks) /\ NoDup(s)
      /\ {"small", "big"} = Queues /\ {"small", "timer"} = Aggregators
      /\ agg \in [Aggregators -> [step : AggSteps, files : Seq(Tasks)]]
      /\ pc \in [Queues -> {"top", "check", "waiting", "take", "upload", "put", "lock",
                            "data", "putok", "finish", "end", "exited"}]
  BY <1>1 DEF TypeInv, NoDupInv, Queues, Aggregators
<1>4. /\ batch \in Seq(Tasks) /\ rest \in Seq(Tasks)
      /\ NoDup(batch) /\ NoDup(rest)
      /\ Range(batch) \subseteq Range(s)
      /\ Range(rest) = Range(s) \ Range(batch)
  <2>1. PICK n \in 0..Len(s) : batch = SubSeq(s, 1, n) /\ rest = SubSeq(s, n + 1, Len(s))
    BY <1>1, TakenIs
  <2> HIDE DEF batch, rest, s
  <2>2. LET first == SubSeq(s, 1, n)
            last == SubSeq(s, n + 1, Len(s))
        IN  /\ first \in Seq(Tasks) /\ last \in Seq(Tasks)
            /\ NoDup(first) /\ NoDup(last)
            /\ Range(first) \subseteq Range(s)
            /\ Range(last) = Range(s) \ Range(first)
    BY <1>3, SplitRange
  <2> QED
    BY <2>1, <2>2
<1>5. a \in Aggregators /\ to \in Places /\ agg[a].step = "none" /\ agg[a].files = << >>
  <2>1. SmallTake => pc["small"] = "take"
    BY DEF SmallTake
  <2>2. pc["small"] = "take" => agg["small"].step = "none"
    BY <1>1 DEF ThreadInv
  <2>3. ~SmallTake => agg["timer"].step = "none"
    BY DEF TimerTake, NoAggregate
  <2>4. a \in Aggregators /\ to \in Places /\ agg[a].step = "none"
    BY <2>1, <2>2, <2>3 DEF Aggregators, Places
  <2> QED
    BY <1>1, <2>4 DEF ThreadInv
<1>6. (a = "small" /\ to = "agg_small") \/ (a = "timer" /\ to = "agg_timer")
  OBVIOUS
<1>7. /\ pc'["big"] = pc["big"]
      /\ pc'["small"] = "upload" <=> (a = "small" \/ pc["small"] = "upload")
      /\ pc' \in [Queues -> {"top", "check", "waiting", "take", "upload", "put", "lock",
                             "data", "putok", "finish", "end", "exited"}]
  <2>1. SmallTake => pc' = [pc EXCEPT !["small"] = "upload"]
    BY DEF SmallTake
  <2>2. ~SmallTake => pc' = pc
    BY DEF TimerTake
  <2> QED
    BY <1>3, <2>1, <2>2
<1> HIDE DEF a, to, batch, rest, s
<1>8. new \in [step : AggSteps, files : Seq(Tasks)] /\ new.step = "put_batch" /\ new.files = batch
  BY <1>4 DEF AggSteps
<1> HIDE DEF new
<1>9. que' \in [Queues -> Seq(Tasks)] /\ que'["small"] = rest /\ que'["big"] = que["big"]
  BY <1>2, <1>3, <1>4
<1>10. /\ agg' \in [Aggregators -> [step : AggSteps, files : Seq(Tasks)]]
       /\ agg'[a] = new /\ \A b \in Aggregators : b # a => agg'[b] = agg[b]
  BY <1>2, <1>3, <1>5, <1>8
<1>11. TypeInv'
  BY <1>1, <1>2, <1>7, <1>9, <1>10 DEF TypeInv
<1>12. ThreadInv'
  <2>1. current' # NoTask <=> pc'["big"] \in BigSteps
    BY <1>1, <1>2, <1>7 DEF ThreadInv
  <2>2. pc'["small"] = "upload" <=> agg'["small"].step # "none"
    BY <1>1, <1>3, <1>7, <1>8, <1>10 DEF ThreadInv
  <2>3. \A b \in Aggregators : agg'[b].step = "none" => agg'[b].files = << >>
    BY <1>1, <1>8, <1>10 DEF ThreadInv
  <2> QED
    BY <2>1, <2>2, <2>3 DEF ThreadInv
<1>13. NoDupInv'
  <2>1. \A q \in Queues : NoDup(que'[q])
    BY <1>1, <1>3, <1>4, <1>9 DEF NoDupInv
  <2>2. \A b \in Aggregators : NoDup(agg'[b].files)
    BY <1>1, <1>4, <1>8, <1>10 DEF NoDupInv
  <2> QED
    BY <2>1, <2>2 DEF NoDupInv
<1>14. MapInv'
  <2>1. RmGoesOn
    BY <1>2 DEF RmGoesOn
  <2> QED
    BY <1>1, <1>2, <2>1, MapFrame
<1> DEFINE M == Range(batch)
<1>15. ASSUME NEW u \in Tasks, u \in M
       PROVE  /\ Untouched(u) /\ task[u].stage = "queued"
              /\ \A w \in Places : Has(w, u) <=> w = "small"
  <2>1. Has("small", u)
    BY <1>4, <1>15, HasIs DEF s
  <2> QED
    BY <2>1, QueuedIs
<1>16. \A u : u \notin Range(agg[a].files)
  <2>1. agg[a].files \in Seq(Tasks) /\ Len(agg[a].files) = 0
    BY <1>3, <1>5
  <2>2. Range(agg[a].files) = {agg[a].files[x] : x \in 1..0}
    BY <2>1, RangeIs
  <2> QED
    BY <2>2
<1>17. ASSUME NEW u \in Tasks, NEW w \in Places
       PROVE  Has(w, u)' <=> (IF u \in M THEN w = to ELSE Has(w, u))
  <2>1. /\ u \in Range(que'["small"]) <=> (u \in Range(que["small"]) /\ u \notin M)
        /\ u \in Range(que'["big"]) <=> u \in Range(que["big"])
    BY <1>4, <1>9 DEF s
  <2>2. /\ u \in Range(agg'[a].files) <=> u \in M
        /\ u \notin Range(agg[a].files)
        /\ \A b \in Aggregators : b # a => (u \in Range(agg'[b].files) <=> u \in Range(agg[b].files))
    BY <1>8, <1>10, <1>16
  <2>3. moving' = moving /\ current' = current
    BY <1>2
  <2>4. u \in M => (Has(w, u) <=> w = "small")
    BY <1>15
  <2> HIDE DEF M
  <2>5. CASE a = "small" /\ to = "agg_small"
    <3>1. /\ u \in Range(agg'["small"].files) <=> u \in M
          /\ u \notin Range(agg["small"].files)
          /\ u \in Range(agg'["timer"].files) <=> u \in Range(agg["timer"].files)
      BY <1>3, <2>2, <2>5
    <3> QED
      BY <2>1, <2>3, <2>4, <2>5, <3>1 DEF Has, Batch, Places
  <2>6. CASE a = "timer" /\ to = "agg_timer"
    <3>1. /\ u \in Range(agg'["timer"].files) <=> u \in M
          /\ u \notin Range(agg["timer"].files)
          /\ u \in Range(agg'["small"].files) <=> u \in Range(agg["small"].files)
      BY <1>3, <2>2, <2>6
    <3> QED
      BY <2>1, <2>3, <2>4, <2>6, <3>1 DEF Has, Batch, Places
  <2> QED
    BY <1>6, <2>5, <2>6
<1>18. \A u \in Tasks : task'[u].stage = IF u \in M THEN "queued" ELSE task[u].stage
  BY <1>2, <1>15
<1>19. \/ (to = "agg_small" /\ agg'["small"].step = "put_batch")
       \/ (to = "agg_timer" /\ agg'["timer"].step = "put_batch")
  BY <1>6, <1>8, <1>10
<1>20. \A u \in Tasks \ M :
         /\ Has("agg_small", u) => agg'["small"].step = agg["small"].step
         /\ Has("agg_timer", u) => agg'["timer"].step = agg["timer"].step
         /\ Has("current", u) => pc'["big"] = pc["big"]
  BY <1>3, <1>6, <1>7, <1>10, <1>16, HasIs
<1>21. UNCHANGED <<dead, rms, remote, failed, gets>> /\ task' = task /\ map' = map
       /\ \A u \in Tasks : u \in M => Untouched(u)
  BY <1>2, <1>15
<1> HIDE DEF M
<1> QED
  BY <1>5, <1>11, <1>12, <1>13, <1>14, <1>17, <1>18, <1>19, <1>20, <1>21, MoveInv

-----------------------------------------------------------------------------
(* The end of an upload, and the aggregates                                *)

\* Tasks whose upload ends leave the places.
LEMMA EndInv ==
  ASSUME IInv, UNCHANGED <<map, rms, failed, gets>>, NEW M,
         \A t \in Tasks, w \in Places : Has(w, t)' <=> (t \notin M /\ Has(w, t)),
         \A t \in Tasks :
           /\ task'[t].stage = IF t \in M THEN "done" ELSE task[t].stage
           /\ task'[t].belong_que = task[t].belong_que
           /\ task'[t].status = "CANCELED" => task[t].status = "CANCELED"
           /\ t \in M => task[t].stage = "queued",
         \A t \in Tasks \ M :
           /\ Has("agg_small", t) => agg'["small"].step = agg["small"].step
           /\ Has("agg_timer", t) => agg'["timer"].step = agg["timer"].step
           /\ Has("current", t) => pc'["big"] = pc["big"],
         DistinctRemote => \A t \in Tasks \ M : remote'[Remote[t]] = remote[Remote[t]],
         dead' = dead,
         TypeInv', ThreadInv', NoDupInv', RemoveInv'
  PROVE  IInv'
<1>1. OnePlaceInv /\ MapInv /\ GetInv /\ ClashInv
  BY DEF IInv
<1>2. OnePlaceInv'
  <2>1. \A t \in Tasks, w \in Places : Has(w, t)' <=> (IF t \in M THEN w = "nowhere" ELSE Has(w, t))
    BY DEF Places
  <2>2. \A t \in Tasks : task'[t].stage = "queued" <=>
                           (IF t \in M THEN "nowhere" # "nowhere" ELSE task[t].stage = "queued")
    OBVIOUS
  <2> QED
    BY <1>1, <2>1, <2>2, MoveKeeps
<1>3. RmGoesOn
  BY DEF RmGoesOn
<1>4. MapInv'
  BY <1>1, <1>3, MapFrame
<1>5. GetInv'
  BY <1>1, <1>3, GetFrame
<1>6. {"small", "big", "agg_small", "agg_timer", "current", "moving"} = Places
  BY DEF Places
<1>7. ASSUME NEW t \in Tasks
      PROVE  /\ t \in M => ~Untouched(t)'
             /\ t \notin M => (Untouched(t)' <=> Untouched(t))
  <2>1. /\ Has("small", t)' <=> (t \notin M /\ Has("small", t))
        /\ Has("big", t)' <=> (t \notin M /\ Has("big", t))
        /\ Has("moving", t)' <=> (t \notin M /\ Has("moving", t))
        /\ Has("agg_small", t)' <=> (t \notin M /\ Has("agg_small", t))
        /\ Has("agg_timer", t)' <=> (t \notin M /\ Has("agg_timer", t))
        /\ Has("current", t)' <=> (t \notin M /\ Has("current", t))
    BY <1>6
  <2>2. t \in M => task'[t].stage = "done"
    OBVIOUS
  <2>3. t \notin M => task'[t].stage = task[t].stage
    OBVIOUS
  <2> QED
    BY <2>1, <2>2, <2>3 DEF Untouched
<1>8. ClashInv'
  <2> SUFFICES ASSUME DistinctRemote, failed = {}, failed' = {},
                      \A c \in Names : rms[c] = "idle" /\ rms'[c] = "idle"
               PROVE  /\ \A t \in Tasks : Untouched(t)' =>
                           /\ Untouched(t)
                           /\ remote'[Remote[t]].locked => remote[Remote[t]].locked
                      /\ \A t \in Tasks : (task'[t].stage = "queued" /\ ~Untouched(t)') =>
                           \/ remote'[Remote[t]].exists
                           \/ /\ task[t].stage = "queued" /\ ~Untouched(t)
                              /\ remote[Remote[t]].exists => remote'[Remote[t]].exists
    BY <1>1, <1>3, ClashFrame
  <2>1. \A t \in Tasks : t \notin M => remote'[Remote[t]] = remote[Remote[t]]
    OBVIOUS
  <2> QED
    BY <1>7, <2>1
<1> QED
  BY <1>2, <1>4, <1>5, <1>8 DEF IInv

\* A big file is uploaded.
LEMMA BigFinishInv ==
  ASSUME IInv, BigFinish
  PROVE  IInv'
<1> DEFINE t == current
           p == Remote[t]
           q == task[t].belong_que
           mid == change_status(q, p, "FINISHED")
<1>1. TypeInv /\ ThreadInv /\ NoDupInv /\ RemoveInv
  BY DEF IInv
<1>2. /\ UNCHANGED <<que, map, stop, dead, mutex, notified, agg, recent, moving,
                     rms, remote, uploaded, failed, gets>>
      /\ pc["big"] = "finish" /\ pc' = [pc EXCEPT !["big"] = "end"]
      /\ current' = NoTask
      /\ task' = [mid EXCEPT ![t].stage = "done"]
  BY DEF BigFinish
<1>3. /\ t \in Tasks /\ p \in Names /\ q \in Queues
      /\ task[t].stage = "queued"
      /\ \A w \in Places : Has(w, t) <=> w = "current"
      /\ DistinctRemote => map[q][p] = t
  <2>1. pc["big"] \in BigSteps
    BY <1>2 DEF BigSteps
  <2> QED
    BY <2>1, CurrentIs
<1>4. /\ mid \in [Tasks -> Task]
      /\ \A u \in Tasks : /\ mid[u].stage = task[u].stage
                          /\ mid[u].belong_que = task[u].belong_que
                          /\ mid[u].status = IF u = map[q][p] THEN "FINISHED" ELSE task[u].status
  <2>1. "FINISHED" \in Status
    BY DEF Status
  <2> HIDE DEF q, p, t
  <2> QED
    BY <1>1, <1>3, <2>1, StatusIs
<1> HIDE DEF mid, q, p
<1>5. /\ task' \in [Tasks -> Task]
      /\ \A u \in Tasks : /\ task'[u].stage = IF u = t THEN "done" ELSE task[u].stage
                          /\ task'[u].belong_que = task[u].belong_que
                          /\ task'[u].status = mid[u].status
  <2>1. \A u \in Tasks : mid[u] \in Task /\ [mid[u] EXCEPT !.stage = "done"] \in Task
    BY <1>4 DEF Task, Stages
  <2>2. task' \in [Tasks -> Task]
    BY <1>2, <1>3, <1>4, <2>1
  <2>3. \A u \in Tasks : task'[u] = IF u = t THEN [mid[u] EXCEPT !.stage = "done"] ELSE mid[u]
    BY <1>2, <1>3, <1>4
  <2>4. ASSUME NEW u \in Tasks
        PROVE  /\ task'[u].stage = IF u = t THEN "done" ELSE task[u].stage
               /\ task'[u].belong_que = task[u].belong_que
               /\ task'[u].status = mid[u].status
    <3>1. /\ mid[u] \in Task /\ mid[u].stage = task[u].stage
          /\ mid[u].belong_que = task[u].belong_que
      BY <1>4, <2>1
    <3>2. task'[u] = IF u = t THEN [mid[u] EXCEPT !.stage = "done"] ELSE mid[u]
      BY <2>3
    <3> QED
      BY <3>1, <3>2 DEF Task
  <2> QED
    BY <2>2, <2>4
<1>6. pc'["big"] = "end" /\ pc'["small"] = pc["small"] /\ pc' \in [Queues ->
        {"top", "check", "waiting", "take", "upload", "put", "lock",
         "data", "putok", "finish", "end", "exited"}]
  BY <1>1, <1>2 DEF TypeInv, Queues
<1>7. TypeInv'
  BY <1>1, <1>2, <1>5, <1>6 DEF TypeInv
<1>8. ThreadInv'
  BY <1>1, <1>2, <1>6 DEF ThreadInv, BigSteps
<1>9. NoDupInv'
  BY <1>1, <1>2 DEF NoDupInv
<1>10. ASSUME NEW u \in Tasks, NEW w \in Places
       PROVE  Has(w, u)' <=> (u \notin {t} /\ Has(w, u))
  <2>1. u # current'
    BY <1>2, DaemonAssumption
  <2>2. que' = que /\ agg' = agg /\ moving' = moving
    BY <1>2
  <2>3. u = t => (Has(w, u) <=> w = "current")
    BY <1>3
  <2> QED
    BY <2>1, <2>2, <2>3 DEF Has, Batch, Places
<1>11. RemoveInv'
  <2>1. ASSUME DistinctRemote
        PROVE  \A u \in Tasks : /\ task[u].stage = "done" => task'[u].stage = "done"
                                /\ task'[u].status = "FINISHED" =>
                                     task[u].status = "FINISHED" \/ task'[u].stage = "done"
    BY <1>3, <1>4, <1>5, <2>1
  <2> QED
    BY <1>1, <1>2, <2>1, RemoveFrame
<1>12. \A u \in Tasks :
         /\ task'[u].stage = IF u \in {t} THEN "done" ELSE task[u].stage
         /\ task'[u].belong_que = task[u].belong_que
         /\ task'[u].status = "CANCELED" => task[u].status = "CANCELED"
         /\ u \in {t} => task[u].stage = "queued"
  BY <1>3, <1>4, <1>5
<1>13. \A u \in Tasks \ {t} : ~Has("current", u)
  BY HasIs
<1> QED
  BY <1>2, <1>7, <1>8, <1>9, <1>10, <1>11, <1>12, <1>13, EndInv

\* The place of an aggregate.
PlaceOf(a) == IF a = "small" THEN "agg_small" ELSE "agg_timer"

\* The files of an aggregate are nowhere else; with a path for every task nobody
\* else writes to their paths.
LEMMA BatchIs ==
  ASSUME IInv, NEW a \in Aggregators
  PROVE  /\ Batch(a) \subseteq Tasks /\ BatchNames(a) \subseteq Names
         /\ \A t \in Tasks : Has(PlaceOf(a), t) <=> t \in Batch(a)
         /\ \A t \in Batch(a) : /\ task[t].stage = "queued"
                                /\ \A w \in Places : Has(w, t) <=> w = PlaceOf(a)
                                /\ Untouched(t) <=> agg[a].step = "put_batch"
                                /\ Remote[t] \in BatchNames(a)
         /\ DistinctRemote => \A t \in Tasks : Remote[t] \in BatchNames(a) => t \in Batch(a)
<1>1. TypeInv /\ OnePlaceInv
  BY DEF IInv
<1>2. agg[a].files \in Seq(Tasks)
  <2>1. agg[a] \in [step : AggSteps, files : Seq(Tasks)]
    BY <1>1 DEF TypeInv
  <2> QED
    BY <2>1
<1>3. Batch(a) \subseteq Tasks
  BY <1>2, RangeIs DEF Batch
<1>4. BatchNames(a) \subseteq Names /\ \A t \in Batch(a) : Remote[t] \in BatchNames(a)
  BY <1>3 DEF BatchNames, Names
<1>5. a \in {"small", "timer"} /\ PlaceOf(a) \in Places
  BY DEF Aggregators, PlaceOf, Places
<1>6. \A t \in Tasks : Has(PlaceOf(a), t) <=> t \in Batch(a)
  BY <1>5, HasIs DEF PlaceOf, Batch
<1>7. ASSUME NEW t \in Batch(a)
      PROVE  /\ task[t].stage = "queued"
             /\ \A w \in Places : Has(w, t) <=> w = PlaceOf(a)
             /\ Untouched(t) <=> agg[a].step = "put_batch"
  <2>1. t \in Tasks /\ Has(PlaceOf(a), t)
    BY <1>3, <1>6
  <2>2. task[t].stage = "queued" /\ \A w \in Places : Has(w, t) => w = PlaceOf(a)
    BY <1>1, <1>5, <2>1, Zenon DEF OnePlaceInv
  <2>3. \A w \in Places : Has(w, t) <=> w = PlaceOf(a)
    BY <2>1, <2>2
  <2>4. Untouched(t) <=> agg[a].step = "put_batch"
    <3>1. ~Has("small", t) /\ ~Has("big", t) /\ ~Has("moving", t) /\ ~Has("current", t)
      BY <2>3 DEF Places, PlaceOf
    <3>2. /\ Has("agg_small", t) <=> a = "small"
          /\ Has("agg_timer", t) <=> a = "timer"
      BY <1>5, <2>3 DEF Places, PlaceOf
    <3> QED
      BY <1>5, <2>2, <3>1, <3>2 DEF Untouched
  <2> QED
    BY <2>2, <2>3, <2>4
<1>8. DistinctRemote => \A t \in Tasks : Remote[t] \in BatchNames(a) => t \in Batch(a)
  BY <1>3 DEF BatchNames, DistinctRemote
<1> QED
  BY <1>3, <1>4, <1>6, <1>7, <1>8

\* put_batch and the locks of an aggregate.
LEMMA AggStepInv ==
  ASSUME IInv, NEW a \in Aggregators, AggPutBatch(a) \/ AggLock(a)
  PROVE  IInv'
<1> DEFINE Inode == [exists : BOOLEAN, locked : BOOLEAN]
<1>1. TypeInv /\ ThreadInv /\ RemoveInv /\ ClashInv
  BY DEF IInv
<1>2. UNCHANGED <<que, map, task, stop, mutex, notified, pc, current, recent, moving,
                  rms, uploaded, gets>>
  BY DEF AggPutBatch, AggLock, AggCallThrows
<1>3. remote \in [Names -> Inode] /\ {"small", "timer"} = Aggregators
      /\ agg \in [Aggregators -> [step : AggSteps, files : Seq(Tasks)]]
  BY <1>1 DEF TypeInv, Aggregators
<1>4. /\ Batch(a) \subseteq Tasks /\ BatchNames(a) \subseteq Names
      /\ \A t \in Tasks : Has(PlaceOf(a), t) <=> t \in Batch(a)
      /\ \A t \in Batch(a) : /\ task[t].stage = "queued"
                             /\ Untouched(t) <=> agg[a].step = "put_batch"
                             /\ Remote[t] \in BatchNames(a)
      /\ DistinctRemote => \A t \in Tasks : Remote[t] \in BatchNames(a) => t \in Batch(a)
  BY BatchIs
<1>5. \A t \in Tasks : Remote[t] \in Names
  BY DEF Names
<1>6. RmGoesOn
  <2>1. failed # {} => failed' # {}
    BY DEF AggPutBatch, AggLock, AggCallThrows, CallFails
  <2> QED
    BY <1>2, <2>1 DEF RmGoesOn
<1>7. CASE UNCHANGED <<remote, agg>> /\ dead' = TRUE /\
           \/ (agg[a].step = "put_batch" /\ \E p \in BatchNames(a) : remote[p].locked)
           \/ (agg[a].step = "lock" /\ \E p \in BatchNames(a) : ~remote[p].exists)
           \/ failed' # {}
  <2>1. TypeInv' /\ ThreadInv'
    BY <1>1, <1>2, <1>7 DEF TypeInv, ThreadInv
  <2>2. RemoveInv'
    BY <1>1, <1>2, <1>7, RemoveFrame
  <2>3. ~(DistinctRemote /\ failed = {} /\ failed' = {} /\ \A c \in Names : rms[c] = "idle")
    <3> SUFFICES ASSUME DistinctRemote, failed = {}, failed' = {}, \A c \in Names : rms[c] = "idle"
                 PROVE  FALSE
      OBVIOUS
    <3>1. /\ \A t \in Tasks : Untouched(t) => ~remote[Remote[t]].locked
          /\ \A t \in Tasks : (task[t].stage = "queued" /\ ~Untouched(t)) => remote[Remote[t]].exists
      BY <1>1 DEF ClashInv
    <3>2. \A p \in BatchNames(a) : \E t \in Batch(a) : Remote[t] = p
      BY DEF BatchNames
    <3>3. CASE agg[a].step = "put_batch"
      BY <1>4, <1>7, <3>1, <3>2, <3>3
    <3>4. CASE agg[a].step = "lock"
      BY <1>4, <1>7, <3>1, <3>2, <3>4
    <3> QED
      BY <1>7, <3>3, <3>4
  <2>4. ClashInv'
    BY <1>1, <1>6, <2>3, ClashFrame
  <2> QED
    BY <1>2, <1>6, <1>7, <2>1, <2>2, <2>4, StillInv
<1>8. CASE /\ dead' = dead /\ agg[a].step \in {"put_batch", "lock"}
           /\ remote' = [p \in Names |-> IF p \in BatchNames(a)
                           THEN [exists |-> TRUE, locked |-> TRUE] ELSE remote[p]]
           /\ \/ agg' = [agg EXCEPT ![a].step = "lock"]
              \/ agg' = [agg EXCEPT ![a].step = "put_ok_batch"]
  <2>1. /\ remote' \in [Names -> Inode]
        /\ \A p \in Names : p \notin BatchNames(a) => remote'[p] = remote[p]
        /\ \A p \in Names : p \in BatchNames(a) => remote'[p].exists
    BY <1>3, <1>8
  <2>2. PICK s \in {"lock", "put_ok_batch"} : agg' = [agg EXCEPT ![a].step = s]
    BY <1>8
  <2>3. /\ agg' \in [Aggregators -> [step : AggSteps, files : Seq(Tasks)]]
        /\ agg'[a].step = s
        /\ \A b \in Aggregators : /\ agg'[b].files = agg[b].files
                                  /\ b # a => agg'[b].step = agg[b].step
    <3>1. s \in AggSteps
      BY DEF AggSteps
    <3>2. \A b \in Aggregators : agg[b] \in [step : AggSteps, files : Seq(Tasks)]
      BY <1>3
    <3>3. [agg[a] EXCEPT !.step = s] \in [step : AggSteps, files : Seq(Tasks)]
      BY <3>1, <3>2
    <3>4. \A b \in Aggregators : agg'[b] = IF b = a THEN [agg[a] EXCEPT !.step = s] ELSE agg[b]
      BY <1>3, <2>2
    <3>5. agg' \in [Aggregators -> [step : AggSteps, files : Seq(Tasks)]]
      BY <1>3, <2>2, <3>3
    <3> QED
      BY <3>2, <3>4, <3>5
  <2>4. TypeInv'
    BY <1>1, <1>2, <2>1, <2>3 DEF TypeInv
  <2>5. ThreadInv'
    <3>1. \A b \in Aggregators : agg'[b].step = "none" <=> agg[b].step = "none"
      BY <1>8, <2>3
    <3> QED
      BY <1>1, <1>2, <1>3, <2>3, <3>1 DEF ThreadInv
  <2>6. \A t \in Tasks : DistinctRemote /\ t \notin Batch(a) => remote'[Remote[t]] = remote[Remote[t]]
    BY <1>4, <1>5, <2>1
  <2>7. RemoveInv'
    <3>1. DistinctRemote => \A t \in Tasks : task[t].stage = "done" =>
             remote'[Remote[t]] = remote[Remote[t]]
      BY <1>4, <2>6
    <3> QED
      BY <1>1, <1>2, <3>1, RemoveFrame
  <2>8. \A w, t : Has(w, t)' <=> Has(w, t)
    BY <1>2, <1>3, <2>3, HasFrame
  <2>9. ASSUME NEW t \in Tasks, t \notin Batch(a)
        PROVE  Untouched(t)' <=> Untouched(t)
    <3>1. ~Has(PlaceOf(a), t)
      BY <1>4, <2>9
    <3>2. /\ Has("agg_small", t) => agg'["small"].step = agg["small"].step
          /\ Has("agg_timer", t) => agg'["timer"].step = agg["timer"].step
      BY <1>3, <2>3, <3>1 DEF PlaceOf
    <3> QED
      BY <1>2, <2>8, <3>2 DEF Untouched
  <2>10. ASSUME NEW t \in Batch(a)
         PROVE  ~Untouched(t)' /\ remote'[Remote[t]].exists
    <3>1. /\ t \in Tasks /\ task[t].stage = "queued"
          /\ \A w \in Places : Has(w, t) <=> w = PlaceOf(a)
          /\ Remote[t] \in BatchNames(a)
      BY BatchIs
    <3>2. ~Has("small", t) /\ ~Has("big", t) /\ ~Has("moving", t) /\ ~Has("current", t)
      BY <3>1 DEF Places, PlaceOf
    <3>3. /\ Has("agg_small", t) => a = "small"
          /\ Has("agg_timer", t) => a = "timer"
      BY <1>3, <3>1 DEF Places, PlaceOf
    <3>4. agg'[a].step # "put_batch"
      BY <2>3
    <3>5. ~Untouched(t)'
      BY <1>2, <2>8, <3>1, <3>2, <3>3, <3>4 DEF Untouched
    <3> QED
      BY <1>5, <2>1, <3>1, <3>5
  <2>11. ClashInv'
    <3> SUFFICES ASSUME DistinctRemote, failed = {}, failed' = {},
                        \A c \in Names : rms[c] = "idle" /\ rms'[c] = "idle"
                 PROVE  /\ \A t \in Tasks : Untouched(t)' =>
                             /\ Untouched(t)
                             /\ remote'[Remote[t]].locked => remote[Remote[t]].locked
                        /\ \A t \in Tasks : (task'[t].stage = "queued" /\ ~Untouched(t)') =>
                             \/ remote'[Remote[t]].exists
                             \/ /\ task[t].stage = "queued" /\ ~Untouched(t)
                                /\ remote[Remote[t]].exists => remote'[Remote[t]].exists
      BY <1>1, <1>6, <1>8, ClashFrame
    <3> QED
      BY <1>2, <2>6, <2>9, <2>10
  <2> QED
    BY <1>2, <1>6, <2>3, <2>4, <2>5, <2>7, <2>11, StillInv
<1>9. ASSUME NEW P, AggCallThrows(a, P)
      PROVE  UNCHANGED <<remote, agg>> /\ dead' = TRUE /\ (P # {} \/ failed' # {})
  BY <1>9 DEF AggCallThrows, CallFails
<1> QED
  BY <1>7, <1>8, <1>9 DEF AggPutBatch, AggLock

\* put_ok_batch ends the upload of an aggregate.
LEMMA AggPutOkInv ==
  ASSUME IInv, NEW a \in Aggregators, AggPutOkBatch(a)
  PROVE  IInv'
<1> DEFINE Inode == [exists : BOOLEAN, locked : BOOLEAN]
<1>1. TypeInv /\ ThreadInv /\ NoDupInv /\ RemoveInv /\ ClashInv
  BY DEF IInv
<1>2. /\ UNCHANGED <<que, map, stop, mutex, notified, current, moving, rms, gets>>
      /\ agg[a].step = "put_ok_batch"
  BY DEF AggPutOkBatch
<1>3. remote \in [Names -> Inode] /\ {"small", "timer"} = Aggregators /\ {"small", "big"} = Queues
      /\ agg \in [Aggregators -> [step : AggSteps, files : Seq(Tasks)]]
      /\ task \in [Tasks -> Task] /\ uploaded \subseteq Tasks
      /\ pc \in [Queues -> {"top", "check", "waiting", "take", "upload", "put", "lock",
                            "data", "putok", "finish", "end", "exited"}]
  BY <1>1 DEF TypeInv, Aggregators, Queues
<1>4. /\ Batch(a) \subseteq Tasks /\ BatchNames(a) \subseteq Names
      /\ \A t \in Tasks : Has(PlaceOf(a), t) <=> t \in Batch(a)
      /\ \A t \in Batch(a) : /\ task[t].stage = "queued"
                             /\ \A w \in Places : Has(w, t) <=> w = PlaceOf(a)
                             /\ Untouched(t) <=> agg[a].step = "put_batch"
                             /\ Remote[t] \in BatchNames(a)
      /\ DistinctRemote => \A t \in Tasks : Remote[t] \in BatchNames(a) => t \in Batch(a)
  BY BatchIs
<1>5. \A t \in Tasks : Remote[t] \in Names
  BY DEF Names
<1>6. RmGoesOn
  <2>1. failed # {} => failed' # {}
    BY DEF AggPutOkBatch, AggCallThrows, CallFails
  <2> QED
    BY <1>2, <2>1 DEF RmGoesOn
<1>7. CASE UNCHANGED <<remote, agg, task, uploaded, recent, pc>> /\ dead' = TRUE
           /\ (failed' # {} \/ \E p \in BatchNames(a) : ~remote[p].exists)
  <2>1. TypeInv' /\ ThreadInv'
    BY <1>1, <1>2, <1>7 DEF TypeInv, ThreadInv
  <2>2. RemoveInv'
    BY <1>1, <1>2, <1>7, RemoveFrame
  <2>3. ~(DistinctRemote /\ failed = {} /\ failed' = {} /\ \A c \in Names : rms[c] = "idle")
    <3> SUFFICES ASSUME DistinctRemote, failed = {}, failed' = {}, \A c \in Names : rms[c] = "idle"
                 PROVE  FALSE
      OBVIOUS
    <3>1. \A t \in Tasks : (task[t].stage = "queued" /\ ~Untouched(t)) => remote[Remote[t]].exists
      BY <1>1 DEF ClashInv
    <3>2. \A p \in BatchNames(a) : \E t \in Batch(a) : Remote[t] = p
      BY DEF BatchNames
    <3> QED
      BY <1>2, <1>4, <1>7, <3>1, <3>2
  <2>4. ClashInv'
    BY <1>1, <1>6, <2>3, ClashFrame
  <2> QED
    BY <1>2, <1>6, <1>7, <2>1, <2>2, <2>4, StillInv
<1>8. CASE /\ remote' = [p \in Names |-> IF p \in BatchNames(a)
                           THEN [exists |-> TRUE, locked |-> FALSE] ELSE remote[p]]
           /\ uploaded' = uploaded \cup Batch(a)
           /\ task' = [t \in Tasks |-> IF t \in Batch(a)
                         THEN [task[t] EXCEPT !.stage = "done"] ELSE task[t]]
           /\ agg' = [agg EXCEPT ![a] = NoAggregate]
           /\ pc' = (IF a = "small" THEN [pc EXCEPT !["small"] = "end"] ELSE pc)
           /\ UNCHANGED <<dead, failed>>
  <2> DEFINE M == Batch(a)
  <2>1. /\ remote' \in [Names -> Inode]
        /\ \A p \in Names : p \notin BatchNames(a) => remote'[p] = remote[p]
    BY <1>3, <1>8
  <2>2. /\ task' \in [Tasks -> Task]
        /\ \A t \in Tasks : /\ task'[t].stage = IF t \in M THEN "done" ELSE task[t].stage
                            /\ task'[t].belong_que = task[t].belong_que
                            /\ task'[t].status = task[t].status
    <3> HIDE DEF M
    <3>1. \A t \in Tasks : task'[t] = IF t \in M THEN [task[t] EXCEPT !.stage = "done"] ELSE task[t]
      BY <1>8 DEF M
    <3>2. \A t \in Tasks : task[t] \in Task /\ [task[t] EXCEPT !.stage = "done"] \in Task
      BY <1>3 DEF Task, Stages
    <3>3. task' \in [Tasks -> Task]
      BY <1>8, <3>2
    <3>4. ASSUME NEW t \in Tasks
          PROVE  /\ task'[t].stage = IF t \in M THEN "done" ELSE task[t].stage
                 /\ task'[t].belong_que = task[t].belong_que
                 /\ task'[t].status = task[t].status
      BY <3>1, <3>2 DEF Task
    <3> QED
      BY <3>3, <3>4
  <2>3. NoAggregate \in [step : AggSteps, files : Seq(Tasks)] /\ NoAggregate.step = "none"
        /\ NoAggregate.files = << >>
    BY DEF NoAggregate, AggSteps
  <2>4. /\ agg' \in [Aggregators -> [step : AggSteps, files : Seq(Tasks)]]
        /\ agg'[a] = NoAggregate /\ \A b \in Aggregators : b # a => agg'[b] = agg[b]
    <3> HIDE DEF NoAggregate
    <3> QED
      BY <1>3, <1>8, <2>3
  <2>5. /\ pc'["big"] = pc["big"]
        /\ a = "small" => pc'["small"] = "end"
        /\ a # "small" => pc'["small"] = pc["small"]
        /\ pc' \in [Queues -> {"top", "check", "waiting", "take", "upload", "put", "lock",
                               "data", "putok", "finish", "end", "exited"}]
    BY <1>3, <1>8
  <2>6. uploaded' \subseteq Tasks
    BY <1>3, <1>4, <1>8
  <2>7. TypeInv'
    BY <1>1, <1>2, <2>1, <2>2, <2>4, <2>5, <2>6 DEF TypeInv
  <2>8. ThreadInv'
    <3>1. current' # NoTask <=> pc'["big"] \in BigSteps
      BY <1>1, <1>2, <2>5 DEF ThreadInv
    <3>2. pc'["small"] = "upload" <=> agg'["small"].step # "none"
      BY <1>1, <1>3, <2>3, <2>4, <2>5 DEF ThreadInv
    <3>3. \A b \in Aggregators : agg'[b].step = "none" => agg'[b].files = << >>
      BY <1>1, <2>3, <2>4 DEF ThreadInv
    <3> QED
      BY <3>1, <3>2, <3>3 DEF ThreadInv
  <2>9. NoDupInv'
    <3>1. NoDup(<< >>)
      BY DEF NoDup
    <3>2. \A b \in Aggregators : NoDup(agg'[b].files)
      BY <1>1, <2>3, <2>4, <3>1 DEF NoDupInv
    <3> QED
      BY <1>1, <1>2, <3>2 DEF NoDupInv
  <2>10. ASSUME NEW u \in Tasks, NEW w \in Places
         PROVE  Has(w, u)' <=> (u \notin M /\ Has(w, u))
    <3>1. u \notin Range(agg'[a].files)
      <4>1. Range(<< >>) = {}
        BY DEF Range
      <4> QED
        BY <2>3, <2>4, <4>1
    <3>2. que' = que /\ moving' = moving /\ current' = current
      BY <1>2
    <3>3. \A b \in Aggregators : b # a => agg'[b].files = agg[b].files
      BY <2>4
    <3>4. u \in M => (Has(w, u) <=> w = PlaceOf(a))
      BY <1>4
    <3>5. u \in M <=> u \in Range(agg[a].files)
      BY DEF Batch
    <3> HIDE DEF M
    <3>6. CASE a = "small"
      <4>1. u \notin Range(agg'["small"].files) /\ agg'["timer"].files = agg["timer"].files
            /\ (u \in M <=> u \in Range(agg["small"].files))
        BY <1>3, <3>1, <3>3, <3>5, <3>6
      <4> QED
        BY <3>2, <3>4, <3>6, <4>1 DEF Has, Batch, Places, PlaceOf
    <3>7. CASE a = "timer"
      <4>1. u \notin Range(agg'["timer"].files) /\ agg'["small"].files = agg["small"].files
            /\ (u \in M <=> u \in Range(agg["timer"].files))
        BY <1>3, <3>1, <3>3, <3>5, <3>7
      <4> QED
        BY <3>2, <3>4, <3>7, <4>1 DEF Has, Batch, Places, PlaceOf
    <3> QED
      BY <1>3, <3>6, <3>7
  <2>11. ASSUME NEW u \in Tasks \ M
         PROVE  /\ Has("agg_small", u) => agg'["small"].step = agg["small"].step
                /\ Has("agg_timer", u) => agg'["timer"].step = agg["timer"].step
    <3>1. ~Has(PlaceOf(a), u)
      BY <1>4
    <3> QED
      BY <1>3, <2>4, <3>1 DEF PlaceOf
  <2>12. DistinctRemote => \A t \in Tasks \ M : remote'[Remote[t]] = remote[Remote[t]]
    BY <1>4, <1>5, <2>1
  <2>13. \A t \in Tasks : t \in M => task[t].stage = "queued"
    BY <1>4
  <2> HIDE DEF M
  <2>14. RemoveInv'
    <3>1. \A t \in Tasks : task[t].stage = "done" => t \notin M /\ task'[t].stage = "done"
      BY <2>2, <2>13
    <3> QED
      BY <1>1, <1>2, <2>2, <2>12, <3>1, RemoveFrame
  <2> QED
    BY <1>2, <1>8, <2>2, <2>5, <2>7, <2>8, <2>9, <2>10, <2>11, <2>12, <2>13, <2>14, EndInv
<1>9. ASSUME NEW P, AggCallThrows(a, P)
      PROVE  /\ UNCHANGED <<remote, agg, task, uploaded, recent, pc>> /\ dead' = TRUE
             /\ (P # {} \/ failed' # {})
  BY <1>9 DEF AggCallThrows, CallFails
<1> QED
  BY <1>7, <1>8, <1>9 DEF AggPutOkBatch

-----------------------------------------------------------------------------
(* The specification                                                       *)

\* The daemon starts with nothing to upload.
LEMMA InitInv ==
  ASSUME Init
  PROVE  IInv
<1>1. NoTask \notin Tasks /\ \A t \in Tasks : Remote[t] \in Names
  BY DaemonAssumption DEF Names
<1>2. /\ \A q \in Queues : que[q] = << >> /\ pc[q] = "top"
      /\ \A a \in Aggregators : agg[a].step = "none" /\ agg[a].files = << >>
      /\ current = NoTask /\ moving = {} /\ ~dead
      /\ \A t \in Tasks : task[t].stage = "new" /\ task[t].status = "NONE"
      /\ \A p \in Names : /\ rms[p] = "idle" /\ gets[p].step = "idle"
                          /\ ~remote[p].locked
                          /\ \A q \in Queues : map[q][p] = NoTask
  BY DEF Init, NoAggregate, NoDownload
<1>3. {"small", "big"} = Queues /\ {"small", "timer"} = Aggregators
  BY DEF Queues, Aggregators
<1>4. TypeInv
  <2>1. que \in [Queues -> Seq(Tasks)]
    BY DEF Init
  <2>2. map \in [Queues -> [Names -> Tasks \cup {NoTask}]]
    BY DEF Init
  <2>3. task \in [Tasks -> Task]
    <3>1. \A t \in Tasks : [status |-> "NONE", belong_que |-> QueueFor(t), stage |-> "new"] \in Task
      BY DEF Task, Status, Stages, QueueFor, Queues
    <3> QED
      BY <3>1 DEF Init
  <2>4. mutex \in [Queues -> BOOLEAN] /\ notified \in [Queues -> BOOLEAN]
    BY DEF Init
  <2>5. agg \in [Aggregators -> [step : AggSteps, files : Seq(Tasks)]]
    <3>1. NoAggregate \in [step : AggSteps, files : Seq(Tasks)]
      BY DEF NoAggregate, AggSteps
    <3> HIDE DEF NoAggregate
    <3> QED
      BY <3>1 DEF Init
  <2>6. rms \in [Names -> Tasks \cup RmSteps] /\ moving \subseteq Tasks /\ uploaded \subseteq Tasks
        /\ current \in Tasks \cup {NoTask}
    BY DEF Init, RmSteps
  <2>7. remote \in [Names -> [exists : BOOLEAN, locked : BOOLEAN]]
    BY DEF Init
  <2>8. gets \in [Names -> [step : {"idle", "ask_small", "local_que", "remote_que"},
                            accepted : BOOLEAN]]
    BY DEF Init, NoDownload
  <2>9. pc \in [Queues -> {"top", "check", "waiting", "take", "upload", "put", "lock",
                           "data", "putok", "finish", "end", "exited"}]
    BY DEF Init
  <2> QED
    BY <2>1, <2>2, <2>3, <2>4, <2>5, <2>6, <2>7, <2>8, <2>9 DEF TypeInv
<1>5. ThreadInv
  BY <1>2, <1>3 DEF ThreadInv, BigSteps
<1>6. \A t \in Tasks, w \in Places : ~Has(w, t)
  <2>1. Range(<< >>) = {}
    BY DEF Range
  <2> QED
    BY <1>1, <1>2, <1>3, <2>1 DEF Has, Batch, Places
<1>7. OnePlaceInv
  BY <1>2, <1>6 DEF OnePlaceInv
<1>8. NoDupInv
  <2>1. NoDup(<< >>)
    BY DEF NoDup
  <2> QED
    BY <1>2, <2>1 DEF NoDupInv
<1>9. MapInv
  BY <1>1, <1>2 DEF MapInv
<1>10. GetInv
  BY <1>2 DEF GetInv
<1>11. RemoveInv
  <2>1. "idle" \notin Tasks
    BY DaemonAssumption DEF RmSteps
  <2> QED
    BY <1>2, <2>1 DEF RemoveInv
<1>12. ClashInv
  BY <1>1, <1>2 DEF ClashInv
<1> QED
  BY <1>4, <1>5, <1>7, <1>8, <1>9, <1>10, <1>11, <1>12 DEF IInv

\* Every step of the daemon and of its clients keeps the invariant.
LEMMA NextInv ==
  ASSUME IInv, [Next]_vars
  PROVE  IInv'
<1>1. Removed \subseteq Names /\ Fetched \subseteq Names
  BY DaemonAssumption
<1>2. CASE BigThread
  <2>1. "big" \in Queues
    BY DEF Queues
  <2> QED
    BY <1>2, <2>1, LoopInv, BigTakeInv, BigStepInv, BigFinishInv DEF BigThread
<1>3. ASSUME NEW a \in Aggregators, Aggregate(a)
      PROVE  IInv'
  BY <1>3, AggStepInv, AggPutOkInv DEF Aggregate
<1>4. CASE SmallThread
  <2>1. "small" \in Queues /\ "small" \in Aggregators
    BY DEF Queues, Aggregators
  <2> QED
    BY <1>3, <1>4, <2>1, LoopInv, IdleInv, AggTakeInv DEF SmallThread
<1>5. CASE TimerThread
  <2>1. "timer" \in Aggregators
    BY DEF Aggregators
  <2> QED
    BY <1>3, <1>5, <2>1, AggTakeInv DEF TimerThread
<1>6. CASE Client
  <2>1. CASE \E t \in Tasks : Upload(t) \/ FsyncTake(t) \/ FsyncPush(t)
    BY <2>1, PushInv, FsyncTakeInv
  <2>2. CASE \E p \in Removed : RmStart(p) \/ RmSpin(p) \/ RmSmall(p) \/ RmRemote(p)
    BY <1>1, <2>2, RmSpinInv, RmSmallInv, RmRemoteInv
  <2>3. CASE \E p \in Fetched : Download(p) \/ DownloadAskSmall(p)
    BY <1>1, <2>3, DownloadInv
  <2>4. CASE Stop
    BY <2>4, IdleInv
  <2> QED
    BY <1>6, <2>1, <2>2, <2>3, <2>4 DEF Client
<1>7. CASE IntervalPasses
  BY <1>7, IdleInv
<1>8. CASE \E p \in Names : LockExpires(p) \/ thread_file_download(p)
  BY <1>8, LockExpiresInv, DownloadInv
<1>9. CASE UNCHANGED vars
  <2>1. /\ UNCHANGED <<que, map, task, stop, dead, mutex, notified, pc, current, agg, recent,
                       moving, rms, remote, uploaded, failed, gets>>
    BY <1>9 DEF vars
  <2>2. TypeInv /\ ThreadInv /\ GetInv /\ RemoveInv
    BY DEF IInv
  <2>3. TypeInv' /\ ThreadInv'
    BY <2>1, <2>2 DEF TypeInv, ThreadInv
  <2>4. RmGoesOn
    BY <2>1 DEF RmGoesOn
  <2>5. GetInv'
    BY <2>1, <2>2, <2>4, GetFrame
  <2>6. RemoveInv'
    BY <2>1, <2>2, RemoveFrame
  <2> QED
    BY <2>1, <2>3, <2>4, <2>5, <2>6, QuietInv
<1> QED
  BY <1>2, <1>4, <1>5, <1>6, <1>7, <1>8, <1>9 DEF Next

\* The inductive invariant holds of the daemon, whatever the clients ask for and
\* in whatever order the threads run.
THEOREM Invariance == Spec => []IInv
<1>1. Init => IInv
  BY InitInv
<1>2. IInv /\ [Next]_vars => IInv'
  BY NextInv
<1> QED
  BY <1>1, <1>2, PTL DEF Spec

\* Calls are made, and fail, for tasks of the clients or for an empty batch.
LEMMA FailedTyped == Spec => [](failed \subseteq Tasks \cup {NoTask})
<1> DEFINE F == failed \subseteq Tasks \cup {NoTask}
<1>1. Init => F
  BY DEF Init
<1>2. ASSUME IInv, F, [Next]_vars
      PROVE  F'
  <2>1. ASSUME NEW ts, ts \subseteq Tasks, CallFails(ts)
        PROVE  F'
    BY <1>2, <2>1 DEF CallFails
  <2>2. CASE BigThread
    <3>1. CASE UNCHANGED failed
      BY <1>2, <3>1
    <3>2. CASE CallFails({current}) /\ pc["big"] \in BigSteps
      <4>1. {current} \subseteq Tasks
        BY <1>2, <3>2, CurrentIs
      <4> QED
        BY <2>1, <3>2, <4>1
    <3> QED
      BY <2>2, <3>1, <3>2 DEF BigThread, Loop, LoopTop, Sleep, Wake, LoopEnd, BigTake, BigNamenodePut,
         BigLockRemote, BigDatanodePut, BigNamenodePutOk, BigFinish, BigSteps
  <2>3. ASSUME NEW a \in Aggregators, Aggregate(a)
        PROVE  F'
    <3>1. CASE UNCHANGED failed
      BY <1>2, <3>1
    <3>2. CASE CallFails(Batch(a))
      <4>1. Batch(a) \subseteq Tasks
        BY <1>2, <2>3, BatchIs
      <4> QED
        BY <2>1, <3>2, <4>1
    <3> QED
      BY <2>3, <3>1, <3>2 DEF Aggregate, AggPutBatch, AggLock, AggPutOkBatch, AggCallThrows
  <2>4. CASE UNCHANGED failed
    BY <1>2, <2>4
  <2>5. "small" \in Aggregators /\ "timer" \in Aggregators
    BY DEF Aggregators
  <2>6. CASE SmallThread \/ TimerThread
    <3>1. Aggregate("small") \/ Aggregate("timer") \/ UNCHANGED failed
      BY <2>6 DEF SmallThread, TimerThread, Loop, LoopTop, Sleep, Wake, LoopEnd, SmallCheck,
         SmallTake, TimerTake
    <3> QED
      BY <2>3, <2>4, <2>5, <3>1
  <2>7. CASE Client
    <3>1. UNCHANGED failed
      BY <2>7 DEF Client, Upload, FsyncTake, FsyncPush, RmStart, RmSpin, RmSmall, RmRemote,
         Download, DownloadAskSmall, Stop
    <3> QED
      BY <2>4, <3>1
  <2>8. CASE IntervalPasses \/ (\E p \in Names : LockExpires(p) \/ thread_file_download(p))
             \/ UNCHANGED vars
    <3>1. UNCHANGED failed
      BY <2>8 DEF IntervalPasses, LockExpires, thread_file_download, vars
    <3> QED
      BY <2>4, <3>1
  <2> QED
    BY <1>2, <2>2, <2>6, <2>7, <2>8 DEF Next
<1> QED
  BY <1>1, <1>2, Invariance, PTL DEF Spec

\* The variables of the daemon keep the shape the code gives them.
THEOREM TypeCorrect == Spec => []TypeOK
<1>1. IInv /\ failed \subseteq Tasks \cup {NoTask} => TypeOK
  <2> SUFFICES ASSUME IInv, failed \subseteq Tasks \cup {NoTask}
               PROVE  TypeOK
    OBVIOUS
  <2>1. TypeInv
    BY DEF IInv
  <2>2. \A a \in Aggregators : agg[a].files \in Seq(Tasks)
    <3>1. \A a \in Aggregators : agg[a] \in [step : AggSteps, files : Seq(Tasks)]
      BY <2>1 DEF TypeInv
    <3> QED
      BY <3>1
  <2> QED
    BY <2>1, <2>2 DEF TypeOK, TypeInv, Task, Stages
<1> QED
  BY <1>1, Invariance, FailedTyped, PTL

\* An accepted task is in one queue or with one thread until it is done: fsync,
\* the timer and the small-file thread neither lose a file nor take one twice.
THEOREM OnePlace == Spec => []TaskInOnePlace
<1>1. IInv => TaskInOnePlace
  <2> SUFFICES ASSUME IInv, NEW t \in Tasks
               PROVE  Occurrences(t) = IF task[t].stage = "queued" THEN 1 ELSE 0
    BY DEF TaskInOnePlace
  <2>1. TypeInv /\ OnePlaceInv /\ NoDupInv
    BY DEF IInv
  <2> DEFINE in(s) == Cardinality({i \in DOMAIN s : s[i] = t})
             s1 == que["small"]
             s2 == que["big"]
             s3 == agg["small"].files
             s4 == agg["timer"].files
  <2>2. /\ s1 \in Seq(Tasks) /\ s2 \in Seq(Tasks) /\ NoDup(s1) /\ NoDup(s2)
    BY <2>1 DEF TypeInv, NoDupInv, Queues
  <2>3. /\ s3 \in Seq(Tasks) /\ s4 \in Seq(Tasks) /\ NoDup(s3) /\ NoDup(s4)
    <3>1. \A a \in Aggregators : agg[a] \in [step : AggSteps, files : Seq(Tasks)]
      BY <2>1 DEF TypeInv
    <3> QED
      BY <2>1, <3>1 DEF NoDupInv, Aggregators
  <2>4. /\ in(s1) = (IF t \in Range(s1) THEN 1 ELSE 0) /\ in(s2) = (IF t \in Range(s2) THEN 1 ELSE 0)
        /\ in(s3) = (IF t \in Range(s3) THEN 1 ELSE 0) /\ in(s4) = (IF t \in Range(s4) THEN 1 ELSE 0)
    BY <2>2, <2>3, CountIn
  <2>5. Occurrences(t) = in(s1) + in(s2) + in(s3) + in(s4)
                         + (IF current = t THEN 1 ELSE 0) + (IF t \in moving THEN 1 ELSE 0)
    BY Zenon DEF Occurrences
  <2> HIDE DEF in
  <2>6. /\ Has("small", t) <=> t \in Range(s1)
        /\ Has("big", t) <=> t \in Range(s2)
        /\ Has("agg_small", t) <=> t \in Range(s3)
        /\ Has("agg_timer", t) <=> t \in Range(s4)
        /\ Has("current", t) <=> t = current
        /\ Has("moving", t) <=> t \in moving
    BY HasIs
  <2>7. /\ \A w, v \in Places : Has(w, t) /\ Has(v, t) => w = v
        /\ task[t].stage = "queued" <=> \E w \in Places : Has(w, t)
    BY <2>1 DEF OnePlaceInv
  <2>8. CASE task[t].stage = "queued"
    <3>1. PICK w \in Places : Has(w, t)
      BY <2>7, <2>8
    <3>2. \A v \in Places : Has(v, t) <=> v = w
      BY <2>7, <3>1
    <3>3. /\ Has("small", t) <=> w = "small"
          /\ Has("big", t) <=> w = "big"
          /\ Has("agg_small", t) <=> w = "agg_small"
          /\ Has("agg_timer", t) <=> w = "agg_timer"
          /\ Has("current", t) <=> w = "current"
          /\ Has("moving", t) <=> w = "moving"
          /\ w \in {"small", "big", "agg_small", "agg_timer", "current", "moving"}
      BY <3>2 DEF Places
    <3> HIDE DEF s1, s2, s3, s4
    <3> QED
      BY <2>4, <2>5, <2>6, <2>8, <3>3
  <2>9. CASE task[t].stage # "queued"
    <3>1. ~Has("small", t) /\ ~Has("big", t) /\ ~Has("agg_small", t) /\ ~Has("agg_timer", t)
          /\ ~Has("current", t) /\ ~Has("moving", t)
      BY <2>7, <2>9 DEF Places
    <3> HIDE DEF s1, s2, s3, s4
    <3> QED
      BY <2>4, <2>5, <2>6, <2>9, <3>1
  <2> QED
    BY <2>8, <2>9
<1> QED
  BY <1>1, Invariance, PTL

\* After rm of a file that the big-file queue knows has returned, no step of an
\* upload brings the file back.
THEOREM RemovedStays == Spec => []RemovedStaysRemoved
<1>1. IInv => RemovedStaysRemoved
  BY DEF IInv, RemoveInv, RemovedStaysRemoved
<1> QED
  BY <1>1, Invariance, PTL

\* Without an rm and without a failed call no lock conflict and no missing path
\* ends the daemon.
THEOREM NoClash == Spec => []UploadsDoNotClash
<1>1. IInv => UploadsDoNotClash
  BY DEF IInv, ClashInv, UploadsDoNotClash
<1> QED
  BY <1>1, Invariance, PTL

\* A download goes to the namenode for an accepted file only after an rm or the
\* upload.
THEOREM DownloadsFind == Spec => []DownloadsFindUploads
<1>1. IInv => DownloadsFindUploads
  <2>1. \A t \in Tasks : Remote[t] \in Names
    BY DEF Names
  <2> QED
    BY <2>1 DEF IInv, GetInv, DownloadsFindUploads
<1> QED
  BY <1>1, Invariance, PTL

-----------------------------------------------------------------------------
(* One pool of tasks                                                       *)

\* Only what is done is stored, or about to be done.
StoredInv ==
  \A t \in uploaded : task[t].stage = "done" \/ (t = current /\ pc["big"] = "finish")

\* A step keeps that and is one of the pool, or does not show there.
PoolStep == StoredInv' /\ [Pool!Next]_(Pool!vars)

\* What the uploaders hold: batches of tasks under way, without a common task.
LEMMA HeldIs ==
  ASSUME IInv
  PROVE  /\ Held["big"] = {current} \ {NoTask}
         /\ \A a \in Aggregators : a \in Uploaders /\ a # "big" /\ Held[a] = Batch(a)
         /\ Held \in [Uploaders -> SUBSET Tasks] /\ "big" \in Uploaders
         /\ \A u \in Uploaders : \A t \in Held[u] :
              /\ task[t].stage = "queued"
              /\ \A v \in Uploaders : t \in Held[v] => v = u
<1>1. /\ Uploaders = {"big", "small", "timer"} /\ Aggregators = {"small", "timer"}
      /\ Held = [u \in Uploaders |-> IF u = "big" THEN {current} \ {NoTask} ELSE Batch(u)]
  BY DEF Uploaders, Aggregators, Held
<1>2. TypeInv /\ OnePlaceInv
  BY DEF IInv
<1>3. Held["big"] = {current} \ {NoTask} /\ \A a \in Aggregators : Held[a] = Batch(a)
  BY <1>1
<1>4. {current} \ {NoTask} \subseteq Tasks /\ \A a \in Aggregators : Batch(a) \subseteq Tasks
  BY <1>2, BatchIs DEF TypeInv
<1>5. Held \in [Uploaders -> SUBSET Tasks]
  BY <1>1, <1>4
<1> DEFINE Where(u) == IF u = "big" THEN "current" ELSE PlaceOf(u)
<1>6. /\ \A u \in Uploaders : Where(u) \in Places
      /\ \A u, v \in Uploaders : Where(u) = Where(v) => u = v
  BY <1>1 DEF PlaceOf, Places
<1>7. \A u \in Uploaders : \A t \in Held[u] : t \in Tasks /\ Has(Where(u), t)
  <2> SUFFICES ASSUME NEW u \in Uploaders, NEW t \in Held[u] PROVE t \in Tasks /\ Has(Where(u), t)
    OBVIOUS
  <2>1. t \in Tasks
    BY <1>5
  <2>2. CASE u = "big"
    <3>1. t = current
      BY <1>3, <2>2
    <3>2. Has("current", t)
      BY <3>1 DEF Has
    <3> QED
      BY <2>1, <2>2, <3>2
  <2>3. CASE u # "big"
    <3>1. u \in Aggregators
      BY <1>1, <2>3
    <3> QED
      BY <1>3, <2>1, <2>3, <3>1, BatchIs
  <2> QED
    BY <2>1, <2>2, <2>3
<1> HIDE DEF Where
<1>8. ASSUME NEW u \in Uploaders, NEW t \in Held[u]
      PROVE  task[t].stage = "queued" /\ \A v \in Uploaders : t \in Held[v] => v = u
  BY <1>2, <1>6, <1>7, Zenon DEF OnePlaceInv
<1> QED
  BY <1>1, <1>3, <1>5, <1>8

\* The same after a step, as far as it follows from the definition.
LEMMA HeldNextIs ==
  /\ Held' = [u \in Uploaders |-> IF u = "big" THEN {current'} \ {NoTask} ELSE Range(agg'[u].files)]
  /\ Waiting' = {t \in Tasks : task'[t].stage = "queued" /\ \A u \in Uploaders : t \notin Held'[u]}
  /\ Done' = {t \in Tasks : task'[t].stage = "done"}
  BY DEF Held, Waiting, Done, Batch

\* A step that moves no task between uploaders and finishes none.
LEMMA PoolQuiet ==
  ASSUME IInv, StoredInv, UNCHANGED <<current, uploaded>>,
         \A a \in Aggregators : agg'[a].files = agg[a].files,
         \A t \in Tasks : task'[t].stage = task[t].stage,
         pc["big"] = "finish" => pc'["big"] = "finish"
  PROVE  PoolStep
<1>1. StoredInv'
  BY DEF StoredInv, IInv, TypeInv
<1>2. Held' = Held
  <2>1. \A u \in Uploaders : u = "big" \/ u \in Aggregators
    BY DEF Uploaders
  <2>2. \A u \in Uploaders : (IF u = "big" THEN {current'} \ {NoTask} ELSE Range(agg'[u].files))
                             = (IF u = "big" THEN {current} \ {NoTask} ELSE Range(agg[u].files))
    BY <2>1
  <2> QED
    BY <2>2, HeldNextIs DEF Held, Batch
<1>3. Waiting' = Waiting /\ Done' = Done
  BY <1>2, HeldNextIs DEF Waiting, Done
<1> QED
  BY <1>1, <1>2, <1>3 DEF PoolStep, Pool!vars

\* An uploader that has nothing takes tasks that wait.
LEMMA PoolTake ==
  ASSUME IInv, StoredInv', NEW u \in Uploaders, NEW S \in SUBSET Waiting, Held[u] = {},
         Held' = [Held EXCEPT ![u] = S], UNCHANGED <<task, uploaded>>
  PROVE  PoolStep
<1>1. Held \in [Uploaders -> SUBSET Tasks]
  BY HeldIs
<1>2. Waiting' = Waiting \ S
  <2>1. \A t \in Tasks : (\A v \in Uploaders : t \notin Held'[v])
                           <=> (t \notin S /\ \A v \in Uploaders : t \notin Held[v])
    BY <1>1
  <2> QED
    BY <2>1, HeldNextIs DEF Waiting
<1>3. Done' = Done
  BY HeldNextIs DEF Done
<1>4. Pool!Take(u, S)
  BY <1>2, <1>3 DEF Pool!Take
<1> QED
  BY <1>4 DEF PoolStep, Pool!Next

\* An uploader is through with its batch, having stored it or not.
LEMMA PoolFinish ==
  ASSUME IInv, NEW u \in Uploaders, Held' = [Held EXCEPT ![u] = {}],
         \A t \in Tasks : task'[t].stage = IF t \in Held[u] THEN "done" ELSE task[t].stage,
         \/ uploaded' = uploaded
         \/ uploaded' = uploaded \cup Held[u] /\ Held[u] \cap uploaded = {}
  PROVE  [Pool!Next]_(Pool!vars)
<1>1. /\ Held \in [Uploaders -> SUBSET Tasks]
      /\ \A t \in Held[u] : task[t].stage = "queued" /\ \A v \in Uploaders : t \in Held[v] => v = u
  BY HeldIs
<1>2. Done' = Done \cup Held[u]
  BY <1>1, HeldNextIs DEF Done
<1>3. Waiting' = Waiting
  <2>1. \A t \in Tasks : t \notin Held[u] =>
          ((\A v \in Uploaders : t \notin Held'[v]) <=> (\A v \in Uploaders : t \notin Held[v]))
    BY <1>1
  <2> QED
    BY <1>1, <2>1, HeldNextIs DEF Waiting
<1>4. Pool!Finish(u) \/ Pool!StoreAndFinish(u)
  BY <1>2, <1>3 DEF Pool!Finish, Pool!StoreAndFinish
<1> QED
  BY <1>4 DEF Pool!Next

\* A task that is new becomes one that waits.
LEMMA UploadPools ==
  ASSUME IInv, StoredInv, NEW t \in Tasks, Upload(t)
  PROVE  PoolStep
<1>1. /\ task[t].stage = "new"
      /\ task' = [task EXCEPT ![t] = [status |-> "WAITING", belong_que |-> QueueFor(t), stage |-> "queued"]]
      /\ UNCHANGED <<pc, current, agg, uploaded>>
  BY DEF Upload, push_back
<1>2. task \in [Tasks -> Task] /\ uploaded \subseteq Tasks
  BY DEF IInv, TypeInv
<1>3. \A v \in Tasks : task'[v].stage = IF v = t THEN "queued" ELSE task[v].stage
  BY <1>1, <1>2
<1>4. t \notin uploaded
  <2>1. task[t].stage # "done"
    BY <1>1
  <2>2. pc["big"] = "finish" => t # current
    <3>1. pc["big"] = "finish" => task[current].stage = "queued"
      BY CurrentIs DEF BigSteps
    <3> QED
      BY <1>1, <3>1
  <2> QED
    BY <2>1, <2>2 DEF StoredInv
<1>5. StoredInv'
  BY <1>1, <1>2, <1>3, <1>4 DEF StoredInv
<1>6. \A u \in Uploaders : t \notin Held[u]
  BY <1>1, HeldIs
<1>7. Held' = Held
  BY <1>1, HeldNextIs DEF Held, Batch
<1>8. Waiting' = Waiting \cup {t} /\ Done' = Done
  BY <1>1, <1>3, <1>6, <1>7, HeldNextIs DEF Waiting, Done
<1>9. t \notin Waiting \cup Done
  BY <1>1 DEF Waiting, Done
<1>10. Pool!Accept(t)
  BY <1>1, <1>6, <1>7, <1>8, <1>9 DEF Pool!Accept
<1> QED
  BY <1>5, <1>10 DEF PoolStep, Pool!Next

\* A task of a queue waits.
LEMMA QueuedWaits ==
  ASSUME IInv, NEW q \in Queues, NEW t \in Range(que[q])
  PROVE  t \in Waiting
<1>1. t \in Tasks
  <2>1. que[q] \in Seq(Tasks)
    BY DEF IInv, TypeInv
  <2> QED
    BY <2>1, RangeIs
<1>2. Has(q, t) /\ q \in Places /\ q \in {"small", "big"}
  BY HasIs DEF Queues, Places
<1>3. task[t].stage = "queued" /\ \A w \in Places : Has(w, t) => w = q
  BY <1>1, <1>2, Zenon DEF IInv, OnePlaceInv
<1>4. ~Has("current", t) /\ ~Has("agg_small", t) /\ ~Has("agg_timer", t)
  BY <1>2, <1>3 DEF Places
<1>5. t # current /\ t \notin Batch("small") /\ t \notin Batch("timer")
  BY <1>4 DEF Has
<1>6. \A u \in Uploaders : t \notin Held[u]
  BY <1>5 DEF Uploaders, Aggregators, Held
<1> QED
  BY <1>1, <1>3, <1>6 DEF Waiting

\* The big-file thread takes one task.
LEMMA BigTakePools ==
  ASSUME IInv, StoredInv, BigTake
  PROVE  PoolStep
<1>1. pc["big"] = "check" /\ UNCHANGED <<task, agg, uploaded>>
  BY DEF BigTake
<1>2. current = NoTask
  BY <1>1 DEF IInv, ThreadInv, BigSteps
<1>3. CASE UNCHANGED current
  BY <1>1, <1>3, PoolQuiet
<1>4. CASE ~empty("big") /\ current' = Head(que["big"])
  <2> DEFINE t == Head(que["big"])
  <2>1. que["big"] \in Seq(Tasks) /\ que["big"] # << >> /\ NoDup(que["big"]) /\ "big" \in Queues
    BY <1>4 DEF IInv, TypeInv, NoDupInv, Queues, empty
  <2>2. t \in Range(que["big"])
    BY <2>1, TailRange
  <2> HIDE DEF t
  <2>3. t \in Waiting
    BY <2>1, <2>2, QueuedWaits
  <2>4. t # NoTask
    BY <2>3, DaemonAssumption DEF Waiting
  <2>5. /\ "big" \in Uploaders /\ Held["big"] = {} /\ Held \in [Uploaders -> SUBSET Tasks]
        /\ \A a \in Uploaders : a # "big" => Held[a] = Range(agg[a].files)
    BY <1>2, HeldIs DEF Held, Batch
  <2>6. Held' = [Held EXCEPT !["big"] = {t}]
    <3>1. {current'} \ {NoTask} = {t}
      BY <1>4, <2>4 DEF t
    <3> QED
      BY <1>1, <2>5, <3>1, HeldNextIs
  <2>7. {t} \in SUBSET Waiting
    BY <2>3
  <2>8. StoredInv'
    BY <1>1 DEF StoredInv
  <2> QED
    BY <1>1, <2>5, <2>6, <2>7, <2>8, PoolTake
<1> QED
  BY <1>3, <1>4 DEF BigTake

\* The small-file thread and the timer take the front of the small queue.
LEMMA AggTakePools ==
  ASSUME IInv, StoredInv, SmallTake \/ TimerTake
  PROVE  PoolStep
<1> DEFINE batch == get_until_size(AggSizeBoundary)
<1>1. PICK a \in Aggregators :
        /\ agg' = [agg EXCEPT ![a] = [step |-> "put_batch", files |-> batch]]
        /\ agg[a].step = "none"
  <2>1. CASE SmallTake
    <3>1. agg["small"].step = "none" /\ "small" \in Aggregators
      BY <2>1 DEF SmallTake, IInv, ThreadInv, Aggregators
    <3> QED
      BY <2>1, <3>1 DEF SmallTake
  <2>2. CASE TimerTake
    BY <2>2 DEF TimerTake, NoAggregate, Aggregators
  <2> QED
    BY <2>1, <2>2
<1>2. UNCHANGED <<task, current, uploaded>> /\ (pc["big"] = "finish" => pc'["big"] = "finish")
  BY DEF SmallTake, TimerTake, IInv, TypeInv, Queues
<1>3. Range(batch) \subseteq Waiting
  <2> DEFINE s == que["small"]
  <2>1. s \in Seq(Tasks) /\ NoDup(s) /\ "small" \in Queues
    BY DEF IInv, TypeInv, NoDupInv, Queues
  <2>2. PICK n \in 0..Len(s) : batch = SubSeq(s, 1, n)
    BY TakenIs DEF IInv
  <2> HIDE DEF batch, s
  <2>3. Range(SubSeq(s, 1, n)) \subseteq Range(s)
    BY <2>1, SplitRange
  <2> QED
    BY <2>1, <2>2, <2>3, QueuedWaits DEF s
<1> HIDE DEF batch
<1>4. /\ a \in Uploaders /\ a # "big" /\ Held[a] = {} /\ Held \in [Uploaders -> SUBSET Tasks]
      /\ Held["big"] = {current} \ {NoTask} /\ \A u \in Uploaders : u # "big" => Held[u] = Range(agg[u].files)
  <2>1. agg[a].files = << >>
    BY <1>1 DEF IInv, ThreadInv
  <2>2. Batch(a) = {}
    BY <2>1 DEF Batch, Range
  <2> QED
    BY <2>2, HeldIs DEF Held, Batch
<1>5. \A u \in Aggregators : agg'[u].files = IF u = a THEN batch ELSE agg[u].files
  BY <1>1 DEF IInv, TypeInv
<1>6. Held' = [Held EXCEPT ![a] = Range(batch)]
  <2>1. \A u \in Uploaders : u = "big" \/ u \in Aggregators
    BY DEF Uploaders
  <2> QED
    BY <1>2, <1>4, <1>5, <2>1, HeldNextIs
<1>7. StoredInv'
  BY <1>2 DEF StoredInv
<1> QED
  BY <1>2, <1>3, <1>4, <1>6, <1>7, PoolTake

\* The calls of SDK::put: put_ok stores the task, unless it fails; the
\* others do not show.
LEMMA BigStepPools ==
  ASSUME IInv, StoredInv, BigNamenodePut \/ BigLockRemote \/ BigDatanodePut \/ BigNamenodePutOk
  PROVE  PoolStep
<1>1. pc["big"] \in {"put", "lock", "data", "putok"} /\ UNCHANGED <<current, agg>>
  BY DEF BigNamenodePut, BigLockRemote, BigDatanodePut, BigNamenodePutOk
<1>2. /\ current \in Tasks /\ Remote[current] \in Names /\ task[current].stage = "queued"
      /\ task[current].belong_que \in Queues
  BY <1>1, CurrentIs DEF BigSteps
<1>3. \A t \in Tasks : task'[t].stage = task[t].stage
  <2>1. \A s \in Status, t \in Tasks :
          change_status(task[current].belong_que, Remote[current], s)[t].stage = task[t].stage
    BY <1>2, StatusIs DEF IInv
  <2>2. "DATA_UPLOADING" \in Status /\ "META_UPLOADING" \in Status
    BY DEF Status
  <2> QED
    BY <2>1, <2>2 DEF BigNamenodePut, BigLockRemote, BigDatanodePut, BigNamenodePutOk
<1>4. CASE uploaded' = uploaded
  BY <1>1, <1>3, <1>4, PoolQuiet
<1>5. CASE uploaded' # uploaded
  <2>1. uploaded' = uploaded \cup {current} /\ pc' = [pc EXCEPT !["big"] = "finish"]
    BY <1>5 DEF BigNamenodePut, BigLockRemote, BigDatanodePut, BigNamenodePutOk
  <2>2. current \notin uploaded
    BY <1>1, <1>2 DEF StoredInv
  <2>3. pc'["big"] = "finish" /\ uploaded \subseteq Tasks
    BY <2>1 DEF IInv, TypeInv, Queues
  <2>4. StoredInv'
    BY <1>1, <1>3, <2>1, <2>3 DEF StoredInv
  <2>5. Held["big"] = {current} /\ "big" \in Uploaders
    BY <1>2, HeldIs, DaemonAssumption
  <2>6. Held' = Held
    BY <1>1, HeldNextIs DEF Held, Batch
  <2>7. Waiting' = Waiting /\ Done' = Done
    BY <1>3, <2>6, HeldNextIs DEF Waiting, Done
  <2>8. Pool!Store("big")
    BY <2>1, <2>2, <2>5, <2>6, <2>7 DEF Pool!Store
  <2> QED
    BY <2>4, <2>5, <2>8 DEF PoolStep, Pool!Next
<1> QED
  BY <1>4, <1>5

\* The big-file thread is through with its task.
LEMMA BigFinishPools ==
  ASSUME IInv, StoredInv, BigFinish
  PROVE  PoolStep
<1> DEFINE mid == change_status(task[current].belong_que, Remote[current], "FINISHED")
<1>1. /\ pc["big"] = "finish" /\ UNCHANGED <<agg, uploaded>> /\ current' = NoTask
      /\ task' = [mid EXCEPT ![current].stage = "done"]
  BY DEF BigFinish
<1>2. /\ current \in Tasks /\ Remote[current] \in Names /\ task[current].stage = "queued"
      /\ task[current].belong_que \in Queues
  BY <1>1, CurrentIs DEF BigSteps
<1>3. mid \in [Tasks -> Task] /\ \A t \in Tasks : mid[t].stage = task[t].stage
  <2>1. "FINISHED" \in Status
    BY DEF Status
  <2> QED
    BY <1>2, <2>1, StatusIs DEF IInv
<1> HIDE DEF mid
<1>4. \A t \in Tasks : task'[t].stage = IF t = current THEN "done" ELSE task[t].stage
  BY <1>1, <1>2, <1>3 DEF Task
<1>5. StoredInv'
  <2>1. uploaded \subseteq Tasks
    BY DEF IInv, TypeInv
  <2> QED
    BY <1>1, <1>4, <2>1 DEF StoredInv
<1>6. /\ "big" \in Uploaders /\ Held["big"] = {current} /\ Held \in [Uploaders -> SUBSET Tasks]
      /\ \A u \in Uploaders : u # "big" => Held[u] = Range(agg[u].files)
  BY <1>2, HeldIs, DaemonAssumption DEF Held, Batch
<1>7. Held' = [Held EXCEPT !["big"] = {}]
  <2>1. {current'} \ {NoTask} = {}
    BY <1>1
  <2> QED
    BY <1>1, <1>6, <2>1, HeldNextIs
<1>8. \A t \in Tasks : task'[t].stage = IF t \in Held["big"] THEN "done" ELSE task[t].stage
  BY <1>4, <1>6
<1> QED
  BY <1>1, <1>5, <1>6, <1>7, <1>8, PoolFinish DEF PoolStep

\* put_ok_batch stores a whole batch, or ends the daemon.
LEMMA AggPools ==
  ASSUME IInv, StoredInv, NEW a \in Aggregators, Aggregate(a)
  PROVE  PoolStep
<1>1. agg \in [Aggregators -> [step : AggSteps, files : Seq(Tasks)]] /\ uploaded \subseteq Tasks
      /\ task \in [Tasks -> Task] /\ DOMAIN pc = Queues
  BY DEF IInv, TypeInv
<1>2. CASE AggPutBatch(a) \/ AggLock(a)
  <2>1. UNCHANGED <<task, pc, current, uploaded>>
    BY <1>2 DEF AggPutBatch, AggLock, AggCallThrows
  <2>2. \A b \in Aggregators : agg'[b].files = agg[b].files
    <3>1. \/ agg' = agg
          \/ \E s \in {"lock", "put_ok_batch"} : agg' = [agg EXCEPT ![a].step = s]
      BY <1>2 DEF AggPutBatch, AggLock, AggCallThrows
    <3> QED
      BY <1>1, <3>1
  <2> QED
    BY <2>1, <2>2, PoolQuiet
<1>3. CASE AggPutOkBatch(a) /\ UNCHANGED <<agg, task, uploaded, pc>>
  <2>1. UNCHANGED current
    BY <1>3 DEF AggPutOkBatch
  <2> QED
    BY <1>3, <2>1, PoolQuiet
<1>4. CASE AggPutOkBatch(a) /\ ~UNCHANGED <<agg, task, uploaded, pc>>
  <2>1. /\ UNCHANGED current
        /\ uploaded' = uploaded \cup Batch(a)
        /\ task' = [t \in Tasks |-> IF t \in Batch(a)
                      THEN [task[t] EXCEPT !.stage = "done"] ELSE task[t]]
        /\ agg' = [agg EXCEPT ![a] = NoAggregate]
        /\ pc' = IF a = "small" THEN [pc EXCEPT !["small"] = "end"] ELSE pc
    BY <1>4 DEF AggPutOkBatch, AggCallThrows
  <2>2. pc'["big"] = pc["big"]
    BY <1>1, <2>1 DEF Queues
  <2>3. /\ a \in Uploaders /\ a # "big" /\ Held[a] = Batch(a) /\ Held \in [Uploaders -> SUBSET Tasks]
        /\ \A t \in Held[a] : task[t].stage = "queued" /\ \A v \in Uploaders : t \in Held[v] => v = a
        /\ Held["big"] = {current} \ {NoTask} /\ \A u \in Uploaders : u # "big" => Held[u] = Range(agg[u].files)
        /\ "big" \in Uploaders
    BY HeldIs DEF Held, Batch
  <2>4. \A t \in Tasks : task'[t].stage = IF t \in Held[a] THEN "done" ELSE task[t].stage
    BY <1>1, <2>1, <2>3 DEF Task
  <2>5. Held[a] \cap uploaded = {}
    <3> SUFFICES ASSUME NEW t \in Held[a], t \in uploaded PROVE FALSE
      OBVIOUS
    <3>1. t \in Tasks /\ task[t].stage = "queued"
      BY <2>3
    <3>2. t = current
      BY <3>1 DEF StoredInv
    <3>3. t \in Held["big"]
      BY <2>3, <3>1, <3>2, DaemonAssumption
    <3> QED
      BY <2>3, <3>3
  <2>6. StoredInv'
    BY <1>1, <2>1, <2>2, <2>3, <2>4 DEF StoredInv
  <2>7. \A u \in Aggregators : Range(agg'[u].files) = IF u = a THEN {} ELSE Range(agg[u].files)
    BY <1>1, <2>1 DEF NoAggregate, Range
  <2>8. Held' = [Held EXCEPT ![a] = {}]
    <3>1. \A u \in Uploaders : u = "big" \/ u \in Aggregators
      BY DEF Uploaders
    <3> QED
      BY <2>1, <2>3, <2>7, <3>1, HeldNextIs
  <2>9. uploaded' = uploaded \cup Held[a]
    BY <2>1, <2>3
  <2> QED
    BY <2>3, <2>4, <2>5, <2>6, <2>8, <2>9, PoolFinish DEF PoolStep
<1> QED
  BY <1>2, <1>3, <1>4 DEF Aggregate

\* fsync moves a task that waits and goes on waiting.
LEMMA FsyncPools ==
  ASSUME IInv, StoredInv, NEW t \in Tasks, FsyncTake(t) \/ FsyncPush(t)
  PROVE  PoolStep
<1>1. UNCHANGED <<pc, current, agg, uploaded>>
  BY DEF FsyncTake, FsyncPush
<1>2. CASE FsyncTake(t)
  BY <1>1, <1>2, PoolQuiet DEF FsyncTake
<1>3. CASE FsyncPush(t)
  <2>1. /\ t \in moving
        /\ task' = [task EXCEPT ![t] = [status |-> "WAITING", belong_que |-> "big", stage |-> "queued"]]
    BY <1>3 DEF FsyncPush, push_back
  <2>2. Has("moving", t) /\ "moving" \in Places
    BY <2>1 DEF Has, Places
  <2>3. task[t].stage = "queued"
    BY <2>2, Zenon DEF IInv, OnePlaceInv
  <2>4. task \in [Tasks -> Task]
    BY DEF IInv, TypeInv
  <2>5. \A v \in Tasks : task'[v].stage = task[v].stage
    BY <2>1, <2>3, <2>4
  <2> QED
    BY <1>1, <2>5, PoolQuiet
<1> QED
  BY <1>2, <1>3

\* rm touches a status at most.
LEMMA RmPools ==
  ASSUME IInv, StoredInv, NEW p \in Names, RmStart(p) \/ RmSpin(p) \/ RmSmall(p) \/ RmRemote(p)
  PROVE  PoolStep
<1>1. UNCHANGED <<pc, current, agg, uploaded>>
  BY DEF RmStart, RmSpin, RmSmall, RmRemote
<1>2. \A t \in Tasks : task'[t].stage = task[t].stage
  <2>1. "CANCELED" \in Status /\ "small" \in Queues
    BY DEF Status, Queues
  <2>2. \A t \in Tasks : change_status("small", p, "CANCELED")[t].stage = task[t].stage
    BY <2>1, StatusIs DEF IInv
  <2> QED
    BY <2>2 DEF RmStart, RmSpin, RmSmall, RmRemote
<1> QED
  BY <1>1, <1>2, PoolQuiet

\* The loops of the threads, the downloads, time, and what only the namenode sees.
LEMMA IdlePools ==
  ASSUME IInv, StoredInv,
         \/ \E q \in Queues : Loop(q)
         \/ SmallCheck \/ Stop \/ IntervalPasses \/ UNCHANGED vars
         \/ \E p \in Names : \/ Download(p) \/ DownloadAskSmall(p) \/ LockExpires(p)
                             \/ thread_file_download(p)
  PROVE  PoolStep
<1>1. UNCHANGED <<task, current, agg, uploaded>>
  BY DEF Loop, LoopTop, Sleep, Wake, LoopEnd, SmallCheck, Stop, IntervalPasses, vars,
         Download, DownloadAskSmall, LockExpires, thread_file_download
<1>2. pc["big"] = "finish" => pc'["big"] = "finish"
  BY DEF Loop, LoopTop, Sleep, Wake, LoopEnd, SmallCheck, Stop, IntervalPasses, vars,
         Download, DownloadAskSmall, LockExpires, thread_file_download, IInv, TypeInv, Queues
<1> QED
  BY <1>1, <1>2, PoolQuiet

\* Every step of the daemon is one of the pool, or does not show there.
LEMMA NextPools ==
  ASSUME IInv, StoredInv, [Next]_vars
  PROVE  PoolStep
<1>1. Removed \subseteq Names /\ Fetched \subseteq Names
  BY DaemonAssumption
<1>2. "big" \in Queues /\ "small" \in Queues /\ "small" \in Aggregators /\ "timer" \in Aggregators
  BY DEF Queues, Aggregators
<1>3. CASE BigThread
  BY <1>2, <1>3, IdlePools, BigTakePools, BigStepPools, BigFinishPools DEF BigThread
<1>4. CASE SmallThread
  BY <1>2, <1>4, IdlePools, AggTakePools, AggPools DEF SmallThread
<1>5. CASE TimerThread
  BY <1>2, <1>5, AggTakePools, AggPools DEF TimerThread
<1>6. CASE Client
  <2>1. CASE \E t \in Tasks : Upload(t) \/ FsyncTake(t) \/ FsyncPush(t)
    BY <2>1, UploadPools, FsyncPools
  <2>2. CASE \E p \in Removed : RmStart(p) \/ RmSpin(p) \/ RmSmall(p) \/ RmRemote(p)
    BY <1>1, <2>2, RmPools
  <2>3. CASE \E p \in Fetched : Download(p) \/ DownloadAskSmall(p)
    BY <1>1, <2>3, IdlePools
  <2>4. CASE Stop
    BY <2>4, IdlePools
  <2> QED
    BY <1>6, <2>1, <2>2, <2>3, <2>4 DEF Client
<1>7. CASE IntervalPasses \/ UNCHANGED vars \/ \E p \in Names : LockExpires(p) \/ thread_file_download(p)
  BY <1>7, IdlePools
<1> QED
  BY <1>3, <1>4, <1>5, <1>6, <1>7 DEF Next

\* At first the pool is empty.
LEMMA InitPools == Init => StoredInv /\ Pool!Init
<1> SUFFICES ASSUME Init PROVE StoredInv /\ Pool!Init
  OBVIOUS
<1>1. /\ uploaded = {} /\ current = NoTask /\ \A t \in Tasks : task[t].stage = "new"
      /\ \A a \in Aggregators : Batch(a) = {}
  BY DEF Init, Batch, NoAggregate, Range
<1>2. \A u \in Uploaders : u = "big" \/ u \in Aggregators
  BY DEF Uploaders
<1>3. Held = [u \in Uploaders |-> {}]
  BY <1>1, <1>2 DEF Held
<1>4. Waiting = {} /\ Done = {}
  BY <1>1 DEF Waiting, Done
<1> QED
  BY <1>1, <1>3, <1>4 DEF StoredInv, Pool!Init

\* The daemon implements the pool: whatever fsync, the timer and the threads
\* take out of the queues without a common lock, each accepted task is taken by
\* one uploader, which stores it at most once and as part of its whole batch
\* (get_until_size, exist_in_que and pop_front of daemon_upload_queue.cpp).
THEOREM DaemonIsPool == Spec => ImplementsPool
<1>1. Init => StoredInv /\ Pool!Init
  BY InitPools
<1>2. IInv /\ StoredInv /\ [Next]_vars => StoredInv' /\ [Pool!Next]_(Pool!vars)
  BY NextPools DEF PoolStep
<1> QED
  BY <1>1, <1>2, Invariance, PTL DEF Spec, Pool!Spec, ImplementsPool
=============================================================================
