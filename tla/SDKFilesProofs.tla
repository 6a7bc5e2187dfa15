--------------------------- MODULE SDKFilesProofs ---------------------------
(***************************************************************************)
(* Proofs about module SDKFiles, for any number of threads, blocks, opens, *)
(* writes and refreshes: the path lock keeps writers apart and is free     *)
(* when nobody has the file open (ClosedFree); with it nothing a session   *)
(* wrote is missing from its first save and, as long as no save was        *)
(* refused, the local files are what the namenode has.                     *)
(***************************************************************************)
EXTENDS SDKFiles, FiniteSetTheorems, WellFoundedInduction, TLAPS

Piece == 0..MaxWrites
Content == Seq(Piece)
Subs == UNION {[1..n -> Content] : n \in 0..Size}

Steps == {"out", "lock", "lock_remote", "register", "update_inode", "store_inode",
          "_truncate", "in", "block_lock", "fill", "put_ok", "erase", "unlock", "unlock_path"}

\* In SDKFiles nobody comes back from unlock_path to anything but "out".
Thread == [step : Steps, mode : Modes \cup {"read"}, closing : BOOLEAN, back : {"out"},
           index : 0..Size, sub : Subs, stale : SUBSET Indexes,
           wrote : SUBSET (Indexes \X (1..MaxWrites)), saved : BOOLEAN, opened : BOOLEAN]

\* A thread that fills a block has an entry for it.
Filling(th) == th.step \in {"block_lock", "fill"} => th.index \in DOMAIN th.sub

LockType == /\ rw \in [writer : Threads \cup {Nobody}, readers : Int, wphase : BOOLEAN]
            /\ ilock \in [Indexes -> Threads \cup {Nobody}] /\ remoteLocks \in BOOLEAN

FileType == /\ inode = NoInode \/ inode \in Subs
            /\ cached \in [Indexes -> Content]
            /\ linked \in UNION {[D -> Content] : D \in SUBSET Indexes}

NodeType == /\ master = Gone \/ master \in Subs
            /\ slave = Gone \/ slave \in Subs

AtType == at \in [Threads -> Thread] /\ \A t \in Threads : Filling(at[t])

RestType == /\ timer \in [step : {"wait", "paths", "call"}, paths : BOOLEAN, retryCount : 0..3]
            /\ dead \in BOOLEAN /\ outdated \in BOOLEAN /\ refused \in BOOLEAN /\ kept \in BOOLEAN
            /\ opens \in 0..MaxOpens /\ writes \in 0..MaxWrites /\ refreshes \in 0..MaxRefreshes

TypeInv == LockType /\ FileType /\ NodeType /\ AtType /\ RestType

\* The sessions that the path lock has admitted.
Reader(t) == Inside(t) /\ at[t].mode = "read"
Writer(t) == Inside(t) /\ at[t].mode # "read"
Readers == {t \in Threads : Reader(t)}

\* The lock knows its writer and counts the readers that are inside, until a
\* close leaves it held: then nobody is inside, nor will be.  Its writer is
\* inside, unless a truncate that failed has left it held as well.
LockInv ==
  /\ IsFiniteSet(Readers) /\ (~kept => Cardinality(Readers) = rw.readers)
  /\ \A t \in Threads : Writer(t) => rw.writer = t
  /\ rw.writer # Nobody \/ rw.wphase => Readers = {}
  /\ kept => rw.writer # Nobody /\ \A t \in Threads : ~Inside(t)
  /\ "truncate" \notin Modes /\ rw.writer # Nobody => kept \/ \E t \in Threads : Writer(t)

\* Before a session has opened the file, and while it can read and write.
Entering == {"out", "lock", "lock_remote", "register", "update_inode", "store_inode"}
Working == {"in", "block_lock", "fill"}

\* A session that has registered the path finds it registered.
RefreshInv ==
  \A t \in Threads :
    /\ at[t].opened => at[t].step \notin Entering
    /\ Writer(t) /\ (at[t].opened \/ at[t].step \in {"update_inode", "store_inode"})
         /\ at[t].step # "unlock_path" => remoteLocks

\* Piece k is in the content c.
Has(c, k) == \E j \in DOMAIN c : c[j] = k

\* Until its first save, what a session wrote is in the local file and linked.
WroteInv ==
  \A t \in Threads :
    /\ at[t].step \in Entering \cup {"_truncate"} => at[t].wrote = {} /\ ~at[t].saved
    /\ at[t].wrote # {} => at[t].mode # "read"
    /\ ~at[t].saved => \A w \in at[t].wrote :
         /\ at[t].step \in Working =>
              w[1] \in DOMAIN linked /\ Has(linked[w[1]], w[2]) /\ Has(cached[w[1]], w[2])
         /\ at[t].step = "put_ok" => w[1] \in DOMAIN at[t].sub /\ Has(at[t].sub[w[1]], w[2])

\* Blocks are linked by the writer that will save them.
LinkInv ==
  /\ DOMAIN linked # {} => \E t \in Threads : Writer(t) /\ at[t].step \in Working
  /\ \A t \in Threads : at[t].step = "put_ok" => Writer(t) /\ DOMAIN linked = {}
  /\ slave = Gone => master = Gone

\* The cases CachedBlocksCurrent is about, and a second save that is under way
\* and will make the inode outdated.
Fresh == master # Gone /\ ~outdated /\ ~refused
Dirty == \E t \in Threads : Writer(t) /\ at[t].saved /\ (at[t].step = "put_ok" \/ DOMAIN linked # {})

\* Block i's local file is what the list m has, if it has content; and where
\* it has none, m has none, unless the block has never been touched.
HoldsOf(i, m) == cached[i] # << >> => i \in DOMAIN m /\ cached[i] = m[i]
EmptyOf(i, m) == cached[i] = << >> /\ i \in DOMAIN m /\ m[i] # << >> => i = 1 /\ i \notin DOMAIN linked

\* To fill an empty file of block i from the list s does not deviate from m.
FillsAs(s, i, m) == cached[i] = << >> => s[i] = << >> \/ (i \in DOMAIN m /\ s[i] = m[i])

\* The local files and the cached inode against what the namenode has, or is
\* about to have.
CleanInv ==
  /\ \A i \in Indexes : /\ EmptyOf(i, master)
                        /\ IF i \in DOMAIN linked THEN linked[i] = cached[i] ELSE HoldsOf(i, master)
  /\ inode # NoInode => \A i \in DOMAIN inode : FillsAs(inode, i, master)
  /\ \A t \in Threads : at[t].step \in {"block_lock", "fill"} => FillsAs(at[t].sub, at[t].index, master)

SavingInv(t) ==
  /\ \A i \in Indexes : EmptyOf(i, at[t].sub) /\ HoldsOf(i, at[t].sub)
  /\ inode # NoInode => \A i \in DOMAIN inode : FillsAs(inode, i, at[t].sub)

\* The cached inode is the master's; it is empty while an open has yet to store
\* what it fetched.
Settled == inode \in {NoInode, master} \/ (inode = << >> /\ \E t \in Threads : at[t].step = "store_inode")

InodeInv ==
  /\ \/ Settled
     \/ \E t \in Threads : Writer(t) /\ at[t].saved /\ at[t].step \in Working \cup {"put_ok", "erase"}
  /\ \A t \in Threads :
       /\ at[t].step = "store_inode" => at[t].sub = master /\ at[t].stale = {}
       /\ Writer(t) /\ ~at[t].saved /\ at[t].step \in Working \cup {"put_ok"} => inode \in {NoInode, master}

CurrentInv ==
  Fresh => /\ InodeInv
           /\ ~Dirty /\ (\A t \in Threads : at[t].step # "put_ok") => CleanInv
           /\ \A t \in Threads : ~Dirty /\ at[t].step = "put_ok" => SavingInv(t)

\* The inductive invariant.
IInv == TypeInv /\ LockInv /\ RefreshInv /\ WroteInv /\ LinkInv /\ CurrentInv

-----------------------------------------------------------------------------
(* Lists of entries                                                        *)

\* The bounds are numbers, and a file has room for a block.
LEMMA Bounds == /\ Size \in Nat /\ Size > 0 /\ MaxOpens \in Nat /\ MaxWrites \in Nat /\ MaxRefreshes \in Nat
                /\ Nobody \notin Threads
BY FilesAssumption

\* What a member of Subs is.
LEMMA SubsDef ==
  ASSUME NEW s
  PROVE  s \in Subs <=> \E n \in 0..Size : s \in [1..n -> Content]
BY DEF Subs

\* An entry of a list is a block's content, and its place an index.
LEMMA SubsEntry ==
  ASSUME NEW s \in Subs
  PROVE  /\ DOMAIN s \subseteq Indexes /\ \A i \in DOMAIN s : s[i] \in Content
         /\ s \in Seq(Content) /\ Len(s) \in 0..Size /\ DOMAIN s = 1..Len(s)
<1>1. PICK n \in 0..Size : s \in [1..n -> Content]
  BY SubsDef
<1>2. n \in Nat /\ s \in Seq(Content) /\ Len(s) = n
  BY <1>1, Bounds
<1> QED
  BY <1>1, <1>2, Bounds DEF Indexes

\* The empty list, and a block with one piece.
LEMMA SmallSubs == /\ << >> \in Subs /\ << >> \in Content /\ <<<<0>>>> \in Subs
<1>1. << >> \in [1..0 -> Content] /\ << >> \in Content
  BY DEF Content
<1>2. <<0>> \in Content
  BY Bounds DEF Content, Piece
<1>3. <<<<0>>>> \in [1..1 -> Content]
  BY <1>2
<1>4. 0 \in 0..Size /\ 1 \in 0..Size
  BY Bounds
<1>5. << >> \in Subs
  BY <1>1, <1>4 DEF Subs
<1>6. <<<<0>>>> \in Subs
  BY <1>3, <1>4 DEF Subs
<1> QED
  BY <1>1, <1>5, <1>6

\* A removed path is no list.
LEMMA GoneNoSub == Gone \notin Subs
<1> SUFFICES ASSUME Gone \in Subs PROVE FALSE
  OBVIOUS
<1>1. PICK n \in 0..Size : Gone \in [1..n -> Content]
  BY SubsDef
<1>2. Content \subseteq Seq(Nat)
  BY Bounds DEF Content, Piece
<1>3. Gone \in [1..n -> Seq(Nat)] /\ n \in Nat
  BY <1>1, <1>2, Bounds
<1>4. Gone \in Seq(Seq(Nat))
  BY <1>3
<1> QED
  BY <1>4, GoneAssumption

\* The largest number of a set of numbers up to n.
LEMMA MaxIsMax ==
  ASSUME NEW n \in Nat, NEW S \in SUBSET (0..n), S # {}
  PROVE  Max(S) \in S /\ \A y \in S : Max(S) >= y
<1> DEFINE T == {n - x : x \in S}
<1>1. T \subseteq Nat /\ T # {}
  OBVIOUS
<1>2. PICK z \in T : \A y \in T : ~(<<y, z>> \in OpToRel(<, Nat))
  BY <1>1, NatLessThanWellFounded, WFMin
<1>3. \A y \in T : ~(y < z)
  BY <1>1, <1>2 DEF OpToRel
<1>4. PICK x \in S : z = n - x
  BY <1>2
<1>5. \A y \in S : x >= y
  BY <1>3, <1>4
<1>6. \E m \in S : \A y \in S : m >= y
  BY <1>5
<1> QED
  BY <1>6 DEF Max

\* What fsync sends is a list of entries, and holds the linked blocks.
LEMMA SavedSubType ==
  ASSUME FileType, inode # NoInode
  PROVE  /\ SavedSub \in Subs
         /\ DOMAIN linked \subseteq DOMAIN SavedSub /\ DOMAIN inode \subseteq DOMAIN SavedSub
         /\ \A i \in DOMAIN SavedSub :
              SavedSub[i] = IF i \in DOMAIN linked THEN linked[i]
                            ELSE IF i \in DOMAIN inode THEN inode[i] ELSE << >>
<1> DEFINE S == {Len(inode)} \cup DOMAIN linked
           m == Max(S)
<1>1. inode \in Subs
  BY DEF FileType
<1>2. DOMAIN linked \subseteq Indexes /\ \A i \in DOMAIN linked : linked[i] \in Content
  BY DEF FileType
<1>3. Len(inode) \in 0..Size /\ DOMAIN inode = 1..Len(inode) /\ \A i \in DOMAIN inode : inode[i] \in Content
  BY <1>1, SubsEntry
<1>4. S \in SUBSET (0..Size) /\ S # {}
  BY <1>2, <1>3, Bounds DEF Indexes
<1>5. m \in S /\ \A y \in S : m >= y
  BY <1>4, Bounds, MaxIsMax
<1> HIDE DEF m
<1>6. m \in 0..Size /\ Len(inode) <= m /\ DOMAIN linked \subseteq 1..m
  <2>1. m \in 0..Size /\ Len(inode) <= m /\ \A i \in DOMAIN linked : i <= m
    BY <1>4, <1>5
  <2> QED
    BY <1>2, <2>1, Bounds DEF Indexes
<1> HIDE DEF S
<1>7. SavedSub = [i \in 1..m |-> IF i \in DOMAIN linked THEN linked[i]
                                 ELSE IF i <= Len(inode) THEN inode[i] ELSE << >>]
  BY DEF SavedSub, m, S
<1>8. \A i \in 1..m : i <= Len(inode) <=> i \in DOMAIN inode
  BY <1>3, <1>6
<1>9. SavedSub \in [1..m -> Content]
  BY <1>2, <1>3, <1>7, <1>8, SmallSubs
<1>10. SavedSub \in Subs
  BY <1>6, <1>9, SubsDef
<1> QED
  BY <1>3, <1>6, <1>7, <1>8, <1>10, Bounds
-----------------------------------------------------------------------------
(* Types                                                                   *)

\* The initial state has the types.
LEMMA InitType == Init => TypeInv
<1> SUFFICES ASSUME Init PROVE TypeInv
  OBVIOUS
<1>1. Out \in Thread /\ Filling(Out)
  BY SmallSubs, Bounds DEF Out, Thread, Steps, Filling
<1>2. AtType
  BY <1>1 DEF Init, AtType
<1>3. << >> \in [{} -> Content]
  OBVIOUS
<1>4. FileType
  BY <1>3, SmallSubs DEF Init, FileType
<1>5. LockType
  <2>1. rw \in [writer : Threads \cup {Nobody}, readers : Int, wphase : BOOLEAN]
    BY DEF Init
  <2>2. ilock \in [Indexes -> Threads \cup {Nobody}]
    BY DEF Init
  <2>3. remoteLocks \in BOOLEAN
    BY DEF Init
  <2> QED
    BY <2>1, <2>2, <2>3 DEF LockType
<1>6. NodeType
  BY SmallSubs DEF Init, NodeType
<1>7. timer \in [step : {"wait", "paths", "call"}, paths : BOOLEAN, retryCount : 0..3]
  BY DEF Init, Idle
<1>8. RestType
  <2>1. dead \in BOOLEAN /\ outdated \in BOOLEAN /\ refused \in BOOLEAN /\ kept \in BOOLEAN
    BY DEF Init
  <2>2. opens \in 0..MaxOpens /\ writes \in 0..MaxWrites /\ refreshes \in 0..MaxRefreshes
    BY Bounds DEF Init
  <2> QED
    BY <1>7, <2>1, <2>2 DEF RestType
<1> QED
  BY <1>2, <1>4, <1>5, <1>6, <1>8 DEF TypeInv

\* What a step leaves alone keeps its type.
LEMMA Kept ==
  ASSUME TypeInv
  PROVE  /\ UNCHANGED locks => LockType'
         /\ UNCHANGED files => FileType'
         /\ UNCHANGED namenodes => NodeType'
         /\ UNCHANGED rest => RestType'
         /\ UNCHANGED at => AtType'
<1>1. UNCHANGED locks => LockType'
  BY DEF TypeInv, LockType, locks
<1>2. UNCHANGED files => FileType'
  BY DEF TypeInv, FileType, files
<1>3. UNCHANGED namenodes => NodeType'
  BY DEF TypeInv, NodeType, namenodes
<1>4. UNCHANGED rest => RestType'
  BY DEF TypeInv, RestType, rest, history
<1>5. UNCHANGED at => AtType'
  BY DEF TypeInv, AtType
<1> QED
  BY <1>1, <1>2, <1>3, <1>4, <1>5

\* A step of one thread.
LEMMA AtStep ==
  ASSUME AtType, NEW t \in Threads, NEW r \in Thread, Filling(r), at' = [at EXCEPT ![t] = r]
  PROVE  AtType'
BY DEF AtType

\* A thread may go on to a step in which it fills no block.
LEMMA GoType ==
  ASSUME AtType, NEW t \in Threads, NEW step \in Steps \ {"block_lock", "fill"}, Go(t, step)
  PROVE  AtType'
<1> DEFINE r == [at[t] EXCEPT !.step = step]
<1>1. at[t] \in Thread
  BY DEF AtType
<1>2. r \in Thread /\ Filling(r)
  BY <1>1 DEF Thread, Filling
<1>3. at' = [at EXCEPT ![t] = r]
  BY <1>1 DEF Go, AtType, Thread
<1> HIDE DEF r
<1> QED
  BY <1>2, <1>3, AtStep

\* A thread may be out.
LEMMA OutType ==
  ASSUME AtType, NEW t \in Threads, at' = [at EXCEPT ![t] = Out]
  PROVE  AtType'
<1>1. Out \in Thread /\ Filling(Out)
  BY SmallSubs, Bounds DEF Out, Thread, Steps, Filling
<1> QED
  BY <1>1, AtStep

\* open's exceptions keep the types.
LEMMA CaughtType ==
  ASSUME AtType, NEW t \in Threads, Caught(t)
  PROVE  AtType'
<1>1. CASE at[t].mode = "truncate"
  BY <1>1, OutType DEF Caught
<1>2. CASE at[t].mode # "truncate"
  BY <1>2, GoType DEF Caught, Steps
<1> QED
  BY <1>1, <1>2

\* The steps of open.
LEMMA OpenTypes ==
  ASSUME TypeInv, NEW t \in Threads,
         \/ \E mode \in Modes : Open(t, mode)
         \/ ReadLock(t) \/ WriteLock(t) \/ LockRemote(t) \/ Register(t)
         \/ UpdateInode(t) \/ StoreInode(t)
  PROVE  TypeInv'
<1>1. at[t] \in Thread /\ AtType
  BY DEF TypeInv, AtType
<1>2. ASSUME NEW mode \in Modes, Open(t, mode) PROVE TypeInv'
  <2> DEFINE r == [Out EXCEPT !.step = "lock", !.mode = mode]
  <2>1. Out \in Thread
    BY SmallSubs, Bounds DEF Out, Thread, Steps
  <2>2. r \in Thread /\ Filling(r)
    BY <2>1 DEF Thread, Steps, Filling
  <2>3. at' = [at EXCEPT ![t] = r]
    BY <1>2 DEF Open
  <2> HIDE DEF r
  <2>4. AtType'
    BY <1>1, <2>2, <2>3, AtStep
  <2>5. RestType'
    <3>1. opens' \in 0..MaxOpens
      <4>1. opens \in 0..MaxOpens
        BY DEF TypeInv, RestType
      <4>2. opens < MaxOpens /\ opens' = opens + 1
        BY <1>2 DEF Open
      <4> QED
        BY <4>1, <4>2, Bounds
    <3>2. UNCHANGED <<timer, dead, history, writes, refreshes>>
      BY <1>2 DEF Open
    <3> QED
      BY <3>1, <3>2 DEF TypeInv, RestType, history
  <2>6. UNCHANGED <<locks, files, namenodes>>
    BY <1>2 DEF Open
  <2> QED
    BY <2>4, <2>5, <2>6, Kept DEF TypeInv
<1>3. CASE ReadLock(t)
  <2>1. AtType'
    BY <1>1, <1>3, GoType DEF ReadLock, Steps
  <2>2. LockType'
    <3>1. rw' \in [writer : Threads \cup {Nobody}, readers : Int, wphase : BOOLEAN]
      <4>1. rw \in [writer : Threads \cup {Nobody}, readers : Int, wphase : BOOLEAN]
        BY DEF TypeInv, LockType
      <4>2. rw' = [rw EXCEPT !.readers = rw.readers + 1, !.wphase = FALSE]
        BY <1>3 DEF ReadLock, LockedShared
      <4>3. rw.readers + 1 \in Int
        BY <4>1
      <4> QED
        BY <4>1, <4>2, <4>3
    <3>2. UNCHANGED <<ilock, remoteLocks>>
      BY <1>3 DEF ReadLock
    <3> QED
      BY <3>1, <3>2 DEF TypeInv, LockType
  <2>3. UNCHANGED <<files, namenodes, rest>>
    BY <1>3 DEF ReadLock
  <2> QED
    BY <2>1, <2>2, <2>3, Kept DEF TypeInv
<1>4. CASE WriteLock(t)
  <2>1. AtType'
    BY <1>1, <1>4, GoType DEF WriteLock, Steps
  <2>2. LockType'
    BY <1>4 DEF WriteLock, Locked, TypeInv, LockType
  <2>3. UNCHANGED <<files, namenodes, rest>>
    BY <1>4 DEF WriteLock
  <2> QED
    BY <2>1, <2>2, <2>3, Kept DEF TypeInv
<1>5. CASE LockRemote(t)
  <2>1. AtType'
    BY <1>1, <1>5, GoType, CaughtType DEF LockRemote, Steps
  <2>2. UNCHANGED <<locks, files, namenodes, rest>>
    BY <1>5 DEF LockRemote
  <2> QED
    BY <2>1, <2>2, Kept DEF TypeInv
<1>6. CASE Register(t)
  <2>1. AtType'
    BY <1>1, <1>6, GoType DEF Register, Steps
  <2>2. << >> \in [{} -> Content]
    OBVIOUS
  <2>3. FileType'
    BY <1>6, <2>2 DEF Register, TypeInv, FileType
  <2>4. LockType'
    BY <1>6 DEF Register, TypeInv, LockType
  <2>5. UNCHANGED <<namenodes, rest>>
    BY <1>6 DEF Register
  <2> QED
    BY <2>1, <2>3, <2>4, <2>5, Kept DEF TypeInv
<1>7. CASE UpdateInode(t)
  <2> DEFINE local == IF inode = NoInode THEN << >> ELSE inode
             r == [at[t] EXCEPT !.step = "store_inode", !.sub = slave, !.stale = Stale(local, slave)]
  <2>1. local \in Subs
    BY SmallSubs DEF TypeInv, FileType
  <2>2. inode' = local
    BY <1>7 DEF UpdateInode
  <2>3. ASSUME slave = Gone PROVE AtType'
    BY <1>1, <1>7, <2>3, CaughtType DEF UpdateInode
  <2>4. ASSUME slave # Gone PROVE AtType'
    <3>1. slave \in Subs
      BY <2>4 DEF TypeInv, NodeType
    <3>2. Stale(local, slave) \subseteq Indexes
      BY <2>1, SubsEntry DEF Stale
    <3> HIDE DEF local
    <3>3. r \in Thread /\ Filling(r)
      BY <1>1, <3>1, <3>2 DEF Thread, Steps, Filling
    <3>4. at' = [at EXCEPT ![t] = r]
      BY <1>1, <1>7, <2>4 DEF UpdateInode, local, AtType, Thread
    <3> HIDE DEF r
    <3> QED
      BY <1>1, <3>3, <3>4, AtStep
  <2> HIDE DEF local
  <2>5. FileType'
    BY <1>7, <2>1, <2>2 DEF UpdateInode, TypeInv, FileType
  <2>6. RestType'
    BY <1>7 DEF UpdateInode, TypeInv, RestType
  <2>7. UNCHANGED <<locks, namenodes>>
    BY <1>7 DEF UpdateInode
  <2> QED
    BY <2>3, <2>4, <2>5, <2>6, <2>7, Kept DEF TypeInv
<1>8. CASE StoreInode(t)
  <2> DEFINE step == IF at[t].mode \in Truncating THEN "_truncate" ELSE "in"
             r == [at[t] EXCEPT !.step = step, !.sub = << >>, !.stale = {}, !.opened = TRUE]
  <2>1. step \in Steps \ {"block_lock", "fill"}
    BY DEF Steps
  <2>2. at' = [at EXCEPT ![t] = r]
    BY <1>1, <1>8 DEF StoreInode, AtType, Thread
  <2> HIDE DEF step
  <2>3. r \in Thread /\ Filling(r)
    BY <1>1, <2>1, SmallSubs DEF Thread, Filling
  <2> HIDE DEF r
  <2>4. AtType'
    BY <1>1, <2>2, <2>3, AtStep
  <2>5. at[t].sub \in Subs
    BY <1>1 DEF Thread
  <2>6. FileType'
    BY <1>8, <2>5, SmallSubs DEF StoreInode, TypeInv, FileType
  <2>7. UNCHANGED <<locks, namenodes, rest>>
    BY <1>8 DEF StoreInode
  <2> QED
    BY <2>4, <2>6, <2>7, Kept DEF TypeInv
<1> QED
  BY <1>2, <1>3, <1>4, <1>5, <1>6, <1>7, <1>8

\* read_data and write_data.
LEMMA DataTypes ==
  ASSUME TypeInv, NEW t \in Threads,
         \/ BlockLock(t) \/ ReadFill(t)
         \/ \E i \in Indexes : ReadBegin(t, i) \/ \E toEnd \in BOOLEAN : WriteData(t, i, toEnd)
  PROVE  TypeInv'
<1>1. at[t] \in Thread /\ AtType /\ Filling(at[t])
  BY DEF TypeInv, AtType
<1>2. CASE BlockLock(t)
  <2> DEFINE r == [at[t] EXCEPT !.step = "fill"]
  <2>1. at' = [at EXCEPT ![t] = r]
    BY <1>1, <1>2 DEF BlockLock, Go, AtType, Thread
  <2>2. r \in Thread /\ Filling(r)
    BY <1>1, <1>2 DEF BlockLock, Thread, Steps, Filling
  <2> HIDE DEF r
  <2>3. AtType'
    BY <1>1, <2>1, <2>2, AtStep
  <2>4. LockType'
    BY <1>2 DEF BlockLock, TypeInv, LockType
  <2>5. UNCHANGED <<files, namenodes, rest>>
    BY <1>2 DEF BlockLock
  <2> QED
    BY <2>3, <2>4, <2>5, Kept DEF TypeInv
<1>3. CASE ReadFill(t)
  <2> DEFINE r == [at[t] EXCEPT !.step = "in", !.index = 0, !.sub = << >>]
             i == at[t].index
  <2>1. at' = [at EXCEPT ![t] = r]
    BY <1>1, <1>3 DEF ReadFill, AtType, Thread
  <2>2. r \in Thread /\ Filling(r)
    <3>1. 0 \in 0..Size /\ << >> \in Subs
      BY SmallSubs, Bounds
    <3> QED
      BY <1>1, <3>1 DEF Thread, Steps, Filling
  <2> HIDE DEF r
  <2>3. AtType'
    BY <1>1, <2>1, <2>2, AtStep
  <2>4. i \in DOMAIN at[t].sub /\ at[t].sub \in Subs
    BY <1>1, <1>3 DEF ReadFill, Filling, Thread
  <2>5. at[t].sub[i] \in Content
    BY <2>4, SubsEntry
  <2>6. PICK block \in Content :
          /\ cached' = cached \/ cached' = [cached EXCEPT ![i] = block]
          /\ linked' = linked \/ linked' = [j \in DOMAIN linked |-> IF j = i THEN block ELSE linked[j]]
    BY <1>3, <2>5, SmallSubs DEF ReadFill
  <2> HIDE DEF i
  <2>7. FileType'
    <3>1. cached' \in [Indexes -> Content]
      BY <2>6 DEF TypeInv, FileType
    <3>2. DOMAIN linked \in SUBSET Indexes /\ linked \in [DOMAIN linked -> Content]
      BY DEF TypeInv, FileType
    <3>3. linked' \in [DOMAIN linked -> Content]
      BY <2>6, <3>2
    <3>4. linked' \in UNION {[D -> Content] : D \in SUBSET Indexes}
      BY <3>2, <3>3
    <3> QED
      BY <1>3, <3>1, <3>4 DEF ReadFill, TypeInv, FileType
  <2>8. LockType'
    BY <1>3 DEF ReadFill, TypeInv, LockType
  <2>9. UNCHANGED <<namenodes, rest>>
    BY <1>3 DEF ReadFill
  <2> QED
    BY <2>3, <2>7, <2>8, <2>9, Kept DEF TypeInv
<1>4. ASSUME NEW i \in Indexes, ReadBegin(t, i) PROVE TypeInv'
  <2> DEFINE r == [at[t] EXCEPT !.step = "block_lock", !.index = i, !.sub = inode]
  <2>1. at' = [at EXCEPT ![t] = r]
    BY <1>1, <1>4 DEF ReadBegin, AtType, Thread
  <2>2. inode \in Subs /\ i \in DOMAIN inode
    BY <1>4 DEF ReadBegin, TypeInv, FileType
  <2>3. r \in Thread /\ Filling(r)
    <3>1. i \in 0..Size
      BY Bounds DEF Indexes
    <3> QED
      BY <1>1, <2>2, <3>1 DEF Thread, Steps, Filling
  <2> HIDE DEF r
  <2>4. AtType'
    BY <1>1, <2>1, <2>3, AtStep
  <2>5. UNCHANGED <<locks, files, namenodes, rest>>
    BY <1>4 DEF ReadBegin
  <2> QED
    BY <2>4, <2>5, Kept DEF TypeInv
<1>5. ASSUME NEW i \in Indexes, NEW toEnd \in BOOLEAN, WriteData(t, i, toEnd) PROVE TypeInv'
  <2> DEFINE r == [at[t] EXCEPT !.wrote = @ \cup {<<i, writes + 1>>}]
             T == Touched(i, toEnd)
             D == DOMAIN linked \cup T
  <2>1. at' = [at EXCEPT ![t] = r]
    BY <1>1, <1>5 DEF WriteData, AtType, Thread
  <2>2. writes \in Nat /\ writes < MaxWrites /\ writes + 1 \in 1..MaxWrites /\ writes + 1 \in Piece
    BY <1>5, Bounds DEF WriteData, TypeInv, RestType, Piece
  <2>3. r \in Thread /\ Filling(r)
    BY <1>1, <2>2 DEF Thread, Filling
  <2> HIDE DEF r
  <2>4. AtType'
    BY <1>1, <2>1, <2>3, AtStep
  <2>5. cached' \in [Indexes -> Content]
    <3>1. cached[i] \in Seq(Piece) /\ cached \in [Indexes -> Content]
      BY DEF TypeInv, FileType, Content
    <3>2. Append(cached[i], writes + 1) \in Content
      BY <2>2, <3>1 DEF Content
    <3> QED
      BY <1>5, <3>1, <3>2 DEF WriteData
  <2>6. T \subseteq Indexes
    BY DEF Touched
  <2>7. DOMAIN linked \subseteq Indexes /\ \A j \in DOMAIN linked : linked[j] \in Content
    BY DEF TypeInv, FileType
  <2>8. linked' = [j \in D |-> IF j \in T THEN cached'[j] ELSE linked[j]]
    BY <1>5 DEF WriteData
  <2> HIDE DEF T
  <2>9. D \in SUBSET Indexes /\ linked' \in [D -> Content]
    BY <2>5, <2>6, <2>7, <2>8
  <2> HIDE DEF D
  <2>10. FileType'
    <3>1. linked' \in UNION {[E -> Content] : E \in SUBSET Indexes}
      BY <2>9
    <3> QED
      BY <1>5, <2>5, <3>1 DEF WriteData, TypeInv, FileType
  <2>11. RestType'
    BY <1>5, <2>2, Bounds DEF WriteData, TypeInv, RestType, history
  <2>12. UNCHANGED <<locks, namenodes>>
    BY <1>5 DEF WriteData
  <2> QED
    BY <2>4, <2>10, <2>11, <2>12, Kept DEF TypeInv
<1> QED
  BY <1>2, <1>3, <1>4, <1>5

\* fsync, close and the rest of a session.
LEMMA CloseTypes ==
  ASSUME TypeInv, NEW t \in Threads,
         \/ Close(t) \/ Fsync(t) \/ PutOk(t) \/ Erase(t) \/ UnlockRemote(t) \/ UnlockPath(t) \/ Reinit(t)
  PROVE  TypeInv'
<1>1. at[t] \in Thread /\ AtType
  BY DEF TypeInv, AtType
<1>2. ASSUME NEW closing \in BOOLEAN, Save(t, closing) PROVE TypeInv'
  <2>1. ASSUME DOMAIN linked = {}, at' = [at EXCEPT ![t].step = "erase", ![t].closing = TRUE]
        PROVE  AtType'
    <3> DEFINE r == [at[t] EXCEPT !.step = "erase", !.closing = TRUE]
    <3>1. at' = [at EXCEPT ![t] = r]
      BY <1>1, <2>1 DEF AtType, Thread
    <3>2. r \in Thread /\ Filling(r)
      BY <1>1 DEF Thread, Steps, Filling
    <3> HIDE DEF r
    <3> QED
      BY <1>1, <3>1, <3>2, AtStep
  <2>2. ASSUME inode # NoInode,
               at' = [at EXCEPT ![t].step = "put_ok", ![t].closing = closing, ![t].sub = SavedSub]
        PROVE  AtType'
    <3> DEFINE r == [at[t] EXCEPT !.step = "put_ok", !.closing = closing, !.sub = SavedSub]
    <3>1. SavedSub \in Subs
      BY <2>2, SavedSubType DEF TypeInv
    <3>2. at' = [at EXCEPT ![t] = r]
      BY <1>1, <2>2 DEF AtType, Thread
    <3>3. r \in Thread /\ Filling(r)
      BY <1>1, <3>1 DEF Thread, Steps, Filling
    <3> HIDE DEF r
    <3> QED
      BY <1>1, <3>2, <3>3, AtStep
  <2>3. AtType'
    BY <1>2, <2>1, <2>2 DEF Save
  <2>4. << >> \in [{} -> Content]
    OBVIOUS
  <2>5. FileType'
    BY <1>2, <2>4 DEF Save, TypeInv, FileType
  <2>6. UNCHANGED <<locks, namenodes, rest>>
    BY <1>2 DEF Save
  <2> QED
    BY <2>3, <2>5, <2>6, Kept DEF TypeInv
<1>3. CASE PutOk(t)
  <2> DEFINE Accepts == /\ master # Gone /\ master' = at[t].sub
                        /\ outdated' = (outdated \/ at[t].saved)
                        /\ at' = [at EXCEPT ![t].step = IF at[t].closing THEN "erase" ELSE "in",
                                            ![t].sub = << >>, ![t].saved = TRUE]
                        /\ UNCHANGED <<refused, kept>>
             Refuses == /\ refused' = TRUE /\ kept' = (kept \/ at[t].closing)
                        /\ at' = [at EXCEPT ![t] = IF at[t].closing THEN Out
                               ELSE [at[t] EXCEPT !.step = "in", !.sub = << >>, !.saved = TRUE]]
                        /\ UNCHANGED <<master, outdated>>
  <2>0. Accepts \/ Refuses
    BY <1>1, <1>3 DEF PutOk, AtType
  <2>1. ASSUME Refuses PROVE AtType' /\ NodeType' /\ outdated' \in BOOLEAN /\ refused' \in BOOLEAN /\ kept' \in BOOLEAN
    <3> DEFINE r == IF at[t].closing THEN Out ELSE [at[t] EXCEPT !.step = "in", !.sub = << >>, !.saved = TRUE]
    <3>1. at' = [at EXCEPT ![t] = r]
      BY <2>1
    <3>2. Out \in Thread /\ Filling(Out)
      BY SmallSubs, Bounds DEF Out, Thread, Steps, Filling
    <3>3. [at[t] EXCEPT !.step = "in", !.sub = << >>, !.saved = TRUE] \in Thread
      BY <1>1, SmallSubs DEF Thread, Steps
    <3>4. r \in Thread /\ Filling(r)
      BY <3>2, <3>3 DEF Filling, Thread
    <3> HIDE DEF r
    <3>5. AtType'
      BY <1>1, <3>1, <3>4, AtStep
    <3>6. NodeType'
      BY <1>3, <2>1 DEF PutOk, TypeInv, NodeType
    <3> QED
      BY <2>1, <3>5, <3>6 DEF TypeInv, RestType
  <2>2. ASSUME Accepts PROVE AtType' /\ NodeType' /\ outdated' \in BOOLEAN /\ refused' \in BOOLEAN /\ kept' \in BOOLEAN
    <3> DEFINE step == IF at[t].closing THEN "erase" ELSE "in"
               r == [at[t] EXCEPT !.step = step, !.sub = << >>, !.saved = TRUE]
    <3>1. at' = [at EXCEPT ![t] = r]
      BY <1>1, <2>2 DEF AtType, Thread
    <3>2. step \in Steps \ {"block_lock", "fill"}
      BY DEF Steps
    <3> HIDE DEF step
    <3>3. r \in Thread /\ Filling(r)
      BY <1>1, <3>2, SmallSubs DEF Thread, Filling
    <3> HIDE DEF r
    <3>4. AtType'
      BY <1>1, <3>1, <3>3, AtStep
    <3>5. at[t].sub \in Subs
      BY <1>1 DEF Thread
    <3>6. NodeType'
      BY <1>3, <2>2, <3>5 DEF PutOk, TypeInv, NodeType
    <3> QED
      BY <2>2, <3>4, <3>6 DEF TypeInv, RestType
  <2>3. AtType' /\ NodeType' /\ outdated' \in BOOLEAN /\ refused' \in BOOLEAN /\ kept' \in BOOLEAN
    BY <2>0, <2>1, <2>2
  <2> HIDE DEF Accepts, Refuses
  <2>4. UNCHANGED <<timer, dead, opens, writes, refreshes>> /\ UNCHANGED <<locks, files>>
    BY <1>3 DEF PutOk
  <2>5. RestType'
    BY <2>3, <2>4 DEF TypeInv, RestType
  <2> QED
    BY <2>3, <2>4, <2>5, Kept DEF TypeInv
<1>4. CASE Erase(t)
  <2>1. AtType'
    BY <1>1, <1>4, GoType DEF Erase, Steps
  <2>2. FileType'
    BY <1>4 DEF Erase, TypeInv, FileType
  <2>3. UNCHANGED <<locks, namenodes, rest>>
    BY <1>4 DEF Erase
  <2> QED
    BY <2>1, <2>2, <2>3, Kept DEF TypeInv
<1>5. CASE UnlockRemote(t)
  <2>1. AtType'
    BY <1>1, <1>5, GoType DEF UnlockRemote, Steps
  <2>2. LockType'
    BY <1>5 DEF UnlockRemote, TypeInv, LockType
  <2>3. UNCHANGED <<files, namenodes, rest>>
    BY <1>5 DEF UnlockRemote
  <2> QED
    BY <2>1, <2>2, <2>3, Kept DEF TypeInv
<1>6. CASE UnlockPath(t)
  <2>1. at' = [at EXCEPT ![t] = Out]
    BY <1>1, <1>6 DEF UnlockPath, Thread
  <2>2. rw \in [writer : Threads \cup {Nobody}, readers : Int, wphase : BOOLEAN]
    BY DEF TypeInv, LockType
  <2>3. ASSUME NEW u \in Threads
        PROVE  Unlocked(u) \in [writer : Threads \cup {Nobody}, readers : Int, wphase : BOOLEAN]
    <3>1. rw.readers - 1 \in Int
      BY <2>2
    <3>2. (rw.wphase \/ (rw.readers = 1 /\ rw.writer # Nobody)) \in BOOLEAN
      BY <2>2
    <3>3. (rw.readers = 0) \in BOOLEAN
      OBVIOUS
    <3>4. CASE rw.writer = u
      <4>1. Unlocked(u) = [rw EXCEPT !.writer = Nobody, !.wphase = (rw.readers = 0)]
        BY <3>4 DEF Unlocked
      <4> QED
        BY <2>2, <3>3, <4>1
    <3>5. CASE rw.writer # u
      <4>1. Unlocked(u) = [rw EXCEPT !.readers = rw.readers - 1,
                                     !.wphase = rw.wphase \/ (rw.readers = 1 /\ rw.writer # Nobody)]
        BY <3>5 DEF Unlocked
      <4> QED
        BY <2>2, <3>1, <3>2, <4>1
    <3> QED
      BY <3>4, <3>5
  <2>4. PICK u \in Threads : rw' = Unlocked(u) /\ kept' = (kept \/ (u # t /\ rw.writer = t))
    BY <1>6 DEF UnlockPath
  <2>5. LockType'
    BY <1>6, <2>3, <2>4 DEF UnlockPath, TypeInv, LockType
  <2>6. kept' \in BOOLEAN
    BY <2>4
  <2>7. UNCHANGED <<files, namenodes>> /\ UNCHANGED <<timer, dead, outdated, refused, opens, writes, refreshes>>
    BY <1>6 DEF UnlockPath
  <2>8. RestType'
    BY <2>6, <2>7 DEF TypeInv, RestType
  <2> QED
    BY <1>1, <2>1, <2>5, <2>7, <2>8, OutType, Kept DEF TypeInv
<1>7. CASE Reinit(t)
  <2>1. RestType'
    BY <1>7 DEF Reinit, TypeInv, RestType, history
  <2>2. UNCHANGED <<locks, files, namenodes, at>>
    BY <1>7 DEF Reinit
  <2> QED
    BY <2>1, <2>2, Kept DEF TypeInv
<1> QED
  BY <1>2, <1>3, <1>4, <1>5, <1>6, <1>7 DEF Close, Fsync

\* The timer, the namenodes and the other clients.
LEMMA OtherTypes ==
  ASSUME TypeInv, RefreshBegin \/ RefreshPaths \/ RefreshCall \/ Environment
  PROVE  TypeInv'
<1>1. timer \in [step : {"wait", "paths", "call"}, paths : BOOLEAN, retryCount : 0..3]
  BY DEF TypeInv, RestType
<1>2. CASE RefreshBegin
  <2>1. timer' \in [step : {"wait", "paths", "call"}, paths : BOOLEAN, retryCount : 0..3]
    <3>1. timer' = [timer EXCEPT !.step = "paths"]
      BY <1>2 DEF RefreshBegin
    <3> QED
      BY <1>1, <3>1
  <2>2. refreshes' \in 0..MaxRefreshes
    <3>1. refreshes \in 0..MaxRefreshes
      BY DEF TypeInv, RestType
    <3>2. refreshes < MaxRefreshes /\ refreshes' = refreshes + 1
      BY <1>2 DEF RefreshBegin
    <3> QED
      BY <3>1, <3>2, Bounds
  <2>3. UNCHANGED <<locks, files, namenodes, at>> /\ UNCHANGED <<dead, history, opens, writes>>
    BY <1>2 DEF RefreshBegin
  <2>4. RestType'
    BY <2>1, <2>2, <2>3 DEF TypeInv, RestType, history
  <2> QED
    BY <2>3, <2>4, Kept DEF TypeInv
<1>3. CASE RefreshPaths
  <2>1. remoteLocks \in BOOLEAN
    BY DEF TypeInv, LockType
  <2>2. timer' \in [step : {"wait", "paths", "call"}, paths : BOOLEAN, retryCount : 0..3]
    BY <1>1, <1>3, <2>1 DEF RefreshPaths
  <2>3. UNCHANGED <<locks, files, namenodes, at>> /\ UNCHANGED <<dead, history, opens, writes, refreshes>>
    BY <1>3 DEF RefreshPaths
  <2>4. RestType'
    BY <2>2, <2>3 DEF TypeInv, RestType, history
  <2> QED
    BY <2>3, <2>4, Kept DEF TypeInv
<1>4. CASE RefreshCall
  <2>1. timer' \in [step : {"wait", "paths", "call"}, paths : BOOLEAN, retryCount : 0..3]
    <3>1. timer.retryCount < 3 => timer.retryCount + 1 \in 0..3
      BY <1>1
    <3>2. timer.retryCount \in 0..3 /\ (~(timer.retryCount >= 3) => timer.retryCount < 3)
      BY <1>1
    <3>3. \/ timer' = timer
          \/ timer' = Idle
          \/ /\ timer.retryCount < 3
             /\ timer' = [timer EXCEPT !.step = "paths", !.paths = FALSE, !.retryCount = timer.retryCount + 1]
      BY <1>4, <3>2 DEF RefreshCall
    <3>4. Idle \in [step : {"wait", "paths", "call"}, paths : BOOLEAN, retryCount : 0..3]
      BY DEF Idle
    <3> QED
      BY <1>1, <3>1, <3>3, <3>4
  <2>2. dead' \in BOOLEAN
    BY <1>4 DEF RefreshCall, TypeInv, RestType
  <2>3. UNCHANGED <<locks, files, namenodes, at>> /\ UNCHANGED <<history, opens, writes, refreshes>>
    BY <1>4 DEF RefreshCall
  <2>4. RestType'
    BY <2>1, <2>2, <2>3 DEF TypeInv, RestType, history
  <2> QED
    BY <2>3, <2>4, Kept DEF TypeInv
<1>5. CASE Remove
  <2>1. NodeType' /\ UNCHANGED <<locks, files, at, rest>>
    BY <1>5 DEF Remove, TypeInv, NodeType
  <2> QED
    BY <2>1, Kept DEF TypeInv
<1>6. CASE Replicate
  <2>1. NodeType' /\ UNCHANGED <<locks, files, at, rest>>
    BY <1>6 DEF Replicate, TypeInv, NodeType
  <2> QED
    BY <2>1, Kept DEF TypeInv
<1>7. ASSUME NEW i \in Indexes, OtherSaves(i) PROVE TypeInv'
  <2>1. master \in Subs /\ i \in DOMAIN master
    BY <1>7 DEF OtherSaves, TypeInv, NodeType
  <2>2. writes + 1 \in 0..MaxWrites /\ writes + 1 \in Piece
    BY <1>7, Bounds DEF OtherSaves, TypeInv, RestType, Piece
  <2>3. <<writes + 1>> \in Content
    BY <2>2 DEF Content
  <2>4. PICK n \in 0..Size : master \in [1..n -> Content]
    BY <2>1, SubsDef
  <2>5. master' \in [1..n -> Content]
    BY <1>7, <2>3, <2>4 DEF OtherSaves
  <2>6. master' \in Subs
    BY <2>5, SubsDef
  <2>7. NodeType'
    BY <1>7, <2>6 DEF OtherSaves, TypeInv, NodeType
  <2>8. UNCHANGED <<locks, files, at>> /\ UNCHANGED <<timer, dead, refused, kept, opens, refreshes>>
        /\ outdated' \in BOOLEAN /\ writes' = writes + 1
    BY <1>7 DEF OtherSaves
  <2>9. RestType'
    BY <2>2, <2>8 DEF TypeInv, RestType
  <2> QED
    BY <2>7, <2>8, <2>9, Kept DEF TypeInv
<1> QED
  BY <1>2, <1>3, <1>4, <1>5, <1>6, <1>7 DEF Environment

\* Every step keeps the types.
LEMMA NextType == TypeInv /\ [Next]_vars => TypeInv'
<1> SUFFICES ASSUME TypeInv, [Next]_vars PROVE TypeInv'
  OBVIOUS
<1>1. ASSUME NEW t \in Threads, Step(t) PROVE TypeInv'
  BY <1>1, OpenTypes, DataTypes, CloseTypes DEF Step, Continue
<1>2. CASE UNCHANGED vars
  <2>1. UNCHANGED <<locks, files, namenodes, rest, at>>
    BY <1>2 DEF vars, locks, files, namenodes, history, rest
  <2> QED
    BY <2>1, Kept DEF TypeInv
<1> QED
  BY <1>1, <1>2, OtherTypes DEF Next

-----------------------------------------------------------------------------
(* The path lock                                                           *)

\* A step of one thread leaves the others where they are.
LEMMA OthersStay ==
  ASSUME TypeInv, NEW t \in Threads, Step(t)
  PROVE  \A u \in Threads : u # t => at'[u] = at[u]
<1>1. at \in [Threads -> Thread]
  BY DEF TypeInv, AtType
<1> QED
  BY <1>1 DEF Step, Continue, Open, ReadLock, WriteLock, LockRemote, Register, UpdateInode, StoreInode,
     BlockLock, ReadFill, PutOk, Erase, UnlockRemote, UnlockPath, ReadBegin, WriteData, Close, Fsync,
     Save, Reinit, Go, Caught

\* What a session keeps while its thread moves on, and what it is when over.
Same(t) == /\ at'[t].mode = at[t].mode /\ at'[t].wrote = at[t].wrote
           /\ at'[t].saved = at[t].saved /\ at'[t].opened = at[t].opened
SameData(t) == at'[t].sub = at[t].sub /\ at'[t].index = at[t].index /\ at'[t].stale = at[t].stale
Over(t) == at'[t].step = "out" /\ at'[t].wrote = {} /\ at'[t].saved = FALSE /\ at'[t].opened = FALSE

\* A thread that only moves on keeps its session and its data.
LEMMA GoEffect ==
  ASSUME AtType, NEW t \in Threads, NEW step, Go(t, step)
  PROVE  at'[t].step = step /\ Same(t) /\ SameData(t)
<1>1. at \in [Threads -> Thread] /\ at[t] \in Thread
  BY DEF AtType
<1> QED
  BY <1>1 DEF Go, Same, SameData, Thread

\* A session is over.
LEMMA OutEffect ==
  ASSUME AtType, NEW t \in Threads, at' = [at EXCEPT ![t] = Out]
  PROVE  Over(t)
BY DEF AtType, Over, Out

\* What the steps of open do to their thread.
LEMMA OpenEffects ==
  ASSUME AtType, NEW t \in Threads
  PROVE  /\ \A mode \in Modes : Open(t, mode) =>
              /\ at[t].step = "out" /\ at'[t].step = "lock"
              /\ at'[t].wrote = {} /\ at'[t].saved = FALSE /\ at'[t].opened = FALSE
         /\ ReadLock(t) => at[t].step = "lock" /\ at'[t].step = "update_inode" /\ Same(t) /\ SameData(t)
         /\ WriteLock(t) => at[t].step = "lock" /\ at'[t].step = "lock_remote" /\ Same(t) /\ SameData(t)
         /\ LockRemote(t) =>
              /\ at[t].step = "lock_remote"
              /\ (Over(t) /\ at[t].mode = "truncate") \/ (at'[t].step \in {"in", "register"} /\ Same(t) /\ SameData(t))
         /\ Register(t) => at[t].step = "register" /\ at'[t].step = "update_inode" /\ Same(t) /\ SameData(t)
         /\ UpdateInode(t) =>
              /\ at[t].step = "update_inode"
              /\ IF slave = Gone THEN (Over(t) /\ at[t].mode = "truncate") \/ (at'[t].step = "in" /\ Same(t) /\ SameData(t))
                 ELSE /\ at'[t].step = "store_inode" /\ Same(t) /\ at'[t].sub = slave
                      /\ at'[t].stale = Stale(IF inode = NoInode THEN << >> ELSE inode, slave)
         /\ StoreInode(t) =>
              /\ at[t].step = "store_inode" /\ at'[t].step \in {"_truncate", "in"} /\ at'[t].opened = TRUE
              /\ at'[t].mode = at[t].mode /\ at'[t].wrote = at[t].wrote /\ at'[t].saved = at[t].saved
<1>1. at \in [Threads -> Thread] /\ at[t] \in Thread
  BY DEF AtType
<1>2. ASSUME NEW mode \in Modes, Open(t, mode)
      PROVE  /\ at[t].step = "out" /\ at'[t].step = "lock"
             /\ at'[t].wrote = {} /\ at'[t].saved = FALSE /\ at'[t].opened = FALSE
  <2>1. at[t].step = "out" /\ at' = [at EXCEPT ![t] = [Out EXCEPT !.step = "lock", !.mode = mode]]
    BY <1>2 DEF Open
  <2>2. at'[t] = [Out EXCEPT !.step = "lock", !.mode = mode]
    BY <1>1, <2>1
  <2> QED
    BY <2>1, <2>2 DEF Out
<1>3. ReadLock(t) => at[t].step = "lock" /\ at'[t].step = "update_inode" /\ Same(t) /\ SameData(t)
  BY GoEffect DEF ReadLock
<1>4. WriteLock(t) => at[t].step = "lock" /\ at'[t].step = "lock_remote" /\ Same(t) /\ SameData(t)
  BY GoEffect DEF WriteLock
<1>5. ASSUME Caught(t) PROVE (Over(t) /\ at[t].mode = "truncate") \/ (at'[t].step = "in" /\ Same(t) /\ SameData(t))
  BY <1>5, GoEffect, OutEffect DEF Caught
<1>6. ASSUME LockRemote(t)
      PROVE  /\ at[t].step = "lock_remote"
             /\ (Over(t) /\ at[t].mode = "truncate") \/ (at'[t].step \in {"in", "register"} /\ Same(t) /\ SameData(t))
  <2>1. at[t].step = "lock_remote" /\ (Caught(t) \/ Go(t, "register"))
    BY <1>6 DEF LockRemote
  <2> QED
    BY <2>1, <1>5, GoEffect
<1>7. Register(t) => at[t].step = "register" /\ at'[t].step = "update_inode" /\ Same(t) /\ SameData(t)
  BY GoEffect DEF Register
<1>8. ASSUME UpdateInode(t)
      PROVE  /\ at[t].step = "update_inode"
             /\ IF slave = Gone THEN (Over(t) /\ at[t].mode = "truncate") \/ (at'[t].step = "in" /\ Same(t) /\ SameData(t))
                ELSE /\ at'[t].step = "store_inode" /\ Same(t) /\ at'[t].sub = slave
                     /\ at'[t].stale = Stale(IF inode = NoInode THEN << >> ELSE inode, slave)
  <2> DEFINE st == Stale(IF inode = NoInode THEN << >> ELSE inode, slave)
  <2>1. /\ at[t].step = "update_inode"
        /\ IF slave = Gone THEN Caught(t)
           ELSE at' = [at EXCEPT ![t].step = "store_inode", ![t].sub = slave, ![t].stale = st]
    BY <1>8 DEF UpdateInode
  <2> HIDE DEF st
  <2>2. CASE slave = Gone
    BY <2>1, <2>2, <1>5
  <2>3. ASSUME slave # Gone
        PROVE at'[t].step = "store_inode" /\ Same(t) /\ at'[t].sub = slave /\ at'[t].stale = st
    BY <1>1, <2>1, <2>3 DEF Same, Thread
  <2> QED
    BY <2>1, <2>2, <2>3 DEF st
<1>9. ASSUME StoreInode(t)
      PROVE  /\ at[t].step = "store_inode" /\ at'[t].step \in {"_truncate", "in"} /\ at'[t].opened = TRUE
             /\ at'[t].mode = at[t].mode /\ at'[t].wrote = at[t].wrote /\ at'[t].saved = at[t].saved
  BY <1>1, <1>9 DEF StoreInode, Thread
<1> QED
  BY <1>2, <1>3, <1>4, <1>6, <1>7, <1>8, <1>9

\* What read_data and write_data do to their thread.
LEMMA DataEffects ==
  ASSUME AtType, NEW t \in Threads
  PROVE  /\ \A i \in Indexes : ReadBegin(t, i) =>
              /\ at[t].step = "in" /\ at'[t].step = "block_lock" /\ Same(t)
              /\ at'[t].sub = inode /\ at'[t].index = i
         /\ BlockLock(t) => at[t].step = "block_lock" /\ at'[t].step = "fill" /\ Same(t) /\ SameData(t)
         /\ ReadFill(t) => at[t].step = "fill" /\ at'[t].step = "in" /\ Same(t)
         /\ \A i \in Indexes, toEnd \in BOOLEAN : WriteData(t, i, toEnd) =>
              /\ at[t].step = "in" /\ at'[t].step = "in" /\ SameData(t)
              /\ at'[t].mode = at[t].mode /\ at[t].mode # "read"
              /\ at'[t].wrote = at[t].wrote \cup {<<i, writes + 1>>}
              /\ at'[t].saved = at[t].saved /\ at'[t].opened = at[t].opened
<1>1. at \in [Threads -> Thread] /\ at[t] \in Thread
  BY DEF AtType
<1>2. ASSUME NEW i \in Indexes, ReadBegin(t, i)
      PROVE  /\ at[t].step = "in" /\ at'[t].step = "block_lock" /\ Same(t)
             /\ at'[t].sub = inode /\ at'[t].index = i
  BY <1>1, <1>2 DEF ReadBegin, Same, Thread
<1>3. BlockLock(t) => at[t].step = "block_lock" /\ at'[t].step = "fill" /\ Same(t) /\ SameData(t)
  BY GoEffect DEF BlockLock
<1>4. ReadFill(t) => at[t].step = "fill" /\ at'[t].step = "in" /\ Same(t)
  BY <1>1 DEF ReadFill, Same, Thread
<1>5. ASSUME NEW i \in Indexes, NEW toEnd \in BOOLEAN, WriteData(t, i, toEnd)
      PROVE  /\ at[t].step = "in" /\ at'[t].step = "in" /\ SameData(t)
             /\ at'[t].mode = at[t].mode /\ at[t].mode # "read"
             /\ at'[t].wrote = at[t].wrote \cup {<<i, writes + 1>>}
             /\ at'[t].saved = at[t].saved /\ at'[t].opened = at[t].opened
  <2> DEFINE w == at[t].wrote \cup {<<i, writes + 1>>}
  <2>1. at[t].step = "in" /\ at[t].mode # "read" /\ at' = [at EXCEPT ![t].wrote = w]
    BY <1>5 DEF WriteData
  <2> HIDE DEF w
  <2>2. /\ at'[t].step = at[t].step /\ SameData(t) /\ at'[t].mode = at[t].mode
        /\ at'[t].wrote = w /\ at'[t].saved = at[t].saved /\ at'[t].opened = at[t].opened
    BY <1>1, <2>1 DEF Thread, SameData
  <2> QED
    BY <2>1, <2>2 DEF w
<1> QED
  BY <1>2, <1>3, <1>4, <1>5

\* What fsync, close and unlock do to their thread.
LEMMA CloseEffects ==
  ASSUME AtType, NEW t \in Threads
  PROVE  /\ \A closing \in BOOLEAN : Save(t, closing) =>
              /\ at[t].step = "in" /\ Same(t)
              /\ \/ DOMAIN linked = {} /\ at'[t].step = "erase"
                 \/ DOMAIN linked # {} /\ inode # NoInode /\ at'[t].step = "put_ok" /\ at'[t].sub = SavedSub
         /\ PutOk(t) =>
              /\ at[t].step = "put_ok"
              /\ \/ refused' = TRUE /\ kept' /\ Over(t)
                 \/ /\ (kept' <=> kept) /\ at'[t].step \in {"in", "erase"} /\ at'[t].saved = TRUE /\ at'[t].mode = at[t].mode
                    /\ at'[t].wrote = at[t].wrote /\ at'[t].opened = at[t].opened
         /\ Erase(t) => at[t].step = "erase" /\ at'[t].step = "unlock" /\ Same(t) /\ SameData(t)
         /\ UnlockRemote(t) => at[t].step = "unlock" /\ at'[t].step = "unlock_path" /\ Same(t) /\ SameData(t)
         /\ UnlockPath(t) => at[t].step = "unlock_path" /\ Over(t)
         /\ Reinit(t) => at' = at
<1>1. at \in [Threads -> Thread] /\ at[t] \in Thread
  BY DEF AtType
<1>2. ASSUME NEW closing \in BOOLEAN, Save(t, closing)
      PROVE  /\ at[t].step = "in" /\ Same(t)
             /\ \/ DOMAIN linked = {} /\ at'[t].step = "erase"
                \/ DOMAIN linked # {} /\ inode # NoInode /\ at'[t].step = "put_ok" /\ at'[t].sub = SavedSub
  BY <1>1, <1>2 DEF Save, Same, Thread
<1>3. ASSUME PutOk(t)
      PROVE  /\ at[t].step = "put_ok"
             /\ \/ refused' = TRUE /\ kept' /\ Over(t)
                \/ /\ (kept' <=> kept) /\ at'[t].step \in {"in", "erase"} /\ at'[t].saved = TRUE /\ at'[t].mode = at[t].mode
                   /\ at'[t].wrote = at[t].wrote /\ at'[t].opened = at[t].opened
  <2>1. \/ /\ UNCHANGED <<refused, kept>>
           /\ at' = [at EXCEPT ![t].step = IF at[t].closing THEN "erase" ELSE "in",
                               ![t].sub = << >>, ![t].saved = TRUE]
        \/ /\ refused' = TRUE /\ kept' = (kept \/ at[t].closing)
           /\ at' = [at EXCEPT ![t] = IF at[t].closing THEN Out
                        ELSE [at[t] EXCEPT !.step = "in", !.sub = << >>, !.saved = TRUE]]
    BY <1>1, <1>3 DEF PutOk
  <2>2. CASE /\ UNCHANGED <<refused, kept>>
             /\ at' = [at EXCEPT ![t].step = IF at[t].closing THEN "erase" ELSE "in",
                                 ![t].sub = << >>, ![t].saved = TRUE]
    BY <1>1, <1>3, <2>2 DEF PutOk, Thread
  <2>3. CASE /\ refused' = TRUE /\ kept' = (kept \/ at[t].closing)
             /\ at' = [at EXCEPT ![t] = IF at[t].closing THEN Out
                          ELSE [at[t] EXCEPT !.step = "in", !.sub = << >>, !.saved = TRUE]]
    <3>1. CASE at[t].closing
      <4>1. at' = [at EXCEPT ![t] = Out] /\ at[t].step = "put_ok" /\ refused' = TRUE /\ kept'
        BY <1>3, <2>3, <3>1 DEF PutOk
      <4> QED
        BY <4>1, OutEffect
    <3>2. CASE ~at[t].closing
      <4>1. /\ at' = [at EXCEPT ![t] = [at[t] EXCEPT !.step = "in", !.sub = << >>, !.saved = TRUE]]
            /\ at[t].step = "put_ok" /\ (kept' <=> kept)
        BY <1>3, <2>3, <3>2 DEF PutOk
      <4> QED
        BY <1>1, <4>1 DEF Thread
    <3> QED
      BY <3>1, <3>2
  <2> QED
    BY <2>1, <2>2, <2>3
<1>4. Erase(t) => at[t].step = "erase" /\ at'[t].step = "unlock" /\ Same(t) /\ SameData(t)
  BY GoEffect DEF Erase
<1>5. UnlockRemote(t) => at[t].step = "unlock" /\ at'[t].step = "unlock_path" /\ Same(t) /\ SameData(t)
  BY GoEffect DEF UnlockRemote
<1>6. ASSUME UnlockPath(t) PROVE at[t].step = "unlock_path" /\ Over(t)
  <2>1. at[t].step = "unlock_path" /\ at' = [at EXCEPT ![t] = Out]
    BY <1>1, <1>6 DEF UnlockPath, Thread
  <2> QED
    BY <2>1, OutEffect
<1>7. Reinit(t) => at' = at
  BY DEF Reinit
<1> QED
  BY <1>2, <1>3, <1>4, <1>5, <1>6, <1>7

\* Where a step of t leads, if it neither takes nor gives back the path lock:
\* t stays outside, or inside in the same mode, or its truncate is over.
Stays(t) ==
  \/ at'[t].step \in {"out", "lock"} /\ ~Inside(t)
  \/ at'[t].step \notin {"out", "lock"} /\ Inside(t) /\ at'[t].mode = at[t].mode
  \/ at'[t].step \in {"out", "lock"} /\ at[t].mode = "truncate"

\* t's close ends with its put_ok.
Ends(t) == at[t].step = "put_ok" /\ at'[t].step = "out" /\ kept'

\* The steps that change the path lock, and where the others lead.
LEMMA LockFreeSteps ==
  ASSUME TypeInv, NEW t \in Threads, Step(t)
  PROVE  \/ ReadLock(t) \/ WriteLock(t) \/ UnlockPath(t)
         \/ rw' = rw /\ (kept' <=> kept) /\ Stays(t)
         \/ rw' = rw /\ Ends(t)
<1>1. AtType
  BY DEF TypeInv
<1>2. ASSUME NEW mode \in Modes, Open(t, mode) PROVE rw' = rw /\ kept' = kept /\ Stays(t)
  <2>1. Stays(t)
    BY <1>1, <1>2, OpenEffects DEF Stays, Inside
  <2> QED
    BY <1>2, <2>1 DEF Open, locks, history
<1>3. ASSUME LockRemote(t) \/ Register(t) \/ UpdateInode(t) \/ StoreInode(t)
      PROVE  rw' = rw /\ kept' = kept /\ Stays(t)
  <2>1. Stays(t)
    BY <1>1, <1>3, OpenEffects DEF Stays, Inside, Over, Same
  <2> QED
    BY <1>3, <2>1 DEF LockRemote, Register, UpdateInode, StoreInode, locks, rest, history
<1>4. ASSUME BlockLock(t) \/ ReadFill(t) PROVE rw' = rw /\ kept' = kept /\ Stays(t)
  <2>1. Stays(t)
    BY <1>1, <1>4, DataEffects DEF Stays, Inside, Same
  <2> QED
    BY <1>4, <2>1 DEF BlockLock, ReadFill, rest, history
<1>5. ASSUME NEW i \in Indexes, ReadBegin(t, i) \/ \E toEnd \in BOOLEAN : WriteData(t, i, toEnd)
      PROVE  rw' = rw /\ kept' = kept /\ Stays(t)
  <2>1. Stays(t)
    BY <1>1, <1>5, DataEffects DEF Stays, Inside, Same
  <2> QED
    BY <1>5, <2>1 DEF ReadBegin, WriteData, locks, rest, history
<1>6. ASSUME Close(t) \/ Fsync(t) \/ Erase(t) \/ UnlockRemote(t) PROVE rw' = rw /\ kept' = kept /\ Stays(t)
  <2>1. Stays(t)
    BY <1>1, <1>6, CloseEffects DEF Close, Fsync, Stays, Inside, Same
  <2> QED
    BY <1>6, <2>1 DEF Close, Fsync, Save, Erase, UnlockRemote, locks, rest, history
<1>7. ASSUME PutOk(t) PROVE rw' = rw /\ (((kept' <=> kept) /\ Stays(t)) \/ Ends(t))
  <2>1. ((kept' <=> kept) /\ Stays(t)) \/ Ends(t)
    BY <1>1, <1>7, CloseEffects DEF Stays, Ends, Inside, Over
  <2> QED
    BY <1>7, <2>1 DEF PutOk, locks
<1>8. ASSUME Reinit(t) PROVE rw' = rw /\ kept' = kept /\ Stays(t)
  <2>1. at' = at /\ rw' = rw /\ kept' = kept
    BY <1>8 DEF Reinit, locks, history
  <2> QED
    BY <2>1 DEF Stays, Inside
<1> QED
  BY <1>2, <1>3, <1>4, <1>5, <1>6, <1>7, <1>8 DEF Step, Continue

\* A writer inside is alone.
LEMMA WriterAlone ==
  ASSUME LockInv, NEW t \in Threads, NEW u \in Threads, Writer(t), Inside(u)
  PROVE  u = t
<1>1. rw.writer = t /\ rw.writer # Nobody
  BY Bounds DEF LockInv
<1>2. ~Reader(u)
  BY <1>1 DEF LockInv, Readers
<1>3. Writer(u)
  BY <1>2 DEF Reader, Writer
<1> QED
  BY <1>1, <1>3 DEF LockInv

\* Whoever stays inside keeps the lock right.
LEMMA LockKept ==
  ASSUME LockInv, rw' = rw, kept' <=> kept,
         \A u \in Threads : /\ Reader(u)' <=> Reader(u)
                            /\ Writer(u)' => Writer(u)
                            /\ "truncate" \notin Modes /\ Writer(u) => Writer(u)'
  PROVE  LockInv'
<1>1. Readers' = Readers
  BY DEF Readers
<1>2. kept => \A u \in Threads : ~Inside(u)'
  <2>1. \A u \in Threads : Inside(u)' => Reader(u)' \/ Writer(u)'
    BY DEF Reader, Writer
  <2>2. \A u \in Threads : Reader(u) \/ Writer(u) => Inside(u)
    BY DEF Reader, Writer
  <2> QED
    BY <2>1, <2>2 DEF LockInv
<1>3. "truncate" \notin Modes /\ rw.writer # Nobody => kept \/ \E u \in Threads : Writer(u)'
  BY DEF LockInv
<1> QED
  BY <1>1, <1>2, <1>3 DEF LockInv

\* The lock keeps writers apart, also when PathLocks picks the wrong unlock and
\* when a close runs in another thread.
LEMMA NextLock == TypeInv /\ LockInv /\ LinkInv /\ [Next]_vars => LockInv'
<1> SUFFICES ASSUME TypeInv, LockInv, LinkInv, [Next]_vars PROVE LockInv'
  OBVIOUS
<1>0. /\ rw \in [writer : Threads \cup {Nobody}, readers : Int, wphase : BOOLEAN]
      /\ at \in [Threads -> Thread]
  BY DEF TypeInv, LockType, AtType
<1>1. ASSUME UNCHANGED <<rw, at, kept>> PROVE LockInv'
  BY <1>1, LockKept DEF Reader, Writer, Inside
<1>2. ASSUME NEW t \in Threads, Step(t) PROVE LockInv'
  <2>1. \A u \in Threads : u # t => at'[u] = at[u]
    BY <1>2, OthersStay
  <2>2. ASSUME NEW u \in Threads, u # t
        PROVE  (Reader(u)' <=> Reader(u)) /\ (Writer(u)' <=> Writer(u)) /\ (Inside(u)' <=> Inside(u))
    BY <2>1, <2>2 DEF Reader, Writer, Inside
  <2>3. CASE rw' = rw /\ (kept' <=> kept) /\ Stays(t)
    <3>1. at[t].mode \in Modes \cup {"read"}
      BY <1>0 DEF Thread
    <3>2. /\ Reader(t)' <=> Reader(t)
          /\ Writer(t)' => Writer(t)
          /\ "truncate" \notin Modes /\ Writer(t) => Writer(t)'
      BY <2>3, <3>1 DEF Stays, Reader, Writer, Inside
    <3> QED
      BY <2>2, <2>3, <3>2, LockKept
  <2>4. CASE ReadLock(t)
    <3>1. /\ rw.writer = Nobody /\ ~Inside(t) /\ rw' = [rw EXCEPT !.readers = rw.readers + 1, !.wphase = FALSE]
          /\ at[t].mode = "read" /\ at' = [at EXCEPT ![t].step = "update_inode"] /\ kept' = kept
      BY <2>4 DEF ReadLock, CanLockShared, LockedShared, Inside, Go, rest, history
    <3>2. rw'.writer = Nobody /\ rw'.readers = rw.readers + 1 /\ rw'.wphase = FALSE /\ ~kept'
      BY <1>0, <3>1 DEF LockInv
    <3>3. Reader(t)' /\ ~Writer(t)' /\ ~Reader(t)
      BY <1>0, <3>1 DEF Reader, Writer, Inside, Thread
    <3>4. Readers' = Readers \cup {t} /\ t \notin Readers
      BY <2>2, <3>3 DEF Readers
    <3>5. IsFiniteSet(Readers') /\ Cardinality(Readers') = Cardinality(Readers) + 1
      BY <3>4, FS_AddElement DEF LockInv
    <3>6. Cardinality(Readers') = rw'.readers
      BY <3>1, <3>2, <3>5 DEF LockInv
    <3>7. \A u \in Threads : ~Writer(u)'
      <4>1. \A u \in Threads : ~Writer(u)
        BY <3>1, Bounds DEF LockInv
      <4> QED
        BY <2>2, <3>3, <4>1
    <3> QED
      BY <3>2, <3>5, <3>6, <3>7 DEF LockInv
  <2>5. CASE WriteLock(t)
    <3>1. /\ rw.writer = Nobody /\ (rw.wphase \/ rw.readers = 0) /\ ~Inside(t)
          /\ rw' = [rw EXCEPT !.writer = t, !.wphase = TRUE]
          /\ at[t].mode # "read" /\ at' = [at EXCEPT ![t].step = "lock_remote"] /\ kept' = kept
      BY <2>5 DEF WriteLock, CanLock, Locked, Inside, Go, rest, history
    <3>2. rw'.writer = t /\ rw'.readers = rw.readers /\ ~kept /\ ~kept'
      BY <1>0, <3>1 DEF LockInv
    <3>3. Readers = {}
      <4>1. CASE rw.wphase
        BY <4>1 DEF LockInv
      <4>2. CASE rw.readers = 0
        <5>1. Cardinality(Readers) = 0
          BY <3>2, <4>2 DEF LockInv
        <5> QED
          BY <5>1, FS_EmptySet DEF LockInv
      <4> QED
        BY <3>1, <4>1, <4>2
    <3>4. ~Reader(t)' /\ Writer(t)'
      BY <1>0, <3>1 DEF Reader, Writer, Inside, Thread
    <3>5. Readers' = Readers
      BY <2>2, <3>3, <3>4 DEF Readers
    <3>6. \A u \in Threads : Writer(u)' => u = t
      <4>1. \A u \in Threads : ~Writer(u)
        BY <3>1, Bounds DEF LockInv
      <4> QED
        BY <2>2, <4>1
    <3> QED
      BY <3>2, <3>3, <3>4, <3>5, <3>6 DEF LockInv
  <2>6. CASE UnlockPath(t)
    <3>0. PICK v \in Threads : rw' = Unlocked(v) /\ kept' = (kept \/ (v # t /\ rw.writer = t))
      BY <2>6 DEF UnlockPath
    <3>1. at' = [at EXCEPT ![t] = Out] /\ Inside(t) /\ ~kept
      BY <1>0, <2>6 DEF UnlockPath, Thread, Inside, LockInv
    <3>2. ~Reader(t)' /\ ~Writer(t)' /\ ~Inside(t)'
      BY <1>0, <3>1 DEF Reader, Writer, Inside, Out
    <3>3. CASE Writer(t)
      <4>1. rw.writer = t /\ Readers = {}
        BY <3>3, Bounds DEF LockInv
      <4>2. Readers' = Readers
        BY <2>2, <3>2, <4>1 DEF Readers
      <4>3. \A u \in Threads : ~Writer(u)' /\ ~Inside(u)'
        <5>1. \A u \in Threads : Inside(u) \/ Writer(u) => u = t
          BY <3>3, WriterAlone DEF Writer
        <5> QED
          BY <2>2, <3>2, <5>1
      <4>4. CASE v = t
        <5>1. rw' = [rw EXCEPT !.writer = Nobody, !.wphase = (rw.readers = 0)]
          BY <3>0, <4>1, <4>4 DEF Unlocked
        <5>2. rw'.writer = Nobody /\ rw'.readers = rw.readers /\ ~kept'
          BY <1>0, <3>0, <3>1, <4>4, <5>1
        <5> QED
          BY <3>1, <4>1, <4>2, <4>3, <5>2 DEF LockInv
      <4>5. CASE v # t
        <5>1. rw' = [rw EXCEPT !.readers = rw.readers - 1,
                               !.wphase = rw.wphase \/ (rw.readers = 1 /\ rw.writer # Nobody)]
          BY <3>0, <4>1, <4>5 DEF Unlocked
        <5>2. rw'.writer = t /\ t # Nobody /\ kept'
          BY <1>0, <3>0, <4>1, <4>5, <5>1, Bounds
        <5> QED
          BY <4>1, <4>2, <4>3, <5>2 DEF LockInv
      <4> QED
        BY <4>4, <4>5
    <3>4. CASE Reader(t)
      <4>1. t \in Readers /\ rw.writer = Nobody /\ ~rw.wphase /\ rw.writer # t /\ rw.writer # v
        BY <3>4, Bounds DEF LockInv, Readers
      <4>2. rw' = [rw EXCEPT !.readers = rw.readers - 1,
                             !.wphase = rw.wphase \/ (rw.readers = 1 /\ rw.writer # Nobody)]
        BY <3>0, <4>1 DEF Unlocked
      <4>3. rw'.writer = Nobody /\ rw'.readers = rw.readers - 1 /\ ~rw'.wphase
        BY <1>0, <4>1, <4>2
      <4>4. Readers' = Readers \ {t} /\ ~kept'
        BY <2>2, <3>0, <3>1, <3>2, <4>1 DEF Readers
      <4>5. IsFiniteSet(Readers') /\ Cardinality(Readers') = Cardinality(Readers) - 1
        BY <4>1, <4>4, FS_RemoveElement DEF LockInv
      <4>6. Cardinality(Readers') = rw'.readers
        BY <3>1, <4>3, <4>5 DEF LockInv
      <4>7. \A u \in Threads : ~Writer(u)'
        <5>1. \A u \in Threads : ~Writer(u)
          BY <4>1, Bounds DEF LockInv
        <5> QED
          BY <2>2, <3>2, <5>1
      <4> QED
        BY <4>3, <4>4, <4>5, <4>6, <4>7 DEF LockInv
    <3> QED
      BY <3>1, <3>3, <3>4 DEF Reader, Writer
  <2>7. CASE rw' = rw /\ Ends(t)
    <3>1. Writer(t) /\ kept' /\ at'[t].step = "out"
      BY <2>7 DEF Ends, LinkInv
    <3>2. rw.writer = t /\ t # Nobody /\ Readers = {}
      BY <3>1, Bounds DEF LockInv
    <3>3. \A u \in Threads : ~Inside(u)'
      <4>1. ASSUME NEW u \in Threads, u # t PROVE ~Inside(u)
        BY <3>1, <4>1, WriterAlone
      <4>2. ~Inside(t)'
        BY <3>1 DEF Inside
      <4> QED
        BY <2>2, <4>1, <4>2
    <3>4. Readers' = {} /\ \A u \in Threads : ~Writer(u)'
      BY <3>3 DEF Readers, Reader, Writer
    <3> QED
      BY <2>7, <3>1, <3>2, <3>3, <3>4 DEF LockInv
  <2> QED
    BY <1>2, <2>3, <2>4, <2>5, <2>6, <2>7, LockFreeSteps
<1>3. ASSUME RefreshBegin \/ RefreshPaths \/ RefreshCall \/ Environment PROVE UNCHANGED <<rw, at, kept>>
  BY <1>3 DEF RefreshBegin, RefreshPaths, RefreshCall, Environment, Remove, Replicate, OtherSaves, locks,
     rest, history
<1>4. ASSUME UNCHANGED vars PROVE UNCHANGED <<rw, at, kept>>
  BY <1>4 DEF vars
<1> QED
  BY <1>1, <1>2, <1>3, <1>4 DEF Next

-----------------------------------------------------------------------------
(* The sessions: the refresh and what was written                          *)

\* A thread outside the path lock touches nothing but itself and the lock.
LEMMA OutsideFrame ==
  ASSUME NEW t \in Threads, Step(t), ~Inside(t)
  PROVE  UNCHANGED <<remoteLocks, files, namenodes, outdated, refused>>
<1>1. ASSUME NEW mode \in Modes, Open(t, mode) PROVE UNCHANGED <<remoteLocks, files, namenodes, outdated, refused>>
  BY <1>1 DEF Open, locks, history
<1>2. ASSUME ReadLock(t) \/ WriteLock(t) PROVE UNCHANGED <<remoteLocks, files, namenodes, outdated, refused>>
  BY <1>2 DEF ReadLock, WriteLock, rest, history
<1>3. ASSUME Reinit(t) PROVE UNCHANGED <<remoteLocks, files, namenodes, outdated, refused>>
  BY <1>3 DEF Reinit, locks, history
<1>4. ~LockRemote(t) /\ ~Register(t) /\ ~UpdateInode(t) /\ ~StoreInode(t)
  BY DEF Inside, LockRemote, Register, UpdateInode, StoreInode
<1>5. ~BlockLock(t) /\ ~ReadFill(t) /\ ~PutOk(t) /\ ~Erase(t) /\ ~UnlockRemote(t) /\ ~UnlockPath(t)
  BY DEF Inside, BlockLock, ReadFill, PutOk, Erase, UnlockRemote, UnlockPath
<1>6. ~Close(t) /\ ~Fsync(t)
  BY DEF Inside, Close, Fsync, Save
<1>7. \A i \in Indexes : ~ReadBegin(t, i) /\ \A toEnd \in BOOLEAN : ~WriteData(t, i, toEnd)
  BY DEF Inside, ReadBegin, WriteData
<1> QED
  BY <1>1, <1>2, <1>3, <1>4, <1>5, <1>6, <1>7 DEF Step, Continue

\* While a writer is inside, the other threads touch nothing but themselves
\* and the lock.
LEMMA OthersFrame ==
  ASSUME LockInv, NEW t \in Threads, Step(t), NEW u \in Threads, u # t, Writer(u)
  PROVE  UNCHANGED <<remoteLocks, files, namenodes, outdated, refused>>
<1>1. ~Inside(t)
  BY WriterAlone
<1> QED
  BY <1>1, OutsideFrame

\* The timer, the namenodes and the other clients leave the sessions alone.
LEMMA OthersLeave ==
  ASSUME RefreshBegin \/ RefreshPaths \/ RefreshCall \/ Environment \/ UNCHANGED vars
  PROVE  UNCHANGED <<at, remoteLocks, files>>
<1>1. ASSUME RefreshBegin \/ RefreshPaths \/ RefreshCall PROVE UNCHANGED <<at, remoteLocks, files>>
  BY <1>1 DEF RefreshBegin, RefreshPaths, RefreshCall, locks
<1>2. ASSUME Environment PROVE UNCHANGED <<at, remoteLocks, files>>
  BY <1>2 DEF Environment, Remove, Replicate, OtherSaves, locks
<1>3. ASSUME UNCHANGED vars PROVE UNCHANGED <<at, remoteLocks, files>>
  BY <1>3 DEF vars, files
<1> QED
  BY <1>1, <1>2, <1>3

\* The path stays among those the timer refreshes while a writer is inside.
LEMMA NextRefresh == TypeInv /\ LockInv /\ RefreshInv /\ [Next]_vars => RefreshInv'
<1> SUFFICES ASSUME TypeInv, LockInv, RefreshInv, [Next]_vars PROVE RefreshInv'
  OBVIOUS
<1>0. AtType
  BY DEF TypeInv
<1> DEFINE R(t) == /\ at[t].opened => at[t].step \notin Entering
                   /\ Writer(t) /\ (at[t].opened \/ at[t].step \in {"update_inode", "store_inode"})
                        /\ at[t].step # "unlock_path" => remoteLocks
<1>1. \A t \in Threads : R(t)
  BY DEF RefreshInv
<1>2. ASSUME NEW t \in Threads, Step(t) PROVE \A u \in Threads : R(u)'
  <2>1. ASSUME NEW u \in Threads, u # t PROVE R(u)'
    <3>1. at'[u] = at[u]
      BY <1>2, <2>1, OthersStay
    <3>2. CASE Writer(u)
      <4>1. remoteLocks' = remoteLocks
        BY <1>2, <2>1, <3>2, OthersFrame
      <4> QED
        BY <1>1, <3>1, <4>1 DEF Writer, Inside
    <3>3. CASE ~Writer(u)
      BY <1>1, <3>1, <3>3 DEF Writer, Inside
    <3> QED
      BY <3>2, <3>3
  <2>2. R(t)'
    <3>1. R(t)
      BY <1>1
    <3>2. CASE \E mode \in Modes : Open(t, mode)
      <4>1. at'[t].opened = FALSE /\ at'[t].step = "lock"
        BY <1>0, <3>2, OpenEffects
      <4> QED
        BY <4>1 DEF Writer, Inside
    <3>3. CASE ReadLock(t) \/ WriteLock(t)
      <4>1. /\ at'[t].step \in {"update_inode", "lock_remote"} /\ at'[t].mode = at[t].mode
            /\ at'[t].opened = at[t].opened /\ at[t].step = "lock"
            /\ at'[t].step = "update_inode" => at[t].mode = "read"
        BY <1>0, <3>3, OpenEffects DEF Same, ReadLock
      <4>2. ~at'[t].opened
        BY <3>1, <4>1 DEF Entering
      <4> QED
        BY <4>1, <4>2 DEF Writer, Inside
    <3>4. CASE Register(t)
      <4>1. /\ remoteLocks' = TRUE /\ at[t].step = "register"
            /\ at'[t].opened = at[t].opened
        BY <1>0, <3>4, OpenEffects DEF Same, Register
      <4>2. ~at'[t].opened
        BY <3>1, <4>1 DEF Entering
      <4> QED
        BY <4>1, <4>2
    <3>5. CASE LockRemote(t) \/ UpdateInode(t) \/ StoreInode(t)
      <4>1. remoteLocks' = remoteLocks
        BY <3>5 DEF LockRemote, UpdateInode, StoreInode, locks
      <4>2. CASE Over(t)
        BY <4>2 DEF Over, Writer, Inside
      <4>3. CASE LockRemote(t) /\ ~Over(t)
        <5>1. /\ at[t].step = "lock_remote" /\ at'[t].step \in {"in", "register"}
              /\ at'[t].opened = at[t].opened
          BY <1>0, <4>3, OpenEffects DEF Same
        <5>2. ~at'[t].opened
          BY <3>1, <5>1 DEF Entering
        <5> QED
          BY <5>1, <5>2
      <4>4. CASE UpdateInode(t) /\ ~Over(t)
        <5>1. /\ at[t].step = "update_inode" /\ at'[t].step \in {"in", "store_inode"}
              /\ at'[t].opened = at[t].opened /\ at'[t].mode = at[t].mode
          BY <1>0, <4>4, OpenEffects DEF Same
        <5>2. ~at'[t].opened
          BY <3>1, <5>1 DEF Entering
        <5> QED
          BY <3>1, <4>1, <5>1, <5>2 DEF Writer, Inside
      <4>5. CASE StoreInode(t)
        <5>1. /\ at[t].step = "store_inode" /\ at'[t].step \in {"_truncate", "in"}
              /\ at'[t].mode = at[t].mode
          BY <1>0, <4>5, OpenEffects
        <5> QED
          BY <3>1, <4>1, <5>1 DEF Writer, Inside, Entering
      <4> QED
        BY <3>5, <4>2, <4>3, <4>4, <4>5
    <3>6. CASE \E i \in Indexes : ReadBegin(t, i) \/ \E toEnd \in BOOLEAN : WriteData(t, i, toEnd)
      <4>1. remoteLocks' = remoteLocks
        BY <3>6 DEF ReadBegin, WriteData, locks
      <4>2. /\ at[t].step = "in" /\ at'[t].step \in {"in", "block_lock"}
            /\ at'[t].opened = at[t].opened /\ at'[t].mode = at[t].mode
        BY <1>0, <3>6, DataEffects DEF Same
      <4> QED
        BY <3>1, <4>1, <4>2 DEF Writer, Inside, Entering
    <3>7. CASE BlockLock(t) \/ ReadFill(t)
      <4>1. remoteLocks' = remoteLocks
        BY <3>7 DEF BlockLock, ReadFill
      <4>2. /\ at[t].step \in {"block_lock", "fill"} /\ at'[t].step \in {"in", "fill"}
            /\ at'[t].opened = at[t].opened /\ at'[t].mode = at[t].mode
        BY <1>0, <3>7, DataEffects DEF Same
      <4> QED
        BY <3>1, <4>1, <4>2 DEF Writer, Inside, Entering
    <3>8. CASE Close(t) \/ Fsync(t) \/ PutOk(t) \/ Erase(t)
      <4>1. remoteLocks' = remoteLocks
        BY <3>8 DEF Close, Fsync, Save, PutOk, Erase, locks
      <4>2. CASE Over(t)
        BY <4>2 DEF Over, Writer, Inside
      <4>3. CASE ~Over(t)
        <5>1. /\ at[t].step \in {"in", "put_ok", "erase"} /\ at'[t].step \in {"in", "put_ok", "erase", "unlock"}
              /\ at'[t].opened = at[t].opened /\ at'[t].mode = at[t].mode
          BY <1>0, <3>8, <4>3, CloseEffects DEF Same, Close, Fsync
        <5> QED
          BY <3>1, <4>1, <5>1 DEF Writer, Inside, Entering
      <4> QED
        BY <4>2, <4>3
    <3>9. CASE UnlockRemote(t)
      <4>1. at'[t].step = "unlock_path"
        BY <1>0, <3>9, CloseEffects
      <4> QED
        BY <4>1 DEF Entering
    <3>10. CASE UnlockPath(t)
      <4>1. Over(t)
        BY <1>0, <3>10, CloseEffects
      <4> QED
        BY <4>1 DEF Over, Writer, Inside
    <3>11. CASE Reinit(t)
      <4>1. at' = at /\ remoteLocks' = remoteLocks
        BY <3>11 DEF Reinit, locks
      <4> QED
        BY <3>1, <4>1 DEF Writer, Inside
    <3> QED
      BY <1>2, <3>2, <3>3, <3>4, <3>5, <3>6, <3>7, <3>8, <3>9, <3>10, <3>11 DEF Step, Continue
  <2> QED
    BY <2>1, <2>2
<1>3. ASSUME UNCHANGED <<at, remoteLocks, files>> PROVE \A u \in Threads : R(u)'
  BY <1>1, <1>3 DEF Writer, Inside
<1>4. \A u \in Threads : R(u)'
  BY <1>2, <1>3, OthersLeave DEF Next
<1> QED
  BY <1>4 DEF RefreshInv

\* What write_data leaves in the files.
LEMMA WriteFiles ==
  ASSUME TypeInv, NEW t \in Threads, NEW i \in Indexes, NEW toEnd, WriteData(t, i, toEnd)
  PROVE  /\ inode' = inode /\ cached[i] \in Content
         /\ \A j \in Indexes : cached'[j] = IF j = i THEN Append(cached[i], writes + 1) ELSE cached[j]
         /\ DOMAIN linked' = DOMAIN linked \cup Touched(i, toEnd)
         /\ \A j \in DOMAIN linked' : linked'[j] = IF j \in Touched(i, toEnd) THEN cached'[j] ELSE linked[j]
         /\ i \in Touched(i, toEnd) /\ Touched(i, toEnd) \subseteq Indexes
         /\ \A j \in Touched(i, toEnd) : j = i \/ j = i + 1
<1>1. cached \in [Indexes -> Content]
  BY DEF TypeInv, FileType
<1>2. cached' = [cached EXCEPT ![i] = Append(cached[i], writes + 1)] /\ inode' = inode
  BY <1>1 DEF WriteData
<1>3. linked' = [j \in DOMAIN linked \cup Touched(i, toEnd) |->
                   IF j \in Touched(i, toEnd) THEN cached'[j] ELSE linked[j]]
  BY DEF WriteData
<1>4. i \in Touched(i, toEnd) /\ Touched(i, toEnd) \subseteq Indexes /\ \A j \in Touched(i, toEnd) : j = i \/ j = i + 1
  BY DEF Touched
<1> QED
  BY <1>1, <1>2, <1>3, <1>4

\* A piece that is appended is there, and those before stay.
LEMMA AppendHas ==
  ASSUME NEW c \in Content, NEW k
  PROVE  /\ Has(Append(c, k), k) /\ Append(c, k) # << >>
         /\ \A j : Has(c, j) => Has(Append(c, k), j)
<1>1. Len(c) \in Nat /\ DOMAIN c = 1..Len(c) /\ c \in Seq(Piece)
  BY DEF Content
<1>2. /\ DOMAIN Append(c, k) = 1..(Len(c) + 1) /\ Append(c, k)[Len(c) + 1] = k
      /\ \A n \in 1..Len(c) : Append(c, k)[n] = c[n]
  BY <1>1
<1>3. Len(c) + 1 \in DOMAIN Append(c, k) /\ DOMAIN c \subseteq DOMAIN Append(c, k)
  BY <1>1, <1>2
<1>4. Has(Append(c, k), k)
  BY <1>2, <1>3 DEF Has
<1>5. \A j : Has(c, j) => Has(Append(c, k), j)
  BY <1>1, <1>2, <1>3 DEF Has
<1>6. Append(c, k) # << >>
  <2>1. ~Has(<< >>, k)
    BY DEF Has
  <2> QED
    BY <1>4, <2>1
<1> QED
  BY <1>4, <1>5, <1>6

\* What a session wrote is linked until its first save sends it.
LEMMA NextWrote == TypeInv /\ LockInv /\ WroteInv /\ [Next]_vars => WroteInv'
<1> SUFFICES ASSUME TypeInv, LockInv, WroteInv, [Next]_vars PROVE WroteInv'
  OBVIOUS
<1>0. AtType /\ FileType /\ cached \in [Indexes -> Content]
  BY DEF TypeInv, FileType
<1> DEFINE A(t) == at[t].step \in Entering \cup {"_truncate"} => at[t].wrote = {} /\ ~at[t].saved
           B(t) == at[t].wrote # {} => at[t].mode # "read"
           L(w) == w[1] \in DOMAIN linked /\ Has(linked[w[1]], w[2]) /\ Has(cached[w[1]], w[2])
           P(t, w) == w[1] \in DOMAIN at[t].sub /\ Has(at[t].sub[w[1]], w[2])
           C(t) == ~at[t].saved => \A w \in at[t].wrote :
                     (at[t].step \in Working => L(w)) /\ (at[t].step = "put_ok" => P(t, w))
           W(t) == A(t) /\ B(t) /\ C(t)
<1>1. \A t \in Threads : W(t)
  BY DEF WroteInv
<1>2. ASSUME NEW t \in Threads, Step(t) PROVE \A u \in Threads : W(u)'
  <2>1. ASSUME NEW u \in Threads, u # t PROVE W(u)'
    <3>1. at'[u] = at[u] /\ W(u)
      BY <1>1, <1>2, <2>1, OthersStay
    <3>2. CASE at[u].wrote = {}
      BY <3>1, <3>2
    <3>3. CASE at[u].wrote # {}
      <4>1. Writer(u)
        BY <3>1, <3>3 DEF Writer, Inside, Entering
      <4>2. UNCHANGED files
        BY <1>2, <2>1, <4>1, OthersFrame
      <4> QED
        BY <3>1, <4>2 DEF files
    <3> QED
      BY <3>2, <3>3
  <2>2. W(t)'
    <3>1. W(t) /\ A(t) /\ B(t) /\ C(t)
      BY <1>1
    <3>2. ASSUME at'[t].wrote = {}, at'[t].saved = FALSE PROVE W(t)'
      BY <3>2
    <3>3. CASE Over(t)
      BY <3>2, <3>3 DEF Over
    <3>4. CASE \E mode \in Modes : Open(t, mode)
      BY <1>0, <3>2, <3>4, OpenEffects
    <3>5. CASE ReadLock(t) \/ WriteLock(t) \/ LockRemote(t) \/ Register(t) \/ UpdateInode(t) \/ StoreInode(t)
      <4>1. CASE ~Over(t)
        <5>1. /\ at[t].step \in Entering
              /\ at'[t].wrote = at[t].wrote /\ at'[t].saved = at[t].saved
          BY <1>0, <3>5, <4>1, OpenEffects DEF Same, Entering
        <5>2. at[t].wrote = {} /\ at[t].saved = FALSE
          BY <1>0, <3>1, <5>1 DEF AtType, Thread
        <5> QED
          BY <3>2, <5>1, <5>2
      <4> QED
        BY <3>3, <4>1
    <3>6. ASSUME at[t].step \in Working, at'[t].step \in Working, Same(t), UNCHANGED <<cached, linked>>
          PROVE  W(t)'
      <4>1. A(t)' /\ B(t)'
        BY <3>1, <3>6 DEF Working, Entering, Same
      <4>2. C(t)'
        BY <3>1, <3>6 DEF Working, Same
      <4> QED
        BY <4>1, <4>2
    <3>7. CASE \E i \in Indexes : ReadBegin(t, i)
      <4>1. at[t].step \in Working /\ at'[t].step \in Working /\ Same(t)
        BY <1>0, <3>7, DataEffects DEF Working
      <4>2. UNCHANGED <<cached, linked>>
        BY <3>7 DEF ReadBegin, files
      <4> QED
        BY <3>6, <4>1, <4>2
    <3>8. CASE BlockLock(t)
      <4>1. at[t].step \in Working /\ at'[t].step \in Working /\ Same(t)
        BY <1>0, <3>8, DataEffects DEF Working
      <4>2. UNCHANGED <<cached, linked>>
        BY <3>8 DEF BlockLock, files
      <4> QED
        BY <3>6, <4>1, <4>2
    <3>9. CASE ReadFill(t)
      <4>1. at[t].step \in Working /\ at'[t].step \in Working /\ Same(t)
        BY <1>0, <3>9, DataEffects DEF Working
      <4>2. DOMAIN linked' = DOMAIN linked
        BY <3>9 DEF ReadFill
      <4>3. ASSUME NEW j \in Indexes, cached[j] # << >>
            PROVE  cached'[j] = cached[j] /\ (j \in DOMAIN linked => linked'[j] = linked[j])
        BY <1>0, <3>9, <4>3 DEF ReadFill
      <4>4. \A k : ~Has(<< >>, k)
        BY DEF Has
      <4>5. DOMAIN linked \subseteq Indexes
        BY <1>0 DEF FileType
      <4>6. ASSUME NEW w, L(w) PROVE L(w)'
        <5>1. w[1] \in Indexes /\ cached[w[1]] # << >>
          BY <4>4, <4>5, <4>6
        <5>2. cached'[w[1]] = cached[w[1]] /\ linked'[w[1]] = linked[w[1]]
          BY <4>3, <4>6, <5>1
        <5> QED
          BY <4>2, <4>6, <5>2
      <4>7. A(t)' /\ B(t)'
        BY <3>1, <4>1 DEF Working, Entering, Same
      <4>8. C(t)'
        <5> HIDE DEF L
        <5>1. at'[t].step # "put_ok"
          BY <4>1 DEF Working
        <5> QED
          BY <3>1, <4>1, <4>6, <5>1 DEF Same
      <4> QED
        BY <4>7, <4>8
    <3>10. ASSUME NEW i \in Indexes, NEW toEnd \in BOOLEAN, WriteData(t, i, toEnd) PROVE W(t)'
      <4>1. /\ at[t].step = "in" /\ at'[t].step = "in" /\ at'[t].mode = at[t].mode /\ at[t].mode # "read"
            /\ at'[t].wrote = at[t].wrote \cup {<<i, writes + 1>>}
            /\ at'[t].saved = at[t].saved
        BY <1>0, <3>10, DataEffects
      <4>2. A(t)' /\ B(t)'
        BY <4>1 DEF Entering
      <4>3. /\ inode' = inode /\ cached[i] \in Content
            /\ \A j \in Indexes : cached'[j] = IF j = i THEN Append(cached[i], writes + 1) ELSE cached[j]
            /\ DOMAIN linked' = DOMAIN linked \cup Touched(i, toEnd)
            /\ \A j \in DOMAIN linked' : linked'[j] = IF j \in Touched(i, toEnd) THEN cached'[j] ELSE linked[j]
            /\ i \in Touched(i, toEnd) /\ Touched(i, toEnd) \subseteq Indexes
            /\ \A j \in Touched(i, toEnd) : j = i \/ j = i + 1
        BY <3>10, WriteFiles, Zenon
      <4>4. /\ Has(Append(cached[i], writes + 1), writes + 1)
            /\ \A j : Has(cached[i], j) => Has(Append(cached[i], writes + 1), j)
        BY <4>3, AppendHas
      <4>5. DOMAIN linked \subseteq Indexes
        BY <1>0 DEF FileType
      <4>6. ASSUME NEW w, L(w) PROVE L(w)'
        <5>1. w[1] \in Indexes /\ w[1] \in DOMAIN linked'
          BY <4>3, <4>5, <4>6
        <5>2. Has(cached'[w[1]], w[2])
          BY <4>3, <4>4, <4>6, <5>1
        <5>3. Has(linked'[w[1]], w[2])
          BY <4>3, <4>6, <5>1, <5>2
        <5> QED
          BY <5>1, <5>2, <5>3
      <4>7. ASSUME NEW w, w = <<i, writes + 1>> PROVE L(w)'
        <5>1. i \in DOMAIN linked' /\ linked'[i] = cached'[i] /\ cached'[i] = Append(cached[i], writes + 1)
          BY <4>3
        <5>2. w[1] = i /\ w[2] = writes + 1
          BY <4>7
        <5> QED
          BY <4>4, <5>1, <5>2
      <4>8. C(t)'
        <5> HIDE DEF L
        <5>1. ASSUME ~at'[t].saved, NEW w \in at'[t].wrote PROVE L(w)'
          <6>1. w \in at[t].wrote \/ w = <<i, writes + 1>>
            BY <4>1, <5>1
          <6>2. w \in at[t].wrote => L(w)
            BY <3>1, <4>1, <5>1 DEF Working
          <6> QED
            BY <4>6, <4>7, <6>1, <6>2
        <5> QED
          BY <4>1, <5>1
      <4> QED
        BY <4>2, <4>8
    <3>11. CASE Close(t) \/ Fsync(t)
      <4>1. /\ at[t].step = "in" /\ Same(t)
            /\ \/ at'[t].step = "erase"
               \/ inode # NoInode /\ at'[t].step = "put_ok" /\ at'[t].sub = SavedSub
        BY <1>0, <3>11, CloseEffects DEF Close, Fsync
      <4>2. A(t)' /\ B(t)'
        BY <3>1, <4>1 DEF Entering, Same
      <4>3. CASE at'[t].step = "erase"
        BY <4>2, <4>3 DEF Working
      <4>4. CASE inode # NoInode /\ at'[t].step = "put_ok" /\ at'[t].sub = SavedSub
        <5>1. \A j \in DOMAIN linked : j \in DOMAIN SavedSub /\ SavedSub[j] = linked[j]
          BY <1>0, <4>4, SavedSubType
        <5>2. ASSUME NEW w, L(w) PROVE P(t, w)'
          BY <4>4, <5>1, <5>2
        <5>3. C(t)'
          <6> HIDE DEF L, P
          <6>1. at[t].step \in Working /\ at'[t].step \notin Working
            BY <4>1, <4>4 DEF Working
          <6> QED
            BY <3>1, <4>1, <5>2, <6>1 DEF Same
        <5> QED
          BY <4>2, <5>3
      <4> QED
        BY <4>1, <4>3, <4>4
    <3>12. CASE PutOk(t)
      <4>1. CASE ~Over(t)
        <5>1. /\ at[t].step = "put_ok" /\ at'[t].step \in {"in", "erase"} /\ at'[t].saved = TRUE
              /\ at'[t].mode = at[t].mode /\ at'[t].wrote = at[t].wrote
          BY <1>0, <3>12, <4>1, CloseEffects
        <5> QED
          BY <3>1, <5>1 DEF Entering
      <4> QED
        BY <3>3, <4>1
    <3>13. CASE Erase(t) \/ UnlockRemote(t)
      <4>1. at'[t].step \in {"unlock", "unlock_path"} /\ Same(t)
        BY <1>0, <3>13, CloseEffects
      <4> QED
        BY <3>1, <4>1 DEF Entering, Working, Same
    <3>14. CASE UnlockPath(t)
      BY <1>0, <3>3, <3>14, CloseEffects
    <3>15. CASE Reinit(t)
      <4>1. at' = at /\ UNCHANGED files
        BY <3>15 DEF Reinit
      <4> QED
        BY <3>1, <4>1 DEF files
    <3> HIDE DEF W
    <3> QED
      BY <1>2, <3>4, <3>5, <3>7, <3>8, <3>9, <3>10, <3>11, <3>12, <3>13, <3>14, <3>15 DEF Step, Continue
  <2> QED
    BY <2>1, <2>2
<1>3. ASSUME UNCHANGED <<at, remoteLocks, files>> PROVE \A u \in Threads : W(u)'
  BY <1>1, <1>3 DEF files
<1>4. \A u \in Threads : W(u)'
  BY <1>2, <1>3, OthersLeave DEF Next
<1> QED
  BY <1>4 DEF WroteInv

\* The steps that change what is linked, and those of a thread at work.
LEMMA LinkedFrame ==
  ASSUME TypeInv, NEW t \in Threads, Step(t)
  PROVE  \/ Register(t) \/ Close(t) \/ Fsync(t)
         \/ \E i \in Indexes, toEnd \in BOOLEAN : WriteData(t, i, toEnd)
         \/ /\ DOMAIN linked' = DOMAIN linked
            /\ at'[t].step = "put_ok" => at[t].step = "put_ok" /\ at' = at
            /\ at[t].step \in Working => at'[t].step \in Working /\ at'[t].mode = at[t].mode
<1>0. AtType
  BY DEF TypeInv
<1>1. ASSUME NEW mode \in Modes, Open(t, mode)
      PROVE  linked' = linked /\ at'[t].step # "put_ok" /\ at[t].step \notin Working
  <2>1. at'[t].step # "put_ok" /\ at[t].step \notin Working
    BY <1>0, <1>1, OpenEffects DEF Working
  <2> QED
    BY <1>1, <2>1 DEF Open, files
<1>2. ASSUME ReadLock(t) \/ WriteLock(t) \/ LockRemote(t) \/ UpdateInode(t) \/ StoreInode(t)
      PROVE  linked' = linked /\ at'[t].step # "put_ok" /\ at[t].step \notin Working
  <2>1. at'[t].step # "put_ok" /\ at[t].step \notin Working
    BY <1>0, <1>2, OpenEffects DEF Working, Over
  <2> QED
    BY <1>2, <2>1 DEF ReadLock, WriteLock, LockRemote, UpdateInode, StoreInode, files
<1>3. ASSUME NEW i \in Indexes, ReadBegin(t, i)
      PROVE  linked' = linked /\ at'[t].step # "put_ok" /\ at'[t].step \in Working /\ at'[t].mode = at[t].mode
  <2>1. at'[t].step \in Working /\ at'[t].mode = at[t].mode
    BY <1>0, <1>3, DataEffects DEF Working, Same
  <2> QED
    BY <1>3, <2>1 DEF ReadBegin, files, Working
<1>4. ASSUME BlockLock(t) \/ ReadFill(t)
      PROVE  DOMAIN linked' = DOMAIN linked /\ at'[t].step # "put_ok" /\ at'[t].step \in Working /\ at'[t].mode = at[t].mode
  <2>1. at'[t].step \in Working /\ at'[t].mode = at[t].mode
    BY <1>0, <1>4, DataEffects DEF Working, Same
  <2> QED
    BY <1>4, <2>1 DEF BlockLock, ReadFill, files, Working
<1>5. ASSUME PutOk(t) \/ Erase(t) \/ UnlockRemote(t) \/ UnlockPath(t)
      PROVE  linked' = linked /\ at'[t].step # "put_ok" /\ at[t].step \notin Working
  <2>1. at'[t].step # "put_ok" /\ at[t].step \notin Working
    BY <1>0, <1>5, CloseEffects DEF Working, Over
  <2> QED
    BY <1>5, <2>1 DEF PutOk, Erase, UnlockRemote, UnlockPath, files
<1>6. Reinit(t) => linked' = linked /\ at' = at
  BY DEF Reinit, files
<1> QED
  BY <1>1, <1>2, <1>3, <1>4, <1>5, <1>6 DEF Step, Continue

\* Only put_ok changes a namenode, and only where the file exists.
LEMMA NodeFrame ==
  ASSUME NEW t \in Threads, Step(t)
  PROVE  slave' = slave /\ (master' = master \/ (PutOk(t) /\ master # Gone /\ master' = at[t].sub))
<1>1. ASSUME NEW mode \in Modes, Open(t, mode) PROVE UNCHANGED namenodes
  BY <1>1 DEF Open
<1>2. ASSUME ReadLock(t) \/ WriteLock(t) \/ LockRemote(t) \/ Register(t) \/ UpdateInode(t) \/ StoreInode(t)
      PROVE  UNCHANGED namenodes
  BY <1>2 DEF ReadLock, WriteLock, LockRemote, Register, UpdateInode, StoreInode
<1>3. ASSUME NEW i \in Indexes, ReadBegin(t, i) \/ \E toEnd \in BOOLEAN : WriteData(t, i, toEnd)
      PROVE  UNCHANGED namenodes
  BY <1>3 DEF ReadBegin, WriteData
<1>4. ASSUME BlockLock(t) \/ ReadFill(t) \/ Close(t) \/ Fsync(t) PROVE UNCHANGED namenodes
  BY <1>4 DEF BlockLock, ReadFill, Close, Fsync, Save
<1>5. ASSUME Erase(t) \/ UnlockRemote(t) \/ UnlockPath(t) \/ Reinit(t) PROVE UNCHANGED namenodes
  BY <1>5 DEF Erase, UnlockRemote, UnlockPath, Reinit
<1>6. ASSUME PutOk(t) PROVE slave' = slave /\ (master' = master \/ (master # Gone /\ master' = at[t].sub))
  BY <1>6 DEF PutOk
<1>7. ASSUME UNCHANGED namenodes PROVE slave' = slave /\ master' = master
  BY <1>7 DEF namenodes
<1> QED
  BY <1>1, <1>2, <1>3, <1>4, <1>5, <1>6, <1>7 DEF Step, Continue

\* Nothing stays linked without a writer that will save it.
LEMMA NextLink == TypeInv /\ LockInv /\ LinkInv /\ [Next]_vars => LinkInv'
<1> SUFFICES ASSUME TypeInv, LockInv, LinkInv, [Next]_vars PROVE LinkInv'
  OBVIOUS
<1>0. AtType
  BY DEF TypeInv
<1> DEFINE E(t) == Writer(t) /\ at[t].step \in Working
           L1 == DOMAIN linked # {} => \E t \in Threads : E(t)
           L2 == \A t \in Threads : at[t].step = "put_ok" => Writer(t) /\ DOMAIN linked = {}
           L3 == slave = Gone => master = Gone
<1>1. L1 /\ L2 /\ L3
  BY DEF LinkInv
<1>2. ASSUME NEW t \in Threads, Step(t) PROVE L1' /\ L2' /\ L3'
  <2>1. L3'
    <3>1. slave' = slave /\ (master' = master \/ (PutOk(t) /\ master # Gone /\ master' = at[t].sub))
      BY <1>2, NodeFrame
    <3> QED
      BY <1>1, <3>1
  <2>2. ASSUME NEW u \in Threads, u # t PROVE at'[u] = at[u] /\ (Writer(u)' <=> Writer(u)) /\ (E(u)' <=> E(u))
    <3>1. at'[u] = at[u]
      BY <1>2, <2>2, OthersStay
    <3> QED
      BY <3>1 DEF Writer, Inside
  <2>3. CASE Register(t) \/ Close(t) \/ Fsync(t)
    <3>1. DOMAIN linked' = {} /\ Inside(t)
      BY <2>3 DEF Register, Close, Fsync, Save, Inside
    <3>2. ASSUME at'[t].step = "put_ok" PROVE Writer(t)'
      <4>1. DOMAIN linked # {} /\ Same(t)
        BY <1>0, <2>3, <3>2, OpenEffects, CloseEffects DEF Close, Fsync
      <4>2. PICK x \in Threads : Writer(x)
        BY <1>1, <4>1
      <4>3. x = t
        BY <3>1, <4>2, WriterAlone
      <4> QED
        BY <3>2, <4>1, <4>2, <4>3 DEF Writer, Inside, Same
    <3>3. L2'
      BY <1>1, <2>2, <3>1, <3>2
    <3> QED
      BY <2>1, <3>1, <3>3
  <2>4. ASSUME NEW i \in Indexes, NEW toEnd \in BOOLEAN, WriteData(t, i, toEnd) PROVE L1' /\ L2'
    <3>1. at[t].step = "in" /\ at'[t].step = "in" /\ at'[t].mode = at[t].mode /\ at[t].mode # "read"
      BY <1>0, <2>4, DataEffects
    <3>2. E(t)' /\ Inside(t)
      BY <3>1 DEF Writer, Inside, Working
    <3>3. ASSUME NEW u \in Threads, at'[u].step = "put_ok" PROVE FALSE
      <4>1. u # t
        BY <3>1, <3>3
      <4>2. Writer(u)
        BY <1>1, <2>2, <3>3, <4>1
      <4> QED
        BY <3>2, <4>1, <4>2, WriterAlone
    <3> QED
      BY <3>2, <3>3
  <2>5. CASE /\ DOMAIN linked' = DOMAIN linked
             /\ at'[t].step = "put_ok" => at[t].step = "put_ok" /\ at' = at
             /\ at[t].step \in Working => at'[t].step \in Working /\ at'[t].mode = at[t].mode
    <3>1. E(t) => E(t)'
      BY <2>5 DEF Writer, Inside, Working
    <3>2. L1'
      BY <1>1, <2>2, <2>5, <3>1
    <3>3. ASSUME at'[t].step = "put_ok" PROVE Writer(t)' /\ DOMAIN linked' = {}
      BY <1>1, <2>5, <3>3 DEF Writer, Inside
    <3>4. L2'
      BY <1>1, <2>2, <2>5, <3>3
    <3> QED
      BY <2>1, <3>2, <3>4
  <2> QED
    BY <1>2, <2>1, <2>3, <2>4, <2>5, LinkedFrame
<1>3. ASSUME UNCHANGED <<at, remoteLocks, files>> PROVE L1' /\ L2'
  BY <1>1, <1>3 DEF Writer, Inside, files
<1>4. ASSUME RefreshBegin \/ RefreshPaths \/ RefreshCall \/ UNCHANGED vars PROVE L3'
  BY <1>1, <1>4 DEF RefreshBegin, RefreshPaths, RefreshCall, vars, namenodes
<1>5. ASSUME Environment PROVE L3'
  <2>1. CASE Remove
    BY <2>1 DEF Remove
  <2>2. CASE Replicate
    BY <2>2 DEF Replicate
  <2>3. ASSUME NEW i \in Indexes, OtherSaves(i) PROVE L3'
    BY <1>1, <2>3 DEF OtherSaves
  <2> QED
    BY <1>5, <2>1, <2>2, <2>3 DEF Environment
<1>6. L1' /\ L2' /\ L3'
  BY <1>2, <1>3, <1>4, <1>5, OthersLeave DEF Next
<1> QED
  BY <1>6 DEF LinkInv

-----------------------------------------------------------------------------
(* The local files against the namenode                                    *)

\* While a thread is inside and neither works on the file nor saves it,
\* nothing is linked and nobody saves.
LEMMA Calm ==
  ASSUME LockInv, LinkInv, NEW t \in Threads, Inside(t), at[t].step \notin Working \cup {"put_ok"}
  PROVE  /\ DOMAIN linked = {} /\ ~Dirty /\ \A u \in Threads : at[u].step # "put_ok"
         /\ \A u \in Threads : Writer(u) => u = t
<1>1. \A u \in Threads : Writer(u) => u = t
  BY WriterAlone
<1>2. DOMAIN linked = {}
  BY <1>1 DEF LinkInv
<1>3. \A u \in Threads : at[u].step # "put_ok"
  BY <1>1 DEF LinkInv
<1> QED
  BY <1>1, <1>2, <1>3 DEF Dirty

\* A file that is removed at the namenode or outdated, or a save that was
\* refused, remains so.
LEMMA FreshBefore ==
  ASSUME TypeInv, [Next]_vars, Fresh'
  PROVE  Fresh
<1> DEFINE H == (outdated => outdated') /\ (refused => refused')
<1>0. UNCHANGED history => H
  BY DEF history
<1>1. (master = Gone => master' = Gone) /\ H
  <2>1. ASSUME NEW t \in Threads, Step(t) PROVE master = Gone => master' = Gone
    BY <2>1, NodeFrame
  <2>2. ASSUME NEW t \in Threads, Step(t) PROVE H
    <3>1. ASSUME NEW mode \in Modes, Open(t, mode) PROVE UNCHANGED history
      BY <3>1 DEF Open
    <3>2. ASSUME ReadLock(t) \/ WriteLock(t) \/ LockRemote(t) \/ Register(t) \/ StoreInode(t)
          PROVE  UNCHANGED history
      BY <3>2 DEF ReadLock, WriteLock, LockRemote, Register, StoreInode, rest
    <3>3. ASSUME NEW i \in Indexes, ReadBegin(t, i) \/ \E toEnd \in BOOLEAN : WriteData(t, i, toEnd)
          PROVE  UNCHANGED history
      BY <3>3 DEF ReadBegin, WriteData, rest
    <3>4. ASSUME BlockLock(t) \/ ReadFill(t) \/ Close(t) \/ Fsync(t) PROVE UNCHANGED history
      BY <3>4 DEF BlockLock, ReadFill, Close, Fsync, Save, rest
    <3>5. ASSUME Erase(t) \/ UnlockRemote(t) \/ Reinit(t) PROVE UNCHANGED history
      BY <3>5 DEF Erase, UnlockRemote, Reinit, rest
    <3>6. ASSUME UpdateInode(t) \/ UnlockPath(t) PROVE H
      <4>1. refused' = refused
        BY <3>6 DEF UpdateInode, UnlockPath
      <4>2. outdated => outdated'
        BY <3>6 DEF UpdateInode, UnlockPath
      <4> QED
        BY <4>1, <4>2
    <3>7. ASSUME PutOk(t) PROVE H
      <4>1. refused' = refused \/ refused' = TRUE
        BY <3>7 DEF PutOk
      <4>2. outdated' = outdated \/ outdated' = (outdated \/ at[t].saved)
        BY <3>7 DEF PutOk
      <4>3. outdated => outdated'
        BY <4>2, Zenon
      <4>4. refused => refused'
        BY <4>1, Zenon
      <4> QED
        BY <4>3, <4>4
    <3> HIDE DEF H
    <3> QED
      BY <2>2, <3>1, <3>2, <3>3, <3>4, <3>5, <3>6, <3>7, <1>0 DEF Step, Continue
  <2>3. ASSUME RefreshBegin \/ RefreshPaths \/ RefreshCall \/ UNCHANGED vars
        PROVE  (master = Gone => master' = Gone) /\ H
    BY <2>3 DEF RefreshBegin, RefreshPaths, RefreshCall, vars, namenodes, history
  <2>4. ASSUME Environment
        PROVE  (master = Gone => master' = Gone) /\ H
    BY <2>4 DEF Environment, Remove, Replicate, OtherSaves, rest, history
  <2> QED
    BY <2>1, <2>2, <2>3, <2>4 DEF Next
<1> QED
  BY <1>1 DEF Fresh

\* What the invariant says of the files, in the two cases it tells apart.
Clean == ~Dirty /\ (\A t \in Threads : at[t].step # "put_ok") => CleanInv
Saving == \A t \in Threads : ~Dirty /\ at[t].step = "put_ok" => SavingInv(t)

\* A step that changes neither the files nor the sessions.
LEMMA StillCurrent ==
  ASSUME UNCHANGED <<at, files, master>>, InodeInv, Clean, Saving
  PROVE  InodeInv' /\ Clean' /\ Saving'
<1>1. at' = at /\ inode' = inode /\ cached' = cached /\ linked' = linked /\ master' = master
  BY DEF files
<1>2. InodeInv'
  BY <1>1 DEF InodeInv, Settled, Writer, Inside
<1>3. Clean'
  BY <1>1 DEF Clean, CleanInv, Dirty, Writer, Inside, EmptyOf, HoldsOf, FillsAs
<1>4. Saving'
  BY <1>1 DEF Saving, SavingInv, Dirty, Writer, Inside, EmptyOf, HoldsOf, FillsAs
<1> QED
  BY <1>2, <1>3, <1>4

\* A step of one thread that changes no file and saves nothing.
Quiet(t) ==
  /\ \A u \in Threads : u # t => at'[u] = at[u]
  /\ inode' = inode /\ cached' = cached /\ linked' = linked /\ master' = master
  /\ at[t].step \notin {"put_ok", "erase", "store_inode"} /\ at'[t].step \notin {"put_ok", "store_inode"}
  /\ at[t].step \in Working =>
       Same(t) /\ (at'[t].step \in Working \/ (at'[t].step = "erase" /\ DOMAIN linked = {}))
  /\ at'[t].step \in Working => Same(t) /\ at[t].step \in Working \cup {"lock_remote"}
  /\ at'[t].step \in {"block_lock", "fill"} =>
       \/ at[t].step \in {"block_lock", "fill"} /\ SameData(t)
       \/ inode # NoInode /\ at'[t].sub = inode /\ at'[t].index \in DOMAIN inode

\* Such a step keeps what the invariant says.
LEMMA QuietCurrent ==
  ASSUME LockInv, LinkInv, InodeInv, Clean, Saving, NEW t \in Threads, Quiet(t)
  PROVE  InodeInv' /\ Clean' /\ Saving'
<1>1. ASSUME NEW u \in Threads, u # t PROVE at'[u] = at[u] /\ (Writer(u)' <=> Writer(u))
  <2>1. at'[u] = at[u]
    BY <1>1 DEF Quiet
  <2> QED
    BY <2>1 DEF Writer, Inside
<1>2. at[t].step \in Working => (Writer(t) => Writer(t)') /\ at'[t].saved = at[t].saved
  BY DEF Quiet, Same, Writer, Inside, Working
<1>3. at'[t].step \in Working => (Writer(t)' => Writer(t)) /\ at'[t].saved = at[t].saved
  BY DEF Quiet, Same, Writer, Inside, Working
<1>4. inode' = inode /\ cached' = cached /\ linked' = linked /\ master' = master
  BY DEF Quiet
<1>5. Dirty => Dirty'
  <2> SUFFICES ASSUME NEW x \in Threads, Writer(x), at[x].saved, at[x].step = "put_ok" \/ DOMAIN linked # {}
               PROVE  Dirty'
    BY DEF Dirty
  <2>1. CASE x # t
    BY <1>1, <1>4, <2>1 DEF Dirty
  <2>2. CASE x = t
    <3>1. DOMAIN linked # {}
      BY <2>2 DEF Quiet
    <3>2. PICK y \in Threads : Writer(y) /\ at[y].step \in Working
      BY <3>1 DEF LinkInv
    <3>3. y = x
      BY <3>2, WriterAlone DEF Writer
    <3>4. Writer(t)' /\ at'[t].saved
      BY <1>2, <2>2, <3>2, <3>3
    <3> QED
      BY <1>4, <3>1, <3>4 DEF Dirty
  <2> QED
    BY <2>1, <2>2
<1>6. InodeInv'
  <2>1. Settled'
        \/ \E u \in Threads : Writer(u)' /\ at'[u].saved /\ at'[u].step \in Working \cup {"put_ok", "erase"}
    <3>1. CASE Settled
      BY <1>1, <1>4, <3>1 DEF Settled, Quiet
    <3>2. ASSUME NEW x \in Threads, Writer(x), at[x].saved, at[x].step \in Working \cup {"put_ok", "erase"}
          PROVE  Writer(x)' /\ at'[x].saved /\ at'[x].step \in Working \cup {"put_ok", "erase"}
      <4>1. CASE x # t
        BY <1>1, <3>2, <4>1
      <4>2. CASE x = t
        BY <1>2, <3>2, <4>2 DEF Quiet
      <4> QED
        BY <4>1, <4>2
    <3> QED
      BY <3>1, <3>2 DEF InodeInv
  <2>2. ASSUME NEW u \in Threads, at'[u].step = "store_inode" PROVE at'[u].sub = master' /\ at'[u].stale = {}
    <3>1. u # t
      BY <2>2 DEF Quiet
    <3> QED
      BY <1>1, <1>4, <2>2, <3>1 DEF InodeInv
  <2>3. ASSUME NEW u \in Threads, Writer(u)', ~at'[u].saved, at'[u].step \in Working \cup {"put_ok"}
        PROVE  inode' \in {NoInode, master'}
    <3>1. CASE u # t
      BY <1>1, <1>4, <2>3, <3>1 DEF InodeInv
    <3>2. CASE u = t
      <4>1. at'[t].step \in Working /\ at[t].step \in Working \cup {"lock_remote"}
        BY <2>3, <3>2 DEF Quiet
      <4>2. CASE at[t].step \in Working
        BY <1>3, <1>4, <2>3, <3>2, <4>1, <4>2 DEF InodeInv
      <4>3. CASE at[t].step = "lock_remote"
        <5>1. Writer(t) /\ at[t].step \notin Working \cup {"put_ok", "erase", "store_inode"}
          BY <1>3, <2>3, <3>2, <4>1, <4>3 DEF Working
        <5>2. \A x \in Threads : Inside(x) => x = t
          BY <5>1, WriterAlone
        <5>3. \A x \in Threads : at[x].step # "store_inode"
          BY <5>1, <5>2 DEF Inside
        <5>4. \A x \in Threads : Writer(x) => at[x].step \notin Working \cup {"put_ok", "erase"}
          BY <5>1, <5>2 DEF Writer
        <5> QED
          BY <1>4, <5>3, <5>4 DEF InodeInv, Settled
      <4> QED
        BY <4>1, <4>2, <4>3
    <3> QED
      BY <3>1, <3>2
  <2> QED
    BY <2>1, <2>2, <2>3 DEF InodeInv
<1>7. Clean'
  <2> SUFFICES ASSUME ~Dirty', \A u \in Threads : at'[u].step # "put_ok" PROVE CleanInv'
    BY DEF Clean
  <2>1. \A u \in Threads : at[u].step # "put_ok"
    BY <1>1 DEF Quiet
  <2>2. CleanInv
    BY <1>5, <2>1 DEF Clean
  <2>3. \A i \in Indexes : /\ EmptyOf(i, master)'
                           /\ IF i \in DOMAIN linked' THEN linked'[i] = cached'[i] ELSE HoldsOf(i, master)'
    BY <1>4, <2>2 DEF CleanInv, EmptyOf, HoldsOf
  <2>4. inode' # NoInode => \A i \in DOMAIN inode' : FillsAs(inode, i, master)'
    BY <1>4, <2>2 DEF CleanInv, FillsAs
  <2>5. ASSUME NEW u \in Threads, at'[u].step \in {"block_lock", "fill"}
        PROVE  FillsAs(at[u].sub, at[u].index, master)'
    <3>1. CASE u # t
      BY <1>1, <1>4, <2>2, <2>5, <3>1 DEF CleanInv, FillsAs
    <3>2. CASE u = t /\ at[t].step \in {"block_lock", "fill"} /\ SameData(t)
      BY <1>4, <2>2, <3>2 DEF CleanInv, FillsAs, SameData
    <3>3. CASE u = t /\ inode # NoInode /\ at'[t].sub = inode /\ at'[t].index \in DOMAIN inode
      BY <1>4, <2>2, <3>3 DEF CleanInv, FillsAs
    <3> QED
      BY <2>5, <3>1, <3>2, <3>3 DEF Quiet
  <2> QED
    BY <2>3, <2>4, <2>5 DEF CleanInv
<1>8. Saving'
  <2> SUFFICES ASSUME NEW u \in Threads, ~Dirty', at'[u].step = "put_ok" PROVE SavingInv(u)'
    BY DEF Saving
  <2>1. u # t
    BY DEF Quiet
  <2>2. SavingInv(u) /\ at'[u] = at[u]
    BY <1>1, <1>5, <2>1 DEF Saving
  <2> QED
    BY <1>4, <2>2 DEF SavingInv, EmptyOf, HoldsOf, FillsAs
<1> QED
  BY <1>6, <1>7, <1>8

\* The actions that are such steps.
LEMMA QuietSteps ==
  ASSUME TypeInv, LockInv, LinkInv, Fresh, NEW t \in Threads, Step(t),
         \/ \E mode \in Modes : Open(t, mode)
         \/ ReadLock(t) \/ WriteLock(t) \/ LockRemote(t) \/ Register(t)
         \/ \E i \in Indexes : ReadBegin(t, i)
         \/ BlockLock(t) \/ UnlockRemote(t) \/ UnlockPath(t)
         \/ ((Close(t) \/ Fsync(t)) /\ DOMAIN linked = {})
  PROVE  Quiet(t)
<1> DEFINE F == inode' = inode /\ cached' = cached /\ linked' = linked /\ master' = master
           T == /\ at[t].step \notin {"put_ok", "erase", "store_inode"} /\ at'[t].step \notin {"put_ok", "store_inode"}
                /\ at[t].step \in Working =>
                     Same(t) /\ (at'[t].step \in Working \/ (at'[t].step = "erase" /\ DOMAIN linked = {}))
                /\ at'[t].step \in Working => Same(t) /\ at[t].step \in Working \cup {"lock_remote"}
                /\ at'[t].step \in {"block_lock", "fill"} =>
                     \/ at[t].step \in {"block_lock", "fill"} /\ SameData(t)
                     \/ inode # NoInode /\ at'[t].sub = inode /\ at'[t].index \in DOMAIN inode
<1>0. AtType /\ FileType
  BY DEF TypeInv
<1>1. \A u \in Threads : u # t => at'[u] = at[u]
  BY OthersStay
<1>2. linked = << >> \/ DOMAIN linked # {}
  <2>1. PICK D \in SUBSET Indexes : linked \in [D -> Content]
    BY <1>0 DEF FileType
  <2> QED
    BY <2>1
<1>3. ASSUME \E mode \in Modes : Open(t, mode) PROVE F /\ T
  <2>1. F
    BY <1>3 DEF Open, files, namenodes
  <2>2. at[t].step = "out" /\ at'[t].step = "lock"
    BY <1>0, <1>3, OpenEffects
  <2> QED
    BY <2>1, <2>2 DEF Working
<1>4. ASSUME ReadLock(t) \/ WriteLock(t) PROVE F /\ T
  <2>1. F
    BY <1>4 DEF ReadLock, WriteLock, files, namenodes
  <2>2. at[t].step = "lock" /\ at'[t].step \in {"update_inode", "lock_remote"}
    BY <1>0, <1>4, OpenEffects
  <2> QED
    BY <2>1, <2>2 DEF Working
<1>5. ASSUME LockRemote(t) PROVE F /\ T
  <2>1. F
    BY <1>5 DEF LockRemote, files, namenodes
  <2>2. /\ at[t].step = "lock_remote"
        /\ at'[t].step = "out" \/ (at'[t].step \in {"in", "register"} /\ Same(t))
    BY <1>0, <1>5, OpenEffects DEF Over
  <2> QED
    BY <2>1, <2>2 DEF Working
<1>6. ASSUME Register(t) PROVE F /\ T
  <2>1. at[t].step = "register" /\ at'[t].step = "update_inode"
    BY <1>0, <1>6, OpenEffects
  <2>2. DOMAIN linked = {}
    BY <2>1, Calm DEF Working, Inside
  <2>3. F
    BY <1>2, <1>6, <2>2 DEF Register, namenodes
  <2> QED
    BY <2>1, <2>3 DEF Working
<1>7. ASSUME NEW i \in Indexes, ReadBegin(t, i) PROVE F /\ T
  <2>1. F /\ inode # NoInode /\ i \in DOMAIN inode
    BY <1>7 DEF ReadBegin, files, namenodes
  <2>2. at[t].step = "in" /\ at'[t].step = "block_lock" /\ Same(t) /\ at'[t].sub = inode /\ at'[t].index = i
    BY <1>0, <1>7, DataEffects
  <2> QED
    BY <2>1, <2>2 DEF Working
<1>8. ASSUME BlockLock(t) PROVE F /\ T
  <2>1. F
    BY <1>8 DEF BlockLock, files, namenodes
  <2>2. at[t].step = "block_lock" /\ at'[t].step = "fill" /\ Same(t) /\ SameData(t)
    BY <1>0, <1>8, DataEffects
  <2> QED
    BY <2>1, <2>2 DEF Working
<1>9. ASSUME UnlockRemote(t) \/ UnlockPath(t) PROVE F /\ T
  <2>1. F
    BY <1>9 DEF UnlockRemote, UnlockPath, files, namenodes
  <2>2. at[t].step \in {"unlock", "unlock_path"} /\ at'[t].step \in {"unlock_path", "out"}
    BY <1>0, <1>9, CloseEffects DEF Over
  <2> QED
    BY <2>1, <2>2 DEF Working
<1>10. ASSUME (Close(t) \/ Fsync(t)) /\ DOMAIN linked = {} PROVE F /\ T
  <2>1. F
    BY <1>2, <1>10 DEF Close, Fsync, Save, namenodes
  <2>2. at[t].step = "in" /\ at'[t].step = "erase" /\ Same(t)
    BY <1>0, <1>10, CloseEffects DEF Close, Fsync
  <2> QED
    BY <1>10, <2>1, <2>2 DEF Working
<1>11. F /\ T
  BY <1>3, <1>4, <1>5, <1>6, <1>7, <1>8, <1>9, <1>10
<1> QED
  BY <1>1, <1>11 DEF Quiet

\* open: with an inode that is the master's, nothing is stale.
LEMMA OpenCurrent ==
  ASSUME TypeInv, LockInv, LinkInv, InodeInv, Clean, Fresh, Fresh', NEW t \in Threads, Step(t),
         UpdateInode(t) \/ StoreInode(t)
  PROVE  InodeInv' /\ Clean' /\ Saving'
<1>0. AtType /\ FileType /\ NodeType
  BY DEF TypeInv
<1>1. \A u \in Threads : u # t => at'[u] = at[u]
  BY OthersStay
<1>2. at[t].step \in {"update_inode", "store_inode"} /\ Inside(t)
  BY <1>0, OpenEffects DEF Inside
<1>3. /\ DOMAIN linked = {} /\ ~Dirty /\ \A u \in Threads : at[u].step # "put_ok"
      /\ \A u \in Threads : Writer(u) => u = t
  BY <1>2, Calm DEF Working
<1>4. CleanInv
  BY <1>3 DEF Clean
<1>5. linked' = linked /\ master' = master
  BY DEF UpdateInode, StoreInode, namenodes
<1>6. inode \in {NoInode, << >>, master}
  BY <1>2, <1>3 DEF InodeInv, Settled, Working
<1>7. /\ cached' = cached /\ inode' \in {inode, << >>, master}
      /\ at'[t].step \in {"store_inode", "in", "_truncate"}
      /\ at'[t].step = "store_inode" => at'[t].sub = master /\ at'[t].stale = {}
      /\ at'[t].step # "store_inode" => inode' = master
  <2>1. CASE UpdateInode(t)
    <3>1. slave = master /\ slave # Gone
      BY <2>1 DEF UpdateInode, Fresh
    <3>2. master \in Subs
      BY <1>0, <3>1 DEF NodeType
    <3>3. /\ at'[t].step = "store_inode" /\ at'[t].sub = slave
          /\ at'[t].stale = Stale(IF inode = NoInode THEN << >> ELSE inode, slave)
      BY <1>0, <2>1, <3>1, OpenEffects
    <3>4. Stale(<< >>, master) = {}
      BY DEF Stale
    <3>5. Stale(master, master) = {}
      <4>1. DOMAIN master = 1..Len(master) /\ Len(master) \in Nat
        BY <3>2, SubsEntry, Bounds
      <4> QED
        BY <4>1 DEF Stale
    <3>6. at'[t].stale = {}
      BY <1>6, <3>1, <3>3, <3>4, <3>5
    <3>7. cached' = cached /\ inode' = IF inode = NoInode THEN << >> ELSE inode
      BY <2>1 DEF UpdateInode
    <3> QED
      BY <3>1, <3>3, <3>6, <3>7
  <2>2. CASE StoreInode(t)
    <3>1. at[t].sub = master /\ at[t].stale = {} /\ at'[t].step \in {"in", "_truncate"}
      BY <1>0, <2>2, OpenEffects DEF InodeInv, StoreInode
    <3>2. cached' = [i \in Indexes |-> cached[i]] /\ inode' = master
      BY <2>2, <3>1 DEF StoreInode
    <3>3. cached' = cached
      BY <1>0, <3>2 DEF FileType
    <3> QED
      BY <3>1, <3>2, <3>3
  <2> QED
    BY <2>1, <2>2
<1>8. InodeInv'
  <2>1. Settled'
    BY <1>5, <1>6, <1>7 DEF Settled
  <2>2. ASSUME NEW u \in Threads, at'[u].step = "store_inode" PROVE at'[u].sub = master' /\ at'[u].stale = {}
    BY <1>1, <1>5, <1>7, <2>2 DEF InodeInv
  <2>3. ASSUME NEW u \in Threads, Writer(u)', at'[u].step \in Working \cup {"put_ok"} PROVE inode' \in {NoInode, master'}
    <3>1. CASE u = t
      BY <1>5, <1>7, <2>3, <3>1 DEF Working
    <3>2. CASE u # t
      <4>1. Writer(u)
        BY <1>1, <2>3, <3>2 DEF Writer, Inside
      <4> QED
        BY <1>3, <3>2, <4>1
    <3> QED
      BY <3>1, <3>2
  <2> QED
    BY <2>1, <2>2, <2>3 DEF InodeInv
<1>9. CleanInv'
  <2>1. \A i \in Indexes : /\ EmptyOf(i, master)'
                           /\ IF i \in DOMAIN linked' THEN linked'[i] = cached'[i] ELSE HoldsOf(i, master)'
    BY <1>4, <1>5, <1>7 DEF CleanInv, EmptyOf, HoldsOf
  <2>2. inode' # NoInode => \A i \in DOMAIN inode' : FillsAs(inode, i, master)'
    <3>1. CASE inode' = inode
      BY <1>4, <1>5, <1>7, <3>1 DEF CleanInv, FillsAs
    <3>2. CASE inode' = << >>
      BY <3>2
    <3>3. CASE inode' = master
      BY <1>5, <3>3 DEF FillsAs
    <3> QED
      BY <1>7, <3>1, <3>2, <3>3
  <2>3. ASSUME NEW u \in Threads, at'[u].step \in {"block_lock", "fill"}
        PROVE  FillsAs(at[u].sub, at[u].index, master)'
    <3>1. at'[u] = at[u]
      BY <1>1, <1>7, <2>3
    <3> QED
      BY <1>4, <1>5, <1>7, <2>3, <3>1 DEF CleanInv, FillsAs
  <2> QED
    BY <2>1, <2>2, <2>3 DEF CleanInv
<1>10. \A u \in Threads : at'[u].step # "put_ok"
  BY <1>1, <1>3, <1>7
<1> QED
  BY <1>8, <1>9, <1>10 DEF Clean, Saving

\* read_data: what fills an empty file is what the namenode has.
LEMMA FillCurrent ==
  ASSUME TypeInv, LockInv, LinkInv, InodeInv, Clean, NEW t \in Threads, Step(t), ReadFill(t)
  PROVE  InodeInv' /\ Clean' /\ Saving'
<1>0. AtType /\ FileType /\ NodeType
  BY DEF TypeInv
<1>1. \A u \in Threads : u # t => at'[u] = at[u]
  BY OthersStay
<1>2. at[t].step = "fill" /\ at'[t].step = "in" /\ Same(t) /\ Inside(t)
  BY <1>0, DataEffects DEF Inside
<1>3. \A u \in Threads : Writer(u)' <=> Writer(u)
  BY <1>1, <1>2 DEF Writer, Inside, Same
<1>4. \A u \in Threads : at[u].step # "put_ok" /\ at'[u].step # "put_ok"
  <2>1. ASSUME NEW u \in Threads, at[u].step = "put_ok" PROVE FALSE
    <3>1. u = t
      BY <1>2, <2>1, WriterAlone DEF LinkInv
    <3> QED
      BY <1>2, <2>1, <3>1
  <2> QED
    BY <1>1, <1>2, <2>1
<1>5. /\ inode' = inode /\ DOMAIN linked' = DOMAIN linked /\ master' = master
      /\ \A j \in DOMAIN linked :
           \/ linked'[j] = linked[j] /\ (j = at[t].index => cached' = cached)
           \/ j = at[t].index /\ cached' = [cached EXCEPT ![j] = linked'[j]]
  <2> DEFINE i == at[t].index
  <2>1. \/ UNCHANGED <<cached, linked>>
        \/ \E block : /\ cached' = [cached EXCEPT ![i] = block]
                      /\ linked' = [j \in DOMAIN linked |-> IF j = i THEN block ELSE linked[j]]
    BY DEF ReadFill
  <2>2. inode' = inode /\ master' = master
    BY DEF ReadFill, namenodes
  <2> HIDE DEF i
  <2>3. CASE UNCHANGED <<cached, linked>>
    BY <2>2, <2>3 DEF i
  <2>4. ASSUME NEW block, cached' = [cached EXCEPT ![i] = block],
               linked' = [j \in DOMAIN linked |-> IF j = i THEN block ELSE linked[j]]
        PROVE  /\ DOMAIN linked' = DOMAIN linked
               /\ \A j \in DOMAIN linked :
                    \/ j # i /\ linked'[j] = linked[j]
                    \/ j = i /\ cached' = [cached EXCEPT ![j] = linked'[j]]
    BY <2>4
  <2> QED
    BY <2>1, <2>2, <2>3, <2>4 DEF i
<1>6. InodeInv'
  <2>1. \A u \in Threads : at'[u].saved = at[u].saved /\ (at'[u].step \in Working <=> at[u].step \in Working)
    BY <1>1, <1>2 DEF Same, Working
  <2>2. ASSUME NEW u \in Threads, at'[u].step = "store_inode" PROVE at'[u] = at[u]
    BY <1>1, <1>2, <2>2
  <2>3. Settled'
        \/ \E u \in Threads : Writer(u)' /\ at'[u].saved /\ at'[u].step \in Working \cup {"put_ok", "erase"}
    <3>1. CASE Settled
      BY <1>1, <1>2, <1>5, <3>1 DEF Settled
    <3>2. CASE ~Settled
      BY <1>1, <1>2, <1>3, <2>1, <3>2 DEF InodeInv, Working
    <3> QED
      BY <3>1, <3>2
  <2>4. ASSUME NEW u \in Threads, Writer(u)', ~at'[u].saved, at'[u].step \in Working \cup {"put_ok"}
        PROVE  inode' \in {NoInode, master'}
    BY <1>3, <1>4, <1>5, <2>1, <2>4 DEF InodeInv
  <2> QED
    BY <1>5, <2>2, <2>3, <2>4 DEF InodeInv
<1>7. Dirty => Dirty'
  BY <1>1, <1>2, <1>3, <1>4, <1>5 DEF Dirty, Same
<1>8. ASSUME CleanInv PROVE CleanInv'
  <2> DEFINE i == at[t].index
  <2>1. i \in DOMAIN at[t].sub /\ at[t].sub \in Subs
    BY <1>0, <1>2 DEF AtType, Filling, Thread
  <2>2. i \in Indexes
    BY <2>1, SubsEntry
  <2>3. FillsAs(at[t].sub, i, master) /\ EmptyOf(i, master)
    BY <1>2, <1>8, <2>2 DEF CleanInv
  <2>4. /\ \A j \in Indexes : j # i => cached'[j] = cached[j]
        /\ \/ cached'[i] = cached[i]
           \/ cached[i] = << >> /\ cached'[i] = at[t].sub[i]
    BY <1>0, <2>2 DEF ReadFill, FileType
  <2> HIDE DEF i
  <2>5. /\ \A j \in Indexes : j # i => cached'[j] = cached[j]
        /\ \/ cached'[i] = cached[i]
           \/ cached[i] = << >> /\ i \in DOMAIN master /\ cached'[i] = master[i] /\ i \notin DOMAIN linked
    BY <2>3, <2>4 DEF FillsAs, EmptyOf
  <2>6. \A j \in Indexes : /\ EmptyOf(j, master)'
                           /\ IF j \in DOMAIN linked' THEN linked'[j] = cached'[j] ELSE HoldsOf(j, master)'
    <3> SUFFICES ASSUME NEW j \in Indexes
                 PROVE  /\ EmptyOf(j, master)'
                        /\ IF j \in DOMAIN linked' THEN linked'[j] = cached'[j] ELSE HoldsOf(j, master)'
      OBVIOUS
    <3>1. EmptyOf(j, master) /\ IF j \in DOMAIN linked THEN linked[j] = cached[j] ELSE HoldsOf(j, master)
      BY <1>8 DEF CleanInv
    <3>2. EmptyOf(j, master)'
      BY <1>5, <2>5, <3>1 DEF EmptyOf, HoldsOf
    <3>3. ASSUME j \in DOMAIN linked' PROVE linked'[j] = cached'[j]
      <4>1. linked[j] = cached[j] /\ j \in DOMAIN linked
        BY <1>5, <3>1, <3>3
      <4>2. CASE j # i
        BY <1>5, <2>5, <4>1, <4>2 DEF i
      <4>3. CASE j = i
        BY <1>0, <1>5, <4>1, <4>3 DEF i, FileType
      <4> QED
        BY <4>2, <4>3
    <3>4. ASSUME j \notin DOMAIN linked' PROVE HoldsOf(j, master)'
      BY <1>5, <2>5, <3>1, <3>4 DEF HoldsOf
    <3> QED
      BY <3>2, <3>3, <3>4
  <2>7. \A j \in Indexes : cached'[j] = << >> => cached[j] = << >>
    BY <2>5
  <2>8. inode' # NoInode => \A j \in DOMAIN inode' : FillsAs(inode, j, master)'
    <3>1. inode # NoInode => DOMAIN inode \subseteq Indexes
      BY <1>0, SubsEntry DEF FileType
    <3> QED
      BY <1>5, <1>8, <2>7, <3>1 DEF CleanInv, FillsAs
  <2>9. ASSUME NEW u \in Threads, at'[u].step \in {"block_lock", "fill"}
        PROVE  FillsAs(at[u].sub, at[u].index, master)'
    <3>1. at'[u] = at[u]
      BY <1>1, <1>2, <2>9
    <3>2. at[u].index \in DOMAIN at[u].sub /\ at[u].sub \in Subs
      BY <1>0, <2>9, <3>1 DEF AtType, Filling, Thread
    <3>3. at[u].index \in Indexes
      BY <3>2, SubsEntry
    <3> QED
      BY <1>5, <1>8, <2>7, <2>9, <3>1, <3>3 DEF CleanInv, FillsAs
  <2> QED
    BY <2>6, <2>8, <2>9 DEF CleanInv
<1> QED
  BY <1>4, <1>6, <1>7, <1>8 DEF Clean, Saving

\* write_data: what deviates from the namenode is linked.
LEMMA WriteCurrent ==
  ASSUME TypeInv, LockInv, LinkInv, InodeInv, Clean, NEW t \in Threads, Step(t),
         NEW i \in Indexes, NEW toEnd \in BOOLEAN, WriteData(t, i, toEnd)
  PROVE  InodeInv' /\ Clean' /\ Saving'
<1>0. AtType /\ FileType /\ NodeType
  BY DEF TypeInv
<1>1. \A u \in Threads : u # t => at'[u] = at[u]
  BY OthersStay
<1>2. /\ at[t].step = "in" /\ at'[t].step = "in" /\ at'[t].mode = at[t].mode /\ at[t].mode # "read"
      /\ at'[t].saved = at[t].saved
  BY <1>0, DataEffects
<1>3. Writer(t) /\ Inside(t) /\ Writer(t)'
  BY <1>2 DEF Writer, Inside
<1>4. \A u \in Threads : (Writer(u)' <=> Writer(u)) /\ (Writer(u) => u = t)
  BY <1>1, <1>3, WriterAlone DEF Writer, Inside
<1>5. \A u \in Threads : at[u].step # "put_ok" /\ at'[u].step # "put_ok"
  BY <1>1, <1>2, <1>4 DEF LinkInv
<1>6. master' = master
  BY DEF WriteData, namenodes
<1>7. /\ inode' = inode /\ cached[i] \in Content
      /\ \A j \in Indexes : cached'[j] = IF j = i THEN Append(cached[i], writes + 1) ELSE cached[j]
      /\ DOMAIN linked' = DOMAIN linked \cup Touched(i, toEnd)
      /\ \A j \in DOMAIN linked' : linked'[j] = IF j \in Touched(i, toEnd) THEN cached'[j] ELSE linked[j]
      /\ i \in Touched(i, toEnd) /\ Touched(i, toEnd) \subseteq Indexes
      /\ \A j \in Touched(i, toEnd) : j = i \/ j = i + 1
  BY WriteFiles, Zenon
<1>8. Append(cached[i], writes + 1) # << >>
  BY <1>7, AppendHas
<1>9. cached'[i] # << >> /\ \A j \in Indexes : j # i => cached'[j] = cached[j]
  BY <1>7, <1>8
<1>10. InodeInv'
  <2>1. \A u \in Threads : at'[u].saved = at[u].saved /\ at'[u].step = at[u].step
    BY <1>1, <1>2
  <2>2. ASSUME NEW u \in Threads, at'[u].step = "store_inode" PROVE at'[u] = at[u]
    BY <1>1, <1>2, <2>2
  <2>3. Settled'
        \/ \E u \in Threads : Writer(u)' /\ at'[u].saved /\ at'[u].step \in Working \cup {"put_ok", "erase"}
    BY <1>4, <1>6, <1>7, <2>1 DEF InodeInv, Settled
  <2>4. ASSUME NEW u \in Threads, Writer(u)', ~at'[u].saved, at'[u].step \in Working \cup {"put_ok"}
        PROVE  inode' \in {NoInode, master'}
    BY <1>4, <1>6, <1>7, <2>1, <2>4 DEF InodeInv
  <2> QED
    BY <1>6, <2>2, <2>3, <2>4 DEF InodeInv
<1>11. Dirty => Dirty'
  <2>1. DOMAIN linked' # {}
    BY <1>7
  <2> SUFFICES ASSUME NEW x \in Threads, Writer(x), at[x].saved PROVE Dirty'
    BY DEF Dirty
  <2>2. x = t
    BY <1>4
  <2> QED
    BY <1>2, <1>3, <2>1, <2>2 DEF Dirty
<1>12. ASSUME CleanInv PROVE CleanInv'
  <2>1. ASSUME NEW j \in Indexes
        PROVE  /\ EmptyOf(j, master)'
               /\ IF j \in DOMAIN linked' THEN linked'[j] = cached'[j] ELSE HoldsOf(j, master)'
    <3>1. EmptyOf(j, master) /\ IF j \in DOMAIN linked THEN linked[j] = cached[j] ELSE HoldsOf(j, master)
      BY <1>12 DEF CleanInv
    <3>2. EmptyOf(j, master)'
      <4>1. CASE j = i
        BY <1>9, <4>1 DEF EmptyOf
      <4>2. CASE j # i
        <5>1. i + 1 # 1 /\ i \in Int
          BY Bounds DEF Indexes
        <5>2. j = 1 => j \notin Touched(i, toEnd)
          BY <1>7, <4>2, <5>1
        <5> QED
          BY <1>6, <1>7, <1>9, <3>1, <4>2, <5>2 DEF EmptyOf
      <4> QED
        BY <4>1, <4>2
    <3>3. j \in DOMAIN linked' => linked'[j] = cached'[j]
      BY <1>7, <1>9, <3>1
    <3>4. j \notin DOMAIN linked' => HoldsOf(j, master)'
      BY <1>6, <1>7, <1>9, <3>1 DEF HoldsOf
    <3> QED
      BY <3>2, <3>3, <3>4
  <2>2. \A j \in Indexes : cached'[j] = << >> => cached[j] = << >>
    BY <1>9
  <2>3. inode' # NoInode => \A j \in DOMAIN inode' : FillsAs(inode, j, master)'
    <3>1. inode # NoInode => DOMAIN inode \subseteq Indexes
      BY <1>0, SubsEntry DEF FileType
    <3> QED
      BY <1>6, <1>7, <1>12, <2>2, <3>1 DEF CleanInv, FillsAs
  <2>4. ASSUME NEW u \in Threads, at'[u].step \in {"block_lock", "fill"}
        PROVE  FillsAs(at[u].sub, at[u].index, master)'
    <3>1. at'[u] = at[u]
      BY <1>1, <1>2, <2>4
    <3>2. at[u].index \in DOMAIN at[u].sub /\ at[u].sub \in Subs
      BY <1>0, <2>4, <3>1 DEF AtType, Filling, Thread
    <3>3. at[u].index \in Indexes
      BY <3>2, SubsEntry
    <3> QED
      BY <1>6, <1>12, <2>2, <2>4, <3>1, <3>3 DEF CleanInv, FillsAs
  <2> QED
    BY <2>1, <2>3, <2>4 DEF CleanInv
<1> QED
  BY <1>5, <1>10, <1>11, <1>12 DEF Clean, Saving

\* fsync: what is sent holds the local files.
LEMMA SaveCurrent ==
  ASSUME TypeInv, LockInv, LinkInv, InodeInv, Clean, NEW t \in Threads, Step(t),
         Close(t) \/ Fsync(t), DOMAIN linked # {}
  PROVE  InodeInv' /\ Clean' /\ Saving'
<1>0. AtType /\ FileType /\ NodeType
  BY DEF TypeInv
<1>1. \A u \in Threads : u # t => at'[u] = at[u]
  BY OthersStay
<1>2. /\ at[t].step = "in" /\ Same(t) /\ inode # NoInode /\ at'[t].step = "put_ok" /\ at'[t].sub = SavedSub
      /\ Inside(t)
  BY <1>0, CloseEffects DEF Close, Fsync, Inside
<1>3. Writer(t) /\ Writer(t)'
  <2>1. PICK x \in Threads : Writer(x)
    BY DEF LinkInv
  <2>2. x = t
    BY <1>2, <2>1, WriterAlone
  <2> QED
    BY <1>2, <2>1, <2>2 DEF Writer, Inside, Same
<1>4. \A u \in Threads : (Writer(u)' <=> Writer(u)) /\ (Writer(u) => u = t)
  BY <1>1, <1>2, <1>3, WriterAlone DEF Writer, Inside
<1>5. \A u \in Threads : at[u].step # "put_ok" /\ (at'[u].step = "put_ok" => u = t)
  BY <1>1, <1>2, <1>4 DEF LinkInv
<1>6. inode' = inode /\ cached' = cached /\ DOMAIN linked' = {} /\ master' = master
  BY DEF Close, Fsync, Save, namenodes
<1>7. InodeInv'
  <2>1. at'[t].saved = at[t].saved /\ at[t].step \in Working
    BY <1>2 DEF Same, Working
  <2>2. ASSUME NEW u \in Threads, at'[u].step = "store_inode" PROVE at'[u] = at[u]
    BY <1>1, <1>2, <2>2
  <2>3. Settled'
        \/ \E u \in Threads : Writer(u)' /\ at'[u].saved /\ at'[u].step \in Working \cup {"put_ok", "erase"}
    <3>1. CASE Settled
      BY <1>1, <1>2, <1>6, <3>1 DEF Settled
    <3>2. CASE \E u \in Threads : Writer(u) /\ at[u].saved
      BY <1>2, <1>3, <1>4, <2>1, <3>2
    <3> QED
      BY <3>1, <3>2 DEF InodeInv
  <2>4. ASSUME NEW u \in Threads, Writer(u)', ~at'[u].saved PROVE inode' \in {NoInode, master'}
    <3>1. u = t
      BY <1>4, <2>4
    <3> QED
      BY <1>3, <1>6, <2>1, <2>4, <3>1 DEF InodeInv
  <2> QED
    BY <1>6, <2>2, <2>3, <2>4 DEF InodeInv
<1>8. Clean'
  BY <1>2 DEF Clean
<1>9. ASSUME ~Dirty' PROVE SavingInv(t)'
  <2>1. ~at[t].saved /\ ~at'[t].saved
    BY <1>2, <1>3, <1>9 DEF Dirty, Same
  <2>2. ~Dirty
    BY <1>4, <2>1 DEF Dirty
  <2>3. CleanInv
    BY <1>5, <2>2 DEF Clean
  <2>4. inode = master
    BY <1>2, <1>3, <2>1 DEF InodeInv, Working
  <2>5. /\ DOMAIN linked \subseteq DOMAIN SavedSub /\ DOMAIN inode \subseteq DOMAIN SavedSub
        /\ \A j \in DOMAIN SavedSub :
             SavedSub[j] = IF j \in DOMAIN linked THEN linked[j]
                           ELSE IF j \in DOMAIN inode THEN inode[j] ELSE << >>
    BY <1>0, <1>2, SavedSubType
  <2> DEFINE s == SavedSub
  <2>6. at'[t].sub = s
    BY <1>2
  <2> HIDE DEF s
  <2>7. /\ DOMAIN linked \subseteq DOMAIN s /\ DOMAIN master \subseteq DOMAIN s
        /\ \A j \in DOMAIN s : s[j] = IF j \in DOMAIN linked THEN linked[j]
                                      ELSE IF j \in DOMAIN master THEN master[j] ELSE << >>
    BY <2>4, <2>5 DEF s
  <2>8. ASSUME NEW j \in Indexes PROVE EmptyOf(j, at[t].sub)' /\ HoldsOf(j, at[t].sub)'
    <3>1. EmptyOf(j, master) /\ IF j \in DOMAIN linked THEN linked[j] = cached[j] ELSE HoldsOf(j, master)
      BY <2>3 DEF CleanInv
    <3>2. EmptyOf(j, at[t].sub)'
      BY <1>6, <2>6, <2>7, <3>1 DEF EmptyOf
    <3>3. HoldsOf(j, at[t].sub)'
      BY <1>6, <2>6, <2>7, <3>1 DEF HoldsOf
    <3> QED
      BY <3>2, <3>3
  <2>9. ASSUME NEW j \in DOMAIN inode' PROVE FillsAs(inode, j, at[t].sub)'
    <3>1. j \in DOMAIN master /\ j \in Indexes
      BY <1>0, <1>2, <1>6, <2>4, <2>9, SubsEntry DEF FileType
    <3>2. EmptyOf(j, master) /\ IF j \in DOMAIN linked THEN linked[j] = cached[j] ELSE HoldsOf(j, master)
      BY <2>3, <3>1 DEF CleanInv
    <3> QED
      BY <1>6, <2>4, <2>6, <2>7, <3>1, <3>2 DEF FillsAs, EmptyOf
  <2> QED
    BY <2>8, <2>9 DEF SavingInv
<1>10. Saving'
  BY <1>5, <1>9 DEF Saving
<1> QED
  BY <1>7, <1>8, <1>10

\* put_ok: the namenode gets what the local files hold.
LEMMA PutOkCurrent ==
  ASSUME TypeInv, LockInv, LinkInv, Saving, Fresh, Fresh', NEW t \in Threads, Step(t), PutOk(t)
  PROVE  InodeInv' /\ Clean' /\ Saving'
<1>0. AtType
  BY DEF TypeInv
<1>1. \A u \in Threads : u # t => at'[u] = at[u]
  BY OthersStay
<1>2. /\ at[t].step = "put_ok" /\ at'[t].step \in {"in", "erase"} /\ at'[t].saved = TRUE
      /\ at'[t].mode = at[t].mode
  BY <1>0, CloseEffects DEF Fresh
<1>3. Writer(t) /\ DOMAIN linked = {}
  BY <1>2 DEF LinkInv
<1>4. Writer(t)'
  BY <1>2, <1>3 DEF Writer, Inside
<1>5. \A u \in Threads : Inside(u) => u = t
  BY <1>3, WriterAlone
<1>6. \A u \in Threads : u # t => ~Inside(u)' /\ ~Writer(u)' /\ at'[u].step \in {"out", "lock"}
  BY <1>1, <1>5 DEF Inside, Writer
<1>7. ~at[t].saved /\ master' = at[t].sub /\ UNCHANGED files
  BY DEF PutOk, Fresh
<1>8. ~Dirty
  BY <1>5, <1>7 DEF Dirty, Writer
<1>9. SavingInv(t)
  BY <1>2, <1>8 DEF Saving
<1>10. InodeInv'
  <2>1. \A u \in Threads : at'[u].step # "store_inode"
    BY <1>2, <1>6
  <2> QED
    BY <1>2, <1>4, <1>6, <2>1 DEF InodeInv, Working
<1>11. CleanInv'
  <2>1. inode' = inode /\ cached' = cached /\ linked' = linked
    BY <1>7 DEF files
  <2>2. \A u \in Threads : at'[u].step \notin {"block_lock", "fill"}
    BY <1>2, <1>6
  <2>3. \A i \in Indexes : EmptyOf(i, master)' /\ HoldsOf(i, master)'
    BY <1>7, <1>9, <2>1 DEF SavingInv, EmptyOf, HoldsOf
  <2>4. inode' # NoInode => \A i \in DOMAIN inode' : FillsAs(inode, i, master)'
    BY <1>7, <1>9, <2>1 DEF SavingInv, FillsAs
  <2> QED
    BY <1>3, <2>1, <2>2, <2>3, <2>4 DEF CleanInv
<1>12. \A u \in Threads : at'[u].step # "put_ok"
  BY <1>2, <1>6
<1> QED
  BY <1>10, <1>11, <1>12 DEF Clean, Saving

\* close: without a cached inode there is less to say.
LEMMA EraseCurrent ==
  ASSUME TypeInv, LockInv, LinkInv, InodeInv, Clean, NEW t \in Threads, Step(t), Erase(t)
  PROVE  InodeInv' /\ Clean' /\ Saving'
<1>0. AtType
  BY DEF TypeInv
<1>1. \A u \in Threads : u # t => at'[u] = at[u]
  BY OthersStay
<1>2. at[t].step = "erase" /\ at'[t].step = "unlock" /\ Inside(t)
  BY <1>0, CloseEffects DEF Inside
<1>3. DOMAIN linked = {} /\ ~Dirty /\ \A u \in Threads : at[u].step # "put_ok"
  BY <1>2, Calm DEF Working
<1>4. CleanInv
  BY <1>3 DEF Clean
<1>5. inode' = NoInode /\ cached' = cached /\ linked' = linked /\ master' = master
  BY DEF Erase, namenodes
<1>6. InodeInv'
  <2>1. ASSUME NEW u \in Threads, at'[u].step = "store_inode" PROVE at'[u].sub = master' /\ at'[u].stale = {}
    BY <1>1, <1>2, <1>5, <2>1 DEF InodeInv
  <2> QED
    BY <1>5, <2>1 DEF InodeInv, Settled
<1>7. CleanInv'
  <2>1. \A i \in Indexes : /\ EmptyOf(i, master)'
                           /\ IF i \in DOMAIN linked' THEN linked'[i] = cached'[i] ELSE HoldsOf(i, master)'
    BY <1>4, <1>5 DEF CleanInv, EmptyOf, HoldsOf
  <2>2. ASSUME NEW u \in Threads, at'[u].step \in {"block_lock", "fill"}
        PROVE  FillsAs(at[u].sub, at[u].index, master)'
    <3>1. at'[u] = at[u]
      BY <1>1, <1>2, <2>2
    <3> QED
      BY <1>4, <1>5, <2>2, <3>1 DEF CleanInv, FillsAs
  <2> QED
    BY <1>5, <2>1, <2>2 DEF CleanInv
<1>8. \A u \in Threads : at'[u].step # "put_ok"
  BY <1>1, <1>2, <1>3
<1> QED
  BY <1>6, <1>7, <1>8 DEF Clean, Saving

\* The local files stay what the namenode has, or is about to have.
LEMMA NextCurrent == TypeInv /\ LockInv /\ LinkInv /\ CurrentInv /\ [Next]_vars => CurrentInv'
<1> SUFFICES ASSUME TypeInv, LockInv, LinkInv, CurrentInv, [Next]_vars, Fresh'
             PROVE  InodeInv' /\ Clean' /\ Saving'
  BY DEF CurrentInv, Clean, Saving
<1>1. Fresh /\ InodeInv /\ Clean /\ Saving
  <2>1. Fresh
    BY FreshBefore
  <2> QED
    BY <2>1 DEF CurrentInv, Clean, Saving
<1>2. ASSUME NEW t \in Threads, Step(t) PROVE InodeInv' /\ Clean' /\ Saving'
  <2>1. CASE \/ \E mode \in Modes : Open(t, mode)
             \/ ReadLock(t) \/ WriteLock(t) \/ LockRemote(t) \/ Register(t)
             \/ \E i \in Indexes : ReadBegin(t, i)
             \/ BlockLock(t) \/ UnlockRemote(t) \/ UnlockPath(t)
             \/ ((Close(t) \/ Fsync(t)) /\ DOMAIN linked = {})
    <3>1. Quiet(t)
      BY <1>1, <1>2, <2>1, QuietSteps
    <3> QED
      BY <1>1, <3>1, QuietCurrent
  <2>2. CASE UpdateInode(t) \/ StoreInode(t)
    BY <1>1, <1>2, <2>2, OpenCurrent
  <2>3. CASE ReadFill(t)
    BY <1>1, <1>2, <2>3, FillCurrent
  <2>4. ASSUME NEW i \in Indexes, NEW toEnd \in BOOLEAN, WriteData(t, i, toEnd)
        PROVE  InodeInv' /\ Clean' /\ Saving'
    BY <1>1, <1>2, <2>4, WriteCurrent
  <2>5. CASE (Close(t) \/ Fsync(t)) /\ DOMAIN linked # {}
    BY <1>1, <1>2, <2>5, SaveCurrent
  <2>6. CASE PutOk(t)
    BY <1>1, <1>2, <2>6, PutOkCurrent
  <2>7. CASE Erase(t)
    BY <1>1, <1>2, <2>7, EraseCurrent
  <2>8. CASE Reinit(t)
    <3>1. UNCHANGED <<at, files, master>>
      BY <2>8 DEF Reinit, namenodes
    <3> QED
      BY <1>1, <3>1, StillCurrent
  <2> QED
    BY <1>2, <2>1, <2>2, <2>3, <2>4, <2>5, <2>6, <2>7, <2>8 DEF Step, Continue
<1>3. ASSUME RefreshBegin \/ RefreshPaths \/ RefreshCall \/ Replicate \/ UNCHANGED vars
      PROVE  InodeInv' /\ Clean' /\ Saving'
  <2>1. UNCHANGED <<at, files>>
    BY <1>3, OthersLeave DEF Environment
  <2>2. master' = master
    BY <1>3 DEF RefreshBegin, RefreshPaths, RefreshCall, Replicate, vars, namenodes
  <2> QED
    BY <1>1, <2>1, <2>2, StillCurrent
<1>4. ~Remove /\ \A i \in Indexes : ~OtherSaves(i)
  BY DEF Remove, OtherSaves, Fresh
<1> QED
  BY <1>2, <1>3, <1>4 DEF Next, Environment

-----------------------------------------------------------------------------
(* The theorems                                                            *)

\* Initially nobody is inside and nothing is kept.
LEMMA InitInv == Init => IInv
<1> SUFFICES ASSUME Init PROVE IInv
  OBVIOUS
<1>1. TypeInv
  BY InitType
<1>2. ASSUME NEW t \in Threads
      PROVE  at[t].step = "out" /\ at[t].wrote = {} /\ ~at[t].saved /\ ~at[t].opened /\ ~Inside(t)
  BY <1>2 DEF Init, Out, Inside
<1>3. LockInv
  <2>1. Readers = {} /\ rw.readers = 0 /\ \A t \in Threads : ~Writer(t)
    BY <1>2 DEF Init, Readers, Reader, Writer
  <2>2. IsFiniteSet(Readers) /\ Cardinality(Readers) = 0
    BY <2>1, FS_EmptySet
  <2>3. rw.writer = Nobody /\ ~kept
    BY DEF Init
  <2> QED
    BY <2>1, <2>2, <2>3 DEF LockInv
<1>4. RefreshInv
  BY <1>2 DEF RefreshInv, Writer
<1>5. WroteInv
  BY <1>2 DEF WroteInv, Entering, Working
<1>6. DOMAIN linked = {} /\ slave = master /\ inode = NoInode
  BY DEF Init
<1>7. LinkInv
  BY <1>2, <1>6 DEF LinkInv
<1>8. CurrentInv
  <2>1. InodeInv
    BY <1>2, <1>6 DEF InodeInv, Settled, Writer
  <2>2. \A t \in Threads : at[t].step \notin {"put_ok", "block_lock", "fill"}
    BY <1>2
  <2>3. CleanInv
    <3>1. \A i \in Indexes : cached[i] = << >>
      BY DEF Init
    <3>2. DOMAIN master = {1}
      BY DEF Init
    <3>3. \A i \in Indexes : EmptyOf(i, master) /\ HoldsOf(i, master)
      BY <1>6, <3>1, <3>2 DEF EmptyOf, HoldsOf
    <3> QED
      BY <1>6, <2>2, <3>3 DEF CleanInv
  <2> QED
    BY <2>1, <2>2, <2>3 DEF CurrentInv
<1> QED
  BY <1>1, <1>3, <1>4, <1>5, <1>7, <1>8 DEF IInv

\* The inductive invariant: the lock admits one writer or readers, and so the
\* sessions' links, local files and cached inode stay right.
THEOREM Invariance == Spec => []IInv
<1>1. IInv /\ [Next]_vars => IInv'
  BY NextType, NextLock, NextRefresh, NextWrote, NextLink, NextCurrent DEF IInv
<1> QED
  BY InitInv, <1>1, PTL DEF Spec

\* The variables have their types.
THEOREM TypeCorrect == Spec => []TypeOK
<1>1. TypeInv => TypeOK
  <2> SUFFICES ASSUME TypeInv PROVE TypeOK
    OBVIOUS
  <2>1. ASSUME NEW s \in Subs PROVE IsSub(s)
    <3>1. PICK n \in 0..Size : s \in [1..n -> Content]
      BY SubsDef
    <3> QED
      BY <3>1 DEF IsSub, Content, Piece
  <2>2. inode = NoInode \/ IsSub(inode)
    BY <2>1 DEF TypeInv, FileType
  <2>3. cached \in Blocks
    BY DEF TypeInv, FileType, Blocks, Content, Piece
  <2>4. DOMAIN linked \subseteq Indexes /\ \A i \in DOMAIN linked : linked[i] \in Seq(0..MaxWrites)
    BY DEF TypeInv, FileType, Content, Piece
  <2>5. \A nn \in {master, slave} : nn = Gone \/ IsSub(nn)
    BY <2>1 DEF TypeInv, NodeType
  <2>6. ASSUME NEW t \in Threads
        PROVE  /\ at[t].mode \in Modes \cup {"read"} /\ {at[t].closing, at[t].saved, at[t].opened} \subseteq BOOLEAN
               /\ at[t].step \in {"out", "lock", "lock_remote", "register", "update_inode", "store_inode",
                    "_truncate", "in", "block_lock", "fill", "put_ok", "erase", "unlock", "unlock_path"}
               /\ at[t].back \in {"out", "in", "unlock"} /\ at[t].index \in 0..Size
               /\ IsSub(at[t].sub) /\ at[t].stale \subseteq Indexes
               /\ at[t].wrote \subseteq Indexes \X (1..MaxWrites)
    <3>1. at[t] \in Thread
      BY DEF TypeInv, AtType
    <3>2. at[t].mode \in Modes \cup {"read"} /\ at[t].step \in Steps /\ at[t].back = "out"
      BY <3>1 DEF Thread
    <3>3. at[t].closing \in BOOLEAN /\ at[t].saved \in BOOLEAN /\ at[t].opened \in BOOLEAN
      BY <3>1 DEF Thread
    <3>4. at[t].index \in 0..Size /\ at[t].sub \in Subs /\ at[t].stale \subseteq Indexes
      BY <3>1 DEF Thread
    <3>5. at[t].wrote \subseteq Indexes \X (1..MaxWrites)
      BY <3>1 DEF Thread
    <3> QED
      BY <2>1, <3>2, <3>3, <3>4, <3>5 DEF Steps
  <2>7. LockType /\ RestType
    BY DEF TypeInv
  <2> QED
    BY <2>2, <2>3, <2>4, <2>5, <2>6, <2>7 DEF TypeOK, LockType, RestType
<1> QED
  BY Invariance, <1>1, PTL DEF IInv

\* A thread that has the file open for writing is alone with it.
THEOREM Exclusion == Spec => []SessionsExclude
<1>1. LockInv => SessionsExclude
  <2> SUFFICES ASSUME LockInv, NEW t \in Threads, NEW u \in Threads, t # u, Inside(t), Inside(u)
               PROVE  at[t].mode = "read" /\ at[u].mode = "read"
    BY DEF SessionsExclude
  <2>1. ~Writer(t)
    BY WriterAlone
  <2>2. ~Writer(u)
    BY WriterAlone
  <2> QED
    BY <2>1, <2>2 DEF Writer
<1> QED
  BY Invariance, <1>1, PTL DEF IInv

\* While a file is open for writing, the timer refreshes its lock.
THEOREM WritersRefreshed == Spec => []WritersAreRefreshed
<1>1. RefreshInv => WritersAreRefreshed
  BY DEF RefreshInv, WritersAreRefreshed, Writer, Inside, Entering
<1> QED
  BY Invariance, <1>1, PTL DEF IInv

\* The first save of a session sends every piece the session wrote.
THEOREM FirstSave == Spec => []FirstSaveIsComplete
<1>1. WroteInv => FirstSaveIsComplete
  BY DEF WroteInv, FirstSaveIsComplete, Has
<1> QED
  BY Invariance, <1>1, PTL DEF IInv

\* When nobody has the file open for writing, a local file that has content is
\* what the namenode has, as long as no save was refused and no open or save
\* used an old inode.
THEOREM CachedCurrent == Spec => []CachedBlocksCurrent
<1>1. LinkInv /\ CurrentInv => CachedBlocksCurrent
  <2> SUFFICES ASSUME LinkInv, CurrentInv, master # Gone, ~outdated, ~refused,
                      \A t \in Threads : Inside(t) => at[t].mode = "read",
                      NEW i \in Indexes, cached[i] # << >>
               PROVE  i \in DOMAIN master /\ cached[i] = master[i]
    BY DEF CachedBlocksCurrent
  <2>1. \A t \in Threads : ~Writer(t)
    BY DEF Writer
  <2>2. DOMAIN linked = {} /\ ~Dirty /\ \A t \in Threads : at[t].step # "put_ok"
    BY <2>1 DEF LinkInv, Dirty
  <2>3. CleanInv
    BY <2>2 DEF CurrentInv, Fresh
  <2> QED
    BY <2>2, <2>3 DEF CleanInv, HoldsOf
<1> QED
  BY Invariance, <1>1, PTL DEF IInv

\* When nobody has the file open, the path lock is free, unless a close left it
\* held; a failed truncate, which also leaves it held, is left out.
THEOREM ClosedFree == "truncate" \notin Modes => (Spec => []ClosedFileIsFree)
<1>1. ASSUME "truncate" \notin Modes, LockInv PROVE ClosedFileIsFree
  <2> SUFFICES ASSUME ~kept, \A t \in Threads : ~Inside(t) PROVE CanLock
    BY DEF ClosedFileIsFree
  <2>1. Readers = {} /\ \A t \in Threads : ~Writer(t)
    BY DEF Readers, Reader, Writer
  <2>2. rw.writer = Nobody
    BY <1>1, <2>1 DEF LockInv
  <2>3. rw.readers = 0
    BY <1>1, <2>1, FS_EmptySet DEF LockInv
  <2> QED
    BY <2>2, <2>3 DEF CanLock
<1>2. IInv => LockInv
  BY DEF IInv
<1>3. ASSUME "truncate" \notin Modes PROVE LockInv => ClosedFileIsFree
  BY <1>1, <1>3
<1>4. CASE "truncate" \notin Modes
  BY Invariance, <1>2, <1>3, <1>4, PTL
<1> QED
  BY <1>4
=============================================================================
