------------------------- MODULE ShardUploadProofs --------------------------
(***************************************************************************)
(* Proofs about module ShardUpload, for any datanodes, any storage type,   *)
(* any number of blocks and of faults.                                     *)
(*                                                                         *)
(* The upload: shards are named in order (SentInv), a shard is sent once,  *)
(* so what has been written is not written again (FreshInv), and within    *)
(* one round no datanode gets two shards of a block, because the rotation  *)
(* has not come round to it (PlaceInv).                                    *)
(*                                                                         *)
(* The faults: a fault spoils at most one datanode, so the datanodes that  *)
(* are spoiled, together with those the download of a block has missed,    *)
(* are no more than the faults (FaultInv).  Each shard the download did    *)
(* not get is on a datanode of its own; a block that comes out empty has   *)
(* more of those than the storage type has shards to spare.                *)
(***************************************************************************)
EXTENDS ShardUpload, FiniteSetTheorems, TLAPS

Placed == Nodes \X Shards

TypeInv ==
  /\ up \in [Nodes -> BOOLEAN]
  /\ disk \in [Nodes -> [Shards -> {"none", "part", "full"}]]
  /\ streams \subseteq Placed
  /\ nodes \in Seq(Nodes)
  /\ step \in {"discover", "put", "done", "broken"}
  /\ b \in 1..FileBlocks /\ i \in 1..getBlocks
  /\ node_index \in Nat /\ succ \in Nat /\ fail_count \in Nat
  /\ nodes_hashs \in Seq(Placed) /\ sub \in Seq(Seq(Placed))
  /\ tries \in Nat /\ one_round \in [1..FileBlocks -> BOOLEAN]
  /\ round \in Nat /\ gave_up \subseteq BOOLEAN
  /\ got \in Seq({"good", "bad", "empty"})
  /\ pos \in Nat \ {0} /\ datas \subseteq Placed /\ early \in BOOLEAN
  /\ faults \in Nat

\* Where the loop of the upload is.
LoopInv ==
  /\ Len(sub) <= FileBlocks
  /\ step \in {"discover", "put"} => b = Len(sub) + 1 /\ i = Len(nodes_hashs) + 1
  /\ step = "discover" => nodes_hashs = << >> /\ tries = 0
  /\ step = "put" => /\ Len(nodes) > 0 /\ node_index \in 0..(Len(nodes) - 1)
                     /\ tries <= Len(nodes)
  /\ step # "done" => got = << >> /\ pos = 1 /\ datas = {}

\* The shards of a block are listed in order, and all of them unless the loop
\* gave up.
SentInv ==
  /\ \A y \in 1..Len(nodes_hashs) : nodes_hashs[y][2] = <<b, y>>
  /\ \A x \in 1..Len(sub) : /\ sub[x] # << >> /\ Len(sub[x]) <= getBlocks
                            /\ \A y \in 1..Len(sub[x]) : sub[x][y][2] = <<x, y>>
  /\ gave_up = {} => \A x \in 1..Len(sub) : Len(sub[x]) = getBlocks

Before(s) == s[1] < b \/ (s[1] = b /\ s[2] < i)

\* What is on its way has not been written, and what has been sent or written
\* is not the shard that comes next nor a later one.
FreshInv ==
  /\ \A e \in streams : disk[e[1]][e[2]] = "none"
  /\ step \in {"discover", "put"} =>
       /\ \A e \in streams : Before(e[2])
       /\ \A d \in Nodes, s \in Shards : disk[d][s] # "none" => Before(s)

Spread(hashs) == \A y, z \in 1..Len(hashs) : y # z => hashs[y][1] # hashs[z][1]

\* In the block's first round the loop has been at the datanode of index j: the
\* last tries before node_index, counted round the end.
Visited(j) ==
  \/ (node_index <= j + tries /\ j < node_index)
  \/ Len(nodes) + node_index <= j + tries

\* The shards of a block that took one round are on different datanodes.
PlaceInv ==
  /\ \A x, y \in 1..Len(nodes) : x # y => nodes[x] # nodes[y]
  /\ (step = "put" /\ one_round[b]) =>
       /\ Spread(nodes_hashs)
       /\ \A y \in 1..Len(nodes_hashs) :
            \E j \in 0..(Len(nodes) - 1) : Visited(j) /\ nodes_hashs[y][1] = nodes[j + 1]
  /\ \A x \in 1..Len(sub) : one_round[x] => Spread(sub[x])

\* With encode_one_block, fail_count counts the failures of the round.
RoundInv ==
  PerBlock => /\ GivesUpWhenAllFail
              /\ (step = "put" /\ ~check(succ)) => fail_count = round

\* Where the download is, and that what it has is what was stored.
ReadInv ==
  /\ Len(got) <= Len(sub)
  /\ Len(got) < Len(sub) => pos <= Len(sub[Len(got) + 1])
  /\ Len(got) = Len(sub) => pos = 1
  /\ \A e \in datas : /\ disk[e[1]][e[2]] = "full"
                      /\ \E y \in 1..(pos - 1) : e = sub[Len(got) + 1][y]
  /\ IsFiniteSet(datas) /\ Cardinality(datas) < getDecodeBlocks
  /\ ReadIsGenuine

Sent(e) ==
  \/ \E y \in 1..Len(nodes_hashs) : nodes_hashs[y] = e
  \/ \E x \in 1..Len(sub) : \E y \in 1..Len(sub[x]) : sub[x][y] = e

\* The datanode is down, or a shard sent to it is lost.
Spoiled(d) ==
  \/ ~up[d]
  \/ \E s \in Shards : Sent(<<d, s>>) /\ <<d, s>> \notin streams /\ disk[d][s] # "full"

\* The datanodes that the download of the block had nothing from.
Missed ==
  {d \in Nodes : \E y \in 1..(pos - 1) : /\ sub[Len(got) + 1][y] \notin datas
                                         /\ d = sub[Len(got) + 1][y][1]}

Trouble == {d \in Nodes : Spoiled(d) \/ d \in Missed}

\* No more datanodes are in trouble than there were faults, and each shard that
\* the download did not get is on another one.
FaultInv ==
  /\ ~early => Cardinality(Trouble) <= faults
  /\ (Len(got) < Len(sub) /\ one_round[Len(got) + 1]) =>
       pos <= Cardinality(datas) + Cardinality(Missed) + 1
  /\ ToleratesFaults

\* The inductive invariant.
UploadInv == TypeInv /\ LoopInv /\ SentInv /\ FreshInv /\ PlaceInv /\ RoundInv
IInv == UploadInv /\ ReadInv /\ FaultInv

-----------------------------------------------------------------------------

\* What the proofs use of the constants: there are shards, as many as are needed
\* or more, the datanodes are finitely many, and a shard more does no harm.
LEMMA Constants ==
  /\ getBlocks \in Nat \ {0} /\ getDecodeBlocks \in 1..getBlocks
  /\ FileBlocks \in Nat \ {0} /\ PerBlock \in BOOLEAN /\ MaxFaults \in Nat
  /\ \A n \in Nat : check(n) => check(n + 1)
  /\ IsFiniteSet(Nodes)
<1>1. StorageType.k \in Nat \ {0} /\ StorageType.m \in Nat
  BY ShardAssumption
<1>2. getBlocks \in Nat \ {0} /\ getDecodeBlocks \in 1..getBlocks
  BY <1>1 DEF getBlocks, getDecodeBlocks
<1>3. \A n \in Nat : check(n) => check(n + 1)
  BY <1>1 DEF check
<1>4. IsFiniteSet(Nodes)
  <2> DEFINE D == 1..Len(Datanodes)
             f == [x \in D |-> Datanodes[x]]
  <2>1. Datanodes \in Seq(Nodes) /\ Len(Datanodes) \in Nat /\ DOMAIN Datanodes = D
    BY ShardAssumption
  <2>2. IsFiniteSet(D)
    BY <2>1, FS_Interval
  <2>3. f \in Surjection(D, Nodes)
    BY <2>1 DEF Surjection, Nodes
  <2> QED
    BY <2>2, <2>3, FS_Surjection
<1> QED
  BY <1>2, <1>3, <1>4, ShardAssumption

\* The rotation: one further, and from the last to the first.
LEMMA Rotation ==
  ASSUME NEW L \in Nat, NEW n \in 0..(L - 1)
  PROVE  (n + 1) % L = IF n + 1 = L THEN 0 ELSE n + 1
<1>1. CASE n + 1 = L
  BY <1>1
<1>2. CASE n + 1 < L
  BY <1>2
<1> QED
  BY <1>1, <1>2

\* One pass of the loop body, whichever way the put goes.
Body(n, failed, hashs) ==
  LET d == nodes[node_index + 1]
  IN  /\ step = "put" /\ EndOfBody(n, failed, hashs) /\ disk' = disk
      /\ \/ /\ ~up[d] /\ n = succ /\ failed = fail_count + 1
            /\ hashs = nodes_hashs /\ streams' = streams
         \/ /\ up[d] /\ n = succ + 1 /\ failed = fail_count
            /\ hashs = Append(nodes_hashs, <<d, <<b, i>>>>)
            /\ streams' = streams \cup {<<d, <<b, i>>>>}

\* A put is a pass of the loop body.
LEMMA PutIsBody ==
  ASSUME PutSucceeds \/ PutFails
  PROVE  \E n, failed, hashs : Body(n, failed, hashs)
<1>1. CASE PutSucceeds
  <2> DEFINE h == Append(nodes_hashs, <<nodes[node_index + 1], <<b, i>>>>)
  <2>1. Body(succ + 1, fail_count, h)
    BY <1>1 DEF PutSucceeds, Body
  <2> QED
    BY <2>1
<1>2. CASE PutFails
  <2>1. Body(succ, fail_count + 1, nodes_hashs)
    BY <1>2 DEF PutFails, Body
  <2> QED
    BY <2>1
<1> QED
  BY <1>1, <1>2

\* The block goes on with hashs.
GoesOn(hashs) ==
  /\ Len(hashs) < getBlocks /\ step' = "put" /\ b' = b /\ sub' = sub
  /\ nodes_hashs' = hashs /\ i' = Len(hashs) + 1 /\ gave_up' = gave_up
  /\ tries' = IF tries = Len(nodes) THEN tries ELSE tries + 1

\* The block ends without any shard.
EndsEmpty(hashs) ==
  /\ hashs = << >> /\ step' = "broken" /\ b' = b /\ sub' = sub
  /\ nodes_hashs' = << >> /\ i' = 1 /\ tries' = 0

\* The block ends with hashs.
EndsWith(hashs) ==
  /\ hashs # << >> /\ sub' = Append(sub, hashs)
  /\ nodes_hashs' = << >> /\ i' = 1 /\ tries' = 0
  /\ \/ b = FileBlocks /\ b' = b /\ step' = "done"
     \/ b < FileBlocks /\ b' = b + 1 /\ step' = IF PerBlock THEN "discover" ELSE "put"
  /\ gave_up' = {} => Len(hashs) = getBlocks

\* What a pass of the loop body works with.
LEMMA BodyInput ==
  ASSUME UploadInv, NEW n, NEW failed, NEW hashs, Body(n, failed, hashs)
  PROVE  /\ n \in Nat /\ failed \in Nat /\ hashs \in Seq(Placed)
         /\ Len(hashs) \in Nat /\ Len(hashs) <= getBlocks
         /\ Len(nodes) \in Nat \ {0} /\ nodes[node_index + 1] \in Nodes
         /\ <<b, i>> \in Shards
         /\ Len(nodes_hashs) \in Nat /\ i = Len(nodes_hashs) + 1
         /\ Len(sub) \in Nat /\ b = Len(sub) + 1
         /\ \A y \in 1..Len(hashs) : hashs[y][2] = <<b, y>>
<1> DEFINE d == nodes[node_index + 1]
           e == <<d, <<b, i>>>>
<1> USE DEF UploadInv
<1>1. /\ step = "put" /\ nodes \in Seq(Nodes) /\ nodes_hashs \in Seq(Placed)
      /\ i \in 1..getBlocks /\ b \in 1..FileBlocks /\ sub \in Seq(Seq(Placed))
      /\ succ \in Nat /\ fail_count \in Nat
  BY DEF Body, TypeInv
<1>2. getBlocks \in Nat /\ FileBlocks \in Nat
  BY Constants
<1>3. /\ Len(nodes) > 0 /\ node_index \in 0..(Len(nodes) - 1)
      /\ b = Len(sub) + 1 /\ i = Len(nodes_hashs) + 1
  BY <1>1 DEF LoopInv
<1>4. Len(nodes) \in Nat /\ Len(nodes_hashs) \in Nat /\ Len(sub) \in Nat
  BY <1>1
<1>5. node_index + 1 \in 1..Len(nodes)
  BY <1>3, <1>4
<1>6. d \in Nodes
  BY <1>1, <1>5
<1>7. <<b, i>> \in Shards
  BY <1>1 DEF Shards
<1>8. e \in Placed
  BY <1>6, <1>7 DEF Placed
<1>9. \A y \in 1..Len(nodes_hashs) : nodes_hashs[y][2] = <<b, y>>
  BY DEF SentInv
<1>10. n \in Nat /\ failed \in Nat
  BY <1>1 DEF Body
<1>11. CASE hashs = nodes_hashs
  BY <1>1, <1>2, <1>3, <1>4, <1>6, <1>7, <1>9, <1>10, <1>11
<1>12. CASE hashs = Append(nodes_hashs, e)
  <2> HIDE DEF e
  <2>1. hashs \in Seq(Placed) /\ Len(hashs) = Len(nodes_hashs) + 1
    BY <1>1, <1>8, <1>12
  <2>2. \A y \in 1..Len(nodes_hashs) : hashs[y] = nodes_hashs[y]
    BY <1>1, <1>8, <1>12
  <2>3. hashs[Len(nodes_hashs) + 1] = e
    BY <1>1, <1>8, <1>12
  <2>4. e[2] = <<b, i>>
    BY DEF e
  <2>5. \A y \in 1..Len(hashs) : y \in 1..Len(nodes_hashs) \/ y = Len(nodes_hashs) + 1
    BY <2>1, <1>4
  <2>6. \A y \in 1..Len(hashs) : hashs[y][2] = <<b, y>>
    BY <2>2, <2>3, <2>4, <2>5, <1>9, <1>3
  <2> QED
    BY <1>1, <1>2, <1>3, <1>4, <1>6, <1>7, <1>10, <2>1, <2>6
<1>13. hashs = nodes_hashs \/ hashs = Append(nodes_hashs, e)
  BY DEF Body
<1> QED
  BY <1>11, <1>12, <1>13

\* What a pass of the loop body does: the block goes on or ends.
LEMMA BodyEffect ==
  ASSUME UploadInv, NEW n, NEW failed, NEW hashs, Body(n, failed, hashs)
  PROVE  /\ GoesOn(hashs) \/ EndsEmpty(hashs) \/ EndsWith(hashs)
         /\ node_index' = IF node_index + 1 = Len(nodes) THEN 0 ELSE node_index + 1
         /\ succ' = n
         /\ one_round' = [one_round EXCEPT ![b] = @ /\ tries < Len(nodes)]
         /\ UNCHANGED <<nodes, up, disk, get, faults>>
<1> DEFINE gives_up == /\ node_index + 1 = Len(nodes) /\ ~check(n) /\ failed = Len(nodes)
           fails == round + (failed - fail_count)
<1>1. /\ gives_up \/ Len(hashs) = getBlocks => NextBlock(hashs)
      /\ ~(gives_up \/ Len(hashs) = getBlocks) =>
           /\ i' = Len(hashs) + 1 /\ nodes_hashs' = hashs
           /\ tries' = IF tries = Len(nodes) THEN tries ELSE tries + 1
           /\ b' = b /\ sub' = sub /\ step' = step
      /\ gave_up' = IF gives_up THEN gave_up \cup {fails = Len(nodes)} ELSE gave_up
  BY DEF Body, EndOfBody
<1>2. /\ node_index' = NextNode /\ succ' = n
      /\ one_round' = [one_round EXCEPT ![b] = @ /\ tries < Len(nodes)]
      /\ UNCHANGED <<nodes, up, disk, get, faults>>
  BY DEF Body, EndOfBody
<1>3. NextNode = IF node_index + 1 = Len(nodes) THEN 0 ELSE node_index + 1
  <2>1. Len(nodes) \in Nat /\ node_index \in 0..(Len(nodes) - 1)
    BY BodyInput DEF Body, UploadInv, LoopInv
  <2> QED
    BY <2>1, Rotation DEF NextNode
<1>4. /\ Len(hashs) \in Nat /\ Len(hashs) <= getBlocks /\ getBlocks \in Nat
      /\ step = "put" /\ b \in 1..FileBlocks /\ FileBlocks \in Nat
  BY BodyInput, Constants DEF Body, UploadInv, TypeInv
<1>5. CASE ~(gives_up \/ Len(hashs) = getBlocks)
  <2>1. Len(hashs) < getBlocks
    BY <1>4, <1>5
  <2>2. GoesOn(hashs)
    BY <1>1, <1>4, <1>5, <2>1 DEF GoesOn
  <2> QED
    BY <2>2, <1>2, <1>3
<1>6. CASE gives_up \/ Len(hashs) = getBlocks
  <2>1. NextBlock(hashs)
    BY <1>1, <1>6
  <2>2. CASE hashs = << >>
    <3>1. EndsEmpty(hashs)
      BY <2>1, <2>2 DEF NextBlock, EndsEmpty
    <3> QED
      BY <3>1, <1>2, <1>3
  <2>3. CASE hashs # << >>
    <3>1. gave_up' = {} => Len(hashs) = getBlocks
      <4>1. gives_up => gave_up' # {}
        BY <1>1
      <4> QED
        BY <4>1, <1>6
    <3>2. b = FileBlocks \/ b < FileBlocks
      BY <1>4
    <3>3. EndsWith(hashs)
      BY <2>1, <2>3, <3>1, <3>2, <1>4 DEF NextBlock, EndsWith
    <3> QED
      BY <3>3, <1>2, <1>3
  <2> QED
    BY <2>2, <2>3
<1> QED
  BY <1>5, <1>6

-----------------------------------------------------------------------------
(* The upload                                                              *)

\* Appending a block to those that are through.
LEMMA SubGrows ==
  ASSUME UploadInv, NEW n, NEW failed, NEW hashs, Body(n, failed, hashs), EndsWith(hashs)
  PROVE  /\ sub' \in Seq(Seq(Placed)) /\ Len(sub') = Len(sub) + 1
         /\ \A x \in 1..Len(sub) : sub'[x] = sub[x]
         /\ sub'[b] = hashs
         /\ \A x \in 1..Len(sub') : x \in 1..Len(sub) \/ x = b
<1>1. sub \in Seq(Seq(Placed)) /\ hashs \in Seq(Placed) /\ b = Len(sub) + 1
  BY BodyInput DEF UploadInv, TypeInv
<1>2. sub' = Append(sub, hashs)
  BY DEF EndsWith
<1>3. sub' \in Seq(Seq(Placed)) /\ Len(sub') = Len(sub) + 1 /\ Len(sub) \in Nat
  BY <1>1, <1>2
<1>4. \A x \in 1..Len(sub) : sub'[x] = sub[x]
  BY <1>1, <1>2
<1>5. sub'[Len(sub) + 1] = hashs
  BY <1>1, <1>2
<1>6. \A x \in 1..Len(sub') : x \in 1..Len(sub) \/ x = Len(sub) + 1
  BY <1>3
<1> QED
  BY <1>1, <1>3, <1>4, <1>5, <1>6

\* A pass of the loop body leaves every variable of its type.
LEMMA BodyType ==
  ASSUME UploadInv, NEW n, NEW failed, NEW hashs, Body(n, failed, hashs)
  PROVE  TypeInv'
<1>1. TypeInv
  BY DEF UploadInv
<1>2. /\ GoesOn(hashs) \/ EndsEmpty(hashs) \/ EndsWith(hashs)
      /\ node_index' = IF node_index + 1 = Len(nodes) THEN 0 ELSE node_index + 1
      /\ succ' = n
      /\ one_round' = [one_round EXCEPT ![b] = @ /\ tries < Len(nodes)]
      /\ UNCHANGED <<nodes, up, disk, get, faults>>
  BY BodyEffect
<1>3. /\ n \in Nat /\ failed \in Nat /\ hashs \in Seq(Placed) /\ Len(hashs) \in Nat
      /\ Len(nodes) \in Nat \ {0} /\ nodes[node_index + 1] \in Nodes /\ <<b, i>> \in Shards
  BY BodyInput
<1>4. /\ getBlocks \in Nat \ {0} /\ FileBlocks \in Nat \ {0}
  BY Constants
<1>5. /\ up' \in [Nodes -> BOOLEAN]
      /\ disk' \in [Nodes -> [Shards -> {"none", "part", "full"}]]
      /\ nodes' \in Seq(Nodes)
      /\ got' \in Seq({"good", "bad", "empty"})
      /\ pos' \in Nat \ {0} /\ datas' \subseteq Placed /\ early' \in BOOLEAN
      /\ faults' \in Nat
  BY <1>1, <1>2 DEF TypeInv, get
<1>6. streams' \subseteq Placed
  <2> DEFINE e == <<nodes[node_index + 1], <<b, i>>>>
  <2>1. e \in Placed
    BY <1>3 DEF Placed
  <2>2. streams' = streams \/ streams' = streams \cup {e}
    BY DEF Body
  <2>3. streams \subseteq Placed
    BY <1>1 DEF TypeInv
  <2> QED
    BY <2>1, <2>2, <2>3
<1>7. node_index' \in Nat /\ succ' \in Nat
  BY <1>1, <1>2, <1>3 DEF TypeInv
<1>8. one_round' \in [1..FileBlocks -> BOOLEAN]
  BY <1>1, <1>2 DEF TypeInv
<1>9. fail_count' \in Nat /\ round' \in Nat /\ gave_up' \subseteq BOOLEAN
  <2> DEFINE wraps == node_index + 1 = Len(nodes)
             insecure == wraps /\ ~check(n)
             gives_up == insecure /\ failed = Len(nodes)
             fails == round + (failed - fail_count)
  <2>1. /\ fail_count' = IF insecure /\ ~gives_up THEN 0 ELSE Capped(failed)
        /\ round' = IF wraps THEN 0 ELSE Capped(fails)
        /\ gave_up' = IF gives_up THEN gave_up \cup {fails = Len(nodes)} ELSE gave_up
    BY DEF Body, EndOfBody
  <2>2. failed = fail_count \/ failed = fail_count + 1
    BY DEF Body
  <2>3. fails \in Nat
    BY <1>1, <2>2 DEF TypeInv
  <2>4. Capped(failed) \in Nat /\ Capped(fails) \in Nat
    BY <1>3, <2>3 DEF Capped
  <2>5. fail_count' \in Nat /\ round' \in Nat
    BY <2>1, <2>4
  <2>6. (fails = Len(nodes)) \in BOOLEAN
    OBVIOUS
  <2>7. gave_up' \subseteq BOOLEAN
    BY <2>1, <2>6, <1>1, Zenon DEF TypeInv
  <2> QED
    BY <2>5, <2>7
<1>10. /\ step' \in {"discover", "put", "done", "broken"}
       /\ b' \in 1..FileBlocks /\ i' \in 1..getBlocks
       /\ nodes_hashs' \in Seq(Placed) /\ sub' \in Seq(Seq(Placed))
       /\ tries' \in Nat
  <2>1. CASE GoesOn(hashs)
    <3>1. i' \in 1..getBlocks
      BY <1>3, <1>4, <2>1 DEF GoesOn
    <3> QED
      BY <1>1, <1>3, <2>1, <3>1 DEF GoesOn, TypeInv
  <2>2. CASE EndsEmpty(hashs)
    BY <1>1, <1>3, <1>4, <2>2 DEF EndsEmpty, TypeInv
  <2>3. CASE EndsWith(hashs)
    <3>1. sub' \in Seq(Seq(Placed))
      BY <2>3, SubGrows
    <3>2. b' \in 1..FileBlocks /\ i' \in 1..getBlocks
      BY <1>1, <1>4, <2>3 DEF EndsWith, TypeInv
    <3>3. nodes_hashs' \in Seq(Placed)
      BY <2>3 DEF EndsWith
    <3> QED
      BY <2>3, <3>1, <3>2, <3>3 DEF EndsWith
  <2> QED
    BY <1>2, <2>1, <2>2, <2>3
<1> QED
  BY <1>5, <1>6, <1>7, <1>8, <1>9, <1>10 DEF TypeInv

\* A pass of the loop body keeps the loop's bounds.
LEMMA BodyLoop ==
  ASSUME UploadInv, NEW n, NEW failed, NEW hashs, Body(n, failed, hashs)
  PROVE  LoopInv'
<1>1. TypeInv /\ LoopInv /\ step = "put"
  BY DEF UploadInv, Body
<1>2. /\ GoesOn(hashs) \/ EndsEmpty(hashs) \/ EndsWith(hashs)
      /\ node_index' = IF node_index + 1 = Len(nodes) THEN 0 ELSE node_index + 1
      /\ UNCHANGED <<nodes, get>>
  BY BodyEffect
<1>3. /\ Len(nodes) \in Nat \ {0} /\ Len(sub) \in Nat /\ b = Len(sub) + 1
      /\ Len(hashs) \in Nat /\ b \in 1..FileBlocks /\ FileBlocks \in Nat
  BY BodyInput, Constants, <1>1 DEF TypeInv
<1>4. Len(nodes') > 0 /\ node_index' \in 0..(Len(nodes') - 1)
  BY <1>1, <1>2, <1>3 DEF LoopInv
<1>5. got' = << >> /\ pos' = 1 /\ datas' = {}
  BY <1>1, <1>2 DEF LoopInv, get
<1>6. CASE GoesOn(hashs)
  <2>1. tries' <= Len(nodes')
    BY <1>1, <1>2, <1>3, <1>6 DEF GoesOn, LoopInv, TypeInv
  <2> QED
    BY <1>1, <1>3, <1>4, <1>5, <1>6, <2>1 DEF GoesOn, LoopInv
<1>7. CASE EndsEmpty(hashs)
  BY <1>1, <1>5, <1>7 DEF EndsEmpty, LoopInv
<1>8. CASE EndsWith(hashs)
  <2>1. Len(sub') = Len(sub) + 1
    BY <1>8, SubGrows
  <2>2. Len(sub') <= FileBlocks
    BY <2>1, <1>3
  <2>3. tries' <= Len(nodes') /\ tries' = 0
    BY <1>2, <1>3, <1>8 DEF EndsWith
  <2>4. nodes_hashs' = << >> /\ i' = Len(nodes_hashs') + 1
    BY <1>8 DEF EndsWith
  <2>5. step' # "done" => b' = Len(sub') + 1
    BY <1>3, <1>8, <2>1 DEF EndsWith
  <2> QED
    BY <1>4, <1>5, <2>2, <2>3, <2>4, <2>5 DEF LoopInv
<1> QED
  BY <1>2, <1>6, <1>7, <1>8

\* A pass of the loop body lists shards in order.
LEMMA BodySent ==
  ASSUME UploadInv, NEW n, NEW failed, NEW hashs, Body(n, failed, hashs)
  PROVE  SentInv'
<1>1. SentInv
  BY DEF UploadInv
<1>2. GoesOn(hashs) \/ EndsEmpty(hashs) \/ EndsWith(hashs)
  BY BodyEffect
<1>3. /\ Len(hashs) <= getBlocks
      /\ \A y \in 1..Len(hashs) : hashs[y][2] = <<b, y>>
  BY BodyInput
<1>4. gave_up \subseteq gave_up'
  BY DEF Body, EndOfBody
<1>5. CASE GoesOn(hashs)
  BY <1>1, <1>3, <1>5 DEF GoesOn, SentInv
<1>6. CASE EndsEmpty(hashs)
  <2>1. 1..Len(nodes_hashs') = {}
    BY <1>6 DEF EndsEmpty
  <2> QED
    BY <1>1, <1>4, <1>6, <2>1 DEF EndsEmpty, SentInv
<1>7. CASE EndsWith(hashs)
  <2>1. 1..Len(nodes_hashs') = {}
    BY <1>7 DEF EndsWith
  <2>2. /\ \A x \in 1..Len(sub) : sub'[x] = sub[x]
        /\ sub'[b] = hashs
        /\ \A x \in 1..Len(sub') : x \in 1..Len(sub) \/ x = b
    BY <1>7, SubGrows
  <2>3. \A x \in 1..Len(sub') : /\ sub'[x] # << >> /\ Len(sub'[x]) <= getBlocks
                                /\ \A y \in 1..Len(sub'[x]) : sub'[x][y][2] = <<x, y>>
    BY <1>1, <1>3, <1>7, <2>2 DEF EndsWith, SentInv
  <2>4. gave_up' = {} => \A x \in 1..Len(sub') : Len(sub'[x]) = getBlocks
    BY <1>1, <1>4, <1>7, <2>2 DEF EndsWith, SentInv
  <2> QED
    BY <2>1, <2>3, <2>4 DEF SentInv
<1> QED
  BY <1>2, <1>5, <1>6, <1>7

\* A pass of the loop body sends a shard that was neither sent nor written, and
\* goes on behind it.
LEMMA BodyFresh ==
  ASSUME UploadInv, NEW n, NEW failed, NEW hashs, Body(n, failed, hashs)
  PROVE  FreshInv'
<1> DEFINE d == nodes[node_index + 1]
           e == <<d, <<b, i>>>>
<1>1. TypeInv /\ FreshInv /\ step = "put"
  BY DEF UploadInv, Body
<1>2. GoesOn(hashs) \/ EndsEmpty(hashs) \/ EndsWith(hashs)
  BY BodyEffect
<1>3. /\ d \in Nodes /\ <<b, i>> \in Shards
      /\ Len(nodes_hashs) \in Nat /\ i = Len(nodes_hashs) + 1
      /\ getBlocks \in Nat /\ FileBlocks \in Nat
  BY BodyInput, Constants
<1>4. b \in Nat /\ i \in Nat
  BY <1>1, <1>3 DEF TypeInv
<1>5. \A x \in streams : x[2] \in Shards /\ Before(x[2])
  BY <1>1 DEF FreshInv, TypeInv, Placed
<1>6. \A c \in Nodes, s \in Shards : disk[c][s] # "none" => Before(s)
  BY <1>1 DEF FreshInv
<1>7. \A s \in Shards : s[1] \in Nat /\ s[2] \in Nat /\ s[2] <= getBlocks
  BY <1>3 DEF Shards
<1>8. disk[d][<<b, i>>] = "none"
  <2>1. ~Before(<<b, i>>)
    BY <1>4 DEF Before
  <2> QED
    BY <2>1, <1>3, <1>6
<1>9. disk' = disk
  BY DEF Body
<1>10. (hashs = nodes_hashs /\ streams' = streams)
       \/ (hashs = Append(nodes_hashs, e) /\ streams' = streams \cup {e})
  BY DEF Body
<1>11. \A x \in streams' : disk'[x[1]][x[2]] = "none"
  <2>1. \A x \in streams : disk[x[1]][x[2]] = "none"
    BY <1>1 DEF FreshInv
  <2>2. e[1] = d /\ e[2] = <<b, i>>
    OBVIOUS
  <2> HIDE DEF e
  <2> QED
    BY <2>1, <2>2, <1>8, <1>9, <1>10
<1> DEFINE Up(s) == Before(s) \/ (s = <<b, i>> /\ streams' = streams \cup {e}
                                  /\ hashs = Append(nodes_hashs, e))
<1>12. /\ \A x \in streams' : x[2] \in Shards /\ Up(x[2])
       /\ \A c \in Nodes, s \in Shards : disk'[c][s] # "none" => Up(s)
  <2>1. e[2] = <<b, i>>
    OBVIOUS
  <2>2. \A x \in streams' : x \in streams \/ (x = e /\ streams' = streams \cup {e}
                                              /\ hashs = Append(nodes_hashs, e))
    BY <1>10
  <2> HIDE DEF e
  <2> QED
    BY <2>1, <2>2, <1>3, <1>5, <1>6, <1>9
<1>13. step' \in {"discover", "put"} => \A s \in Shards : Up(s) => Before(s)'
  <2> SUFFICES ASSUME step' \in {"discover", "put"}, NEW s \in Shards, Up(s)
               PROVE  Before(s)'
    OBVIOUS
  <2>1. CASE GoesOn(hashs)
    <3>1. b' = b /\ i' = Len(hashs) + 1
      BY <2>1 DEF GoesOn
    <3>2. Len(hashs) = Len(nodes_hashs) \/ Len(hashs) = Len(nodes_hashs) + 1
      <4>1. nodes_hashs \in Seq(Placed) /\ e \in Placed
        BY <1>1, <1>3 DEF TypeInv, Placed
      <4> HIDE DEF e
      <4> QED
        BY <4>1, <1>10
    <3>3. CASE Before(s)
      BY <3>1, <3>2, <3>3, <1>3, <1>4, <1>7 DEF Before
    <3>4. CASE s = <<b, i>> /\ hashs = Append(nodes_hashs, e)
      <4>1. nodes_hashs \in Seq(Placed) /\ e \in Placed
        BY <1>1, <1>3 DEF TypeInv, Placed
      <4>2. Len(hashs) = Len(nodes_hashs) + 1
        <5> HIDE DEF e
        <5> QED
          BY <4>1, <3>4
      <4> QED
        BY <3>1, <3>4, <4>2, <1>3, <1>4 DEF Before
    <3> QED
      BY <3>3, <3>4
  <2>2. CASE EndsEmpty(hashs)
    BY <2>2 DEF EndsEmpty
  <2>3. CASE EndsWith(hashs)
    <3>1. b' = b + 1
      BY <2>3 DEF EndsWith
    <3>2. s[1] <= b /\ s[1] \in Nat
      BY <1>4, <1>7 DEF Before
    <3> QED
      BY <3>1, <3>2, <1>4 DEF Before
  <2> QED
    BY <1>2, <2>1, <2>2, <2>3
<1> HIDE DEF Up
<1>14. step' \in {"discover", "put"} =>
         /\ \A x \in streams' : Before(x[2])'
         /\ \A c \in Nodes, s \in Shards : disk'[c][s] # "none" => Before(s)'
  BY <1>12, <1>13
<1> QED
  BY <1>11, <1>14 DEF FreshInv

\* Within a round the rotation does not come to the same datanode twice.
LEMMA BodyPlace ==
  ASSUME UploadInv, NEW n, NEW failed, NEW hashs, Body(n, failed, hashs)
  PROVE  PlaceInv'
<1> DEFINE d == nodes[node_index + 1]
           e == <<d, <<b, i>>>>
           L == Len(nodes)
           J == 0..(L - 1)
<1>1. TypeInv /\ LoopInv /\ PlaceInv /\ step = "put"
  BY DEF UploadInv, Body
<1>2. /\ GoesOn(hashs) \/ EndsEmpty(hashs) \/ EndsWith(hashs)
      /\ node_index' = IF node_index + 1 = L THEN 0 ELSE node_index + 1
      /\ one_round' = [one_round EXCEPT ![b] = @ /\ tries < L]
      /\ nodes' = nodes
  BY BodyEffect
<1>3. /\ L \in Nat \ {0} /\ node_index \in J /\ tries \in Nat /\ tries <= L
      /\ Len(sub) \in Nat /\ b = Len(sub) + 1 /\ b \in 1..FileBlocks
      /\ Len(nodes_hashs) \in Nat /\ nodes_hashs \in Seq(Placed) /\ e \in Placed
      /\ one_round \in [1..FileBlocks -> BOOLEAN]
      /\ FileBlocks \in Nat /\ Len(sub) <= FileBlocks
  BY <1>1, BodyInput, Constants DEF TypeInv, LoopInv, Placed
<1>4. \A x, y \in 1..L : x # y => nodes[x] # nodes[y]
  BY <1>1 DEF PlaceInv
<1>5. \A x \in 1..Len(sub) : one_round'[x] = one_round[x]
  BY <1>2, <1>3
<1>6. one_round'[b] => one_round[b] /\ tries < L
  BY <1>2, <1>3
<1>7. hashs = nodes_hashs \/ hashs = Append(nodes_hashs, e)
  BY DEF Body
<1> DEFINE At(h, j) == h[1] = nodes[j + 1]
           Seen(j) == Visited(j) \/ j = node_index
<1>8. ASSUME one_round'[b]
      PROVE  /\ Spread(hashs)
             /\ \A y \in 1..Len(hashs) : \E j \in J : Seen(j) /\ At(hashs[y], j)
  <2>1. /\ Spread(nodes_hashs)
        /\ \A y \in 1..Len(nodes_hashs) : \E j \in J : Visited(j) /\ At(nodes_hashs[y], j)
    BY <1>1, <1>6, <1>8 DEF PlaceInv
  <2>2. CASE hashs = nodes_hashs
    BY <2>1, <2>2
  <2>3. CASE hashs = Append(nodes_hashs, e)
    <3>1. e[1] = d
      OBVIOUS
    <3> HIDE DEF e
    <3>2. /\ \A y \in 1..Len(nodes_hashs) : hashs[y] = nodes_hashs[y]
          /\ hashs[Len(nodes_hashs) + 1] = e
          /\ Len(hashs) = Len(nodes_hashs) + 1
      BY <1>3, <2>3
    <3>3. \A y \in 1..Len(hashs) : y \in 1..Len(nodes_hashs) \/ y = Len(nodes_hashs) + 1
      BY <1>3, <3>2
    <3>4. ~Visited(node_index)
      BY <1>3, <1>6, <1>8 DEF Visited
    <3>5. \A y \in 1..Len(nodes_hashs) : nodes_hashs[y][1] # d
      <4> TAKE y \in 1..Len(nodes_hashs)
      <4>1. PICK j \in J : Visited(j) /\ At(nodes_hashs[y], j)
        BY <2>1
      <4>2. j # node_index
        BY <3>4, <4>1
      <4>3. j + 1 \in 1..L /\ node_index + 1 \in 1..L /\ j + 1 # node_index + 1
        BY <1>3, <4>2
      <4> QED
        BY <1>4, <4>1, <4>3
    <3>6. Spread(hashs)
      <4>1. ASSUME NEW y \in 1..Len(hashs), NEW z \in 1..Len(hashs), y # z
            PROVE  hashs[y][1] # hashs[z][1]
        <5>1. CASE y \in 1..Len(nodes_hashs) /\ z \in 1..Len(nodes_hashs)
          BY <2>1, <3>2, <4>1, <5>1 DEF Spread
        <5>2. CASE y \in 1..Len(nodes_hashs) /\ z = Len(nodes_hashs) + 1
          BY <3>1, <3>2, <3>5, <5>2
        <5>3. CASE z \in 1..Len(nodes_hashs) /\ y = Len(nodes_hashs) + 1
          BY <3>1, <3>2, <3>5, <5>3
        <5> QED
          BY <3>3, <4>1, <5>1, <5>2, <5>3
      <4> QED
        BY <4>1 DEF Spread
    <3>7. \A y \in 1..Len(hashs) : \E j \in J : Seen(j) /\ At(hashs[y], j)
      <4>1. At(hashs[Len(nodes_hashs) + 1], node_index)
        BY <3>1, <3>2
      <4> HIDE DEF At
      <4> QED
        BY <1>3, <2>1, <3>2, <3>3, <4>1
    <3> QED
      BY <3>6, <3>7
  <2> QED
    BY <1>7, <2>2, <2>3
<1>9. \A x, y \in 1..Len(nodes') : x # y => nodes'[x] # nodes'[y]
  BY <1>2, <1>4
<1>10. CASE GoesOn(hashs)
  <2>1. ASSUME one_round'[b'] PROVE
          /\ Spread(nodes_hashs')
          /\ \A y \in 1..Len(nodes_hashs') :
               \E j \in 0..(Len(nodes') - 1) : Visited(j)' /\ nodes_hashs'[y][1] = nodes'[j + 1]
    <3>1. b' = b /\ nodes_hashs' = hashs /\ one_round'[b] /\ tries' = tries + 1
      BY <1>3, <1>6, <1>10, <2>1 DEF GoesOn
    <3>2. \A j \in J : Seen(j) => Visited(j)'
      BY <1>2, <1>3, <3>1 DEF Visited
    <3> QED
      BY <1>2, <1>8, <3>1, <3>2
  <2>2. \A x \in 1..Len(sub') : one_round'[x] => Spread(sub'[x])
    BY <1>1, <1>5, <1>10 DEF GoesOn, PlaceInv
  <2>3. Spread(nodes_hashs') = Spread(nodes_hashs)'
    BY DEF Spread
  <2> QED
    BY <1>9, <2>1, <2>2, <2>3 DEF PlaceInv, Spread
<1>11. CASE EndsEmpty(hashs)
  <2>1. \A x \in 1..Len(sub') : one_round'[x] => Spread(sub'[x])
    BY <1>1, <1>5, <1>11 DEF EndsEmpty, PlaceInv
  <2> QED
    BY <1>9, <1>11, <2>1 DEF EndsEmpty, PlaceInv, Spread
<1>12. CASE EndsWith(hashs)
  <2>1. /\ \A x \in 1..Len(sub) : sub'[x] = sub[x]
        /\ sub'[b] = hashs
        /\ \A x \in 1..Len(sub') : x \in 1..Len(sub) \/ x = b
    BY <1>12, SubGrows
  <2>2. \A x \in 1..Len(sub') : one_round'[x] => Spread(sub'[x])
    BY <1>1, <1>5, <1>8, <2>1 DEF PlaceInv
  <2>3. 1..Len(nodes_hashs') = {}
    BY <1>12 DEF EndsWith
  <2> QED
    BY <1>9, <2>2, <2>3 DEF PlaceInv, Spread
<1> QED
  BY <1>2, <1>10, <1>11, <1>12

\* Block by block, a round is given up when all its puts failed.
LEMMA BodyRound ==
  ASSUME UploadInv, NEW n, NEW failed, NEW hashs, Body(n, failed, hashs)
  PROVE  RoundInv'
<1> DEFINE wraps == node_index + 1 = Len(nodes)
           insecure == wraps /\ ~check(n)
           gives_up == insecure /\ failed = Len(nodes)
           fails == round + (failed - fail_count)
<1> SUFFICES ASSUME PerBlock
             PROVE  /\ FALSE \notin gave_up'
                    /\ (step' = "put" /\ ~check(succ')) => fail_count' = round'
  BY DEF RoundInv, GivesUpWhenAllFail, check
<1>1. TypeInv /\ RoundInv /\ step = "put"
  BY DEF UploadInv, Body
<1>2. /\ fail_count' = IF insecure /\ ~gives_up THEN 0 ELSE Capped(failed)
      /\ round' = IF wraps THEN 0 ELSE Capped(fails)
      /\ gave_up' = IF gives_up THEN gave_up \cup {fails = Len(nodes)} ELSE gave_up
      /\ succ' = n
      /\ gives_up \/ Len(hashs) = getBlocks => NextBlock(hashs)
  BY DEF Body, EndOfBody
<1>3. ~check(n) => fails = failed
  <2>1. n = succ \/ n = succ + 1
    BY DEF Body
  <2>2. check(succ) => check(n)
    BY <1>1, <2>1, Constants DEF TypeInv
  <2>3. failed \in Nat /\ fail_count \in Nat
    BY <1>1, BodyInput DEF TypeInv
  <2> QED
    BY <1>1, <2>2, <2>3 DEF RoundInv
<1>4. FALSE \notin gave_up'
  <2>1. FALSE \notin gave_up
    BY <1>1 DEF RoundInv, GivesUpWhenAllFail
  <2>2. gives_up => fails = Len(nodes)
    BY <1>3
  <2> HIDE DEF fails
  <2> QED
    BY <1>2, <2>1, <2>2, Zenon
<1>5. (step' = "put" /\ ~check(succ')) => fail_count' = round'
  <2> SUFFICES ASSUME step' = "put", ~check(n)
               PROVE  fail_count' = round'
    BY <1>2
  <2>1. ~gives_up
    BY <1>2 DEF NextBlock
  <2>2. fails = failed
    BY <1>3
  <2> HIDE DEF fails
  <2> QED
    BY <1>2, <2>1, <2>2
<1> QED
  BY <1>4, <1>5

\* A pass of the loop body keeps the upload's invariant.
LEMMA BodyUpload ==
  ASSUME UploadInv, PutSucceeds \/ PutFails
  PROVE  UploadInv'
<1>1. PICK n, failed, hashs : Body(n, failed, hashs)
  BY PutIsBody
<1>2. TypeInv' /\ LoopInv' /\ SentInv'
  BY <1>1, BodyType, BodyLoop, BodySent
<1>3. FreshInv' /\ PlaceInv' /\ RoundInv'
  BY <1>1, BodyFresh, BodyPlace, BodyRound
<1> QED
  BY <1>2, <1>3 DEF UploadInv

\* get_online_datanodes names every datanode once.
LEMMA OnlineOnce ==
  ASSUME NEW s \in Online
  PROVE  /\ s \in Seq(Nodes)
         /\ \A x, y \in 1..Len(s) : x # y => s[x] # s[y]
<1>1. PICK n \in 0..Len(Datanodes) : s \in [1..n -> Nodes]
  BY DEF Online
<1>2. Datanodes \in Seq(Nodes) /\ Len(Datanodes) \in Nat
  BY ShardAssumption
<1>3. s \in Seq(Nodes) /\ Len(s) = n /\ DOMAIN s = 1..n
  BY <1>1, <1>2
<1>4. \A x, y \in 1..n : x < y => s[x] # s[y]
  <2>0. \A x, y \in DOMAIN s : x < y =>
          \E p, q \in DOMAIN Datanodes : p < q /\ s[x] = Datanodes[p] /\ s[y] = Datanodes[q]
    BY Zenon DEF Online
  <2> SUFFICES ASSUME NEW x \in 1..n, NEW y \in 1..n, x < y
               PROVE  s[x] # s[y]
    OBVIOUS
  <2>1. PICK p, q \in DOMAIN Datanodes : p < q /\ s[x] = Datanodes[p] /\ s[y] = Datanodes[q]
    BY <1>3, <2>0
  <2>2. p # q
    BY <2>1, <1>2
  <2> QED
    BY <2>1, <2>2, ShardAssumption
<1>5. \A x, y \in 1..n : x # y => x < y \/ y < x
  BY <1>2
<1> QED
  BY <1>3, <1>4, <1>5

\* The start of a loop keeps the upload's invariant.
LEMMA DiscoverUpload ==
  ASSUME UploadInv, Discover
  PROVE  UploadInv'
<1>1. /\ nodes' \in Seq(Nodes)
      /\ \A x, y \in 1..Len(nodes') : x # y => nodes'[x] # nodes'[y]
  BY OnlineOnce DEF Discover
<1>2. /\ step = "discover" /\ node_index' = 0 /\ succ' = 0 /\ fail_count' = 0 /\ round' = 0
      /\ step' = IF nodes' = << >> THEN "broken" ELSE "put"
      /\ UNCHANGED <<up, disk, streams, b, i, nodes_hashs, sub, tries, one_round, gave_up, get,
                     faults>>
  BY DEF Discover
<1>3. TypeInv'
  BY <1>1, <1>2 DEF UploadInv, TypeInv, get
<1>4. LoopInv'
  <2>1. nodes' # << >> => Len(nodes') > 0 /\ Len(nodes') \in Nat
    BY <1>1
  <2> QED
    BY <1>1, <1>2, <2>1 DEF UploadInv, LoopInv, get
<1>5. SentInv'
  BY <1>2 DEF UploadInv, SentInv
<1>6. FreshInv'
  BY <1>2 DEF UploadInv, FreshInv, Before
<1>7. PlaceInv'
  <2>1. nodes_hashs' = << >>
    BY <1>2 DEF UploadInv, LoopInv
  <2>2. 1..Len(nodes_hashs') = {}
    BY <2>1
  <2> QED
    BY <1>1, <1>2, <2>2 DEF UploadInv, PlaceInv, Spread
<1>8. RoundInv'
  BY <1>2 DEF UploadInv, RoundInv, GivesUpWhenAllFail
<1> QED
  BY <1>3, <1>4, <1>5, <1>6, <1>7, <1>8 DEF UploadInv

\* Who leaves the upload alone leaves its lists and counters alone.
LEMMA UploadFrame ==
  ASSUME UploadInv, UNCHANGED upload
  PROVE  SentInv' /\ PlaceInv' /\ RoundInv'
<1>1. /\ UNCHANGED <<nodes, step, b, i, node_index, succ, fail_count, nodes_hashs, sub, tries,
                     one_round, round, gave_up>>
  BY DEF upload
<1>2. SentInv'
  BY <1>1 DEF UploadInv, SentInv
<1>3. PlaceInv'
  BY <1>1 DEF UploadInv, PlaceInv, Spread, Visited
<1>4. RoundInv'
  BY <1>1 DEF UploadInv, RoundInv, GivesUpWhenAllFail, check
<1> QED
  BY <1>2, <1>3, <1>4

\* The datanode has written the shard, whole or in part.
Written(d, s, what) ==
  /\ d \in Nodes /\ s \in Shards /\ what \in {"full", "part"}
  /\ <<d, s>> \in streams /\ streams' = streams \ {<<d, s>>}
  /\ disk' = [disk EXCEPT ![d][s] = what]
  /\ UNCHANGED <<up, upload, get>>

\* What a datanode has written when it writes.
LEMMA WrittenEffect ==
  ASSUME UploadInv, NEW d, NEW s, NEW what, Written(d, s, what)
  PROVE  /\ disk' \in [Nodes -> [Shards -> {"none", "part", "full"}]]
         /\ disk'[d][s] = what
         /\ \A c \in Nodes, r \in Shards : <<c, r>> # <<d, s>> => disk'[c][r] = disk[c][r]
<1>1. disk \in [Nodes -> [Shards -> {"none", "part", "full"}]]
  BY DEF UploadInv, TypeInv
<1>2. /\ d \in Nodes /\ s \in Shards /\ what \in {"full", "part"}
      /\ disk' = [disk EXCEPT ![d][s] = what]
  BY DEF Written
<1> QED
  BY <1>1, <1>2

\* A datanode that writes keeps the upload's invariant.
LEMMA WrittenUpload ==
  ASSUME UploadInv, NEW d, NEW s, NEW what, Written(d, s, what), faults' \in Nat
  PROVE  UploadInv'
<1>1. /\ UNCHANGED <<nodes, step, b, i, node_index, succ, fail_count, nodes_hashs, sub, tries,
                     one_round, round, gave_up>>
      /\ UNCHANGED <<up, got, pos, datas, early>>
      /\ d \in Nodes /\ s \in Shards
      /\ <<d, s>> \in streams /\ streams' = streams \ {<<d, s>>}
  BY DEF Written, upload, get
<1>2. /\ disk' \in [Nodes -> [Shards -> {"none", "part", "full"}]]
      /\ \A c \in Nodes, r \in Shards : <<c, r>> # <<d, s>> => disk'[c][r] = disk[c][r]
  BY WrittenEffect
<1>3. TypeInv'
  BY <1>1, <1>2 DEF UploadInv, TypeInv
<1>4. LoopInv'
  BY <1>1 DEF UploadInv, LoopInv
<1>5. FreshInv'
  <2>1. \A e \in streams : e[1] \in Nodes /\ e[2] \in Shards /\ e = <<e[1], e[2]>>
    BY DEF UploadInv, TypeInv, Placed
  <2>2. \A e \in streams' : disk'[e[1]][e[2]] = "none"
    BY <1>1, <1>2, <2>1 DEF UploadInv, FreshInv
  <2>3. ASSUME step' \in {"discover", "put"}
        PROVE  /\ \A e \in streams' : Before(e[2])'
               /\ \A c \in Nodes, r \in Shards : disk'[c][r] # "none" => Before(r)'
    <3>1. \A r : Before(r)' = Before(r)
      BY <1>1 DEF Before
    <3>2. /\ \A e \in streams : Before(e[2])
          /\ \A c \in Nodes, r \in Shards : disk[c][r] # "none" => Before(r)
      BY <1>1, <2>3 DEF UploadInv, FreshInv
    <3>3. Before(s)
      BY <1>1, <3>2
    <3> QED
      BY <1>1, <1>2, <3>1, <3>2, <3>3
  <2> QED
    BY <2>2, <2>3 DEF FreshInv
<1> QED
  BY <1>3, <1>4, <1>5, UploadFrame DEF UploadInv, Written

\* Crashes and restarts keep the upload's invariant.
LEMMA CrashUpload ==
  ASSUME UploadInv, up' \in [Nodes -> BOOLEAN], streams' \subseteq streams, faults' \in Nat,
         UNCHANGED <<disk, upload, get>>
  PROVE  UploadInv'
<1>1. /\ UNCHANGED <<nodes, step, b, i, node_index, succ, fail_count, nodes_hashs, sub, tries,
                     one_round, round, gave_up>>
      /\ UNCHANGED <<disk, got, pos, datas, early>>
  BY DEF upload, get
<1>2. TypeInv'
  BY <1>1 DEF UploadInv, TypeInv
<1>3. LoopInv'
  BY <1>1 DEF UploadInv, LoopInv
<1>4. FreshInv'
  BY <1>1 DEF UploadInv, FreshInv, Before
<1> QED
  BY <1>2, <1>3, <1>4, UploadFrame DEF UploadInv

-----------------------------------------------------------------------------
(* The download                                                            *)

\* What the download of a block has after this shard.
Now == IF Fetched(Entry[1], Entry[2]) THEN datas \cup {Entry} ELSE datas

\* It goes on to the next shard.
Moves ==
  /\ got' = got /\ pos' = pos + 1 /\ datas' = Now
  /\ pos < Len(sub[Len(got) + 1]) /\ Cardinality(Now) < getDecodeBlocks

\* It has the block, or there are no shards left.
Ends(result) ==
  /\ got' = Append(got, result) /\ pos' = 1 /\ datas' = {}
  /\ \/ result = "good"
     \/ /\ result = "empty" /\ pos = Len(sub[Len(got) + 1])
        /\ Cardinality(Now) < getDecodeBlocks

\* The shard the download comes to.
LEMMA EntryIs ==
  ASSUME UploadInv, ReadInv, Reading
  PROVE  /\ Len(got) \in Nat /\ Len(sub) \in Nat /\ Len(got) + 1 \in 1..Len(sub)
         /\ Len(sub[Len(got) + 1]) \in Nat /\ pos \in 1..Len(sub[Len(got) + 1])
         /\ Entry \in Placed /\ Entry[2] = <<Len(got) + 1, pos>> /\ Entry \notin datas
         /\ IsFiniteSet(Now) /\ datas \subseteq Now
         /\ Cardinality(datas) \in Nat
         /\ Cardinality(Now) = IF Fetched(Entry[1], Entry[2]) THEN Cardinality(datas) + 1
                               ELSE Cardinality(datas)
<1> DEFINE cur == Len(got) + 1
<1>1. got \in Seq({"good", "bad", "empty"}) /\ sub \in Seq(Seq(Placed)) /\ pos \in Nat \ {0}
  BY DEF UploadInv, TypeInv
<1>2. Len(got) \in Nat /\ Len(sub) \in Nat
  BY <1>1
<1>3. cur \in 1..Len(sub)
  BY <1>2 DEF Reading
<1>4. sub[cur] \in Seq(Placed)
  BY <1>1, <1>3
<1>5. Len(sub[cur]) \in Nat
  BY <1>4
<1>6. pos \in 1..Len(sub[cur])
  BY <1>1, <1>2, <1>5 DEF ReadInv, Reading
<1>7. sub[cur][pos] \in Placed
  BY <1>4, <1>6
<1>8. \A y \in 1..Len(sub[cur]) : sub[cur][y][2] = <<cur, y>>
  BY <1>3 DEF UploadInv, SentInv
<1>9. sub[cur][pos] \notin datas
  <2>1. ASSUME NEW y \in 1..(pos - 1)
        PROVE  sub[cur][pos] # sub[cur][y]
    <3>1. y \in 1..Len(sub[cur]) /\ y # pos
      BY <1>5, <1>6
    <3> QED
      BY <1>6, <1>8, <3>1
  <2> QED
    BY <2>1 DEF ReadInv
<1>10. IsFiniteSet(datas) /\ Cardinality(datas) \in Nat
  BY FS_CardinalityType DEF ReadInv
<1>11. Entry = sub[cur][pos]
  BY DEF Entry
<1>12. /\ IsFiniteSet(datas \cup {Entry})
       /\ Cardinality(datas \cup {Entry}) = Cardinality(datas) + 1
  BY <1>9, <1>10, <1>11, FS_AddElement
<1>13. /\ IsFiniteSet(Now) /\ datas \subseteq Now
       /\ Cardinality(Now) = IF Fetched(Entry[1], Entry[2]) THEN Cardinality(datas) + 1
                             ELSE Cardinality(datas)
  BY <1>10, <1>12 DEF Now
<1> QED
  BY <1>2, <1>3, <1>5, <1>6, <1>7, <1>8, <1>9, <1>10, <1>11, <1>13

\* What a step of the download does.
LEMMA GetEffect ==
  ASSUME UploadInv, ReadInv, Get
  PROVE  /\ Reading
         /\ Moves \/ Ends("good") \/ Ends("empty")
         /\ early' = (early \/ streams # {})
         /\ UNCHANGED <<up, disk, streams, upload, faults>>
<1>1. Reading /\ early' = (early \/ streams # {}) /\ UNCHANGED <<up, disk, streams, upload, faults>>
  BY DEF Get, GetShard, GetShardFails
<1>2. /\ Entry \in Placed /\ Cardinality(datas) \in Nat
      /\ Cardinality(Now) = IF Fetched(Entry[1], Entry[2]) THEN Cardinality(datas) + 1
                            ELSE Cardinality(datas)
      /\ Len(sub[Len(got) + 1]) \in Nat /\ pos \in 1..Len(sub[Len(got) + 1])
  BY <1>1, EntryIs
<1>3. Cardinality(datas) < getDecodeBlocks /\ getDecodeBlocks \in Nat
  BY Constants DEF ReadInv
<1>4. pos = Len(sub[Len(got) + 1]) \/ pos < Len(sub[Len(got) + 1])
  BY <1>2
<1>5. CASE GetShard
  <2>1. Fetched(Entry[1], Entry[2]) /\ Now = datas \cup {Entry}
    BY <1>5 DEF GetShard, Now
  <2>2. CASE Cardinality(Now) = getDecodeBlocks
    <3>1. Finish(decode(Now))
      BY <1>5, <2>1, <2>2 DEF GetShard
    <3>2. \A e \in Now : disk[e[1]][e[2]] = "full"
      BY <2>1 DEF ReadInv, Fetched
    <3>3. decode(Now) = "good"
      BY <3>2 DEF decode
    <3>4. Ends("good")
      BY <3>1, <3>3 DEF Finish, Ends
    <3> QED
      BY <1>1, <3>4
  <2>3. CASE Cardinality(Now) # getDecodeBlocks
    <3>1. Cardinality(Now) < getDecodeBlocks
      BY <1>2, <1>3, <2>1, <2>3
    <3>2. IF pos = Len(sub[Len(got) + 1]) THEN Finish("empty")
          ELSE got' = got /\ pos' = pos + 1 /\ datas' = Now
      BY <1>5, <2>1, <2>3 DEF GetShard
    <3>3. Moves \/ Ends("empty")
      BY <1>4, <3>1, <3>2 DEF Moves, Ends, Finish
    <3> QED
      BY <1>1, <3>3
  <2> QED
    BY <2>2, <2>3
<1>6. CASE GetShardFails
  <2>1. ~Fetched(Entry[1], Entry[2]) /\ Now = datas
    BY <1>6 DEF GetShardFails, Now
  <2>2. Cardinality(Now) < getDecodeBlocks
    BY <1>3, <2>1
  <2>3. IF pos = Len(sub[Len(got) + 1]) THEN Finish("empty")
        ELSE pos' = pos + 1 /\ got' = got /\ datas' = datas
    BY <1>6 DEF GetShardFails
  <2>4. Moves \/ Ends("empty")
    BY <1>4, <2>1, <2>2, <2>3 DEF Moves, Ends, Finish
  <2> QED
    BY <1>1, <2>4
<1> QED
  BY <1>5, <1>6 DEF Get

\* Appending to what has been read.
LEMMA GotGrows ==
  ASSUME UploadInv, NEW result \in {"good", "empty"}, Ends(result)
  PROVE  /\ got' \in Seq({"good", "bad", "empty"}) /\ Len(got') = Len(got) + 1
         /\ \A x \in 1..Len(got) : got'[x] = got[x]
         /\ got'[Len(got) + 1] = result
         /\ \A x \in 1..Len(got') : x \in 1..Len(got) \/ x = Len(got) + 1
<1>1. got \in Seq({"good", "bad", "empty"}) /\ result \in {"good", "bad", "empty"}
  BY DEF UploadInv, TypeInv
<1>2. got' = Append(got, result)
  BY DEF Ends
<1>3. got' \in Seq({"good", "bad", "empty"}) /\ Len(got') = Len(got) + 1 /\ Len(got) \in Nat
  BY <1>1, <1>2
<1>4. \A x \in 1..Len(got) : got'[x] = got[x]
  BY <1>1, <1>2
<1>5. got'[Len(got) + 1] = result
  BY <1>1, <1>2
<1> QED
  BY <1>3, <1>4, <1>5

\* The download keeps the upload's invariant.
LEMMA GetUpload ==
  ASSUME UploadInv, ReadInv, Get
  PROVE  UploadInv'
<1>2. /\ UNCHANGED <<nodes, step, b, i, node_index, succ, fail_count, nodes_hashs, sub, tries,
                     one_round, round, gave_up>>
      /\ UNCHANGED <<up, disk, streams, faults>> /\ step = "done"
  BY GetEffect DEF upload, Reading
<1>3. got' \in Seq({"good", "bad", "empty"}) /\ pos' \in Nat \ {0} /\ datas' \subseteq Placed
  <2>1. /\ got \in Seq({"good", "bad", "empty"}) /\ pos \in Nat \ {0} /\ datas \subseteq Placed
    BY DEF UploadInv, TypeInv
  <2>2. Now \subseteq Placed
    BY <2>1, GetEffect, EntryIs DEF Now
  <2>3. CASE Moves
    BY <2>1, <2>2, <2>3 DEF Moves
  <2>4. ASSUME NEW r \in {"good", "empty"}, Ends(r)
        PROVE  got' \in Seq({"good", "bad", "empty"}) /\ pos' \in Nat \ {0} /\ datas' \subseteq Placed
    BY <2>4, GotGrows DEF Ends
  <2> QED
    BY GetEffect, <2>3, <2>4
<1>4. early' \in BOOLEAN
  BY GetEffect DEF UploadInv, TypeInv
<1>5. TypeInv'
  BY <1>2, <1>3, <1>4 DEF UploadInv, TypeInv
<1>6. LoopInv'
  BY <1>2 DEF UploadInv, LoopInv
<1>7. FreshInv'
  BY <1>2 DEF UploadInv, FreshInv
<1> QED
  BY <1>5, <1>6, <1>7, GetEffect, UploadFrame DEF UploadInv

\* The download keeps its own invariant.
LEMMA GetRead ==
  ASSUME UploadInv, ReadInv, Get
  PROVE  ReadInv'
<1> DEFINE cur == Len(got) + 1
<1>1. /\ Reading
      /\ Moves \/ Ends("good") \/ Ends("empty")
      /\ UNCHANGED <<disk, sub>>
  BY GetEffect DEF upload
<1>2. /\ Len(got) \in Nat /\ Len(sub) \in Nat /\ cur \in 1..Len(sub)
      /\ Len(sub[cur]) \in Nat /\ pos \in 1..Len(sub[cur])
      /\ IsFiniteSet(Now) /\ Entry = sub[cur][pos] /\ pos \in Nat
  BY <1>1, EntryIs DEF Entry
<1>3. ReadIsGenuine
  BY DEF ReadInv
<1>4. CASE Moves
  <2>1. got' = got /\ pos' = pos + 1 /\ datas' = Now
    BY <1>4 DEF Moves
  <2>2. pos' <= Len(sub'[Len(got') + 1]) /\ Len(got') < Len(sub')
    BY <1>1, <1>2, <1>4 DEF Moves
  <2>3. \A e \in datas' : /\ disk'[e[1]][e[2]] = "full"
                          /\ \E y \in 1..(pos' - 1) : e = sub'[Len(got') + 1][y]
    <3>1. pos \in 1..(pos' - 1) /\ 1..(pos - 1) \subseteq 1..(pos' - 1)
      BY <1>2, <2>1
    <3>2. \A e \in datas : /\ disk[e[1]][e[2]] = "full"
                           /\ \E y \in 1..(pos - 1) : e = sub[cur][y]
      BY DEF ReadInv
    <3>3. Fetched(Entry[1], Entry[2]) => disk[Entry[1]][Entry[2]] = "full"
      BY DEF Fetched
    <3>4. \A e \in Now : e \in datas \/ (e = Entry /\ Fetched(Entry[1], Entry[2]))
      BY DEF Now
    <3> QED
      BY <1>1, <1>2, <2>1, <3>1, <3>2, <3>3, <3>4
  <2>4. IsFiniteSet(datas') /\ Cardinality(datas') < getDecodeBlocks
    BY <1>2, <1>4 DEF Moves
  <2>5. ReadIsGenuine'
    BY <1>3, <2>1 DEF ReadIsGenuine
  <2>6. Len(got') <= Len(sub') /\ Len(got') # Len(sub')
    BY <1>1, <1>2, <2>1
  <2> QED
    BY <2>2, <2>3, <2>4, <2>5, <2>6 DEF ReadInv
<1>5. ASSUME NEW r \in {"good", "empty"}, Ends(r)
      PROVE  ReadInv'
  <2>1. /\ Len(got') = Len(got) + 1
        /\ \A x \in 1..Len(got) : got'[x] = got[x]
        /\ got'[Len(got) + 1] = r
        /\ \A x \in 1..Len(got') : x \in 1..Len(got) \/ x = Len(got) + 1
    BY <1>5, GotGrows
  <2>2. pos' = 1 /\ datas' = {}
    BY <1>5 DEF Ends
  <2>3. ReadIsGenuine'
    BY <1>3, <2>1 DEF ReadIsGenuine
  <2>4. Len(got') <= Len(sub')
    BY <1>1, <1>2, <2>1
  <2>5. Len(got') < Len(sub') => pos' <= Len(sub'[Len(got') + 1])
    <3> SUFFICES ASSUME Len(got') < Len(sub')
                 PROVE  1 <= Len(sub[Len(got') + 1])
      BY <1>1, <2>2
    <3>1. Len(got') + 1 \in 1..Len(sub)
      BY <1>1, <1>2, <2>1
    <3>2. sub[Len(got') + 1] # << >> /\ sub[Len(got') + 1] \in Seq(Placed)
      BY <3>1 DEF UploadInv, SentInv, TypeInv
    <3> QED
      BY <3>2
  <2>6. IsFiniteSet(datas') /\ Cardinality(datas') < getDecodeBlocks
    <3>1. IsFiniteSet({}) /\ Cardinality({}) = 0
      BY FS_EmptySet
    <3> QED
      BY <2>2, <3>1, Constants
  <2> QED
    BY <2>2, <2>3, <2>4, <2>5, <2>6 DEF ReadInv
<1> QED
  BY <1>1, <1>4, <1>5

\* Before the upload is done the download has not begun.
LEMMA UploadRead ==
  ASSUME UploadInv', got' = << >>, pos' = 1, datas' = {}
  PROVE  ReadInv'
<1>1. sub' \in Seq(Seq(Placed))
  BY DEF UploadInv, TypeInv
<1>2. Len(got') = 0 /\ Len(sub') \in Nat
  BY <1>1
<1>3. Len(got') < Len(sub') => pos' <= Len(sub'[Len(got') + 1])
  <2> SUFFICES ASSUME 0 < Len(sub')
               PROVE  1 <= Len(sub'[1])
    BY <1>2
  <2>1. 1 \in 1..Len(sub')
    BY <1>2
  <2>2. sub'[1] # << >> /\ sub'[1] \in Seq(Placed)
    BY <1>1, <2>1 DEF UploadInv, SentInv
  <2> QED
    BY <2>2
<1>4. IsFiniteSet(datas') /\ Cardinality(datas') < getDecodeBlocks
  <2>1. IsFiniteSet({}) /\ Cardinality({}) = 0
    BY FS_EmptySet
  <2> QED
    BY <2>1, Constants
<1>5. ReadIsGenuine'
  BY <1>2 DEF ReadIsGenuine
<1> QED
  BY <1>2, <1>3, <1>4, <1>5 DEF ReadInv

\* What the download has stays whole while datanodes write: they write what is
\* not there yet.
LEMMA WrittenRead ==
  ASSUME UploadInv, ReadInv, NEW d, NEW s, NEW what, Written(d, s, what)
  PROVE  ReadInv'
<1>1. /\ UNCHANGED <<sub, got, pos, datas>>
      /\ <<d, s>> \in streams
  BY DEF Written, upload, get
<1>2. \A c \in Nodes, r \in Shards : <<c, r>> # <<d, s>> => disk'[c][r] = disk[c][r]
  BY WrittenEffect
<1>3. disk[d][s] = "none"
  BY <1>1 DEF UploadInv, FreshInv
<1>4. \A e \in datas : e[1] \in Nodes /\ e[2] \in Shards /\ e = <<e[1], e[2]>>
  BY DEF UploadInv, TypeInv, Placed
<1>5. \A e \in datas : disk[e[1]][e[2]] = "full"
  BY DEF ReadInv
<1>6. \A e \in datas : disk'[e[1]][e[2]] = "full"
  <2> TAKE e \in datas
  <2>1. disk[e[1]][e[2]] # disk[d][s]
    BY <1>3, <1>5
  <2>2. <<e[1], e[2]>> # <<d, s>>
    BY <2>1
  <2> QED
    BY <1>2, <1>4, <1>5, <2>2
<1> QED
  BY <1>1, <1>6 DEF ReadInv, ReadIsGenuine

-----------------------------------------------------------------------------
(* The faults                                                              *)

\* Counting the datanodes in trouble.
LEMMA TroubleCount ==
  ASSUME NEW S \in SUBSET Nodes, NEW T \in SUBSET Nodes
  PROVE  /\ IsFiniteSet(S) /\ Cardinality(S) \in Nat
         /\ T \subseteq S => Cardinality(T) <= Cardinality(S)
         /\ \A d : T \subseteq S \cup {d} => Cardinality(T) <= Cardinality(S) + 1
<1>1. IsFiniteSet(S) /\ Cardinality(S) \in Nat
  BY Constants, FS_Subset, FS_CardinalityType
<1>2. T \subseteq S => Cardinality(T) <= Cardinality(S)
  BY <1>1, FS_Subset
<1>3. ASSUME NEW d, T \subseteq S \cup {d}
      PROVE  Cardinality(T) <= Cardinality(S) + 1
  <2>1. /\ IsFiniteSet(S \cup {d})
        /\ Cardinality(S \cup {d}) = IF d \in S THEN Cardinality(S) ELSE Cardinality(S) + 1
    BY <1>1, FS_AddElement
  <2>2. Cardinality(T) <= Cardinality(S \cup {d})
    BY <1>3, <2>1, FS_Subset
  <2>3. Cardinality(T) \in Nat
    BY Constants, FS_Subset, FS_CardinalityType
  <2> QED
    BY <1>1, <2>1, <2>2, <2>3
<1> QED
  BY <1>1, <1>2, <1>3

\* While shards are uploaded, what is new is on its way.
LEMMA BodySpoils ==
  ASSUME UploadInv, NEW n, NEW failed, NEW hashs, Body(n, failed, hashs), NEW c, Spoiled(c)'
  PROVE  Spoiled(c)
<1> DEFINE d == nodes[node_index + 1]
           e == <<d, <<b, i>>>>
           Listed(h) == \E x \in 1..Len(sub) : \E y \in 1..Len(sub[x]) : sub[x][y] = h
           InHashs(h) == \E y \in 1..Len(hashs) : hashs[y] = h
           InOld(h) == \E y \in 1..Len(nodes_hashs) : nodes_hashs[y] = h
<1>1. /\ GoesOn(hashs) \/ EndsEmpty(hashs) \/ EndsWith(hashs)
      /\ UNCHANGED <<up, disk>>
  BY BodyEffect
<1>2. nodes_hashs \in Seq(Placed) /\ e \in Placed
  BY BodyInput DEF UploadInv, TypeInv, Placed
<1>3. \A h : Sent(h)' => Listed(h) \/ InHashs(h)
  <2>1. CASE GoesOn(hashs)
    BY <2>1 DEF GoesOn, Sent
  <2>2. CASE EndsEmpty(hashs)
    <3>1. 1..Len(nodes_hashs') = {}
      BY <2>2 DEF EndsEmpty
    <3> QED
      BY <2>2, <3>1 DEF EndsEmpty, Sent
  <2>3. CASE EndsWith(hashs)
    <3>1. 1..Len(nodes_hashs') = {}
      BY <2>3 DEF EndsWith
    <3>2. /\ \A x \in 1..Len(sub) : sub'[x] = sub[x]
          /\ sub'[b] = hashs
          /\ \A x \in 1..Len(sub') : x \in 1..Len(sub) \/ x = b
      BY <2>3, SubGrows
    <3> QED
      BY <3>1, <3>2 DEF Sent
  <2> QED
    BY <1>1, <2>1, <2>2, <2>3
<1>4. streams \subseteq streams' /\ \A h : InHashs(h) => InOld(h) \/ (h = e /\ e \in streams')
  <2>1. CASE hashs = nodes_hashs /\ streams' = streams
    BY <2>1
  <2>2. CASE hashs = Append(nodes_hashs, e) /\ streams' = streams \cup {e}
    <3> HIDE DEF e
    <3>1. /\ \A y \in 1..Len(nodes_hashs) : hashs[y] = nodes_hashs[y]
          /\ hashs[Len(nodes_hashs) + 1] = e
          /\ Len(hashs) = Len(nodes_hashs) + 1 /\ Len(nodes_hashs) \in Nat
      BY <1>2, <2>2
    <3>2. \A y \in 1..Len(hashs) : y \in 1..Len(nodes_hashs) \/ y = Len(nodes_hashs) + 1
      BY <3>1
    <3> QED
      BY <2>2, <3>1, <3>2
  <2> QED
    BY <2>1, <2>2 DEF Body
<1>5. \A h : Sent(h)' /\ h \notin streams' => Sent(h) /\ h \notin streams
  BY <1>3, <1>4 DEF Sent
<1> HIDE DEF Listed, InHashs, InOld
<1> QED
  BY <1>1, <1>5 DEF Spoiled

\* The upload brings no datanode into trouble.
LEMMA UploadFault ==
  ASSUME UploadInv, ReadInv, FaultInv, Upload, UploadInv'
  PROVE  ReadInv' /\ FaultInv'
<1>1. got' = << >> /\ pos' = 1 /\ datas' = {} /\ faults' = faults /\ early' = early
  <2>1. step # "done"
    BY DEF Upload, Discover, PutSucceeds, PutFails
  <2>2. got = << >> /\ pos = 1 /\ datas = {}
    BY <2>1 DEF UploadInv, LoopInv
  <2>3. UNCHANGED <<get, faults>>
    BY DEF Upload, Discover, PutSucceeds, PutFails, EndOfBody
  <2> QED
    BY <2>2, <2>3 DEF get
<1>2. ReadInv'
  BY <1>1, UploadRead
<1>3. ASSUME NEW c, Spoiled(c)'
      PROVE  Spoiled(c)
  <2>1. CASE Discover
    BY <1>3, <2>1 DEF Discover, Spoiled, Sent
  <2>2. CASE PutSucceeds \/ PutFails
    BY <1>3, <2>2, PutIsBody, BodySpoils
  <2> QED
    BY <2>1, <2>2 DEF Upload
<1>4. Missed' = {} /\ 1..(pos' - 1) = {}
  BY <1>1 DEF Missed
<1>5. Trouble' \subseteq Trouble
  BY <1>3, <1>4 DEF Trouble
<1>6. Trouble \in SUBSET Nodes /\ Trouble' \in SUBSET Nodes
  BY DEF Trouble
<1>7. Cardinality(Trouble') <= Cardinality(Trouble) /\ Cardinality(Trouble) \in Nat
      /\ Cardinality(Trouble') \in Nat
  BY <1>5, <1>6, TroubleCount
<1>8. ~early' => Cardinality(Trouble') <= faults'
  <2>1. faults \in Nat
    BY DEF UploadInv, TypeInv
  <2> QED
    BY <1>1, <1>7, <2>1 DEF FaultInv
<1>9. pos' <= Cardinality(datas') + Cardinality(Missed') + 1
  <2>1. Cardinality({}) = 0
    BY FS_EmptySet
  <2> QED
    BY <1>1, <1>4, <2>1
<1>10. ToleratesFaults'
  <2>1. 1..Len(got') = {}
    BY <1>1
  <2> QED
    BY <2>1 DEF ToleratesFaults
<1> QED
  BY <1>2, <1>8, <1>9, <1>10 DEF FaultInv

\* A step of the datanodes that spoils at most one of them, and counts.
LEMMA DatanodeFault ==
  ASSUME UploadInv, FaultInv, UNCHANGED <<upload, get>>, faults' \in Nat,
         NEW d,
         \/ faults' = faults /\ \A c \in Nodes : Spoiled(c)' => Spoiled(c)
         \/ faults' = faults + 1 /\ \A c \in Nodes : Spoiled(c)' => Spoiled(c) \/ c = d
  PROVE  FaultInv'
<1>1. UNCHANGED <<sub, one_round, got, pos, datas, early>>
  BY DEF upload, get
<1>2. Missed' = Missed
  BY <1>1 DEF Missed
<1>3. Trouble \in SUBSET Nodes /\ Trouble' \in SUBSET Nodes
  BY DEF Trouble
<1>4. faults \in Nat /\ faults <= faults'
  BY DEF UploadInv, TypeInv
<1>5. ~early' => Cardinality(Trouble') <= faults'
  <2>1. Cardinality(Trouble) \in Nat /\ Cardinality(Trouble') \in Nat
    BY <1>3, TroubleCount
  <2>2. CASE faults' = faults /\ \A c \in Nodes : Spoiled(c)' => Spoiled(c)
    <3>1. Trouble' \subseteq Trouble
      BY <1>2, <2>2 DEF Trouble
    <3>2. Cardinality(Trouble') <= Cardinality(Trouble)
      BY <1>3, <3>1, TroubleCount
    <3> QED
      BY <1>1, <1>4, <2>1, <2>2, <3>2 DEF FaultInv
  <2>3. CASE faults' = faults + 1 /\ \A c \in Nodes : Spoiled(c)' => Spoiled(c) \/ c = d
    <3>1. Trouble' \subseteq Trouble \cup {d}
      BY <1>2, <2>3 DEF Trouble
    <3>2. Cardinality(Trouble') <= Cardinality(Trouble) + 1
      BY <1>3, <3>1, TroubleCount
    <3> QED
      BY <1>1, <1>4, <2>1, <2>3, <3>2 DEF FaultInv
  <2> QED
    BY <2>2, <2>3
<1>6. (Len(got') < Len(sub') /\ one_round'[Len(got') + 1]) =>
        pos' <= Cardinality(datas') + Cardinality(Missed') + 1
  BY <1>1, <1>2 DEF FaultInv
<1>7. ToleratesFaults'
  <2>1. getBlocks \in Nat /\ getDecodeBlocks \in Nat
    BY Constants
  <2>2. faults' <= getBlocks - getDecodeBlocks => faults <= getBlocks - getDecodeBlocks
    BY <1>4, <2>1
  <2> QED
    BY <1>1, <2>2 DEF FaultInv, ToleratesFaults
<1> QED
  BY <1>5, <1>6, <1>7 DEF FaultInv

\* A datanode that writes a shard whole is not spoiled by it; one that writes a
\* part of it is.
LEMMA WrittenSpoils ==
  ASSUME UploadInv, NEW d, NEW s, NEW what, Written(d, s, what), NEW c \in Nodes, Spoiled(c)'
  PROVE  Spoiled(c) \/ (c = d /\ what = "part")
<1>1. /\ UNCHANGED <<nodes_hashs, sub, up>>
      /\ streams' = streams \ {<<d, s>>} /\ what \in {"full", "part"}
  BY DEF Written, upload
<1>2. /\ disk'[d][s] = what
      /\ \A x \in Nodes, r \in Shards : <<x, r>> # <<d, s>> => disk'[x][r] = disk[x][r]
  BY WrittenEffect
<1>3. \A h : Sent(h)' = Sent(h)
  BY <1>1 DEF Sent
<1>4. CASE ~up'[c]
  BY <1>1, <1>4 DEF Spoiled
<1>5. ASSUME NEW r \in Shards, Sent(<<c, r>>)', <<c, r>> \notin streams', disk'[c][r] # "full"
      PROVE  Spoiled(c) \/ (c = d /\ what = "part")
  <2>1. CASE <<c, r>> = <<d, s>>
    <3>1. c = d /\ r = s
      BY <2>1
    <3> QED
      BY <1>1, <1>2, <1>5, <3>1
  <2>2. CASE <<c, r>> # <<d, s>>
    <3>1. <<c, r>> \notin streams /\ disk[c][r] # "full" /\ Sent(<<c, r>>)
      BY <1>1, <1>2, <1>3, <1>5, <2>2
    <3> QED
      BY <3>1 DEF Spoiled
  <2> QED
    BY <2>1, <2>2
<1> QED
  BY <1>4, <1>5 DEF Spoiled

\* A datanode that crashes spoils nobody else.
LEMMA CrashSpoils ==
  ASSUME UploadInv, NEW d \in Nodes, Crash(d), NEW c \in Nodes, Spoiled(c)'
  PROVE  Spoiled(c) \/ c = d
<1>1. UNCHANGED <<nodes_hashs, sub, disk>>
  BY DEF Crash, upload
<1>2. \A h : Sent(h)' = Sent(h)
  BY <1>1 DEF Sent
<1>3. up' = [up EXCEPT ![d] = FALSE] /\ up \in [Nodes -> BOOLEAN]
  BY DEF Crash, UploadInv, TypeInv
<1>4. c # d => up'[c] = up[c]
  BY <1>3
<1>5. ASSUME NEW r \in Shards, <<c, r>> \notin streams', c # d
      PROVE  <<c, r>> \notin streams
  BY <1>5 DEF Crash
<1> QED
  BY <1>1, <1>2, <1>4, <1>5 DEF Spoiled

\* A datanode that restarts spoils nobody.
LEMMA RestartSpoils ==
  ASSUME UploadInv, NEW d \in Nodes, Restart(d), NEW c \in Nodes, Spoiled(c)'
  PROVE  Spoiled(c)
<1>1. UNCHANGED <<nodes_hashs, sub, disk, streams>>
  BY DEF Restart, upload
<1>2. \A h : Sent(h)' = Sent(h)
  BY <1>1 DEF Sent
<1>3. up' = [up EXCEPT ![d] = TRUE] /\ up \in [Nodes -> BOOLEAN]
  BY DEF Restart, UploadInv, TypeInv
<1>4. ~up'[c] => ~up[c]
  BY <1>3
<1> QED
  BY <1>1, <1>2, <1>4 DEF Spoiled

\* The datanodes that the download has missed after this shard.
After ==
  {d \in Nodes : \E y \in 1..pos : /\ sub[Len(got) + 1][y] \notin Now
                                   /\ d = sub[Len(got) + 1][y][1]}

\* Each shard that was not there is on a datanode of its own, and that one is in
\* trouble if nothing is on its way any more.
LEMMA AfterCount ==
  ASSUME UploadInv, ReadInv, FaultInv, Reading
  PROVE  /\ one_round[Len(got) + 1] => pos <= Cardinality(Now) + Cardinality(After)
         /\ streams = {} => After \subseteq Trouble
         /\ Cardinality(Now) \in Nat /\ Cardinality(After) \in Nat
<1> DEFINE cur == Len(got) + 1
           S == sub[cur]
<1>1. /\ Len(got) \in Nat /\ Len(sub) \in Nat /\ cur \in 1..Len(sub)
      /\ Len(S) \in Nat /\ pos \in 1..Len(S) /\ Len(got) < Len(sub)
      /\ Entry \in Placed /\ Entry \notin datas /\ Entry = S[pos]
      /\ IsFiniteSet(Now) /\ Cardinality(datas) \in Nat
      /\ Cardinality(Now) = IF Fetched(Entry[1], Entry[2]) THEN Cardinality(datas) + 1
                            ELSE Cardinality(datas)
  BY EntryIs DEF Entry, Reading
<1>2. Cardinality(Now) \in Nat
  BY <1>1
<1>3. Missed \in SUBSET Nodes /\ After \in SUBSET Nodes
  BY DEF Missed, After
<1>4. /\ IsFiniteSet(Missed) /\ Cardinality(Missed) \in Nat /\ Cardinality(After) \in Nat
  BY <1>3, TroubleCount
<1>5. Entry[1] \in Nodes /\ Entry[2] \in Shards /\ Entry = <<Entry[1], Entry[2]>>
  BY <1>1 DEF Placed
<1>6. \A y \in 1..pos : y \in 1..(pos - 1) \/ y = pos
  BY <1>1
<1>7. pos \in 1..pos /\ 1..(pos - 1) \subseteq 1..pos /\ 1..(pos - 1) \subseteq 1..Len(S)
  BY <1>1
<1>8. one_round[cur] => pos <= Cardinality(datas) + Cardinality(Missed) + 1
  BY <1>1 DEF FaultInv
<1>9. CASE Fetched(Entry[1], Entry[2])
  <2>1. Now = datas \cup {Entry}
    BY <1>9 DEF Now
  <2>2. After \subseteq Missed
    BY <1>1, <1>6, <2>1 DEF After, Missed
  <2>3. Missed \subseteq After
    <3>1. \A y \in 1..(pos - 1) : S[y] # Entry
      <4> TAKE y \in 1..(pos - 1)
      <4>1. y \in 1..Len(S) /\ y # pos
        BY <1>1
      <4>2. S[y][2] = <<cur, y>> /\ S[pos][2] = <<cur, pos>>
        BY <1>1, <4>1 DEF UploadInv, SentInv
      <4> QED
        BY <1>1, <4>1, <4>2
    <3> QED
      BY <1>7, <2>1, <3>1 DEF After, Missed
  <2>4. After = Missed
    BY <2>2, <2>3
  <2>5. one_round[cur] => pos <= Cardinality(Now) + Cardinality(After)
    BY <1>1, <1>4, <1>8, <1>9, <2>4
  <2>6. After \subseteq Trouble
    BY <2>4 DEF Trouble, Missed
  <2> QED
    BY <1>2, <1>4, <2>5, <2>6
<1>10. CASE ~Fetched(Entry[1], Entry[2])
  <2>1. Now = datas
    BY <1>10 DEF Now
  <2>2. After = Missed \cup {Entry[1]}
    <3>1. \A x \in After : x \in Missed \cup {Entry[1]}
      BY <1>1, <1>6, <2>1 DEF After, Missed
    <3>2. \A x \in Missed : x \in After
      BY <1>7, <2>1 DEF After, Missed
    <3>3. Entry[1] \in After
      BY <1>1, <1>5, <1>7, <2>1 DEF After
    <3> QED
      BY <3>1, <3>2, <3>3
  <2>3. one_round[cur] => Entry[1] \notin Missed
    <3> SUFFICES ASSUME one_round[cur], NEW y \in 1..(pos - 1)
                 PROVE  Entry[1] # S[y][1]
      BY DEF Missed
    <3>1. Spread(S)
      BY <1>1 DEF UploadInv, PlaceInv
    <3>2. y \in 1..Len(S) /\ y # pos
      BY <1>1
    <3> QED
      BY <1>1, <3>1, <3>2 DEF Spread
  <2>4. one_round[cur] => Cardinality(After) = Cardinality(Missed) + 1
    BY <1>4, <2>2, <2>3, FS_AddElement
  <2>5. one_round[cur] => pos <= Cardinality(Now) + Cardinality(After)
    BY <1>1, <1>4, <1>8, <2>1, <2>4
  <2>6. streams = {} => After \subseteq Trouble
    <3> SUFFICES ASSUME streams = {}
                 PROVE  Spoiled(Entry[1])
      BY <1>5, <2>2 DEF Trouble, Missed
    <3>1. Sent(<<Entry[1], Entry[2]>>)
      <4>1. Sent(S[pos])
        BY <1>1 DEF Sent
      <4> QED
        BY <1>1, <1>5, <4>1
    <3>2. ~up[Entry[1]] \/ disk[Entry[1]][Entry[2]] # "full"
      BY <1>10 DEF Fetched
    <3> QED
      BY <1>5, <3>1, <3>2 DEF Spoiled
  <2> QED
    BY <1>2, <1>4, <2>5, <2>6
<1> QED
  BY <1>9, <1>10

\* The download: no more datanodes are missed than are in trouble, so a block
\* that comes out empty had more faults than it has shards to spare.
LEMMA GetFault ==
  ASSUME UploadInv, ReadInv, FaultInv, Get
  PROVE  FaultInv'
<1> DEFINE cur == Len(got) + 1
           S == sub[cur]
<1>1. /\ Reading
      /\ Moves \/ Ends("good") \/ Ends("empty")
      /\ early' = (early \/ streams # {})
      /\ UNCHANGED <<up, disk, streams, nodes_hashs, sub, one_round, faults>>
  BY GetEffect DEF upload
<1>2. /\ one_round[cur] => pos <= Cardinality(Now) + Cardinality(After)
      /\ streams = {} => After \subseteq Trouble
      /\ Cardinality(Now) \in Nat /\ Cardinality(After) \in Nat
  BY <1>1, AfterCount
<1>3. /\ Len(got) \in Nat /\ pos \in Nat /\ faults \in Nat
      /\ getBlocks \in Nat /\ getDecodeBlocks \in Nat
  BY <1>1, EntryIs, Constants DEF UploadInv, TypeInv
<1>4. ~early' => ~early /\ streams = {}
  BY <1>1
<1>5. \A c : Spoiled(c)' = Spoiled(c)
  BY <1>1 DEF Spoiled, Sent
<1>6. /\ Trouble \in SUBSET Nodes /\ Trouble' \in SUBSET Nodes
      /\ After \in SUBSET Nodes /\ Missed' \in SUBSET Nodes
  BY DEF Trouble, After, Missed
<1>7. /\ Cardinality(Trouble) \in Nat /\ Cardinality(Trouble') \in Nat
      /\ Cardinality(Missed') \in Nat
  BY <1>6, TroubleCount
<1>8. ASSUME ~early', Missed' \subseteq Trouble
      PROVE  Cardinality(Trouble') <= faults'
  <2>1. Trouble' \subseteq Trouble
    BY <1>5, <1>8 DEF Trouble
  <2>2. Cardinality(Trouble') <= Cardinality(Trouble)
    BY <1>6, <2>1, TroubleCount
  <2> QED
    BY <1>1, <1>3, <1>4, <1>7, <1>8, <2>2 DEF FaultInv
<1>9. CASE Moves
  <2>1. got' = got /\ pos' = pos + 1 /\ datas' = Now
    BY <1>9 DEF Moves
  <2>2. Missed' = After
    <3>1. pos' - 1 = pos
      BY <1>3, <2>1
    <3> QED
      BY <1>1, <2>1, <3>1 DEF Missed, After
  <2>3. ~early' => Cardinality(Trouble') <= faults'
    BY <1>2, <1>4, <1>8, <2>2
  <2>4. one_round'[Len(got') + 1] => pos' <= Cardinality(datas') + Cardinality(Missed') + 1
    BY <1>1, <1>2, <1>3, <2>1, <2>2
  <2>5. ToleratesFaults'
    BY <1>1, <1>4, <2>1 DEF FaultInv, ToleratesFaults
  <2> QED
    BY <2>3, <2>4, <2>5 DEF FaultInv
<1>10. ASSUME NEW r \in {"good", "empty"}, Ends(r)
       PROVE  FaultInv'
  <2>1. /\ Len(got') = Len(got) + 1
        /\ \A x \in 1..Len(got) : got'[x] = got[x]
        /\ got'[cur] = r
        /\ \A x \in 1..Len(got') : x \in 1..Len(got) \/ x = cur
    BY <1>10, GotGrows
  <2>2. pos' = 1 /\ datas' = {}
    BY <1>10 DEF Ends
  <2>3. Missed' = {}
    <3>1. 1..(pos' - 1) = {}
      BY <2>2
    <3> QED
      BY <3>1 DEF Missed
  <2>4. ~early' => Cardinality(Trouble') <= faults'
    BY <1>8, <2>3
  <2>5. pos' <= Cardinality(datas') + Cardinality(Missed') + 1
    <3>1. Cardinality({}) = 0
      BY FS_EmptySet
    <3> QED
      BY <2>2, <2>3, <3>1
  <2>6. ASSUME r = "empty", one_round[cur], Len(S) = getBlocks,
               faults <= getBlocks - getDecodeBlocks, ~early'
        PROVE  FALSE
    <3>1. pos = getBlocks /\ Cardinality(Now) < getDecodeBlocks
      BY <1>10, <2>6 DEF Ends
    <3>2. Cardinality(After) <= Cardinality(Trouble)
      BY <1>2, <1>4, <1>6, <2>6, TroubleCount
    <3>3. Cardinality(Trouble) <= faults
      BY <1>4, <2>6 DEF FaultInv
    <3>4. Cardinality(After) <= faults
      BY <1>2, <1>3, <1>7, <3>2, <3>3
    <3> QED
      BY <1>2, <1>3, <2>6, <3>1, <3>4
  <2>7. ToleratesFaults'
    <3> SUFFICES ASSUME NEW x \in 1..Len(got'), one_round[x], Len(sub[x]) = getBlocks,
                        faults <= getBlocks - getDecodeBlocks, ~early'
                 PROVE  got'[x] = "good"
      BY <1>1 DEF ToleratesFaults
    <3>1. CASE x \in 1..Len(got)
      BY <1>4, <2>1, <3>1 DEF FaultInv, ToleratesFaults
    <3>2. CASE x = cur
      BY <2>1, <2>6, <3>2
    <3> QED
      BY <2>1, <3>1, <3>2
  <2> QED
    BY <2>4, <2>5, <2>7 DEF FaultInv
<1> QED
  BY <1>1, <1>9, <1>10

-----------------------------------------------------------------------------
(* The theorems                                                            *)

\* The initial state.
LEMMA InitInv ==
  Init => IInv
<1> SUFFICES ASSUME Init
             PROVE  IInv
  OBVIOUS
<1> USE DEF Init
<1>1. /\ getBlocks \in Nat \ {0} /\ FileBlocks \in Nat \ {0} /\ getDecodeBlocks \in Nat \ {0}
  BY Constants
<1>2. TypeInv
  <2>1. /\ up \in [Nodes -> BOOLEAN]
        /\ disk \in [Nodes -> [Shards -> {"none", "part", "full"}]]
        /\ one_round \in [1..FileBlocks -> BOOLEAN]
    OBVIOUS
  <2>2. /\ nodes \in Seq(Nodes) /\ nodes_hashs \in Seq(Placed) /\ sub \in Seq(Seq(Placed))
        /\ got \in Seq({"good", "bad", "empty"})
    OBVIOUS
  <2>3. /\ b \in 1..FileBlocks /\ i \in 1..getBlocks
        /\ node_index \in Nat /\ succ \in Nat /\ fail_count \in Nat /\ tries \in Nat
        /\ round \in Nat /\ pos \in Nat \ {0} /\ faults \in Nat
    BY <1>1
  <2>4. /\ streams \subseteq Placed /\ gave_up \subseteq BOOLEAN /\ datas \subseteq Placed
        /\ early \in BOOLEAN /\ step \in {"discover", "put", "done", "broken"}
    OBVIOUS
  <2> QED
    BY <2>1, <2>2, <2>3, <2>4, Zenon DEF TypeInv
<1>3. LoopInv
  BY <1>1 DEF LoopInv
<1>4. SentInv
  BY DEF SentInv
<1>5. FreshInv
  BY DEF FreshInv
<1>6. PlaceInv
  BY DEF PlaceInv
<1>7. RoundInv
  BY DEF RoundInv, GivesUpWhenAllFail
<1>8. IsFiniteSet({}) /\ Cardinality({}) = 0
  BY FS_EmptySet
<1>9. ReadInv
  BY <1>1, <1>8 DEF ReadInv, ReadIsGenuine
<1>10. FaultInv
  <2>1. \A c \in Nodes : ~Spoiled(c)
    BY DEF Spoiled, Sent
  <2>2. Missed = {}
    BY DEF Missed
  <2>3. Trouble = {}
    BY <2>1, <2>2 DEF Trouble
  <2> QED
    BY <1>8, <2>2, <2>3 DEF FaultInv, ToleratesFaults
<1> QED
  BY <1>2, <1>3, <1>4, <1>5, <1>6, <1>7, <1>9, <1>10 DEF IInv, UploadInv

\* Every step keeps the inductive invariant.
LEMMA NextInv ==
  ASSUME IInv, [Next]_vars
  PROVE  IInv'
<1>1. UploadInv /\ ReadInv /\ FaultInv
  BY DEF IInv
<1>2. CASE Upload
  <2>1. UploadInv'
    BY <1>1, <1>2, DiscoverUpload, BodyUpload DEF Upload
  <2> QED
    BY <1>1, <1>2, <2>1, UploadFault DEF IInv
<1>3. CASE Get
  BY <1>1, <1>3, GetUpload, GetRead, GetFault DEF IInv
<1>4. ASSUME NEW d \in Nodes, NEW s \in Shards, Land(d, s)
      PROVE  IInv'
  <2>1. Written(d, s, "full") /\ faults' = faults /\ faults \in Nat
    BY <1>1, <1>4 DEF Land, Written, UploadInv, TypeInv
  <2>2. UploadInv' /\ ReadInv'
    BY <1>1, <2>1, WrittenUpload, WrittenRead
  <2>3. \A c \in Nodes : Spoiled(c)' => Spoiled(c)
    BY <1>1, <2>1, WrittenSpoils
  <2>4. FaultInv'
    BY <1>1, <1>4, <2>1, <2>3, DatanodeFault DEF Land
  <2> QED
    BY <2>2, <2>4 DEF IInv
<1>5. ASSUME NEW d \in Nodes, NEW s \in Shards, Break(d, s)
      PROVE  IInv'
  <2>1. Written(d, s, "part") /\ faults' = faults + 1 /\ faults' \in Nat
    BY <1>1, <1>5 DEF Break, Written, UploadInv, TypeInv
  <2>2. UploadInv' /\ ReadInv'
    BY <1>1, <2>1, WrittenUpload, WrittenRead
  <2>3. \A c \in Nodes : Spoiled(c)' => Spoiled(c) \/ c = d
    BY <1>1, <2>1, WrittenSpoils
  <2>4. FaultInv'
    BY <1>1, <1>5, <2>1, <2>3, DatanodeFault DEF Break
  <2> QED
    BY <2>2, <2>4 DEF IInv
<1>6. ASSUME NEW d \in Nodes, Crash(d)
      PROVE  IInv'
  <2>1. /\ faults' = faults + 1 /\ faults' \in Nat /\ streams' \subseteq streams
        /\ UNCHANGED <<disk, upload, get>>
    BY <1>1, <1>6 DEF Crash, UploadInv, TypeInv
  <2>2. up' \in [Nodes -> BOOLEAN]
    BY <1>1, <1>6 DEF Crash, UploadInv, TypeInv
  <2>3. UploadInv'
    BY <1>1, <2>1, <2>2, CrashUpload
  <2>4. ReadInv'
    BY <1>1, <2>1 DEF ReadInv, ReadIsGenuine, upload, get
  <2>5. \A c \in Nodes : Spoiled(c)' => Spoiled(c) \/ c = d
    BY <1>1, <1>6, CrashSpoils
  <2>6. FaultInv'
    BY <1>1, <2>1, <2>5, DatanodeFault
  <2> QED
    BY <2>3, <2>4, <2>6 DEF IInv
<1>7. ASSUME NEW d \in Nodes, Restart(d)
      PROVE  IInv'
  <2>1. /\ faults' = faults /\ faults' \in Nat /\ streams' \subseteq streams
        /\ UNCHANGED <<disk, upload, get>>
    BY <1>1, <1>7 DEF Restart, UploadInv, TypeInv
  <2>2. up' \in [Nodes -> BOOLEAN]
    BY <1>1, <1>7 DEF Restart, UploadInv, TypeInv
  <2>3. UploadInv'
    BY <1>1, <2>1, <2>2, CrashUpload
  <2>4. ReadInv'
    BY <1>1, <2>1 DEF ReadInv, ReadIsGenuine, upload, get
  <2>5. \A c \in Nodes : Spoiled(c)' => Spoiled(c)
    BY <1>1, <1>7, RestartSpoils
  <2>6. FaultInv'
    BY <1>1, <2>1, <2>5, DatanodeFault
  <2> QED
    BY <2>3, <2>4, <2>6 DEF IInv
<1>8. CASE UNCHANGED vars
  <2>1. /\ UNCHANGED <<disk, upload, get, up, streams, faults>>
        /\ faults' \in Nat /\ up' \in [Nodes -> BOOLEAN]
    BY <1>1, <1>8 DEF vars, UploadInv, TypeInv
  <2>2. UploadInv'
    BY <1>1, <2>1, CrashUpload
  <2>3. ReadInv'
    BY <1>1, <2>1 DEF ReadInv, ReadIsGenuine, upload, get
  <2>4. \A c \in Nodes : Spoiled(c)' => Spoiled(c)
    BY <2>1 DEF Spoiled, Sent, upload
  <2>5. FaultInv'
    BY <1>1, <2>1, <2>4, DatanodeFault
  <2> QED
    BY <2>2, <2>3, <2>5 DEF IInv
<1> QED
  BY <1>2, <1>3, <1>4, <1>5, <1>6, <1>7, <1>8 DEF Next

\* The inductive invariant holds in every behaviour.
THEOREM Invariance == Spec => []IInv
<1> QED
  BY InitInv, NextInv, PTL DEF Spec

\* Every variable of the upload and the download keeps the shape the code gives
\* it; the index never leaves the vector of datanodes.
THEOREM TypeCorrect == Spec => []TypeOK
<1>1. IInv => TypeOK
  <2> SUFFICES ASSUME IInv
               PROVE  TypeOK
    OBVIOUS
  <2>1. TypeInv /\ LoopInv /\ ReadInv
    BY DEF IInv, UploadInv
  <2> QED
    BY <2>1 DEF TypeInv, LoopInv, ReadInv, TypeOK, Placed
<1> QED
  BY Invariance, <1>1, PTL

\* A block is read as itself or not at all, whatever crashes or breaks while it
\* is uploaded (put_to_datanode, on_closed) or read (get_from_datanode).
THEOREM ReadGenuine == Spec => []ReadIsGenuine
<1>1. IInv => ReadIsGenuine
  BY DEF IInv, ReadInv
<1> QED
  BY Invariance, <1>1, PTL

\* Any number of faults up to the number of parity shards is survived: a block
\* whose shards were placed within one round is read back.
THEOREM Tolerance == Spec => []ToleratesFaults
<1>1. IInv => ToleratesFaults
  BY DEF IInv, FaultInv
<1> QED
  BY Invariance, <1>1, PTL

\* encode_one_block says "all failed" only after a round in which every datanode
\* did; of datanode_put, which keeps fail_count from block to block, it is false.
THEOREM GivesUp ==
  ASSUME PerBlock
  PROVE  Spec => []GivesUpWhenAllFail
<1>1. IInv => GivesUpWhenAllFail
  BY DEF IInv, UploadInv, RoundInv
<1> QED
  BY Invariance, <1>1, PTL

\* What put_ok stores of a block names each of its shards, unless the loop gave
\* up.
THEOREM Complete == Spec => []CompleteUnlessGivenUp
<1>1. IInv => CompleteUnlessGivenUp
  <2> SUFFICES ASSUME IInv, gave_up = {}, NEW x \in 1..Len(sub)
               PROVE  {sub[x][y][2] : y \in 1..Len(sub[x])} = {x} \X (1..getBlocks)
    BY DEF CompleteUnlessGivenUp
  <2>1. Len(sub[x]) = getBlocks /\ \A y \in 1..Len(sub[x]) : sub[x][y][2] = <<x, y>>
    BY DEF IInv, UploadInv, SentInv
  <2>2. \A p \in {x} \X (1..getBlocks) : p[2] \in 1..getBlocks /\ p = <<x, p[2]>>
    OBVIOUS
  <2>3. \A y \in 1..getBlocks : <<x, y>> \in {x} \X (1..getBlocks)
    OBVIOUS
  <2> DEFINE names == {sub[x][y][2] : y \in 1..Len(sub[x])}
  <2>4. names \subseteq {x} \X (1..getBlocks)
    <3>1. \A y \in 1..Len(sub[x]) : sub[x][y][2] \in {x} \X (1..getBlocks)
      BY <2>1, <2>3, Zenon
    <3> QED
      BY <3>1, Zenon
  <2>5. ASSUME NEW y \in 1..getBlocks
        PROVE  <<x, y>> \in names
    <3>1. y \in 1..Len(sub[x])
      BY <2>1
    <3>2. sub[x][y][2] \in names
      BY <3>1
    <3> QED
      BY <2>1, <3>1, <3>2
  <2>6. {x} \X (1..getBlocks) \subseteq names
    <3> HIDE DEF names
    <3> QED
      BY <2>2, <2>5, Zenon
  <2> QED
    BY <2>4, <2>6
<1> QED
  BY Invariance, <1>1, PTL
=============================================================================
