---------------------------- MODULE ShardUpload ----------------------------
(***************************************************************************)
(* The data path: a file's blocks are encoded into shards, the shards go   *)
(* to the datanodes in rotation, and get collects enough of them again     *)
(* (SDK::encode_one_block and decode_one_block in client/sdk.cpp,          *)
(* DataRetrive::datanode_put in common/data_retrive.hpp, the put and get   *)
(* of node/datanode.cpp with common/stream.cpp, common/storage_type.cpp).  *)
(*                                                                         *)
(* A shard travels in the background: put_to_datanode returns when the     *)
(* datanode has accepted the stream, and the datanode writes the shard's   *)
(* file when the stream is closed.  Datanodes crash and come back; streams *)
(* break.  The erasure code is external: any getDecodeBlocks shards of a   *)
(* block give the block back.                                              *)
(***************************************************************************)
EXTENDS Naturals, Sequences, FiniteSets

CONSTANTS
  Datanodes,    \* all datanodes, in the order get_datanodes returns them
  StorageType,  \* [type, k, m], type "RS", "AGG" or "RE" (k copies, m is 0)
  FileBlocks,   \* number of blocks of the file
  PerBlock,     \* TRUE: encode_one_block, called block by block;
                \* FALSE: datanode_put, one loop over all blocks
  MaxFaults     \* bound: crashes and broken streams

Nodes == {Datanodes[x] : x \in DOMAIN Datanodes}

ASSUME ShardAssumption ==
  /\ Datanodes \in Seq(Nodes) \ {<< >>}
  /\ \A x, y \in DOMAIN Datanodes : x # y => Datanodes[x] # Datanodes[y]
  /\ StorageType.type \in {"RS", "AGG", "RE"}
  /\ StorageType.k \in Nat \ {0} /\ StorageType.m \in Nat
  /\ StorageType.type = "RE" => StorageType.m = 0
  /\ FileBlocks \in Nat \ {0}
  /\ PerBlock \in BOOLEAN /\ MaxFaults \in Nat

VARIABLES
  up,          \* up[d]: datanode d runs
  disk,        \* disk[d][s]: the file of shard s on d, "none", "part" or "full"
  streams,     \* accepted streams on their way: pairs of datanode and shard
  nodes,       \* get_online_datanodes at the start
  step,        \* where the upload is: "discover", "put", "done" or "broken"
  b, i,        \* block and shard being uploaded, from 1
  node_index,  \* next datanode of nodes, from 0
  succ,        \* puts that succeeded
  fail_count,  \* puts that failed
  nodes_hashs, \* where the shards of block b went
  sub,         \* nodes_hashs of the finished blocks: what put_ok stores
  tries,       \* history: puts tried for block b
  one_round,   \* history: one_round[x]: block x took no more than one round
  round,       \* history: puts that failed since node_index was last 0
  gave_up,     \* history: for each time the loop gave up, did a whole round fail
  got,         \* blocks get has returned: "good", "bad" or "empty"
  pos, datas,  \* get's position in sub and the shards it has of the block
  early,       \* history: get started while shards were on their way
  faults       \* crashes and broken streams so far

upload == <<nodes, step, b, i, node_index, succ, fail_count, nodes_hashs, sub, tries,
            one_round, round, gave_up>>
get == <<got, pos, datas, early>>
vars == <<up, disk, streams, upload, get, faults>>

-----------------------------------------------------------------------------
(* StorageType                                                             *)

getBlocks == StorageType.k + StorageType.m
getDecodeBlocks == IF StorageType.type = "RE" THEN 1 ELSE StorageType.k
check(n) == IF StorageType.type = "RE" THEN n >= 1 ELSE n > StorageType.k

Shards == (1..FileBlocks) \X (1..getBlocks)

-----------------------------------------------------------------------------
(* Upload                                                                  *)

\* What get_online_datanodes returns: the datanodes that answer, in the order
\* of Datanodes.  There is exactly one such sequence.
Online ==
  {s \in UNION {[1..n -> Nodes] : n \in 0..Len(Datanodes)} :
     /\ {s[x] : x \in DOMAIN s} = {d \in Nodes : up[d]}
     /\ \A x, y \in DOMAIN s : x < y =>
          \E p, q \in DOMAIN Datanodes : p < q /\ s[x] = Datanodes[p] /\ s[y] = Datanodes[q]}

\* A loop starts with fresh counters and the datanodes that answer.  Without
\* one it reads nodes[0] of an empty vector and divides by its size.
Discover ==
  /\ step = "discover"
  /\ nodes' \in Online
  /\ node_index' = 0 /\ succ' = 0 /\ fail_count' = 0 /\ round' = 0
  /\ step' = IF nodes' = << >> THEN "broken" ELSE "put"
  /\ UNCHANGED <<up, disk, streams, b, i, nodes_hashs, sub, tries, one_round, gave_up, get,
                 faults>>

\* Once check(succ) holds fail_count is not read any more.
Capped(n) == IF n > 2 * Len(nodes) THEN 2 * Len(nodes) + 1 ELSE n

\* The block is through, with all its shards or without: the next one, or the
\* end.  A block without any shard leaves encode_one_sub with the pop_back of
\* an empty string.
NextBlock(hashs) ==
  /\ i' = 1 /\ nodes_hashs' = << >> /\ tries' = 0
  /\ IF hashs = << >> THEN step' = "broken" /\ UNCHANGED <<b, sub>>
     ELSE /\ sub' = Append(sub, hashs)
          /\ b' = IF b = FileBlocks THEN b ELSE b + 1
          /\ step' = IF b = FileBlocks THEN "done"
                     ELSE IF PerBlock THEN "discover" ELSE "put"

\* Mutant: the index is not taken modulo the number of datanodes.
NextNodeUnwrapped == node_index + 1

\* The rotation over the datanodes.
NextNode == (node_index + 1) % Len(nodes)

\* Mutant: fail_count is not reset between rounds.
EndOfBodyNoReset(n, failed, hashs) ==
  LET wraps == node_index + 1 = Len(nodes)
      gives_up == wraps /\ ~check(n) /\ failed = Len(nodes)
      fails == round + (failed - fail_count)
  IN  /\ node_index' = NextNode
      /\ succ' = n
      /\ fail_count' = Capped(failed)
      /\ one_round' = [one_round EXCEPT ![b] = @ /\ tries < Len(nodes)]
      /\ round' = IF wraps THEN 0 ELSE Capped(fails)
      /\ gave_up' = IF gives_up THEN gave_up \cup {fails = Len(nodes)} ELSE gave_up
      /\ IF gives_up \/ Len(hashs) = getBlocks THEN NextBlock(hashs)
         ELSE /\ i' = Len(hashs) + 1 /\ nodes_hashs' = hashs
              /\ tries' = IF tries = Len(nodes) THEN tries ELSE tries + 1
              /\ UNCHANGED <<b, sub, step>>
      /\ UNCHANGED <<nodes, up, get, faults>>

\* The end of the loop body: rotate, and at the end of a round give up if the
\* block is not secure and the failures are as many as the datanodes.
EndOfBody(n, failed, hashs) ==
  LET wraps == node_index + 1 = Len(nodes)
      insecure == wraps /\ ~check(n)
      gives_up == insecure /\ failed = Len(nodes)
      fails == round + (failed - fail_count)
  IN  /\ node_index' = NextNode
      /\ succ' = n
      /\ fail_count' = IF insecure /\ ~gives_up THEN 0 ELSE Capped(failed)
      /\ one_round' = [one_round EXCEPT ![b] = @ /\ tries < Len(nodes)]
      /\ round' = IF wraps THEN 0 ELSE Capped(fails)
      /\ gave_up' = IF gives_up THEN gave_up \cup {fails = Len(nodes)} ELSE gave_up
      /\ IF gives_up \/ Len(hashs) = getBlocks THEN NextBlock(hashs)
         ELSE /\ i' = Len(hashs) + 1 /\ nodes_hashs' = hashs
              /\ tries' = IF tries = Len(nodes) THEN tries ELSE tries + 1
              /\ UNCHANGED <<b, sub, step>>
      /\ UNCHANGED <<nodes, up, get, faults>>

\* Mutant: the loop stays at the datanode that took the shard.
PutSucceedsHere ==
  LET d == nodes[node_index + 1]
  IN  /\ step = "put" /\ up[d]
      /\ streams' = streams \cup {<<d, <<b, i>>>>}
      /\ succ' = succ + 1
      /\ IF i = getBlocks THEN NextBlock(Append(nodes_hashs, <<d, <<b, i>>>>))
         ELSE /\ i' = i + 1 /\ nodes_hashs' = Append(nodes_hashs, <<d, <<b, i>>>>)
              /\ UNCHANGED <<b, sub, step, tries>>
      /\ UNCHANGED <<up, disk, nodes, node_index, fail_count, one_round, round, gave_up, get,
                     faults>>

\* put_to_datanode returns: the datanode has accepted the stream.
PutSucceeds ==
  LET d == nodes[node_index + 1]
  IN  /\ step = "put" /\ up[d]
      /\ streams' = streams \cup {<<d, <<b, i>>>>}
      /\ EndOfBody(succ + 1, fail_count, Append(nodes_hashs, <<d, <<b, i>>>>))
      /\ UNCHANGED disk

\* Mutant: the shard is tried again on the same datanode.
PutFailsHere ==
  /\ step = "put" /\ ~up[nodes[node_index + 1]]
  /\ fail_count' = Capped(fail_count + 1)
  /\ UNCHANGED <<up, disk, streams, nodes, step, b, i, node_index, succ, nodes_hashs, sub,
                 tries, one_round, round, gave_up, get, faults>>

\* Mutant: without i-- the next shard goes to the next datanode.
PutFailsSkips ==
  /\ step = "put" /\ ~up[nodes[node_index + 1]]
  /\ node_index' = (node_index + 1) % Len(nodes)
  /\ IF i = getBlocks THEN NextBlock(nodes_hashs)
     ELSE i' = i + 1 /\ UNCHANGED <<b, sub, step, nodes_hashs, tries>>
  /\ UNCHANGED <<up, disk, streams, nodes, succ, fail_count, one_round, round, gave_up, get,
                 faults>>

\* It throws: the same shard goes to the next datanode.
PutFails ==
  /\ step = "put" /\ ~up[nodes[node_index + 1]]
  /\ EndOfBody(succ, fail_count + 1, nodes_hashs)
  /\ UNCHANGED <<streams, disk>>

-----------------------------------------------------------------------------
(* Datanodes                                                               *)

\* StreamReceiver::on_closed: the datanode writes what it has received.
Land(d, s) ==
  /\ <<d, s>> \in streams
  /\ streams' = streams \ {<<d, s>>}
  /\ disk' = [disk EXCEPT ![d][s] = "full"]
  /\ UNCHANGED <<up, upload, get, faults>>

\* The stream breaks; the part that came through is written.  The client
\* notes a write that fails, closes the stream and goes on.
Break(d, s) ==
  /\ <<d, s>> \in streams /\ faults < MaxFaults
  /\ streams' = streams \ {<<d, s>>}
  /\ disk' = [disk EXCEPT ![d][s] = "part"]
  /\ faults' = faults + 1
  /\ UNCHANGED <<up, upload, get>>

Crash(d) ==
  /\ up[d] /\ faults < MaxFaults
  /\ up' = [up EXCEPT ![d] = FALSE]
  /\ streams' = {x \in streams : x[1] # d}
  /\ faults' = faults + 1
  /\ UNCHANGED <<disk, upload, get>>

Restart(d) ==
  /\ ~up[d]
  /\ up' = [up EXCEPT ![d] = TRUE]
  /\ UNCHANGED <<disk, streams, upload, get, faults>>

-----------------------------------------------------------------------------
(* get: decode_one_block for every block of sub, once put_ok has stored it  *)

\* get_from_datanode returns: the shard is there and its sha256sum is right.
Fetched(d, s) == up[d] /\ disk[d][s] = "full"

Entry == sub[Len(got) + 1][pos]

Reading == step = "done" /\ Len(got) < Len(sub)

\* The shards at hand give the block back, if they are what was stored.
decode(shards) ==
  IF \A x \in shards : disk[x[1]][x[2]] = "full" THEN "good" ELSE "bad"

Finish(result) == got' = Append(got, result) /\ pos' = 1 /\ datas' = {}

GetShard ==
  /\ Reading /\ Fetched(Entry[1], Entry[2])
  /\ LET now == datas \cup {Entry}
     IN  IF Cardinality(now) = getDecodeBlocks THEN Finish(decode(now))
         ELSE IF pos = Len(sub[Len(got) + 1]) THEN Finish("empty")
         ELSE got' = got /\ pos' = pos + 1 /\ datas' = now
  /\ early' = (early \/ streams # {})
  /\ UNCHANGED <<up, disk, streams, upload, faults>>

\* It throws, and the next shard is tried; without one the block is "".
GetShardFails ==
  /\ Reading /\ ~Fetched(Entry[1], Entry[2])
  /\ IF pos = Len(sub[Len(got) + 1]) THEN Finish("empty")
     ELSE pos' = pos + 1 /\ UNCHANGED <<got, datas>>
  /\ early' = (early \/ streams # {})
  /\ UNCHANGED <<up, disk, streams, upload, faults>>

-----------------------------------------------------------------------------

Init ==
  /\ up = [d \in Nodes |-> TRUE]
  /\ disk = [d \in Nodes |-> [s \in Shards |-> "none"]]
  /\ streams = {}
  /\ nodes = << >> /\ step = "discover" /\ b = 1 /\ i = 1
  /\ node_index = 0 /\ succ = 0 /\ fail_count = 0
  /\ nodes_hashs = << >> /\ sub = << >>
  /\ tries = 0 /\ one_round = [x \in 1..FileBlocks |-> TRUE] /\ round = 0 /\ gave_up = {}
  /\ got = << >> /\ pos = 1 /\ datas = {} /\ early = FALSE
  /\ faults = 0

Upload == Discover \/ PutSucceeds \/ PutFails
Get == GetShard \/ GetShardFails

Next ==
  \/ Upload \/ Get
  \/ \E d \in Nodes, s \in Shards : Land(d, s) \/ Break(d, s)
  \/ \E d \in Nodes : Crash(d) \/ Restart(d)

Spec == Init /\ [][Next]_vars

\* The client's loop goes on; crashes and restarts are the environment's.
FairSpec == Spec /\ WF_vars(Upload)

-----------------------------------------------------------------------------
(* Properties                                                              *)

\* Every variable has the shape the code gives it.
TypeOK ==
  /\ up \in [Nodes -> BOOLEAN]
  /\ disk \in [Nodes -> [Shards -> {"none", "part", "full"}]]
  /\ streams \subseteq Nodes \X Shards
  /\ step \in {"discover", "put", "done", "broken"}
  /\ b \in 1..FileBlocks /\ i \in 1..getBlocks
  /\ step = "put" => node_index \in 0..(Len(nodes) - 1)
  /\ nodes_hashs \in Seq(Nodes \X Shards) /\ sub \in Seq(Seq(Nodes \X Shards))
  /\ Len(sub) <= FileBlocks
  /\ got \in Seq({"good", "bad", "empty"}) /\ Len(got) <= Len(sub)

\* A block is never read as something else: whatever breaks while it is
\* uploaded or read, get has the block itself or nothing (the sha256sum check
\* of get_from_datanode, with shards named by their sum).
ReadIsGenuine == \A x \in 1..Len(got) : got[x] # "bad"

\* As many faults as there are parity shards are survived from the upload to
\* the download: a block whose shards found a place within one round is read
\* back, unless get starts before the datanodes have written them.
ToleratesFaults ==
  \A x \in 1..Len(got) :
    /\ one_round[x] /\ Len(sub[x]) = getBlocks
    /\ faults <= getBlocks - getDecodeBlocks
    /\ ~early
    => got[x] = "good"

\* "all failed": the loop gives up on a block only after a round in which every
\* datanode failed.
GivesUpWhenAllFail == FALSE \notin gave_up

\* What put_ok is told about a block is complete, unless the loop gave up.
CompleteUnlessGivenUp ==
  gave_up = {} => \A x \in 1..Len(sub) : {sub[x][y][2] : y \in 1..Len(sub[x])} = {x} \X (1..getBlocks)

\* With one of its datanodes up for good in the end, the upload ends: a shard
\* that fails moves on and gets round to that datanode.
UploadEnds ==
  <>[](step = "put" => \E x \in DOMAIN nodes : up[nodes[x]])
    => <>(step \in {"done", "broken"})
=============================================================================
