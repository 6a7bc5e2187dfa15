----------------------------- MODULE MCNamenode -----------------------------
(* Instances of Namenode for TLC: a tree "/" > a > f and the request sets   *)
(* of the runs.                                                             *)
EXTENDS Namenode, TLC

CONSTANTS a, f, b1, b2, n1, n2

MCPaths  == {Root, a, f}
MCParent == [p \in MCPaths |-> IF p = f THEN a ELSE Root]
MCAggIds == (1..MaxTime) \X Nodes

Req(op, ps) == [op |-> op, paths |-> ps, blocks |-> {}]
ReqOk(op, ps, bs) == [op |-> op, paths |-> ps, blocks |-> bs]

DirRequests == {Req(op, {p}) : op \in {"mkdir", "rm"}, p \in {a, f}}
FileRequests == {Req("put", {f}), ReqOk("put_ok", {f}, {b1}), Req("update_lock", {f})}
AllRequests == DirRequests \cup FileRequests \cup
  {Req("rm", {Root}), Req("put", {a}), ReqOk("put_ok", {a}, {b1}),
   Req("put_batch", {a, f}), ReqOk("put_ok_batch", {f}, {b2}),
   Req("update_lock", {Root, a})}

RootFileRequests == {Req("put", {a}), ReqOk("put_ok", {a}, {b1}), Req("update_lock", {a})}

\* Files and directories, also a file below a directory that was never made.
TreeRequests == DirRequests \cup {Req("put", {f}), ReqOk("put_ok", {f}, {b1})}

\* One response per request means the request is through: update_lock of
\* several paths answers after the first of them.
SingleResponseRequests ==
  {r \in AllRequests : r.op = "update_lock" => \E p \in Paths : r.paths = {p}}
  \cup {Req("update_lock", {a})}

\* Namenodes only differ in what happens to them.
NodeSymmetry == Permutations(Nodes)
=============================================================================
