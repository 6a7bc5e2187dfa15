------------------------- MODULE MCNamenodeElection -------------------------
(* Instances of NamenodeElection for TLC: three machines, of which two or   *)
(* all three are to run a namenode.                                        *)
EXTENDS NamenodeElection

CONSTANTS m1, m2, m3

Three == <<m1, m2, m3>>
=============================================================================
