------------------------ MODULE MCNamenodeSnapshot ------------------------
(* NamenodeSnapshot on the tree and the requests of MCNamenode.             *)
EXTENDS NamenodeSnapshot, MCNamenode
=============================================================================
