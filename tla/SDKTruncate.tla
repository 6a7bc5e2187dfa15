----------------------------- MODULE SDKTruncate -----------------------------
(***************************************************************************)
(* truncate, and open with O_TRUNC (client/sdk.cpp), on top of SDKFiles:   *)
(* both are an open that ends in _truncate(path, 0), since truncate ignores*)
(* its size.                                                               *)
(***************************************************************************)
EXTENDS SDKFiles

\* _truncate ends with an unlock, although the file is still open; truncate
\* itself then unlocks again.
AfterTruncate(t) == IF at[t].mode = "truncate" THEN "unlock" ELSE "in"

Truncate(t) ==
  /\ Running /\ at[t].step = "_truncate" /\ inode # NoInode
  /\ \/ inode = << >> /\ Go(t, AfterTruncate(t)) /\ UNCHANGED master
     \/ inode # << >> /\ Caught(t) /\ UNCHANGED master
     \/ /\ inode # << >> /\ master # Gone
        /\ master' = << >>
        /\ at' = [at EXCEPT ![t].step = "unlock", ![t].back = AfterTruncate(t)]
  /\ UNCHANGED <<locks, files, slave, rest>>

TruncateNext == Next \/ \E t \in Threads : Truncate(t)

TruncateSpec == Init /\ [][TruncateNext]_vars

-----------------------------------------------------------------------------
\* "read also unlock remote(no effection)": the unlock of a thread that opened
\* the file for reading leaves remoteLocks as it was.
ReadUnlockNoEffect ==
  [][\A t \in Threads : at[t].mode = "read" /\ at[t].step = "unlock" /\ at'[t].step = "unlock_path"
       => remoteLocks' = remoteLocks]_vars
=============================================================================
