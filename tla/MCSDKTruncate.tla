---------------------------- MODULE MCSDKTruncate ----------------------------
(* Threads and bounds for SDKTruncate. *)
EXTENDS SDKTruncate
=============================================================================
