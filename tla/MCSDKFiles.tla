----------------------------- MODULE MCSDKFiles -----------------------------
(* Threads and bounds for SDKFiles. *)
EXTENDS SDKFiles
=============================================================================
