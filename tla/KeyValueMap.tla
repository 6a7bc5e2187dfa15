----------------------------- MODULE KeyValueMap -----------------------------
(***************************************************************************)
(* What a table of key-value pairs promises to its callers: the abstract   *)
(* specification that ExtendibleHashTable implements.  A call waits, takes *)
(* effect in one step on the whole map, and leaves its answer.             *)
(***************************************************************************)
CONSTANTS Keys, Values, Absent

VARIABLES
  map,      \* the value every key has, or Absent
  call,     \* the call being served, or Absent
  answer    \* what the last call returned

vars == <<map, call, answer>>

Calls == [op : {"Insert"}, key : Keys, value : Values]
         \cup [op : {"Find", "Remove"}, key : Keys]

Init ==
  /\ map = [k \in Keys |-> Absent]
  /\ call = Absent
  /\ answer = Absent

Begin(c) ==
  /\ call = Absent
  /\ call' = c
  /\ UNCHANGED <<map, answer>>

Insert ==
  /\ call # Absent /\ call.op = "Insert"
  /\ map' = [map EXCEPT ![call.key] = call.value]
  /\ answer' = TRUE
  /\ call' = Absent

\* Find answers with the value, or with Absent where the code returns false.
Find ==
  /\ call # Absent /\ call.op = "Find"
  /\ answer' = map[call.key]
  /\ call' = Absent
  /\ UNCHANGED map

Remove ==
  /\ call # Absent /\ call.op = "Remove"
  /\ answer' = (map[call.key] # Absent)
  /\ map' = [map EXCEPT ![call.key] = Absent]
  /\ call' = Absent

Next == (\E c \in Calls : Begin(c)) \/ Insert \/ Find \/ Remove

Spec == Init /\ [][Next]_vars
=============================================================================
