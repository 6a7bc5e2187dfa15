------------------------ MODULE MCExtendibleHashTable ------------------------
(* A small table: keys are integers, hashed to their lowest bits as          *)
(* std::hash<int> does.                                                      *)
EXTENDS ExtendibleHashTable

IntKeys == {0, 1, 2, 4, 5, 8}
LowestBits == [k \in IntKeys |-> [i \in 1..Width |-> (k \div (2^(i - 1))) % 2]]
=============================================================================
