--------------------------- MODULE MCHistoryPersist ---------------------------
(* Instantiation of HistoryPersist for TLC: one channel, reachable under   *)
(* two spellings, in bucket 2 of a three-bucket table swept two buckets   *)
(* per timer event.                                                       *)
EXTENDS HistoryPersist

MCName == {"#a", "#A"}
MCFold == [n \in MCName |-> "#a"]
MCHashOf == [c \in {"#a"} |-> 2]
MCCleanPerLoop == 3 \div 2
=============================================================================
