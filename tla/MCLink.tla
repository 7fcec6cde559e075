------------------------------- MODULE MCLink -------------------------------
(* A watch with its one connection, and an access point with two.             *)
EXTENDS Link

MCWatches == {"w"}
MCNumConn == [d \in {"w", "ap"} |-> IF d = "w" THEN 1 ELSE 2]
MCTids == {1,2}
=============================================================================
