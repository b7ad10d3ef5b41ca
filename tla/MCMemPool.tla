----------------------------- MODULE MCMemPool -----------------------------
(* Instances of MemPool for TLC. *)
EXTENDS MemPool

(* Three pools in a row in memory, mapped in neither order, and not at the
   ends of the address space. *)
RowOfPools == [q \in Pool |-> PageBytes * CASE q = 0 -> 2 * PoolSize
                                            [] q = 1 -> 3 * PoolSize
                                            [] q = 2 -> PoolSize]

OnePool == [q \in Pool |-> 0]
=============================================================================
