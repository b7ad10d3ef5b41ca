---------------------------- MODULE StopBarrier ----------------------------
(***************************************************************************)
(* What the supervising process promises about shutdown, with no word said *)
(* about how: every worker stops at most once, for good, and the           *)
(* supervisor gives up the state it shares with the workers only after the *)
(* last of them has stopped using it.                                      *)
(***************************************************************************)

CONSTANT Worker      (* the workers the supervisor has to wait for         *)

VARIABLES
  stopped,           (* workers that will never touch the shared state again *)
  released           (* has the supervisor released the shared state?      *)

vars == <<stopped, released>>

TypeOK ==
  /\ stopped \in SUBSET Worker
  /\ released \in BOOLEAN

Init ==
  /\ stopped = {}
  /\ released = FALSE

Stop(w) ==
  /\ w \notin stopped
  /\ stopped' = stopped \cup {w}
  /\ UNCHANGED released

Release ==
  /\ stopped = Worker
  /\ released' = TRUE
  /\ UNCHANGED stopped

Next == Release \/ \E w \in Worker : Stop(w)

Spec == Init /\ [][Next]_vars
=============================================================================
