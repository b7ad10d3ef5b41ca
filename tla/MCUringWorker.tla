--------------------------- MODULE MCUringWorker ---------------------------
(* Instances of UringWorker for TLC: which listener a slot belongs to. *)
EXTENDS UringWorker, TLC

CONSTANTS c1, c2, c3

(* One http slot beside the management slot. *)
OneHttpOneAin == c1 :> "http" @@ c2 :> "ain"

(* A listener of each kind: one that answers, one that asks for more and one
   that hangs up. *)
HttpSipAin == c1 :> "http" @@ c2 :> "sip" @@ c3 :> "ain"
=============================================================================
