------------------------------ MODULE SlotLife ------------------------------
(***************************************************************************)
(* The life of the connection slots of a worker as a client of the server  *)
(* sees it, with no rings, events or handlers: a slot listens, serves one  *)
(* socket chunk by chunk and closes.  A response is written only after     *)
(* something was heard, on the socket it was heard on; two slots never     *)
(* serve the same socket; a slot that is not closed is always waiting for  *)
(* something or about to be looked at.                                     *)
(***************************************************************************)
EXTENDS Integers

CONSTANTS
  Slot,      (* connection slots                                           *)
  Socket,    (* client sockets                                             *)
  None       (* no socket                                                  *)

VARIABLES
  phase,     (* of each slot                                               *)
  sock,      (* the socket each slot serves                                *)
  stopped    (* has the worker stopped serving?                            *)

vars == <<phase, sock, stopped>>

Init ==
  /\ phase = [c \in Slot |-> "listening"]
  /\ sock = [c \in Slot |-> None]
  /\ stopped = FALSE

Move(c, from, to) == phase[c] \in from /\ phase'[c] \in to

(* What a slot may do between two waits of the worker. *)
Arrive(c) ==
  /\ Move(c, {"listening"}, {"arrived"})
  /\ sock'[c] \in Socket
  /\ \A d \in Slot \ {c} : sock'[d] # sock'[c]

Greet(c) == Move(c, {"arrived"}, {"reading"}) /\ sock'[c] = sock[c]

Hear(c) == Move(c, {"reading"}, {"heard", "failed"}) /\ sock'[c] = sock[c]

Answer(c) ==
  /\ Move(c, {"heard"}, {"reading", "writing"})
  /\ sock'[c] = sock[c]

Write(c) == Move(c, {"writing"}, {"written", "failed"}) /\ sock'[c] = sock[c]

Resume(c) == Move(c, {"written"}, {"reading"}) /\ sock'[c] = sock[c]

Fail(c) == Move(c, {"listening"}, {"failed"}) /\ sock'[c] = None

Close(c) == Move(c, {"heard", "failed"}, {"closed"}) /\ sock'[c] = None

Reuse(c) == Move(c, {"closed"}, {"listening"}) /\ sock'[c] = None

Stay(c) == phase'[c] = phase[c] /\ sock'[c] = sock[c]

SlotStep(c) ==
  \/ Arrive(c) \/ Greet(c) \/ Hear(c) \/ Answer(c) \/ Write(c) \/ Resume(c)
  \/ Fail(c) \/ Close(c) \/ Reuse(c)
  \/ Stay(c)

Serve == ~stopped /\ ~stopped' /\ \A c \in Slot : SlotStep(c)

(* A worker may also drop a client it has not heard from since, as that of
   Windows does with a connection that idles or was reset. *)
Drop(c) ==
  /\ Move(c, {"arrived", "reading", "writing", "written"}, {"closed"})
  /\ sock'[c] = None

ServeOrDrop == ~stopped /\ ~stopped' /\ \A c \in Slot : SlotStep(c) \/ Drop(c)

(* The end of the worker closes whatever is open, for good. *)
Stop ==
  /\ ~stopped /\ stopped'
  /\ \A c \in Slot : phase'[c] = "closed" /\ sock'[c] = None

Spec == Init /\ [][Serve \/ Stop]_vars
=============================================================================
