--------------------------- MODULE MCIocpWorker ---------------------------
(* Instances of IocpWorker for TLC: which listener a slot belongs to. *)
EXTENDS IocpWorker, TLC

CONSTANTS c1, c2

(* A handler that answers or asks for more, beside the management port. *)
HttpOrSip == {c1 :> h @@ c2 :> "ain" : h \in {"http", "sip"}}
=============================================================================
