--------------------------- MODULE ChildProcess ---------------------------
(***************************************************************************)
(* The server process on Windows (ain_child_process): a main thread and a  *)
(* thread for each worker.  The words the main thread polls and what it    *)
(* does with them are those of the Linux parent, so its steps are steps of *)
(* Supervisor.  What differs: the main thread opens the listeners before   *)
(* there are workers and deals each of them to one worker; one console     *)
(* handler serves all threads; and a failed assertion, in whichever        *)
(* thread, ends the process with all of them.                              *)
(***************************************************************************)
EXTENDS Integers

CONSTANTS WMax, LsSize, MaxQuits, CanFail    \* as in Supervisor

VARIABLES
  quit, wpc, ppc, i, j, join, sig, quits,    (* as in Supervisor           *)
  opened,      (* listeners the main thread has opened                     *)
  owner        (* ls->wdata: the worker of each listener                   *)

sup == <<quit, wpc, ppc, i, j, join, sig, quits>>
vars == <<sup, opened, owner>>

P == INSTANCE Supervisor

ASSUME ChildAssumption ==
  /\ WMax \in Nat \ {0} /\ LsSize \in Nat \ {0}
  /\ MaxQuits \in Nat /\ CanFail \in BOOLEAN

Worker == 0 .. WMax - 1
Listener == 0 .. LsSize - 1
None == -1

Init ==
  /\ P!Init
  /\ opened = 0
  /\ owner = [l \in Listener |-> None]

Listen ==
  /\ opened < LsSize /\ ppc = "fork"
  /\ opened' = opened + 1
  /\ UNCHANGED <<sup, owner>>

(* Mutant of Dealt: every worker takes all listeners. *)
DealtAll(w) == Listener

(* for (l = i; l < ls_size; l += conf.w_max) *)
Dealt(w) == {l \in Listener : l >= w /\ (l - w) % WMax = 0}

CreateThread ==
  /\ opened = LsSize
  /\ P!Fork
  /\ owner' = [l \in Listener |-> IF l \in Dealt(i) THEN i ELSE owner[l]]
  /\ UNCHANGED opened

StartPolling ==
  /\ opened = LsSize
  /\ P!StartPolling
  /\ UNCHANGED <<opened, owner>>

(* Mutants of Poll: the count starts one short; requests are made up. *)
PollOneShort ==
  /\ P!WakeOneShort \/ P!PollEnd \/ P!PollRequested \/ P!PollCommand
       \/ P!PollDefault \/ P!Spread \/ P!StoreRequest \/ P!FinishPass
  /\ UNCHANGED <<opened, owner>>
PollStoresAlways ==
  /\ P!Wake \/ P!PollEnd \/ P!PollRequested \/ P!PollCommand
       \/ P!PollDefault \/ P!Spread \/ P!StoreAlways \/ P!FinishPass
  /\ UNCHANGED <<opened, owner>>

Poll ==
  /\ P!Wake \/ P!PollEnd \/ P!PollRequested \/ P!PollCommand
       \/ P!PollDefault \/ P!Spread \/ P!StoreRequest \/ P!FinishPass
  /\ UNCHANGED <<opened, owner>>

(* The listeners are closed and freed, then the words of the workers; nothing
   waits for the threads themselves. *)
Release == P!CloseAndExit /\ UNCHANGED <<opened, owner>>

(* The handler of the console sets _sig_stopped. *)
CtrlC == P!Sigint /\ UNCHANGED <<opened, owner>>

(* on_ain runs in the worker that owns the management listener. *)
QuitCommand(w) ==
  /\ wpc[w] = "serve" /\ owner[LsSize - 1] = w
  /\ quits < MaxQuits
  /\ quit' = [quit EXCEPT ![w] = P!QUIT_CMD]
  /\ quits' = quits + 1
  /\ UNCHANGED <<wpc, ppc, i, j, join, sig, opened, owner>>

(* A worker's thread runs ain_worker_proc and returns. *)
Thread(w) ==
  /\ P!LeaveLoop(w) \/ P!WriteEnd(w) \/ P!ChildReturns(w)
  /\ UNCHANGED <<opened, owner>>

(* An assertion fails in some thread. *)
Crash ==
  /\ CanFail
  /\ ppc \notin {"exit", "crashed"}
  /\ ppc' = "crashed"
  /\ wpc' = [w \in Worker |-> IF wpc[w] \in {"serve", "drain"} THEN "crashed"
                             ELSE wpc[w]]
  /\ UNCHANGED <<quit, i, j, join, sig, quits, opened, owner>>

Main == Listen \/ CreateThread \/ StartPolling \/ Poll \/ Release

Next ==
  \/ Main \/ CtrlC \/ Crash
  \/ \E w \in Worker : Thread(w) \/ QuitCommand(w)

Spec == Init /\ [][Next]_vars

(* Threads are scheduled. *)
FairSpec == Spec /\ WF_vars(Main) /\ \A w \in Worker : WF_vars(Thread(w))

-----------------------------------------------------------------------------
(* The main thread frees the listeners and the words only after every thread
   has used them for the last time, although it does not wait for threads. *)
ReleaseAfterLastAccess == ppc = "exit" => P!Stopped = Worker

(* Whoever asks for a shutdown gets it, unless an assertion fails or a second
   cause of shutdown comes on top of the first. *)
ShutdownCompletes ==
  (quits > 0) ~> \/ ppc = "exit" /\ P!Stopped = Worker
                 \/ quits > 1
                 \/ ppc = "crashed"

(* A process of threads behaves as the processes of the Linux server do, but
   that a failed assertion ends all of it at once. *)
ImplementsSupervisor == P!Init /\ [][P!Next \/ Crash]_sup
=============================================================================
