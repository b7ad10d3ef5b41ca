----------------------------- MODULE Supervisor -----------------------------
(***************************************************************************)
(* The parent process of the Linux server and the worker processes it      *)
(* forks (ain_parent_process_ux), as far as starting and stopping go.      *)
(*                                                                         *)
(* Parent and workers share one word per worker, worker_data_t.quit, in a  *)
(* System V segment.  Nobody locks it: the parent polls it every 50 ms and *)
(* writes requests into it, a worker writes a management command or the    *)
(* end of its run into it.  Every read and every write of the word is a    *)
(* step of its own here.  What a worker does between two looks at the word *)
(* is the subject of module UringWorker.                                   *)
(***************************************************************************)
EXTENDS Integers

CONSTANTS
  WMax,        (* conf.w_max, the number of workers                        *)
  LsSize,      (* lsdata->lls_size; the management listener is the last    *)
  MaxQuits,    (* bound: shutdown causes (signal, commands) in a behaviour *)
  CanFail      (* may a fork fail and a worker crash?                      *)

ASSUME SupervisorAssumption ==
  /\ WMax \in Nat \ {0}
  /\ LsSize \in Nat \ {0}
  /\ MaxQuits \in Nat
  /\ CanFail \in BOOLEAN

Worker == 0 .. WMax - 1

(* The values of worker_data_t.quit. *)
RUN      == "AIN_WORKER_RUN"
QUIT_REQ == "AIN_WORKER_QUIT_REQ"
END      == "AIN_WORKER_END"
QUIT_CMD == "AIN_WORKER_QUIT_CMD"

VARIABLES
  quit,        (* the shared word of each worker                           *)
  wpc,         (* where each worker is                                     *)
  ppc,         (* where the parent is                                      *)
  i,           (* the parent's loop variables ...                          *)
  j,
  join,        (* ... and its count of workers that have not ended         *)
  sig,         (* _sig_stopped of the parent                               *)
  quits        (* shutdown causes so far                                   *)

parent == <<ppc, i, j, join>>
vars == <<quit, wpc, parent, sig, quits>>

(***************************************************************************)
(* A worker is forked, serves connections, drains (closes them and its     *)
(* ring), has ended (it wrote END and only closes listeners now) and has   *)
(* exited.  A failed assertion dereferences NULL, so it kills the process. *)
(***************************************************************************)
WorkerPc == {"unborn", "serve", "drain", "ended", "exited", "crashed"}
ParentPc == {"fork", "sleep", "poll", "default", "spread", "close", "exit",
             "crashed"}

TypeOK ==
  /\ quit \in [Worker -> {RUN, QUIT_REQ, END, QUIT_CMD}]
  /\ wpc \in [Worker -> WorkerPc]
  /\ ppc \in ParentPc
  /\ i \in 0 .. WMax
  /\ j \in 0 .. WMax
  /\ join \in 0 .. WMax
  /\ sig \in {0, 1}
  /\ quits \in 0 .. MaxQuits

(* ain_shared_data_alloc clears the segment, so every word reads RUN. *)
Init ==
  /\ quit = [w \in Worker |-> RUN]
  /\ wpc = [w \in Worker |-> "unborn"]
  /\ ppc = "fork"
  /\ i = 0 /\ j = 0 /\ join = 0
  /\ sig = 0
  /\ quits = 0

-----------------------------------------------------------------------------
(* Causes of a shutdown. *)

(* ain_sig_handler in the parent; the children run their own copy, which
   nothing reads. *)
Sigint ==
  /\ quits < MaxQuits
  /\ sig = 0
  /\ sig' = 1
  /\ quits' = quits + 1
  /\ UNCHANGED <<quit, wpc, parent>>

(* Child w listens on every listener from number w on. *)
Assoc(w) == {l \in 0 .. LsSize - 1 : l >= w}

(* on_ain: a client of the management listener sent "quit".  The handler
   stores QUIT_CMD whatever the word holds. *)
QuitCommand(w) ==
  /\ wpc[w] = "serve"
  /\ LsSize - 1 \in Assoc(w)
  /\ quits < MaxQuits
  /\ quit' = [quit EXCEPT ![w] = QUIT_CMD]
  /\ quits' = quits + 1
  /\ UNCHANGED <<wpc, parent, sig>>

-----------------------------------------------------------------------------
(* The workers. *)

(* The condition of the worker's do loop: it goes on unless the word says
   QUIT_REQ at that moment. *)
LeaveLoop(w) ==
  /\ wpc[w] = "serve"
  /\ quit[w] = QUIT_REQ
  /\ wpc' = [wpc EXCEPT ![w] = "drain"]
  /\ UNCHANGED <<quit, parent, sig, quits>>

(* Last statement of ain_worker_proc. *)
WriteEnd(w) ==
  /\ wpc[w] = "drain"
  /\ quit' = [quit EXCEPT ![w] = END]
  /\ wpc' = [wpc EXCEPT ![w] = "ended"]
  /\ UNCHANGED <<parent, sig, quits>>

(* The child closes its copy of the listeners and returns. *)
ChildReturns(w) ==
  /\ wpc[w] = "ended"
  /\ wpc' = [wpc EXCEPT ![w] = "exited"]
  /\ UNCHANGED <<quit, parent, sig, quits>>

(* A listener that cannot be bound, a failed allocation or a failed ring
   kills the worker; nothing restarts it and its word stays as it is. *)
Crash(w) ==
  /\ CanFail
  /\ wpc[w] \in {"serve", "drain"}
  /\ wpc' = [wpc EXCEPT ![w] = "crashed"]
  /\ UNCHANGED <<quit, parent, sig, quits>>

-----------------------------------------------------------------------------
(* The parent. *)

Fork ==
  /\ ppc = "fork" /\ i < WMax
  /\ wpc' = [wpc EXCEPT ![i] = "serve"]
  /\ i' = i + 1
  /\ UNCHANGED <<quit, ppc, j, join, sig, quits>>

(* AIN_ASSERT_NULL(pid != -1) kills the parent; the children live on. *)
ForkFails ==
  /\ CanFail
  /\ ppc = "fork" /\ i < WMax
  /\ ppc' = "crashed"
  /\ UNCHANGED <<quit, wpc, i, j, join, sig, quits>>

StartPolling ==
  /\ ppc = "fork" /\ i = WMax
  /\ ppc' = "sleep"
  /\ UNCHANGED <<quit, wpc, i, j, join, sig, quits>>

(* Mutants of Wake: the count starts one short; it is not restarted. *)
WakeOneShort ==
  /\ ppc = "sleep"
  /\ ppc' = "poll"
  /\ join' = WMax - 1
  /\ i' = 0
  /\ UNCHANGED <<quit, wpc, j, sig, quits>>

WakeKeepsCount ==
  /\ ppc = "sleep"
  /\ ppc' = "poll"
  /\ join' = IF sig = 0 THEN WMax ELSE join
  /\ i' = 0
  /\ UNCHANGED <<quit, wpc, j, sig, quits>>

Wake ==
  /\ ppc = "sleep"
  /\ ppc' = "poll"
  /\ join' = WMax
  /\ i' = 0
  /\ UNCHANGED <<quit, wpc, j, sig, quits>>

(* Mutant of PollEnd: the case falls through to the default. *)
PollEndFallsThrough ==
  /\ ppc = "poll" /\ i < WMax
  /\ quit[i] = END
  /\ join' = join - 1
  /\ ppc' = "default"
  /\ UNCHANGED <<quit, wpc, i, j, sig, quits>>

(* switch (workers_data[i].quit): one read, then the case it selects. *)
PollEnd ==
  /\ ppc = "poll" /\ i < WMax
  /\ quit[i] = END
  /\ join' = join - 1
  /\ i' = i + 1
  /\ UNCHANGED <<quit, wpc, ppc, j, sig, quits>>

(* Mutant of PollRequested: a worker that was asked to quit counts as gone. *)
PollRequestedCounts ==
  /\ ppc = "poll" /\ i < WMax
  /\ quit[i] = QUIT_REQ
  /\ join' = join - 1
  /\ i' = i + 1
  /\ UNCHANGED <<quit, wpc, ppc, j, sig, quits>>

PollRequested ==
  /\ ppc = "poll" /\ i < WMax
  /\ quit[i] = QUIT_REQ
  /\ i' = i + 1
  /\ UNCHANGED <<quit, wpc, ppc, j, join, sig, quits>>

PollCommand ==
  /\ ppc = "poll" /\ i < WMax
  /\ quit[i] = QUIT_CMD
  /\ ppc' = "spread"
  /\ j' = 0
  /\ UNCHANGED <<quit, wpc, i, join, sig, quits>>

PollDefault ==
  /\ ppc = "poll" /\ i < WMax
  /\ quit[i] = RUN
  /\ ppc' = "default"
  /\ UNCHANGED <<quit, wpc, i, j, join, sig, quits>>

(* Mutant of Spread: the worker that got the command is left out. *)
SpreadToOthers ==
  /\ ppc = "spread"
  /\ quit' = IF j = i THEN quit ELSE [quit EXCEPT ![j] = QUIT_REQ]
  /\ IF j + 1 < WMax
     THEN j' = j + 1 /\ UNCHANGED <<ppc, i>>
     ELSE j' = 0 /\ ppc' = "poll" /\ i' = i + 1
  /\ UNCHANGED <<wpc, join, sig, quits>>

(* The inner loop over j stores QUIT_REQ into every word, one at a time,
   without looking at what the word holds. *)
Spread ==
  /\ ppc = "spread"
  /\ quit' = [quit EXCEPT ![j] = QUIT_REQ]
  /\ IF j + 1 < WMax
     THEN j' = j + 1 /\ UNCHANGED <<ppc, i>>
     ELSE j' = 0 /\ ppc' = "poll" /\ i' = i + 1
  /\ UNCHANGED <<wpc, join, sig, quits>>

(* Mutant of StoreRequest: the request does not wait for the signal. *)
StoreAlways ==
  /\ ppc = "default"
  /\ quit' = [quit EXCEPT ![i] = QUIT_REQ]
  /\ ppc' = "poll"
  /\ i' = i + 1
  /\ UNCHANGED <<wpc, j, join, sig, quits>>

(* The default case: a request follows only if the signal has come. *)
StoreRequest ==
  /\ ppc = "default"
  /\ quit' = IF sig = 1 THEN [quit EXCEPT ![i] = QUIT_REQ] ELSE quit
  /\ ppc' = "poll"
  /\ i' = i + 1
  /\ UNCHANGED <<wpc, j, join, sig, quits>>

(* while (join) *)
FinishPass ==
  /\ ppc = "poll" /\ i = WMax
  /\ ppc' = IF join = 0 THEN "close" ELSE "sleep"
  /\ UNCHANGED <<quit, wpc, i, j, join, sig, quits>>

(* ain_process_close on every child (waitpid with WNOHANG reports a running
   child as not alive, so no child is killed), then the segment is
   released. *)
CloseAndExit ==
  /\ ppc = "close"
  /\ ppc' = "exit"
  /\ UNCHANGED <<quit, wpc, i, j, join, sig, quits>>

-----------------------------------------------------------------------------
ParentStep ==
  \/ Fork \/ StartPolling \/ Wake
  \/ PollEnd \/ PollRequested \/ PollCommand \/ PollDefault
  \/ Spread \/ StoreRequest \/ FinishPass \/ CloseAndExit

WorkerStep(w) == LeaveLoop(w) \/ WriteEnd(w) \/ ChildReturns(w)

Next ==
  \/ ParentStep
  \/ ForkFails
  \/ Sigint
  \/ \E w \in Worker : WorkerStep(w) \/ QuitCommand(w) \/ Crash(w)

Spec == Init /\ [][Next]_vars

(* Parent and workers are scheduled; nothing makes a signal, a command or a
   failure happen.  That a worker gets back to its loop condition needs its
   I/O to go quiet now and then, see UringWorker. *)
Fairness ==
  /\ WF_vars(ParentStep)
  /\ \A w \in Worker : WF_vars(WorkerStep(w))

FairSpec == Spec /\ Fairness

-----------------------------------------------------------------------------
(* Properties. *)

Stopped == {w \in Worker : wpc[w] \in {"ended", "exited"}}

(* The parent releases the shared segment only after every worker has made
   its last access to it; in particular it never does so after a worker
   crashed, because the crashed worker's END is awaited forever. *)
ReleaseAfterLastAccess == ppc = "exit" => Stopped = Worker

(* No worker stops serving unless a signal or a management command asked for
   a shutdown: polling does not make requests up. *)
StopsOnlyWhenAsked ==
  \A w \in Worker : wpc[w] \in {"drain", "ended", "exited"} => quits > 0

(* A worker's END is its last word: once written it is never overwritten, so
   the parent cannot miss it.  This is what "2: quited" beside
   worker_data_t.quit says. *)
EndIsFinal ==
  [][\A w \in Worker : quit[w] = END => quit'[w] = END]_vars

(* The same as long as there has been one cause of shutdown only: the parent
   does not overwrite an END of its own accord, only a second signal or
   command makes it do so. *)
EndIsFinalOfOneCause ==
  [][quits <= 1 => \A w \in Worker : quit[w] = END => quit'[w] = END]_vars

(* Some process died of a failed assertion. *)
Failed == ppc = "crashed" \/ \E w \in Worker : wpc[w] = "crashed"

(* Whoever asks for a shutdown gets it: every worker ends and the parent
   exits, unless an assertion fails or a second cause of shutdown comes on
   top of the first. *)
ShutdownCompletes ==
  (quits > 0) ~> \/ ppc = "exit" /\ Stopped = Worker
                 \/ quits > 1
                 \/ Failed

(* The parent implements the shutdown barrier. *)
Barrier == INSTANCE StopBarrier
             WITH stopped <- Stopped, released <- (ppc = "exit")
ImplementsBarrier == Barrier!Spec
=============================================================================
