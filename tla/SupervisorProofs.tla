-------------------------- MODULE SupervisorProofs --------------------------
(***************************************************************************)
(* Proofs about module Supervisor, for every number of workers and         *)
(* listeners, every number of shutdown causes, with and without failures.  *)
(***************************************************************************)
EXTENDS Supervisor, TLAPS

USE SupervisorAssumption DEF SupervisorAssumption, Worker, RUN, QUIT_REQ, END, QUIT_CMD

(***************************************************************************)
(* Type correctness.                                                       *)
(***************************************************************************)

(* While the parent is in a pass over the shared words. *)
InPass == ppc \in {"poll", "default", "spread"}

(* Wherever the parent indexes the segment, the index is in range, and join
   can be decremented: it is at least the number of words still to read. *)
TypeInv ==
  /\ TypeOK
  /\ ppc \in {"default", "spread"} => i < WMax
  /\ ppc = "spread" => j < WMax
  /\ InPass => join >= WMax - i

(* The initial state is well typed. *)
LEMMA InitTypeInv == Init => TypeInv
  BY DEF Init, TypeInv, TypeOK, InPass, WorkerPc, ParentPc

(* Every step of the parent, of a worker or of the outside world keeps the
   words, the program counters and the loop variables in range. *)
LEMMA StepTypeInv == TypeInv /\ [Next]_vars => TypeInv'
<1> USE DEF TypeInv, TypeOK, InPass, WorkerPc, ParentPc, parent, vars
<1> SUFFICES ASSUME TypeInv, [Next]_vars PROVE TypeInv'
  OBVIOUS
<1>1. CASE Fork
  BY <1>1 DEF Fork
<1>2. CASE StartPolling
  BY <1>2 DEF StartPolling
<1>3. CASE Wake
  BY <1>3 DEF Wake
<1>4. CASE PollEnd
  BY <1>4 DEF PollEnd
<1>5. CASE PollRequested
  BY <1>5 DEF PollRequested
<1>6. CASE PollCommand
  BY <1>6 DEF PollCommand
<1>7. CASE PollDefault
  BY <1>7 DEF PollDefault
<1>8. CASE Spread
  BY <1>8 DEF Spread
<1>9. CASE StoreRequest
  BY <1>9 DEF StoreRequest
<1>10. CASE FinishPass
  BY <1>10 DEF FinishPass
<1>11. CASE CloseAndExit
  BY <1>11 DEF CloseAndExit
<1>12. CASE ForkFails
  BY <1>12 DEF ForkFails
<1>13. CASE Sigint
  BY <1>13 DEF Sigint
<1>14. ASSUME NEW w \in Worker, WorkerStep(w) PROVE TypeInv'
  BY <1>14 DEF WorkerStep, LeaveLoop, WriteEnd, ChildReturns
<1>15. ASSUME NEW w \in Worker, QuitCommand(w) PROVE TypeInv'
  BY <1>15 DEF QuitCommand
<1>16. ASSUME NEW w \in Worker, Crash(w) PROVE TypeInv'
  BY <1>16 DEF Crash
<1>17. CASE UNCHANGED vars
  BY <1>17
<1> QED
  BY <1>1, <1>2, <1>3, <1>4, <1>5, <1>6, <1>7, <1>8, <1>9, <1>10, <1>11,
     <1>12, <1>13, <1>14, <1>15, <1>16, <1>17 DEF Next, ParentStep

(* The parent never indexes past the segment it shares with the workers, and
   its count of running workers never wraps below zero. *)
THEOREM TypeCorrect == Spec => []TypeOK
<1>1. TypeInv => TypeOK
  BY DEF TypeInv
<1> QED
  BY InitTypeInv, StepTypeInv, <1>1, PTL DEF Spec

(* The same, with the index bounds the later proofs use. *)
LEMMA AlwaysTypeInv == Spec => []TypeInv
  BY InitTypeInv, StepTypeInv, PTL DEF Spec

-----------------------------------------------------------------------------
(***************************************************************************)
(* The release of the shared segment.                                      *)
(***************************************************************************)

(* Why the parent may trust its count: END is only ever read from a worker
   that is past its last access, being past it is for good, and a pass in
   which join has lost one unit per word read has seen END in each of them. *)
PassInv ==
  /\ \A w \in Worker : quit[w] = END => w \in Stopped
  /\ ppc = "fork" => \A w \in Worker : w >= i => wpc[w] = "unborn"
  /\ InPass /\ join = WMax - i => \A w \in Worker : w < i => w \in Stopped
  /\ ppc \in {"close", "exit"} => \A w \in Worker : w \in Stopped

(* Nothing has been read when the parent starts. *)
LEMMA InitPassInv == Init => PassInv
  BY DEF Init, PassInv, InPass, Stopped

(* The count stays trustworthy; in particular an END that Spread overwrites
   after it was counted belongs to a worker that stays stopped. *)
LEMMA StepPassInv == TypeInv /\ PassInv /\ [Next]_vars => PassInv'
<1> USE DEF TypeInv, TypeOK, PassInv, InPass, Stopped, parent, vars
<1> SUFFICES ASSUME TypeInv, PassInv, [Next]_vars PROVE PassInv'
  OBVIOUS
<1>1. CASE Fork
  BY <1>1 DEF Fork
<1>2. CASE StartPolling
  BY <1>2 DEF StartPolling
<1>3. CASE Wake
  BY <1>3 DEF Wake
<1>4. CASE PollEnd
  BY <1>4 DEF PollEnd
<1>5. CASE PollRequested
  BY <1>5 DEF PollRequested
<1>6. CASE PollCommand
  BY <1>6 DEF PollCommand
<1>7. CASE PollDefault
  BY <1>7 DEF PollDefault
<1>8. CASE Spread
  BY <1>8 DEF Spread
<1>9. CASE StoreRequest
  BY <1>9 DEF StoreRequest
<1>10. CASE FinishPass
  BY <1>10 DEF FinishPass
<1>11. CASE CloseAndExit
  BY <1>11 DEF CloseAndExit
<1>12. CASE ForkFails
  BY <1>12 DEF ForkFails
<1>13. CASE Sigint
  BY <1>13 DEF Sigint
<1>14. ASSUME NEW w \in Worker, WorkerStep(w) PROVE PassInv'
  <2>1. CASE LeaveLoop(w)
    BY <2>1 DEF LeaveLoop, WorkerPc
  <2>2. CASE WriteEnd(w)
    BY <2>2 DEF WriteEnd, WorkerPc
  <2>3. CASE ChildReturns(w)
    BY <2>3 DEF ChildReturns, WorkerPc
  <2> QED
    BY <1>14, <2>1, <2>2, <2>3 DEF WorkerStep
<1>15. ASSUME NEW w \in Worker, QuitCommand(w) PROVE PassInv'
  BY <1>15 DEF QuitCommand
<1>16. ASSUME NEW w \in Worker, Crash(w) PROVE PassInv'
  BY <1>16 DEF Crash, WorkerPc
<1>17. CASE UNCHANGED vars
  BY <1>17
<1> QED
  BY <1>1, <1>2, <1>3, <1>4, <1>5, <1>6, <1>7, <1>8, <1>9, <1>10, <1>11,
     <1>12, <1>13, <1>14, <1>15, <1>16, <1>17 DEF Next, ParentStep

(* Both invariants together, for the theorems below. *)
LEMMA AlwaysPassInv == Spec => []PassInv
  BY InitPassInv, StepPassInv, AlwaysTypeInv, PTL DEF Spec

(* When the parent detaches and removes the segment, every worker has made
   its last access to it, whatever signals, commands, failures and
   interleavings came before. *)
THEOREM ReleaseIsSafe == Spec => []ReleaseAfterLastAccess
<1>1. PassInv => ReleaseAfterLastAccess
  BY DEF PassInv, ReleaseAfterLastAccess, Stopped
<1> QED
  BY <1>1, AlwaysPassInv, PTL

-----------------------------------------------------------------------------
(***************************************************************************)
(* Refinement of the shutdown barrier.                                     *)
(***************************************************************************)

(* The supervisor starts where the barrier starts: nobody has stopped and
   nothing is released. *)
LEMMA InitBarrier == Init => Barrier!Init
  BY DEF Init, Barrier!Init, Stopped

(* WriteEnd is the barrier's Stop, CloseAndExit its Release, every other step
   leaves the set of stopped workers and the release alone. *)
LEMMA StepBarrier ==
  TypeInv /\ PassInv /\ [Next]_vars => [Barrier!Next]_Barrier!vars
<1> USE DEF TypeInv, TypeOK, PassInv, Stopped, parent, vars, Barrier!vars
<1> SUFFICES ASSUME TypeInv, PassInv, [Next]_vars
             PROVE  [Barrier!Next]_Barrier!vars
  OBVIOUS
<1>1. CASE Fork
  <2>1. wpc[i] = "unborn"
    BY <1>1 DEF Fork
  <2> QED
    BY <1>1, <2>1 DEF Fork
<1>2. CASE CloseAndExit
  <2>1. Stopped = Worker
    BY <1>2 DEF CloseAndExit
  <2> QED
    BY <1>2, <2>1 DEF CloseAndExit, Barrier!Next, Barrier!Release
<1>3. ASSUME NEW w \in Worker, WriteEnd(w)
      PROVE  [Barrier!Next]_Barrier!vars
  <2>1. w \notin Stopped /\ Stopped' = Stopped \cup {w}
    BY <1>3 DEF WriteEnd, WorkerPc
  <2>2. (ppc = "exit")' = (ppc = "exit")
    BY <1>3 DEF WriteEnd
  <2> QED
    BY <2>1, <2>2, Zenon DEF Barrier!Next, Barrier!Stop
<1>4. ASSUME NEW w \in Worker,
             LeaveLoop(w) \/ ChildReturns(w) \/ QuitCommand(w) \/ Crash(w)
      PROVE  UNCHANGED Barrier!vars
  BY <1>4 DEF LeaveLoop, ChildReturns, QuitCommand, Crash, WorkerPc
<1>5. CASE \/ StartPolling \/ Wake \/ PollEnd \/ PollRequested \/ PollCommand
           \/ PollDefault \/ Spread \/ StoreRequest \/ FinishPass \/ ForkFails
           \/ Sigint \/ UNCHANGED vars
  BY <1>5 DEF StartPolling, Wake, PollEnd, PollRequested, PollCommand,
     PollDefault, Spread, StoreRequest, FinishPass, ForkFails, Sigint
<1> QED
  BY <1>1, <1>2, <1>3, <1>4, <1>5 DEF Next, ParentStep, WorkerStep

(* The polling protocol implements the shutdown barrier of StopBarrier. *)
THEOREM SupervisorRefinesBarrier == Spec => ImplementsBarrier
  BY InitBarrier, StepBarrier, AlwaysTypeInv, AlwaysPassInv, PTL
     DEF Spec, ImplementsBarrier, Barrier!Spec

-----------------------------------------------------------------------------
(***************************************************************************)
(* Where requests come from.                                               *)
(***************************************************************************)

(* Until a signal or a command has come, every trace a shutdown leaves in the
   shared words, in the parent and in the workers is absent. *)
AskedInv ==
  quits = 0 => /\ sig = 0
               /\ ppc # "spread"
               /\ \A w \in Worker : quit[w] = RUN
               /\ \A w \in Worker : wpc[w] \notin {"drain", "ended", "exited"}

(* There is no trace of a shutdown at the start. *)
LEMMA InitAskedInv == Init => AskedInv
  BY DEF Init, AskedInv

(* No step invents one. *)
LEMMA StepAskedInv == TypeInv /\ AskedInv /\ [Next]_vars => AskedInv'
<1> USE DEF TypeInv, TypeOK, AskedInv, parent, vars
<1> SUFFICES ASSUME TypeInv, AskedInv, [Next]_vars PROVE AskedInv'
  OBVIOUS
<1>1. CASE Fork
  BY <1>1 DEF Fork
<1>2. CASE StartPolling
  BY <1>2 DEF StartPolling
<1>3. CASE Wake
  BY <1>3 DEF Wake
<1>4. CASE PollEnd
  BY <1>4 DEF PollEnd
<1>5. CASE PollRequested
  BY <1>5 DEF PollRequested
<1>6. CASE PollCommand
  BY <1>6 DEF PollCommand
<1>7. CASE PollDefault
  BY <1>7 DEF PollDefault
<1>8. CASE Spread
  BY <1>8 DEF Spread
<1>9. CASE StoreRequest
  BY <1>9 DEF StoreRequest
<1>10. CASE FinishPass
  BY <1>10 DEF FinishPass
<1>11. CASE CloseAndExit
  BY <1>11 DEF CloseAndExit
<1>12. CASE ForkFails
  BY <1>12 DEF ForkFails
<1>13. CASE Sigint
  BY <1>13 DEF Sigint
<1>14. ASSUME NEW w \in Worker, WorkerStep(w) PROVE AskedInv'
  <2>1. CASE LeaveLoop(w)
    BY <2>1 DEF LeaveLoop, WorkerPc
  <2>2. CASE WriteEnd(w)
    BY <2>2 DEF WriteEnd, WorkerPc
  <2>3. CASE ChildReturns(w)
    BY <2>3 DEF ChildReturns, WorkerPc
  <2> QED
    BY <1>14, <2>1, <2>2, <2>3 DEF WorkerStep
<1>15. ASSUME NEW w \in Worker, QuitCommand(w) PROVE AskedInv'
  BY <1>15 DEF QuitCommand
<1>16. ASSUME NEW w \in Worker, Crash(w) PROVE AskedInv'
  BY <1>16 DEF Crash, WorkerPc
<1>17. CASE UNCHANGED vars
  BY <1>17
<1> QED
  BY <1>1, <1>2, <1>3, <1>4, <1>5, <1>6, <1>7, <1>8, <1>9, <1>10, <1>11,
     <1>12, <1>13, <1>14, <1>15, <1>16, <1>17 DEF Next, ParentStep

(* A worker that stops serving was told to by somebody. *)
THEOREM StopsAreAskedFor == Spec => []StopsOnlyWhenAsked
<1>1. TypeInv /\ AskedInv => StopsOnlyWhenAsked
  BY DEF TypeInv, TypeOK, AskedInv, StopsOnlyWhenAsked
<1> QED
  BY <1>1, InitAskedInv, StepAskedInv, AlwaysTypeInv, PTL DEF Spec

-----------------------------------------------------------------------------
(***************************************************************************)
(* One cause of shutdown at a time.                                        *)
(***************************************************************************)

(* With a single cause, requests are stored either over RUN, because of the
   signal, or by one single Spread that meets only RUN and the command that
   started it: a worker has to be asked before it can write END, so no
   request can arrive after an END. *)
OnceInv ==
  quits <= 1 =>
    /\ \A w \in Worker : wpc[w] = "drain" => quit[w] = QUIT_REQ
    /\ ppc = "default" => quit[i] \in {RUN, QUIT_CMD}
    /\ sig = 1 => quits = 1 /\ ppc # "spread"
    /\ sig = 1 => \A w \in Worker : quit[w] # QUIT_CMD
    /\ ppc = "spread" =>
         \A w \in Worker : IF w < j THEN quit[w] \in {QUIT_REQ, END}
                                    ELSE quit[w] \in {RUN, QUIT_CMD}
    /\ ppc # "spread" /\ sig = 0 =>
         \/ \A w \in Worker : quit[w] \in {RUN, QUIT_CMD}
         \/ \A w \in Worker : quit[w] \in {QUIT_REQ, END}

(* It holds at the start. *)
LEMMA InitOnceInv == Init => OnceInv
  BY DEF Init, OnceInv

(* Every step that is not a second cause preserves it. *)
LEMMA StepOnceInv ==
  TypeInv /\ PassInv /\ AskedInv /\ OnceInv /\ [Next]_vars => OnceInv'
<1> USE DEF TypeInv, TypeOK, PassInv, AskedInv, OnceInv, Stopped, parent, vars
<1> SUFFICES ASSUME TypeInv, PassInv, AskedInv, OnceInv, [Next]_vars
             PROVE  OnceInv'
  OBVIOUS
<1>1. CASE Fork
  BY <1>1 DEF Fork
<1>2. CASE StartPolling
  BY <1>2 DEF StartPolling
<1>3. CASE Wake
  BY <1>3 DEF Wake
<1>4. CASE PollEnd
  BY <1>4 DEF PollEnd
<1>5. CASE PollRequested
  BY <1>5 DEF PollRequested
<1>6. CASE PollCommand
  BY <1>6 DEF PollCommand
<1>7. CASE PollDefault
  BY <1>7 DEF PollDefault
<1>8. CASE Spread
  BY <1>8 DEF Spread
<1>9. CASE StoreRequest
  BY <1>9 DEF StoreRequest
<1>10. CASE FinishPass
  BY <1>10 DEF FinishPass
<1>11. CASE CloseAndExit
  BY <1>11 DEF CloseAndExit
<1>12. CASE ForkFails
  BY <1>12 DEF ForkFails
<1>13. CASE Sigint
  BY <1>13 DEF Sigint
<1>14. ASSUME NEW w \in Worker, WorkerStep(w) PROVE OnceInv'
  <2>1. CASE LeaveLoop(w)
    BY <2>1 DEF LeaveLoop, WorkerPc
  <2>2. CASE WriteEnd(w)
    BY <2>2 DEF WriteEnd, WorkerPc
  <2>3. CASE ChildReturns(w)
    BY <2>3 DEF ChildReturns, WorkerPc
  <2> QED
    BY <1>14, <2>1, <2>2, <2>3 DEF WorkerStep
<1>15. ASSUME NEW w \in Worker, QuitCommand(w) PROVE OnceInv'
  BY <1>15 DEF QuitCommand
<1>16. ASSUME NEW w \in Worker, Crash(w) PROVE OnceInv'
  BY <1>16 DEF Crash, WorkerPc
<1>17. CASE UNCHANGED vars
  BY <1>17
<1> QED
  BY <1>1, <1>2, <1>3, <1>4, <1>5, <1>6, <1>7, <1>8, <1>9, <1>10, <1>11,
     <1>12, <1>13, <1>14, <1>15, <1>16, <1>17 DEF Next, ParentStep

(* Up to the second cause of shutdown the parent overwrites no END; from then
   on it may, see EndIsFinal. *)
THEOREM OneCauseKeepsEnd == Spec => EndIsFinalOfOneCause
<1>1. TypeInv /\ PassInv /\ OnceInv /\ [Next]_vars
        => [quits <= 1 =>
              \A w \in Worker : quit[w] = END => quit'[w] = END]_vars
  <2> SUFFICES ASSUME TypeInv, PassInv, OnceInv, Next,
                      quits <= 1, NEW w \in Worker, quit[w] = END
               PROVE  quit'[w] = END
    OBVIOUS
  <2> USE DEF TypeInv, TypeOK, PassInv, OnceInv, Stopped
  <2>1. CASE ParentStep
    BY <2>1 DEF ParentStep, Fork, StartPolling, Wake, PollEnd, PollRequested,
       PollCommand, PollDefault, Spread, StoreRequest, FinishPass, CloseAndExit
  <2>2. CASE ForkFails \/ Sigint
    BY <2>2 DEF ForkFails, Sigint
  <2>3. ASSUME NEW v \in Worker, WorkerStep(v) \/ QuitCommand(v) \/ Crash(v)
        PROVE  quit'[w] = END
    BY <2>3 DEF WorkerStep, LeaveLoop, WriteEnd, ChildReturns, QuitCommand,
       Crash
  <2> QED
    BY <2>1, <2>2, <2>3 DEF Next
<1>2. Spec => []AskedInv
  BY InitAskedInv, StepAskedInv, AlwaysTypeInv, PTL DEF Spec
<1>3. Spec => []OnceInv
  BY <1>2, InitOnceInv, StepOnceInv, AlwaysTypeInv, AlwaysPassInv, PTL DEF Spec
<1> QED
  BY <1>1, <1>3, AlwaysTypeInv, AlwaysPassInv, PTL DEF Spec, EndIsFinalOfOneCause
=============================================================================
