------------------------- MODULE ChildProcessProofs -------------------------
(***************************************************************************)
(* The process of threads implements the processes of the Linux server     *)
(* (module Supervisor) but for its failures, which end all of it, and      *)
(* frees what the threads share after their last access to it; for every   *)
(* number of workers, listeners and causes to stop.                        *)
(***************************************************************************)
EXTENDS ChildProcess, TLAPS

USE ChildAssumption DEF ChildAssumption, Worker, Listener, None

(* A listener is dealt to a worker whose number is not above its own: such a
   worker has it on Linux too.  The main thread's i is the worker it creates. *)
OwnInv ==
  /\ i \in Nat
  /\ \A l \in Listener : owner[l] \in Int /\ owner[l] <= l
  /\ owner = [l \in Listener |-> owner[l]]

(* At first no listener is dealt. *)
LEMMA InitOwnInv == Init => OwnInv
  BY DEF Init, OwnInv, P!Init

(* Only CreateThread deals, from its own number on, and i only counts up or
   starts again at 0. *)
LEMMA StepOwnInv == OwnInv /\ [Next]_vars => OwnInv'
<1> SUFFICES ASSUME OwnInv, [Next]_vars PROVE OwnInv'
  OBVIOUS
<1> USE DEF OwnInv
<1>1. CASE Listen
  BY <1>1 DEF Listen, sup
<1>2. CASE CreateThread
  BY <1>2 DEF CreateThread, P!Fork, Dealt
<1>3. CASE StartPolling
  BY <1>3 DEF StartPolling, P!StartPolling
<1>4. CASE Poll
  BY <1>4 DEF Poll, P!Wake, P!PollEnd, P!PollRequested, P!PollCommand,
     P!PollDefault, P!Spread, P!StoreRequest, P!FinishPass
<1>5. CASE Release
  BY <1>5 DEF Release, P!CloseAndExit
<1>6. CASE CtrlC
  BY <1>6 DEF CtrlC, P!Sigint, P!parent
<1>7. CASE Crash
  BY <1>7 DEF Crash
<1>8. ASSUME NEW w \in Worker, Thread(w) PROVE OwnInv'
  BY <1>8 DEF Thread, P!LeaveLoop, P!WriteEnd, P!ChildReturns, P!parent
<1>9. ASSUME NEW w \in Worker, QuitCommand(w) PROVE OwnInv'
  BY <1>9 DEF QuitCommand
<1>10. CASE UNCHANGED vars
  BY <1>10 DEF vars, sup
<1> QED
  BY <1>1, <1>2, <1>3, <1>4, <1>5, <1>6, <1>7, <1>8, <1>9, <1>10 DEF Next, Main

(* The initial state is one of the Linux server. *)
LEMMA InitSupervisor == Init => P!Init
  BY DEF Init

(* Every step is a failed assertion, a step of the Linux server or leaves its
   state alone. *)
LEMMA StepSupervisor ==
  OwnInv /\ [Next]_vars => [P!Next \/ Crash]_sup
<1> SUFFICES ASSUME OwnInv, [Next]_vars PROVE [P!Next \/ Crash]_sup
  OBVIOUS
<1> USE DEF P!Next, P!ParentStep
<1>1. CASE Listen
  BY <1>1 DEF Listen
<1>2. CASE CreateThread
  BY <1>2 DEF CreateThread
<1>3. CASE StartPolling
  BY <1>3 DEF StartPolling
<1>4. CASE Poll
  BY <1>4 DEF Poll
<1>5. CASE Release
  BY <1>5 DEF Release
<1>6. CASE CtrlC
  BY <1>6 DEF CtrlC
<1>7. CASE Crash
  BY <1>7
<1>8. ASSUME NEW w \in Worker, Thread(w) PROVE [P!Next \/ Crash]_sup
  BY <1>8 DEF Thread, P!WorkerStep, P!Worker
<1>9. ASSUME NEW w \in Worker, QuitCommand(w) PROVE [P!Next \/ Crash]_sup
  <2>1. LsSize - 1 \in P!Assoc(w)
    BY <1>9 DEF QuitCommand, P!Assoc, OwnInv
  <2>2. P!QuitCommand(w)
    BY <1>9, <2>1 DEF QuitCommand, P!QuitCommand, P!parent
  <2> QED
    BY <2>2 DEF P!Worker
<1>10. CASE UNCHANGED vars
  BY <1>10 DEF vars
<1> QED
  BY <1>1, <1>2, <1>3, <1>4, <1>5, <1>6, <1>7, <1>8, <1>9, <1>10 DEF Next, Main

(* The threads and the main thread that starts and stops them behave as the
   worker processes and their parent do on Linux, until an assertion fails. *)
THEOREM ChildRefinesSupervisor == Spec => ImplementsSupervisor
<1>1. Init => P!Init /\ OwnInv
  BY InitSupervisor, InitOwnInv
<1>2. OwnInv /\ [Next]_vars => OwnInv' /\ [P!Next \/ Crash]_sup
  BY StepOwnInv, StepSupervisor
<1> QED
  BY <1>1, <1>2, PTL DEF Spec, ImplementsSupervisor

-----------------------------------------------------------------------------
S == INSTANCE SupervisorProofs

(* P and S are two names of the same module. *)
LEMMA SameInit == P!Init => S!Init
  BY DEF P!Init, S!Init, P!Worker, S!Worker, P!RUN, S!RUN

(* So their steps are the same as well. *)
LEMMA SameStep == P!Next \/ UNCHANGED sup => [S!Next]_S!vars
<1> USE DEF P!Worker, S!Worker, P!RUN, S!RUN, P!QUIT_REQ, S!QUIT_REQ,
            P!QUIT_CMD, S!QUIT_CMD, P!END, S!END, P!parent, S!parent
<1>1. P!Fork => S!Fork
  BY DEF P!Fork, S!Fork
<1>2. P!StartPolling => S!StartPolling
  BY DEF P!StartPolling, S!StartPolling
<1>3. P!Wake => S!Wake
  BY DEF P!Wake, S!Wake
<1>4. P!PollEnd => S!PollEnd
  BY DEF P!PollEnd, S!PollEnd
<1>5. P!PollRequested => S!PollRequested
  BY DEF P!PollRequested, S!PollRequested
<1>6. P!PollCommand => S!PollCommand
  BY DEF P!PollCommand, S!PollCommand
<1>7. P!PollDefault => S!PollDefault
  BY DEF P!PollDefault, S!PollDefault
<1>8. P!Spread => S!Spread
  BY DEF P!Spread, S!Spread
<1>9. P!StoreRequest => S!StoreRequest
  BY DEF P!StoreRequest, S!StoreRequest
<1>10. P!FinishPass => S!FinishPass
  BY DEF P!FinishPass, S!FinishPass
<1>11. P!CloseAndExit => S!CloseAndExit
  BY DEF P!CloseAndExit, S!CloseAndExit
<1>12. P!ForkFails => S!ForkFails
  BY DEF P!ForkFails, S!ForkFails
<1>13. P!Sigint => S!Sigint
  BY DEF P!Sigint, S!Sigint
<1>14. ASSUME NEW w \in Worker, P!WorkerStep(w) PROVE S!WorkerStep(w)
  BY <1>14 DEF P!WorkerStep, S!WorkerStep, P!LeaveLoop, S!LeaveLoop,
               P!WriteEnd, S!WriteEnd, P!ChildReturns, S!ChildReturns
<1>15. ASSUME NEW w \in Worker, P!QuitCommand(w) PROVE S!QuitCommand(w)
  BY <1>15 DEF P!QuitCommand, S!QuitCommand, P!Assoc, S!Assoc
<1>16. ASSUME NEW w \in Worker, P!Crash(w) PROVE S!Crash(w)
  BY <1>16 DEF P!Crash, S!Crash
<1>17. UNCHANGED sup => UNCHANGED S!vars
  BY DEF sup, S!vars
<1>18. P!ParentStep => S!ParentStep
  BY <1>1, <1>2, <1>3, <1>4, <1>5, <1>6, <1>7, <1>8, <1>9, <1>10, <1>11
     DEF P!ParentStep, S!ParentStep
<1>19. P!Worker = Worker /\ S!Worker = Worker
  BY DEF Worker
<1>20. P!Next => S!Next
  BY <1>12, <1>13, <1>14, <1>15, <1>16, <1>18, <1>19 DEF P!Next, S!Next
<1> QED BY <1>17, <1>20

(* The invariants about the count of the Linux parent survive a failed
   assertion, after which nobody polls. *)
LEMMA StepCountInv ==
  S!TypeInv /\ S!PassInv /\ [P!Next \/ Crash]_sup => S!TypeInv' /\ S!PassInv'
<1> SUFFICES ASSUME S!TypeInv, S!PassInv, [P!Next \/ Crash]_sup
             PROVE  S!TypeInv' /\ S!PassInv'
  OBVIOUS
<1>1. S!SupervisorAssumption
  BY DEF S!SupervisorAssumption
<1>2. CASE P!Next \/ UNCHANGED sup
  <2>1. [S!Next]_S!vars
    BY <1>2, SameStep
  <2>2. S!TypeInv'
    BY <1>1, <2>1, S!StepTypeInv
  <2>3. S!PassInv'
    BY <1>1, <2>1, S!StepPassInv
  <2> QED
    BY <2>2, <2>3
<1>3. CASE Crash
  BY <1>3 DEF Crash, S!TypeInv, S!TypeOK, S!PassInv, S!InPass, S!Stopped,
     S!Worker, S!WorkerPc, S!ParentPc, S!RUN, S!QUIT_REQ, S!END, S!QUIT_CMD
<1> QED
  BY <1>2, <1>3

(* The main thread frees what it shares with its threads only after the last
   of them has used it: by the invariants of the Linux parent. *)
THEOREM ChildReleaseIsSafe == Spec => []ReleaseAfterLastAccess
<1>1. S!SupervisorAssumption
  BY DEF S!SupervisorAssumption
<1>2. S!Init => S!TypeInv /\ S!PassInv
  BY <1>1, S!InitTypeInv, S!InitPassInv
<1>3. P!Init => S!TypeInv /\ S!PassInv
  BY <1>2, SameInit
<1>4. S!PassInv => ReleaseAfterLastAccess
  BY DEF S!PassInv, ReleaseAfterLastAccess, S!Stopped, P!Stopped, S!Worker,
     P!Worker
<1>5. ImplementsSupervisor => []ReleaseAfterLastAccess
  BY <1>3, <1>4, StepCountInv, PTL DEF ImplementsSupervisor
<1> QED
  BY <1>5, ChildRefinesSupervisor, PTL
=============================================================================
