------------------------------ MODULE Respawn ------------------------------
(***************************************************************************)
(* The program started on Windows: main (core/ain_main.c), the parent that *)
(* keeps a child running (ain_parent_process) and the calls they make to   *)
(* create, watch and let go of processes (os/win/ain_process.c).           *)
(*                                                                         *)
(* A child is the same program under the name "ain_child_process".         *)
(***************************************************************************)
EXTENDS Naturals, FiniteSets

CONSTANTS
  Child,        (* processes a child can be; one that ended is used again  *)
  FirstArgs     (* what the first argument of the program may be           *)

ASSUME RespawnAssumption ==
  /\ IsFiniteSet(Child)
  /\ FirstArgs \subseteq {"none", "debug_child_process", "controller_process",
                          "test_unit_process"}

VARIABLES
  arg,          (* the first argument of the process the user started      *)
  pc,           (* what that process does                                  *)
  child,        (* the child the parent knows                              *)
  state,        (* what each child does                                    *)
  handles,      (* the children whose handles are open                     *)
  signalled,    (* has the user pressed Ctrl-C?                            *)
  sig_stopped   (* has the parent's handler run?                           *)

vars == <<arg, pc, child, state, handles, signalled, sig_stopped>>

NoChild == "none"
Alive == {c \in Child : state[c] \in {"main", "serving"}}

TypeOK ==
  /\ arg \in FirstArgs
  /\ pc \in {"main", "forked", "sleep", "check", "test", "serving", "other", "done"}
  /\ child \in Child \cup {NoChild}
  /\ pc \in {"forked", "sleep", "check", "test"} => child \in Child
  /\ state \in [Child -> {"main", "serving", "exited"}]
  /\ handles \in SUBSET Child
  /\ signalled \in BOOLEAN /\ sig_stopped \in BOOLEAN

Init ==
  /\ arg \in FirstArgs
  /\ pc = "main"
  /\ child = NoChild
  /\ state = [c \in Child |-> "exited"]
  /\ handles = {}
  /\ signalled = FALSE /\ sig_stopped = FALSE

(* Mutant of Fork: the new child is not assigned. *)
ForkUnassigned(open) ==
  \E c \in Child \ (Alive \cup open) :
    /\ child' = child
    /\ state' = [state EXCEPT ![c] = "main"]
    /\ handles' = open \cup {c}

(* CreateProcess: the child runs main, and the parent holds its handles. *)
Fork(open) ==
  \E c \in Child \ (Alive \cup open) :
    /\ child' = c
    /\ state' = [state EXCEPT ![c] = "main"]
    /\ handles' = open \cup {c}

(* malloc or CreateProcess fails: the assertion ends the process, and the system
   closes what it had open. *)
ForkFails ==
  /\ \/ pc = "main" /\ arg = "none"
     \/ pc = "check" /\ child \notin Alive
  /\ pc' = "done" /\ handles' = {}
  /\ UNCHANGED <<arg, child, state, signalled, sig_stopped>>

-----------------------------------------------------------------------------
(* main of the process the user started *)

(* ain_child_process, or work that ends by itself. *)
MainServes ==
  /\ pc = "main" /\ arg # "none"
  /\ pc' = IF arg = "debug_child_process" THEN "serving" ELSE "other"
  /\ UNCHANGED <<arg, child, state, handles, signalled, sig_stopped>>

MainForks ==
  /\ pc = "main" /\ arg = "none"
  /\ Fork(handles)
  /\ pc' = "forked"
  /\ UNCHANGED <<arg, signalled, sig_stopped>>

MainEnds ==
  /\ \/ pc = "other"
     \/ pc = "serving" /\ signalled
  /\ pc' = "done"
  /\ UNCHANGED <<arg, child, state, handles, signalled, sig_stopped>>

-----------------------------------------------------------------------------
(* main of a child: its name makes ain_process_fork return NULL, no branch is
   left, and main ends.  A child sets no handler, so Ctrl-C ends it as well. *)
ChildMain(c) ==
  /\ state[c] = "main"
  /\ state' = [state EXCEPT ![c] = "exited"]
  /\ UNCHANGED <<arg, pc, child, handles, signalled, sig_stopped>>

-----------------------------------------------------------------------------
(* ain_parent_process *)

SetSignal ==
  /\ pc = "forked"
  /\ pc' = "sleep"
  /\ UNCHANGED <<arg, child, state, handles, signalled, sig_stopped>>

Sleep ==
  /\ pc = "sleep"
  /\ pc' = "check"
  /\ UNCHANGED <<arg, child, state, handles, signalled, sig_stopped>>

ChildIsAlive ==
  /\ pc = "check" /\ child \in Alive
  /\ pc' = "test"
  /\ UNCHANGED <<arg, child, state, handles, signalled, sig_stopped>>

(* Mutants of RespawnChild: the handles of the dead child are kept; another
   child is started without looking whether there is one. *)
RespawnKeepsHandles ==
  /\ pc = "check" /\ child \notin Alive
  /\ Fork(handles)
  /\ pc' = "test"
  /\ UNCHANGED <<arg, signalled, sig_stopped>>

RespawnUnwatched ==
  /\ pc = "check"
  /\ Fork(handles \ {child})
  /\ pc' = "test"
  /\ UNCHANGED <<arg, signalled, sig_stopped>>

RespawnChild ==
  /\ pc = "check" /\ child \notin Alive
  /\ Fork(handles \ {child})
  /\ pc' = "test"
  /\ UNCHANGED <<arg, signalled, sig_stopped>>

(* Mutant of TestStop: the flag the loop ends by is looked at before the
   handler can have set it. *)
TestStopNever ==
  /\ pc = "test"
  /\ pc' = "sleep"
  /\ UNCHANGED <<arg, child, state, handles, signalled, sig_stopped>>

(* while (!sig_stopped), and ain_process_close *)
TestStop ==
  /\ pc = "test"
  /\ IF sig_stopped THEN pc' = "done" /\ handles' = handles \ {child}
     ELSE pc' = "sleep" /\ handles' = handles
  /\ UNCHANGED <<arg, child, state, signalled, sig_stopped>>

(* Ctrl-C goes to every process of the console; the handler runs in a thread of
   its own, and a process that has not set one yet, or sets none, ends. *)
CtrlC ==
  /\ ~signalled /\ pc # "done"
  /\ signalled' = TRUE
  /\ IF pc \in {"sleep", "check", "test", "serving"}
     THEN UNCHANGED <<pc, handles>>
     ELSE pc' = "done" /\ handles' = {}
  /\ UNCHANGED <<arg, child, state, sig_stopped>>

Handler ==
  /\ signalled /\ ~sig_stopped /\ pc \in {"sleep", "check", "test"}
  /\ sig_stopped' = TRUE
  /\ UNCHANGED <<arg, pc, child, state, handles, signalled>>

Parent == SetSignal \/ Sleep \/ ChildIsAlive \/ RespawnChild \/ TestStop

Next ==
  \/ MainServes \/ MainForks \/ MainEnds \/ ForkFails
  \/ Parent
  \/ CtrlC \/ Handler
  \/ \E c \in Child : ChildMain(c)

(* Every process and thread keeps running. *)
Fairness ==
  /\ WF_vars(MainServes \/ MainForks \/ MainEnds)
  /\ WF_vars(Parent) /\ WF_vars(Handler)
  /\ \A c \in Child : WF_vars(ChildMain(c))

Spec == Init /\ [][Next]_vars /\ Fairness

-----------------------------------------------------------------------------
(* However the ends of the children fall between the looks of the parent, it
   never has two of them, nor the handles of one it has lost sight of; and a
   parent that has returned has let go of all. *)
OneChild ==
  /\ Cardinality(Alive) <= 1
  /\ handles \subseteq {child}
  /\ pc = "done" => handles = {}

(* After Ctrl-C the parent, or the child under a debugger, returns, even if
   children keep ending and being created. *)
ReturnsAfterCtrlC == signalled ~> pc = "done"
=============================================================================
