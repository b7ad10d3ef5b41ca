--------------------------- MODULE RespawnProofs ---------------------------
(***************************************************************************)
(* The parent of the Windows program never has two children, nor open      *)
(* handles of a child it lost sight of; for every number of processes.     *)
(***************************************************************************)
EXTENDS Respawn, FiniteSetTheorems, TLAPS

(* A child lives, or has its handles open, only if the parent knows it: until
   the first fork there is none, and the parent forks again only when the one
   it knows has ended. *)
KnownInv ==
  /\ TypeOK
  /\ Alive \subseteq {child}
  /\ handles \subseteq {child}
  /\ pc = "main" => Alive = {} /\ handles = {}
  /\ pc \in {"serving", "other", "done"} => handles = {}

(* At most one child lives means at most one element. *)
LEMMA KnownIsOne == KnownInv => OneChild
<1> SUFFICES ASSUME KnownInv PROVE OneChild
  OBVIOUS
<1>1. Alive = {} \/ Alive = {child}
  BY DEF KnownInv
<1>2. Cardinality(Alive) <= 1
  <2>1. Cardinality({}) = 0
    BY FS_EmptySet
  <2>2. Cardinality({child}) = 1
    BY FS_Singleton
  <2> QED
    BY <1>1, <2>1, <2>2
<1> QED
  BY <1>2 DEF OneChild, KnownInv

(* Nothing lives at first. *)
LEMMA InitKnown == Init => KnownInv
  BY RespawnAssumption DEF Init, KnownInv, TypeOK, Alive, NoChild

(* A fork when no child lives leaves the new one alone. *)
LEMMA ForkKnown ==
  ASSUME KnownInv, Alive = {}, Fork({})
  PROVE  /\ child' \in Child /\ Alive' = {child'} /\ handles' = {child'}
         /\ state' \in [Child -> {"main", "serving", "exited"}]
<1>1. PICK c \in Child : /\ child' = c /\ state' = [state EXCEPT ![c] = "main"]
                         /\ handles' = {} \cup {c}
  BY DEF Fork
<1>2. state \in [Child -> {"main", "serving", "exited"}]
  BY DEF KnownInv, TypeOK
<1>3. state' \in [Child -> {"main", "serving", "exited"}] /\ state'[c] = "main"
      /\ \A d \in Child \ {c} : state'[d] = state[d]
  BY <1>1, <1>2
<1>4. Alive' = {c}
  BY <1>3 DEF Alive
<1> QED
  BY <1>1, <1>3, <1>4

(* Every step keeps it so. *)
LEMMA StepKnown == KnownInv /\ [Next]_vars => KnownInv'
<1> SUFFICES ASSUME KnownInv, [Next]_vars PROVE KnownInv'
  OBVIOUS
<1>1. CASE MainServes
  BY <1>1 DEF MainServes, KnownInv, TypeOK, Alive
<1>2. CASE MainForks
  <2>1. Alive = {} /\ handles = {} /\ pc' = "forked" /\ UNCHANGED <<arg, signalled, sig_stopped>>
        /\ Fork({})
    BY <1>2 DEF MainForks, KnownInv
  <2>2. /\ child' \in Child /\ Alive' = {child'} /\ handles' = {child'}
        /\ state' \in [Child -> {"main", "serving", "exited"}]
    BY <2>1, ForkKnown
  <2> QED
    BY <2>1, <2>2 DEF KnownInv, TypeOK
<1>3. CASE MainEnds
  BY <1>3 DEF MainEnds, KnownInv, TypeOK, Alive
<1>4. CASE SetSignal \/ Sleep
  BY <1>4 DEF SetSignal, Sleep, KnownInv, TypeOK, Alive
<1>5. CASE ChildIsAlive
  BY <1>5 DEF ChildIsAlive, KnownInv, TypeOK, Alive
<1>6. CASE RespawnChild
  <2>1. Alive = {} /\ handles \ {child} = {} /\ pc' = "test" /\ UNCHANGED <<arg, signalled, sig_stopped>>
        /\ Fork({})
    BY <1>6 DEF RespawnChild, KnownInv
  <2>2. /\ child' \in Child /\ Alive' = {child'} /\ handles' = {child'}
        /\ state' \in [Child -> {"main", "serving", "exited"}]
    BY <2>1, ForkKnown
  <2> QED
    BY <2>1, <2>2 DEF KnownInv, TypeOK
<1>7. CASE TestStop
  BY <1>7 DEF TestStop, KnownInv, TypeOK, Alive
<1>8. CASE CtrlC
  BY <1>8 DEF CtrlC, KnownInv, TypeOK, Alive
<1>9. CASE Handler
  BY <1>9 DEF Handler, KnownInv, TypeOK, Alive
<1>10. ASSUME NEW c \in Child, ChildMain(c) PROVE KnownInv'
  BY <1>10 DEF ChildMain, KnownInv, TypeOK, Alive
<1>11. CASE ForkFails
  BY <1>11 DEF ForkFails, KnownInv, TypeOK, Alive
<1>12. CASE UNCHANGED vars
  BY <1>12 DEF vars, KnownInv, TypeOK, Alive
<1> QED
  BY <1>1, <1>2, <1>3, <1>4, <1>5, <1>6, <1>7, <1>8, <1>9, <1>10, <1>11, <1>12 DEF Next, Parent

(* The invariant the properties follow from. *)
LEMMA KnownInvariant == Spec => []KnownInv
  BY InitKnown, StepKnown, PTL DEF Spec

(* The variables keep their types; while the parent's loop runs, the child it
   asks Windows about is a process. *)
THEOREM TypeCorrect == Spec => []TypeOK
<1>1. KnownInv => TypeOK
  BY DEF KnownInv
<1> QED
  BY <1>1, KnownInvariant, PTL

(* However the ends of children fall between the looks of ain_parent_process,
   it never has two, and no handles but those of the one it knows; none when
   it returned. *)
THEOREM NeverTwoChildren == Spec => []OneChild
  BY KnownIsOne, KnownInvariant, PTL

(* A child is created only when every child before it has ended. *)
THEOREM ForkedWhenNoneLives ==
  Spec => [][\A c \in Child : state[c] # "main" /\ state'[c] = "main" => Alive = {}]_vars
<1>1. ASSUME KnownInv, [Next]_vars, NEW c \in Child, state[c] # "main", state'[c] = "main"
      PROVE  Alive = {}
  <2>1. state' # state
    BY <1>1
  <2>2. CASE MainForks
    BY <1>1, <2>2 DEF MainForks, KnownInv
  <2>3. CASE RespawnChild
    BY <1>1, <2>3 DEF RespawnChild, KnownInv
  <2>4. ASSUME NEW d \in Child, ChildMain(d) PROVE Alive = {}
    BY <1>1, <2>4 DEF ChildMain, KnownInv, TypeOK
  <2>5. CASE UNCHANGED vars
    BY <2>1, <2>5 DEF vars
  <2>6. CASE \/ MainServes \/ MainEnds \/ ForkFails \/ SetSignal \/ Sleep
            \/ ChildIsAlive \/ TestStop \/ CtrlC \/ Handler
    BY <2>1, <2>6 DEF MainServes, MainEnds, ForkFails, SetSignal, Sleep, ChildIsAlive, TestStop, CtrlC, Handler
  <2> QED
    BY <1>1, <2>2, <2>3, <2>4, <2>5, <2>6 DEF Next, Parent
<1>2. KnownInv /\ [Next]_vars
        => [\A c \in Child : state[c] # "main" /\ state'[c] = "main" => Alive = {}]_vars
  BY <1>1
<1> QED
  BY <1>2, KnownInvariant, PTL DEF Spec
=============================================================================
