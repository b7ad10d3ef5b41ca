\* Five processes a child can be, and three ways to start the program.
SPECIFICATION Spec
CONSTANTS
  Child = {c1, c2, c3, c4, c5}
  FirstArgs = {"none", "debug_child_process", "controller_process"}
INVARIANTS
  TypeOK
  OneChild
PROPERTY ReturnsAfterCtrlC
\* The program ends.
CHECK_DEADLOCK FALSE
