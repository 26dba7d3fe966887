------------------------------ MODULE Executor ------------------------------
(***************************************************************************)
(* What the two executors share: ExecutorInterface.                        *)
(***************************************************************************)
EXTENDS Threads

VARIABLE halted  \* execute has returned false: main prints the state and ends

unfinishedThreads == {t \in Thread : ~isFinished(t)}

somethingPending == \E t \in Thread : HasPending(t)

(* The executor of this mode exists, and main calls its execute again.     *)
Runs(mode) == argv.executionMode = mode /\ ~halted /\ ~crashed
=============================================================================
