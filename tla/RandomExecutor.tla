--------------------------- MODULE RandomExecutor ---------------------------
(***************************************************************************)
(* RandomExecutor.  Each call of execute tosses a coin whether to try a    *)
(* thread or an internal update of the memory first, and tries the other   *)
(* when the first has nothing to do; when neither has, execute returns     *)
(* false.                                                                  *)
(***************************************************************************)
EXTENDS Executor

(* executeThread: one of the unfinished threads, in a shuffled order.      *)
ExecuteThread(t) ==
    /\ Runs("rand")
    /\ t \in unfinishedThreads
    /\ evaluateInstruction(t)
    /\ UNCHANGED halted

(* Mutant: the memory gets its turn only when no thread has anything to do. *)
ExecuteMemoryLast(t) ==
    /\ Runs("rand")
    /\ unfinishedThreads = {}
    /\ propagate(t)
    /\ UNCHANGED <<threadVars, halted>>

ExecuteInternalMemoryUpdate(t) ==
    /\ Runs("rand")
    /\ propagate(t)
    /\ UNCHANGED <<threadVars, halted>>

(* Whichever was tried first, both have returned false.                    *)
Halt ==
    /\ Runs("rand")
    /\ unfinishedThreads = {}
    /\ ~somethingPending
    /\ halted' = TRUE
    /\ UNCHANGED <<memoryVars, threadVars>>

RandomNext ==
    \/ \E t \in Thread : ExecuteThread(t) \/ ExecuteInternalMemoryUpdate(t)
    \/ Halt

(* A load of the RA and SRA managers that returns what the newest message has. *)
ReadsNewest(t) ==
    /\ isRA
    /\ ~isFinished(t) /\ Instruction(t).action = "Load"
    /\ ExecuteThread(t)
    /\ localStorage'[t][Instruction(t).resultRegister]
           = RA!Latest(messages[AddressOf(t)]).value
=============================================================================
