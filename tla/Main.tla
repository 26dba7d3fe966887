-------------------------------- MODULE Main --------------------------------
(***************************************************************************)
(* main: parses the file, builds the storage manager of the model and the  *)
(* executor of the mode that its arguments name, and calls execute until   *)
(* it returns false.                                                       *)
(***************************************************************************)
EXTENDS RandomExecutor, InteractiveExecutor, TLC

CONSTANTS
    Files,        \* the texts of the program files, by name
    CommandLines  \* the arguments main is run with

Parser == INSTANCE Parser

programsOf(file) == Parser!parseFromStream(Files[file]).programs

(* Every file is lines of tokens that the parser accepts, with a program   *)
(* for each of the threads.                                                *)
ASSUME MainAssumption ==
    /\ CommandLines \subseteq [file : DOMAIN Files,
                               memoryModel : {"sc", "tso", "pso", "ra", "sra"},
                               executionMode : {"rand", "interact"}]
    /\ IsFiniteSet(Thread) /\ Thread = 0 .. (Cardinality(Thread) - 1)
    /\ Thread # {}
    /\ \A file \in DOMAIN Files :
          /\ Files[file] \in Seq(Seq(Parser!Token))
          /\ Parser!parseFromStream(Files[file]).error = 0
          /\ Len(programsOf(file)) = Cardinality(Thread)

vars == <<memoryVars, threadVars, halted, console>>

TypeOK ==
    /\ argv \in CommandLines
    /\ MemoryTypeOK
    /\ ThreadTypeOK
    /\ halted \in BOOLEAN
    /\ console \in Console

Init ==
    /\ argv \in CommandLines
    /\ MemoryInit
    /\ ThreadInit(programsOf(argv.file))
    /\ halted = FALSE
    /\ ConsoleInit

Next ==
    \/ RandomNext /\ UNCHANGED console
    \/ InteractiveNext

Spec == Init /\ [][Next]_vars

(***************************************************************************)
(* The random executor draws the coin, the orders of threads and buffers   *)
(* and the messages to read at random in every call, so that what stays    *)
(* possible is passed over for ever with probability zero, and so is a     *)
(* message that can be read again and again.  The interactive executor     *)
(* does not stop between two prompts; of its user nothing is assumed.      *)
(***************************************************************************)
FairSpec ==
    /\ Spec
    /\ \A t \in Thread :
          /\ WF_vars(ExecuteThread(t) /\ UNCHANGED console)
          /\ WF_vars(ExecuteInternalMemoryUpdate(t) /\ UNCHANGED console)
          /\ SF_vars(ReadsNewest(t) /\ UNCHANGED console)
    /\ WF_vars(Halt /\ UNCHANGED console)
    /\ WF_vars(InteractiveStep)
-----------------------------------------------------------------------------
(***************************************************************************)
(* main ends normally only once every thread has finished and every store  *)
(* has reached the memory, whichever of thread and memory was asked for    *)
(* first; unless the input of the interactive mode ends before.            *)
(***************************************************************************)
HaltsWhenDone ==
    halted /\ console.input = "open" => unfinishedThreads = {} /\ ~somethingPending

(***************************************************************************)
(* The user is asked for a thread only when one can be chosen, and every   *)
(* thread that can be is about to access the memory: nothing local has     *)
(* been left over by the threads' running ahead.                           *)
(***************************************************************************)
ThreadsWaitAtMemory ==
    console.at = "thread" =>
        /\ unfinishedThreads # {}
        /\ \A t \in unfinishedThreads : Instruction(t).action \notin
              {"StoreConstInRegister", "StoreExprInRegister", "Goto"}
=============================================================================
