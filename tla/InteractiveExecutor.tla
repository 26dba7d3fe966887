------------------------- MODULE InteractiveExecutor -------------------------
(***************************************************************************)
(* InteractiveExecutor.  Each call of execute asks its user for a thread   *)
(* or an internal update of the memory and, as the random executor does,   *)
(* turns to the other when the first returns false.  Before it asks which  *)
(* thread, it runs the instructions of every thread up to the next one     *)
(* that works on the memory; after the chosen thread has executed that one *)
(* it does the same for this thread.                                       *)
(*                                                                         *)
(* Each of those instructions is a step, so that a loop of them that does  *)
(* not end is a behaviour.  The input may end at any prompt, and an answer *)
(* that is no number where one is expected makes std::cin fail for good.   *)
(***************************************************************************)
EXTENDS Executor, FiniteSets

VARIABLE console
    \* at:    "operation", "thread" and "memory" are the prompts (the last one
    \*        is of the internal update manager); "listing" runs the threads
    \*        before the prompt for one, "local" the chosen one after it
    \* turn:  the thread whose local instructions are run
    \* asked: which of "thread" and "memory" the user has asked for
    \* input: std::cin is "open", has "ended" or has "failed"

Console == [at : {"operation", "listing", "thread", "local", "memory"},
            turn : 0 .. Cardinality(Thread),
            asked : {"thread", "memory"},
            input : {"open", "ended", "failed"}]

ConsoleInit ==
    console = [at |-> "operation", turn |-> 0, asked |-> "thread", input |-> "open"]
-----------------------------------------------------------------------------
In(place) == Runs("interact") /\ console.at = place

(* Mutant of IsLocal: evaluateThreadLocalInstructions stops at jumps.      *)
IsLocalButGoto(t) ==
    /\ ~isFinished(t)
    /\ Instruction(t).action \in {"StoreConstInRegister", "StoreExprInRegister"}

(* The instructions that evaluateThreadLocalInstructions does not stop at. *)
IsLocal(t) ==
    /\ ~isFinished(t)
    /\ Instruction(t).action \in {"StoreConstInRegister", "StoreExprInRegister", "Goto"}

GoTo(c) == console' = c /\ UNCHANGED halted

Prompt(c) == [c EXCEPT !.at = "operation", !.turn = 0, !.asked = "thread"]

List(c) == [c EXCEPT !.at = "listing", !.turn = 0]

(***************************************************************************)
(* executeThread, or executeInternalMemoryUpdate, has returned false, with *)
(* the input being in this state: the other is tried if it comes second.   *)
(***************************************************************************)
ExecuteThreadFails(input) ==
    LET c == [console EXCEPT !.input = input]
    IN  IF c.asked = "thread" THEN GoTo([c EXCEPT !.at = "memory"])
        ELSE console' = c /\ halted' = TRUE

(* Mutant of UpdateFails: the executor returns to the threads in any case. *)
UpdateFailsAgain(input) == GoTo(List([console EXCEPT !.input = input]))

(* Mutant of UpdateFails: it does not turn to the threads.                 *)
UpdateFailsForGood(input) ==
    console' = [console EXCEPT !.input = input] /\ halted' = TRUE

UpdateFails(input) ==
    LET c == [console EXCEPT !.input = input]
    IN  IF c.asked = "memory" THEN GoTo(List(c))
        ELSE console' = c /\ halted' = TRUE
-----------------------------------------------------------------------------
(* "Execute user THREAD or internal MEMORY update?"                        *)
AskForThread ==
    /\ In("operation") /\ console.input = "open"
    /\ GoTo(List(console))
    /\ UNCHANGED <<memoryVars, threadVars>>

AskForMemory ==
    /\ In("operation") /\ console.input = "open"
    /\ GoTo([console EXCEPT !.at = "memory", !.asked = "memory"])
    /\ UNCHANGED <<memoryVars, threadVars>>

(* The extraction fails, now or because an earlier one has.                *)
NoOperation ==
    /\ In("operation")
    /\ halted' = TRUE
    /\ console' = [console EXCEPT !.input = IF @ = "open" THEN "ended" ELSE @]
    /\ UNCHANGED <<memoryVars, threadVars>>

(* evaluateThreadLocalInstructions, one instruction at a time.             *)
RunAhead ==
    /\ In("listing") \/ In("local")
    /\ console.turn \in Thread /\ IsLocal(console.turn)
    /\ evaluateInstruction(console.turn)
    /\ UNCHANGED <<halted, console>>

ListNext ==
    /\ In("listing") /\ console.turn \in Thread
    /\ ~IsLocal(console.turn)
    /\ GoTo([console EXCEPT !.turn = @ + 1])
    /\ UNCHANGED <<memoryVars, threadVars>>

(* All threads are listed.                                                 *)
ListEnd ==
    /\ In("listing") /\ console.turn \notin Thread
    /\ \/ unfinishedThreads = {} /\ ExecuteThreadFails(console.input)
       \/ unfinishedThreads # {} /\ GoTo([console EXCEPT !.at = "thread", !.turn = 0])
    /\ UNCHANGED <<memoryVars, threadVars>>
-----------------------------------------------------------------------------
(***************************************************************************)
(* The interactive managers of RA and SRA ask for the message of a read    *)
(* and, in RA, for the timestamp of a store, and throw if the input ends.  *)
(***************************************************************************)
AsksUser(t) ==
    LET i == Instruction(t)
    IN  /\ isRA
        /\ \/ i.action \in {"Load", "CompareAndSwap", "FetchAndIncrement"}
           \/ i.action = "Store" /\ argv.memoryModel = "ra"
           \/ i.action = "Fence" /\ RA!isAcquire(i.memoryAccessMode)

(* The chosen thread executes its instruction.                             *)
Execute(t, input) ==
    /\ \/ /\ AsksUser(t) => input = "open"
          /\ evaluateInstruction(t)
       \/ AsksUser(t) /\ Abort /\ UNCHANGED threadVars
    /\ GoTo([console EXCEPT !.at = "local", !.turn = t, !.input = input])

(* "Enter thread id": any other number is refused, and it asks again.      *)
ChooseThread(t) ==
    /\ In("thread") /\ console.input = "open"
    /\ t \in unfinishedThreads
    /\ Execute(t, "open")

(***************************************************************************)
(* A failed extraction sets threadId to 0, and 0 is a thread.  From then   *)
(* on no extraction sets it to anything: it is not initialized and may be  *)
(* any thread, or none for as long as it likes.                            *)
(***************************************************************************)
NoNumber ==
    /\ In("thread") /\ console.input = "open"
    /\ \/ 0 \in unfinishedThreads /\ Execute(0, "failed")
       \/ /\ 0 \notin unfinishedThreads
          /\ GoTo([console EXCEPT !.input = "failed"])
          /\ UNCHANGED <<memoryVars, threadVars>>

UninitializedThread ==
    /\ In("thread") /\ console.input = "failed"
    /\ \E t \in unfinishedThreads : Execute(t, "failed")

NoThread ==
    /\ In("thread") /\ console.input # "failed"
    /\ ExecuteThreadFails("ended")
    /\ UNCHANGED <<memoryVars, threadVars>>

LocalEnd ==
    /\ In("local") /\ ~IsLocal(console.turn)
    /\ GoTo(Prompt(console))
    /\ UNCHANGED <<memoryVars, threadVars>>
-----------------------------------------------------------------------------
(* "Choose buffer to propagate".                                           *)
ChooseBuffer(t) ==
    /\ In("memory") /\ console.input = "open"
    /\ propagate(t)
    /\ GoTo(Prompt(console))
    /\ UNCHANGED threadVars

(* There is none, or the input is of no use any more.                      *)
NothingToPropagate ==
    /\ In("memory")
    /\ ~somethingPending \/ console.input # "open"
    /\ UpdateFails(console.input)
    /\ UNCHANGED <<memoryVars, threadVars>>

(* The input ends or fails at the prompt for a buffer.                     *)
NoBuffer ==
    /\ In("memory") /\ console.input = "open"
    /\ somethingPending
    /\ \E input \in {"ended", "failed"} : UpdateFails(input)
    /\ UNCHANGED <<memoryVars, threadVars>>
-----------------------------------------------------------------------------
(* What the executor does without its user.                                *)
InteractiveStep ==
    \/ console.input # "open" /\ (NoOperation \/ NoThread)
    \/ RunAhead
    \/ ListNext
    \/ ListEnd
    \/ LocalEnd
    \/ NothingToPropagate

InteractiveNext ==
    \/ AskForThread
    \/ AskForMemory
    \/ NoOperation
    \/ NoThread
    \/ NoNumber
    \/ UninitializedThread
    \/ NoBuffer
    \/ \E t \in Thread : ChooseThread(t) \/ ChooseBuffer(t)
    \/ InteractiveStep

(* It waits for its user to answer.                                        *)
AtPrompt ==
    /\ console.input = "open"
    /\ \/ console.at \in {"operation", "thread"}
       \/ console.at = "memory" /\ somethingPending
=============================================================================
