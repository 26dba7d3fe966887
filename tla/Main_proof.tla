----------------------------- MODULE Main_proof -----------------------------
(***************************************************************************)
(* Proofs about the whole program, over all five memory models.  Of the    *)
(* two executors: main does not end before everything is done, and no      *)
(* thread the user may choose has local instructions left.  Of the threads *)
(* and the memory: what is proved of the parser and of the managers holds  *)
(* of the programs and of the memory that main puts together.              *)
(***************************************************************************)
EXTENDS Main, FiniteSetTheorems, TLAPS

(***************************************************************************)
(* What the interactive executor knows at its prompts.  When it turns from *)
(* threads to memory there was no thread to execute, and when it turns     *)
(* from memory to threads there was no store to propagate; while it lists  *)
(* the threads, those before its turn have run ahead.                      *)
(***************************************************************************)
ConsoleInv ==
    /\ console \in Console
    /\ argv.executionMode = "rand" => console.at = "operation"
    /\ console.at = "operation" => console.asked = "thread"

TurnInv ==
    /\ console.at = "memory" /\ console.asked = "thread" /\ console.input = "open"
          => unfinishedThreads = {}
    /\ console.at = "listing" /\ console.asked = "memory" /\ console.input = "open"
          => ~somethingPending

AheadInv ==
    /\ DOMAIN currentInstruction = Thread
    /\ console.at = "listing" =>
          \A t \in Thread : t < console.turn => ~IsLocal(t)
    /\ console.at = "thread" =>
          unfinishedThreads # {} /\ \A t \in Thread : ~IsLocal(t)

ExecutorInv == ConsoleInv /\ TurnInv /\ AheadInv /\ HaltsWhenDone
-----------------------------------------------------------------------------
(***************************************************************************)
(* An instruction changes the position of its own thread only, never the   *)
(* program, and a local one leaves the store buffers alone.                *)
(***************************************************************************)
Moves(t) ==
    /\ program' = program
    /\ \/ currentInstruction' = currentInstruction
       \/ \E position :
             currentInstruction' = [currentInstruction EXCEPT ![t] = position]

LEMMA InstructionMoves ==
    ASSUME NEW t \in Thread, evaluateInstruction(t)
    PROVE  Moves(t) /\ argv' = argv
<1>1. \A p : GoesTo(t, p) => Moves(t)
  BY DEF GoesTo, Moves
<1>2. Advances(t) => Moves(t)
  BY <1>1 DEF Advances
<1>3. UNCHANGED threadVars => Moves(t)
  BY DEF threadVars, Moves
<1>4. UNCHANGED memoryVars => argv' = argv
  BY DEF memoryVars
<1>5. Abort => argv' = argv
  BY DEF Abort
<1>6. CASE StoreConstInRegister(t)
  BY <1>2, <1>4, <1>6 DEF StoreConstInRegister
<1>7. CASE StoreExprInRegister(t)
  BY <1>2, <1>3, <1>4, <1>5, <1>7 DEF StoreExprInRegister
<1>8. CASE Goto(t)
  BY <1>1, <1>2, <1>3, <1>4, <1>5, <1>8 DEF Goto
<1>9. CASE Load(t)
  BY <1>2, <1>3, <1>9 DEF Load, load, badLoad, Of
<1>10. CASE Store(t)
  BY <1>2, <1>10 DEF Store, store, Of
<1>11. CASE CompareAndSwap(t)
  BY <1>2, <1>11 DEF CompareAndSwap, compareAndSwap, Of
<1>12. CASE FetchAndIncrement(t)
  BY <1>2, <1>12 DEF FetchAndIncrement, fetchAndIncrement, Of
<1>13. CASE Fence(t)
  BY <1>2, <1>13 DEF Fence, fence, Of
<1>14. CASE BadRegister(t)
  BY <1>3, <1>5, <1>14 DEF BadRegister
<1> QED BY <1>6, <1>7, <1>8, <1>9, <1>10, <1>11, <1>12, <1>13, <1>14
       DEF evaluateInstruction

LEMMA LocalKeepsBuffers ==
    ASSUME NEW t \in Thread, IsLocal(t), evaluateInstruction(t)
    PROVE  buffers' = buffers /\ argv' = argv
<1>1. \/ StoreConstInRegister(t)
      \/ StoreExprInRegister(t)
      \/ Goto(t)
      \/ BadRegister(t)
  BY DEF IsLocal, evaluateInstruction, Load, Store, CompareAndSwap,
         FetchAndIncrement, Fence, At
<1>2. UNCHANGED memoryVars \/ Abort
  BY <1>1 DEF StoreConstInRegister, StoreExprInRegister, Goto, BadRegister,
              memoryVars
<1> QED BY <1>2 DEF memoryVars, Abort, bufferVars

LEMMA OthersStay ==
    ASSUME NEW t \in Thread, Moves(t), DOMAIN currentInstruction = Thread,
           NEW u \in Thread, u # t
    PROVE  IsLocal(u)' = IsLocal(u)
<1>1. /\ program' = program
      /\ currentInstruction'[u] = currentInstruction[u]
  BY DEF Moves
<1> QED BY <1>1 DEF IsLocal, isFinished, Instruction, Size

LEMMA PositionsStay ==
    ASSUME UNCHANGED threadVars
    PROVE  /\ unfinishedThreads' = unfinishedThreads
           /\ \A t \in Thread : IsLocal(t)' = IsLocal(t)
           /\ currentInstruction' = currentInstruction
  BY DEF threadVars, unfinishedThreads, IsLocal, isFinished, Instruction, Size

LEMMA BuffersStay ==
    ASSUME buffers' = buffers, argv' = argv
    PROVE  somethingPending' = somethingPending
  BY DEF somethingPending, HasPending

-----------------------------------------------------------------------------
LEMMA ThreadsAreNumbered ==
    /\ Cardinality(Thread) \in Nat
    /\ Thread = 0 .. (Cardinality(Thread) - 1)
  BY MainAssumption, FS_CardinalityType

(***************************************************************************)
(* The console once the executor has gone to another place, field by       *)
(* field.                                                                  *)
(***************************************************************************)
LEMMA AtPlace ==
    ASSUME NEW c \in Console, NEW at, NEW turn
    PROVE  /\ \A input : [c EXCEPT !.at = at, !.turn = turn, !.input = input]
                 = [at |-> at, turn |-> turn, asked |-> c.asked, input |-> input]
           /\ [c EXCEPT !.at = at, !.turn = turn]
                 = [at |-> at, turn |-> turn, asked |-> c.asked, input |-> c.input]
<1>1. c = [at |-> c.at, turn |-> c.turn, asked |-> c.asked, input |-> c.input]
  BY DEF Console
<1> DEFINE first  == [c EXCEPT !.at = at]
           second == [first EXCEPT !.turn = turn]
<1>2. first = [at |-> at, turn |-> c.turn, asked |-> c.asked, input |-> c.input]
  BY <1>1
<1> HIDE DEF first
<1>3. second = [at |-> at, turn |-> turn, asked |-> c.asked, input |-> c.input]
  BY <1>2
<1> HIDE DEF second
<1>4. \A input : [second EXCEPT !.input = input]
         = [at |-> at, turn |-> turn, asked |-> c.asked, input |-> input]
  BY <1>3
<1> QED BY <1>3, <1>4 DEF first, second

LEMMA ExecutorInit == Init => ExecutorInv
<1> SUFFICES ASSUME Init PROVE ExecutorInv
  OBVIOUS
<1>1. /\ console = [at |-> "operation", turn |-> 0, asked |-> "thread",
                    input |-> "open"]
      /\ halted = FALSE
      /\ DOMAIN currentInstruction = Thread
  BY DEF Init, ConsoleInit, ThreadInit
<1>2. console \in Console
  BY <1>1, ThreadsAreNumbered DEF Console
<1> QED BY <1>1, <1>2 DEF ExecutorInv, ConsoleInv, TurnInv, AheadInv, HaltsWhenDone

(***************************************************************************)
(* A step that leaves threads and memory alone.                            *)
(***************************************************************************)
LEMMA OnlyConsole ==
    ASSUME UNCHANGED <<memoryVars, threadVars>>
    PROVE  /\ unfinishedThreads' = unfinishedThreads
           /\ somethingPending' = somethingPending
           /\ \A t \in Thread : IsLocal(t)' = IsLocal(t)
           /\ currentInstruction' = currentInstruction
           /\ argv' = argv
<1>1. buffers' = buffers /\ argv' = argv
  BY DEF memoryVars, bufferVars
<1> QED BY <1>1, PositionsStay, BuffersStay

(* The chosen thread executes its instruction, and runs ahead after it.    *)
LEMMA ExecuteStep ==
    ASSUME ExecutorInv, NEW t \in Thread, NEW input \in {"open", "failed"},
           In("thread"), Execute(t, input)
    PROVE  ExecutorInv'
<1>1. argv' = argv /\ DOMAIN currentInstruction' = Thread
  <2>1. CASE evaluateInstruction(t)
    BY <2>1, InstructionMoves DEF ExecutorInv, AheadInv, Moves
  <2>2. CASE Abort /\ UNCHANGED threadVars
    BY <2>2 DEF Abort, threadVars, ExecutorInv, AheadInv
  <2> QED BY <2>1, <2>2 DEF Execute
<1>2. /\ console \in Console
      /\ argv.executionMode = "interact" /\ ~halted
      /\ console' = [console EXCEPT !.at = "local", !.turn = t, !.input = input]
      /\ halted' = halted
  BY DEF Execute, GoTo, In, Runs, ExecutorInv, ConsoleInv
<1>3. console' \in Console /\ console'.at = "local"
  <2>1. t \in 0 .. Cardinality(Thread)
    BY ThreadsAreNumbered
  <2>2. console' = [at |-> "local", turn |-> t, asked |-> console.asked,
                    input |-> input]
    BY <1>2, AtPlace
  <2>3. console.asked \in {"thread", "memory"}
    BY <1>2 DEF Console
  <2> QED BY <2>1, <2>2, <2>3 DEF Console
<1> QED BY <1>1, <1>2, <1>3
       DEF ExecutorInv, ConsoleInv, TurnInv, AheadInv, HaltsWhenDone

LEMMA RunAheadStep ==
    ASSUME ExecutorInv, RunAhead
    PROVE  ExecutorInv'
<1> DEFINE t == console.turn
<1>1. /\ t \in Thread /\ IsLocal(t) /\ evaluateInstruction(t)
      /\ console.at \in {"listing", "local"}
      /\ console' = console /\ halted' = halted /\ ~halted
      /\ argv.executionMode = "interact"
  BY DEF RunAhead, In, Runs
<1>2. Moves(t) /\ argv' = argv /\ somethingPending' = somethingPending
  BY <1>1, InstructionMoves, LocalKeepsBuffers, BuffersStay
<1>3. DOMAIN currentInstruction' = Thread
  BY <1>2 DEF Moves, ExecutorInv, AheadInv
<1>4. ASSUME NEW u \in Thread, u < console.turn
      PROVE  IsLocal(u)' = IsLocal(u)
  BY <1>1, <1>2, <1>4, OthersStay, ThreadsAreNumbered DEF ExecutorInv, AheadInv
<1>5. ConsoleInv' /\ TurnInv' /\ HaltsWhenDone'
  BY <1>1, <1>2 DEF ExecutorInv, ConsoleInv, TurnInv, HaltsWhenDone
<1>6. AheadInv'
  BY <1>1, <1>3, <1>4 DEF ExecutorInv, AheadInv
<1> QED BY <1>5, <1>6 DEF ExecutorInv

LEMMA ListNextStep ==
    ASSUME ExecutorInv, ListNext
    PROVE  ExecutorInv'
<1>1. /\ console.turn \in Thread /\ ~IsLocal(console.turn)
      /\ console \in Console /\ console.at = "listing"
      /\ console' = [console EXCEPT !.turn = console.turn + 1]
      /\ halted' = halted /\ ~halted
      /\ argv.executionMode = "interact"
  BY DEF ListNext, In, Runs, GoTo, ExecutorInv, ConsoleInv
<1>2. /\ console' \in Console
      /\ console'.turn = console.turn + 1
      /\ console'.at = "listing"
      /\ console'.asked = console.asked
      /\ console'.input = console.input
  BY <1>1, ThreadsAreNumbered DEF Console
<1>3. ASSUME NEW u \in Thread, u < console.turn + 1
      PROVE  ~IsLocal(u)'
  <2>1. u < console.turn \/ u = console.turn
    BY <1>1, <1>3, ThreadsAreNumbered
  <2>2. ~IsLocal(u)
    BY <1>1, <2>1 DEF ExecutorInv, AheadInv
  <2> QED BY <2>2, OnlyConsole DEF ListNext
<1>4. AheadInv'
  BY <1>2, <1>3, OnlyConsole DEF AheadInv, ExecutorInv, ListNext
<1>5. ConsoleInv' /\ TurnInv' /\ HaltsWhenDone'
  BY <1>1, <1>2, OnlyConsole
     DEF ListNext, ExecutorInv, ConsoleInv, TurnInv, HaltsWhenDone
<1> QED BY <1>4, <1>5 DEF ExecutorInv

LEMMA ListEndStep ==
    ASSUME ExecutorInv, ListEnd
    PROVE  ExecutorInv'
<1>1. /\ console.turn \notin Thread
      /\ console \in Console /\ console.at = "listing"
      /\ ~halted /\ argv.executionMode = "interact"
  BY DEF ListEnd, In, Runs, ExecutorInv, ConsoleInv
<1>2. \A u \in Thread : ~IsLocal(u)
  <2>1. console.turn = Cardinality(Thread)
    BY <1>1, ThreadsAreNumbered DEF Console
  <2> QED BY <1>1, <2>1, ThreadsAreNumbered DEF ExecutorInv, AheadInv
<1>3. CASE unfinishedThreads = {} /\ ExecuteThreadFails(console.input)
  <2>1. CASE console.asked = "thread"
    <3>1. /\ console' = [console EXCEPT !.input = console.input, !.at = "memory"]
          /\ halted' = halted
      BY <1>3, <2>1, <1>1 DEF ExecuteThreadFails, GoTo, Console
    <3>2. /\ console' \in Console /\ console'.at = "memory"
      BY <1>1, <3>1 DEF Console
    <3> QED BY <1>1, <1>3, <3>1, <3>2, OnlyConsole
           DEF ListEnd, ExecutorInv, ConsoleInv, TurnInv, AheadInv, HaltsWhenDone
  <2>2. CASE console.asked = "memory"
    <3>1. console' = console
      BY <1>1, <1>3, <2>2 DEF ExecuteThreadFails, Console
    <3>2. console.input = "open" => ~somethingPending
      BY <1>1, <2>2 DEF ExecutorInv, TurnInv
    <3> QED BY <1>1, <1>2, <1>3, <3>1, <3>2, OnlyConsole
           DEF ListEnd, ExecutorInv, ConsoleInv, TurnInv, AheadInv, HaltsWhenDone
  <2> QED BY <1>1, <2>1, <2>2 DEF Console
<1>4. CASE /\ unfinishedThreads # {}
           /\ GoTo([console EXCEPT !.at = "thread", !.turn = 0])
  <2>1. /\ console' = [console EXCEPT !.at = "thread", !.turn = 0]
        /\ halted' = halted
    BY <1>4 DEF GoTo
  <2>2. console' \in Console /\ console'.at = "thread"
    <3>1. 0 \in 0 .. Cardinality(Thread)
      BY ThreadsAreNumbered
    <3>2. console.asked \in {"thread", "memory"} /\ console.input \in {"open", "ended", "failed"}
      BY <1>1 DEF Console
    <3>3. console' = [at |-> "thread", turn |-> 0, asked |-> console.asked,
                      input |-> console.input]
      BY <1>1, <2>1 DEF Console
    <3> QED BY <3>1, <3>2, <3>3 DEF Console
  <2> QED BY <1>1, <1>2, <1>4, <2>1, <2>2, OnlyConsole
         DEF ListEnd, ExecutorInv, ConsoleInv, TurnInv, AheadInv, HaltsWhenDone
<1> QED BY <1>3, <1>4 DEF ListEnd

(* execute returns true: main asks for the next operation.                 *)
LEMMA BackToPrompt ==
    ASSUME ExecutorInv, argv' = argv,
           currentInstruction' = currentInstruction,
           ~halted, halted' = halted, console' = Prompt(console)
    PROVE  ExecutorInv'
<1>1. console \in Console
  BY DEF ExecutorInv, ConsoleInv
<1> DEFINE returned == [at |-> "operation", turn |-> 0, asked |-> "thread",
                        input |-> console.input]
           moved    == [console EXCEPT !.at = "operation", !.turn = 0]
<1>2. console' = returned
  <2>1. moved = [at |-> "operation", turn |-> 0, asked |-> console.asked,
                 input |-> console.input]
    BY <1>1, AtPlace
  <2>2. console' = [moved EXCEPT !.asked = "thread"]
    BY DEF Prompt
  <2> HIDE DEF moved
  <2> QED BY <2>1, <2>2
<1>3. returned \in Console
  BY <1>1, ThreadsAreNumbered DEF Console
<1> QED BY <1>2, <1>3 DEF ExecutorInv, ConsoleInv, TurnInv, AheadInv, HaltsWhenDone

(* From a prompt to the listing of the threads.                            *)
LEMMA ToListing ==
    ASSUME ExecutorInv, UNCHANGED <<memoryVars, threadVars>>,
           argv.executionMode = "interact", ~halted,
           NEW c \in Console, GoTo(List(c)),
           c.asked = "memory" /\ c.input = "open" => ~somethingPending
    PROVE  ExecutorInv'
<1>1. /\ console' = [c EXCEPT !.at = "listing", !.turn = 0]
      /\ halted' = halted
  BY DEF GoTo, List
<1>2. /\ console'.at = "listing" /\ console'.turn = 0
      /\ console'.asked = c.asked /\ console'.input = c.input
  BY <1>1 DEF Console
<1>3. console' \in Console
  <2>1. console' = [at |-> "listing", turn |-> 0, asked |-> c.asked, input |-> c.input]
    BY <1>1, AtPlace
  <2> QED BY <2>1, ThreadsAreNumbered DEF Console
<1>4. \A t \in Thread : ~(t < 0)
  BY ThreadsAreNumbered
<1> QED BY <1>1, <1>2, <1>3, <1>4, OnlyConsole
       DEF ExecutorInv, ConsoleInv, TurnInv, AheadInv, HaltsWhenDone

(* Neither a thread nor the memory: execute returns false.                 *)
LEMMA Halting ==
    ASSUME ExecutorInv, UNCHANGED <<memoryVars, threadVars>>,
           argv.executionMode = "interact",
           NEW input \in {"open", "ended", "failed"},
           console' = [console EXCEPT !.input = input],
           input = "open" => console.input = "open"
                             /\ unfinishedThreads = {} /\ ~somethingPending
    PROVE  ExecutorInv'
<1>1. /\ console \in Console
  BY DEF ExecutorInv, ConsoleInv
<1>2. /\ console' \in Console
      /\ console'.at = console.at /\ console'.turn = console.turn
      /\ console'.asked = console.asked /\ console'.input = input
  BY <1>1 DEF Console
<1> QED BY <1>2, OnlyConsole
       DEF ExecutorInv, ConsoleInv, TurnInv, AheadInv, HaltsWhenDone

(* The memory has nothing to propagate, or the input is of no use for it.  *)
LEMMA UpdateFailsStep ==
    ASSUME ExecutorInv, UNCHANGED <<memoryVars, threadVars>>, In("memory"),
           NEW input \in {"open", "ended", "failed"}, UpdateFails(input),
           input = "open" => console.input = "open" /\ ~somethingPending
    PROVE  ExecutorInv'
<1> DEFINE c == [console EXCEPT !.input = input]
<1>1. console \in Console /\ console.at = "memory"
      /\ argv.executionMode = "interact" /\ ~halted
  BY DEF ExecutorInv, ConsoleInv, In, Runs
<1>2. c \in Console /\ c.asked = console.asked /\ c.input = input
  BY <1>1 DEF Console
<1>3. CASE c.asked = "memory" /\ GoTo(List(c))
  <2> HIDE DEF c
  <2> QED BY <1>1, <1>2, <1>3, ToListing
<1>4. CASE c.asked # "memory" /\ console' = c /\ halted' = TRUE
  <2>1. console.asked = "thread"
    BY <1>1, <1>2, <1>4 DEF Console
  <2>2. console.input = "open" => unfinishedThreads = {}
    BY <1>1, <2>1 DEF ExecutorInv, TurnInv
  <2> QED BY <1>1, <1>4, <2>2, Halting
<1> QED BY <1>3, <1>4 DEF UpdateFails

(***************************************************************************)
(* A step of the random executor, whose console is never used.             *)
(***************************************************************************)
LEMMA RandomStep ==
    ASSUME ExecutorInv, RandomNext, UNCHANGED console
    PROVE  ExecutorInv'
<1>1. console \in Console /\ console.at = "operation" /\ argv.executionMode = "rand"
  BY DEF RandomNext, ExecuteThread, ExecuteInternalMemoryUpdate, Halt, Runs,
         ExecutorInv, ConsoleInv
<1>2. ASSUME NEW t \in Thread, ExecuteThread(t)
      PROVE  ExecutorInv'
  <2>1. Moves(t) /\ argv' = argv /\ ~halted /\ halted' = halted
    BY <1>2, InstructionMoves DEF ExecuteThread, Runs
  <2>2. DOMAIN currentInstruction' = Thread
    BY <2>1 DEF Moves, ExecutorInv, AheadInv
  <2> QED BY <1>1, <2>1, <2>2
         DEF ExecutorInv, ConsoleInv, TurnInv, AheadInv, HaltsWhenDone
<1>3. ASSUME NEW t \in Thread, ExecuteInternalMemoryUpdate(t)
      PROVE  ExecutorInv'
  <2>1. /\ argv' = argv /\ ~halted /\ halted' = halted
        /\ currentInstruction' = currentInstruction
    BY <1>3 DEF ExecuteInternalMemoryUpdate, Runs, propagate, Of, threadVars
  <2> QED BY <1>1, <2>1
         DEF ExecutorInv, ConsoleInv, TurnInv, AheadInv, HaltsWhenDone
<1>4. ASSUME Halt
      PROVE  ExecutorInv'
  <2>1. unfinishedThreads = {} /\ ~somethingPending /\ UNCHANGED <<memoryVars, threadVars>>
    BY <1>4 DEF Halt
  <2> QED BY <1>1, <2>1, OnlyConsole
         DEF ExecutorInv, ConsoleInv, TurnInv, AheadInv, HaltsWhenDone
<1> QED BY <1>2, <1>3, <1>4 DEF RandomNext

(* The answers at the prompt for an operation.                             *)
LEMMA OperationStep ==
    ASSUME ExecutorInv, AskForThread \/ AskForMemory \/ NoOperation
    PROVE  ExecutorInv'
<1>1. /\ console \in Console /\ console.at = "operation" /\ console.asked = "thread"
      /\ argv.executionMode = "interact" /\ ~halted
      /\ UNCHANGED <<memoryVars, threadVars>>
  BY DEF AskForThread, AskForMemory, NoOperation, In, Runs, ExecutorInv, ConsoleInv
<1>2. CASE AskForThread
  BY <1>1, <1>2, ToListing DEF AskForThread
<1>3. CASE AskForMemory
  <2>1. /\ console' = [console EXCEPT !.at = "memory", !.asked = "memory"]
        /\ halted' = halted
    BY <1>3 DEF AskForMemory, GoTo
  <2>2. console' \in Console /\ console'.at = "memory" /\ console'.asked = "memory"
    BY <1>1, <2>1 DEF Console
  <2> QED BY <1>1, <2>1, <2>2, OnlyConsole
         DEF ExecutorInv, ConsoleInv, TurnInv, AheadInv, HaltsWhenDone
<1>4. CASE NoOperation
  <2> DEFINE input == IF console.input = "open" THEN "ended" ELSE console.input
  <2>1. console' = [console EXCEPT !.input = input] /\ input \in {"ended", "failed"}
    BY <1>1, <1>4 DEF NoOperation, Console
  <2> HIDE DEF input
  <2> QED BY <1>1, <2>1, Halting
<1> QED BY <1>2, <1>3, <1>4

(* The answers at the prompt for a thread.                                 *)
LEMMA ThreadStep ==
    ASSUME ExecutorInv,
           \/ NoThread \/ NoNumber \/ UninitializedThread
           \/ \E t \in Thread : ChooseThread(t)
    PROVE  ExecutorInv'
<1>1. /\ console \in Console /\ console.at = "thread" /\ In("thread")
      /\ argv.executionMode = "interact" /\ ~halted
      /\ unfinishedThreads \subseteq Thread
  BY DEF NoThread, NoNumber, UninitializedThread, ChooseThread, In, Runs,
         ExecutorInv, ConsoleInv, unfinishedThreads
<1>2. ASSUME NEW t \in Thread, ChooseThread(t)
      PROVE  ExecutorInv'
  BY <1>1, <1>2, ExecuteStep DEF ChooseThread
<1>3. CASE UninitializedThread
  BY <1>1, <1>3, ExecuteStep DEF UninitializedThread
<1>4. CASE NoNumber
  <2>1. CASE 0 \in unfinishedThreads /\ Execute(0, "failed")
    BY <1>1, <2>1, ExecuteStep
  <2>2. CASE /\ GoTo([console EXCEPT !.input = "failed"])
             /\ UNCHANGED <<memoryVars, threadVars>>
    <3>1. console' = [console EXCEPT !.input = "failed"]
      BY <2>2 DEF GoTo
    <3> QED BY <1>1, <2>2, <3>1, Halting
  <2> QED BY <1>4, <2>1, <2>2 DEF NoNumber
<1>5. CASE NoThread
  <2>1. ExecuteThreadFails("ended") /\ UNCHANGED <<memoryVars, threadVars>>
    BY <1>5 DEF NoThread
  <2>2. CASE console' = [console EXCEPT !.input = "ended"]
    BY <1>1, <2>1, <2>2, Halting
  <2>3. CASE GoTo([[console EXCEPT !.input = "ended"] EXCEPT !.at = "memory"])
    <3>1. /\ console' = [[console EXCEPT !.input = "ended"] EXCEPT !.at = "memory"]
          /\ halted' = halted
      BY <2>3 DEF GoTo
    <3>2. console' \in Console /\ console'.at = "memory" /\ console'.input = "ended"
      BY <1>1, <3>1 DEF Console
    <3> QED BY <1>1, <2>1, <3>1, <3>2, OnlyConsole
           DEF ExecutorInv, ConsoleInv, TurnInv, AheadInv, HaltsWhenDone
  <2> QED BY <2>1, <2>2, <2>3 DEF ExecuteThreadFails
<1> QED BY <1>2, <1>3, <1>4, <1>5

(* The answers at the prompt for a buffer.                                 *)
LEMMA MemoryStep ==
    ASSUME ExecutorInv,
           \/ NothingToPropagate \/ NoBuffer
           \/ \E t \in Thread : ChooseBuffer(t)
    PROVE  ExecutorInv'
<1>1. /\ console \in Console /\ In("memory") /\ ~halted
  BY DEF NothingToPropagate, NoBuffer, ChooseBuffer, In, Runs, ExecutorInv, ConsoleInv
<1>2. ASSUME NEW t \in Thread, ChooseBuffer(t)
      PROVE  ExecutorInv'
  <2>1. /\ argv' = argv /\ currentInstruction' = currentInstruction
        /\ console' = Prompt(console) /\ halted' = halted
    BY <1>2 DEF ChooseBuffer, propagate, Of, threadVars, GoTo
  <2> QED BY <1>1, <2>1, BackToPrompt
<1>3. CASE NothingToPropagate
  <2>1. console.input \in {"open", "ended", "failed"}
    BY <1>1 DEF Console
  <2> QED BY <1>1, <1>3, <2>1, UpdateFailsStep DEF NothingToPropagate
<1>4. CASE NoBuffer
  BY <1>1, <1>4, UpdateFailsStep DEF NoBuffer
<1> QED BY <1>2, <1>3, <1>4

LEMMA LocalEndStep ==
    ASSUME ExecutorInv, LocalEnd
    PROVE  ExecutorInv'
<1>1. /\ console' = Prompt(console) /\ halted' = halted /\ ~halted
      /\ UNCHANGED <<memoryVars, threadVars>>
  BY DEF LocalEnd, In, Runs, GoTo
<1> QED BY <1>1, OnlyConsole, BackToPrompt

LEMMA ExecutorStep ==
    ASSUME ExecutorInv, [Next]_vars
    PROVE  ExecutorInv'
<1>1. CASE UNCHANGED vars
  <2>1. UNCHANGED <<memoryVars, threadVars>> /\ console' = console /\ halted' = halted
    BY <1>1 DEF vars
  <2> QED BY <2>1, OnlyConsole
         DEF ExecutorInv, ConsoleInv, TurnInv, AheadInv, HaltsWhenDone
<1>2. CASE RandomNext /\ UNCHANGED console
  BY <1>2, RandomStep
<1>3. CASE InteractiveNext
  BY <1>3, OperationStep, ThreadStep, MemoryStep, RunAheadStep, ListNextStep,
     ListEndStep, LocalEndStep DEF InteractiveNext, InteractiveStep
<1> QED BY <1>1, <1>2, <1>3 DEF Next

(***************************************************************************)
(* ExecutorInv is inductive, for any files, threads, sizes and bounds.     *)
(***************************************************************************)
THEOREM ExecutorCorrect == Spec => []ExecutorInv
<1>1. ExecutorInv /\ [Next]_vars => ExecutorInv'
  BY ExecutorStep
<1> QED BY <1>1, ExecutorInit, PTL DEF Spec

(***************************************************************************)
(* main ends normally only once every thread has finished and every store  *)
(* has reached the memory, unless the input ends: whatever the order in    *)
(* which execute has tried threads and memory, in every model and mode.    *)
(***************************************************************************)
THEOREM HaltsDone == Spec => []HaltsWhenDone
<1>1. ExecutorInv => HaltsWhenDone
  BY DEF ExecutorInv
<1> QED BY <1>1, ExecutorCorrect, PTL

(***************************************************************************)
(* When the user is asked for a thread, one can be chosen, and none has    *)
(* been left at an instruction on its own registers.                       *)
(***************************************************************************)
THEOREM NothingLocalIsLeft == Spec => []ThreadsWaitAtMemory
<1>1. ExecutorInv => ThreadsWaitAtMemory
  <2> SUFFICES ASSUME ExecutorInv, console.at = "thread",
                      NEW t \in unfinishedThreads
               PROVE  Instruction(t).action \notin
                         {"StoreConstInRegister", "StoreExprInRegister", "Goto"}
    BY DEF ThreadsWaitAtMemory, ExecutorInv, AheadInv
  <2>1. t \in Thread /\ ~isFinished(t)
    BY DEF unfinishedThreads
  <2>2. ~IsLocal(t)
    BY <2>1 DEF ExecutorInv, AheadInv
  <2> QED BY <2>1, <2>2 DEF IsLocal
<1> QED BY <1>1, ExecutorCorrect, PTL
-----------------------------------------------------------------------------
(***************************************************************************)
(* What is proved of the parser, for the programs main runs.               *)
(***************************************************************************)
ParserTheory == INSTANCE Parser_proof WITH Line <- {}, MaxLines <- 0, text <- <<>>

LEMMA ParserAssumptions ==
    /\ {} \subseteq Seq(ParserTheory!Token) /\ 0 \in Nat
    /\ SizeRange \in Nat /\ SizeRange > 2 * (MaxInt + 1)
    /\ MaxInt \in Nat
  BY ThreadAssumption, IntAssumption

(* The two instances of Parser are the same operators.                     *)
LEMMA SameParser ==
    /\ ParserTheory!Token = Parser!Token
    /\ \A lines : ParserTheory!Loop(lines) = Parser!AfterLines(lines)[Len(lines)]
    /\ \A p : ParserTheory!Program(p) = Parser!Program(p)
<1>1. ParserTheory!Form = Parser!Form
  BY DEF ParserTheory!Form, Parser!Form
<1>2. \A token, part : ParserTheory!Fits(token, part) <=> Parser!Fits(token, part)
  BY DEF ParserTheory!Fits, Parser!Fits, ParserTheory!Word, Parser!Word,
         ParserTheory!MemoryAccessModes, Parser!MemoryAccessModes,
         ParserTheory!BinaryOperations, Parser!BinaryOperations,
         ParserTheory!BeginsWithNumber, Parser!BeginsWithNumber,
         ParserTheory!ReadAsSize, Parser!ReadAsSize,
         ParserTheory!Int32, Parser!Int32, ParserTheory!MinInt, Parser!MinInt
<1>3. \A token, part : ParserTheory!Meaning(token, part) = Parser!Meaning(token, part)
  BY DEF ParserTheory!Meaning, Parser!Meaning
<1>4. \A line : ParserTheory!Tokens(line) = Parser!Tokens(line)
  BY DEF ParserTheory!Tokens, Parser!Tokens, ParserTheory!Blank, Parser!Blank,
         ParserTheory!Min, Parser!Min, ParserTheory!Max, Parser!Max
<1>5. \A tokens, action :
         ParserTheory!Matches(tokens, action) <=> Parser!Matches(tokens, action)
  BY <1>1, <1>2 DEF ParserTheory!Matches, Parser!Matches
<1>6. \A tokens, action :
         ParserTheory!Instruction(tokens, action) = Parser!Instruction(tokens, action)
  <2> TAKE tokens, action
  <2> DEFINE names == {"action"} \cup
                 {Parser!Form[action][i][2] : i \in Parser!Fields(action)}
             part(f) == CHOOSE i \in Parser!Fields(action) : Parser!Form[action][i][2] = f
  <2>1. ParserTheory!Fields(action) = Parser!Fields(action)
    BY <1>1 DEF ParserTheory!Fields, Parser!Fields
  <2>2. Parser!Instruction(tokens, action) = [f \in names |->
           IF f = "action" THEN action
           ELSE Parser!Meaning(tokens[part(f)], Parser!Form[action][part(f)])]
    BY DEF Parser!Instruction
  <2>3. ParserTheory!Instruction(tokens, action) = [f \in names |->
           IF f = "action" THEN action
           ELSE ParserTheory!Meaning(tokens[part(f)], Parser!Form[action][part(f)])]
    BY <1>1, <2>1 DEF ParserTheory!Instruction
  <2> HIDE DEF names, part
  <2> QED BY <1>3, <2>2, <2>3
<1>7. \A line : ParserTheory!parseLine(line) = Parser!parseLine(line)
  <2> TAKE line
  <2> DEFINE tokens   == Parser!Tokens(line)
             labelled == tokens # <<>> /\ Head(tokens).kind = "colon"
             command  == IF labelled THEN Tail(tokens) ELSE tokens
             actions  == {a \in DOMAIN Parser!Form : Parser!Matches(command, a)}
             read(instruction) ==
                IF Parser!IsComment(line) \/ tokens = <<>> THEN Parser!NothingOn
                ELSE IF labelled /\ Head(tokens).number \notin Parser!ReadAsSize
                     THEN Parser!Malformed
                ELSE IF command # <<>> /\ actions = {} THEN Parser!Malformed
                ELSE [failed |-> FALSE,
                      label |-> IF labelled THEN {Head(tokens).number % SizeRange}
                                ELSE {},
                      instruction |-> IF command = <<>> THEN <<>> ELSE <<instruction>>]
             theirs == {a \in DOMAIN ParserTheory!Form : ParserTheory!Matches(command, a)}
  <2>1. theirs = actions
    BY <1>1, <1>5
  <2>2. /\ ParserTheory!IsComment(line) <=> Parser!IsComment(line)
        /\ ParserTheory!NothingOn = Parser!NothingOn
        /\ ParserTheory!Malformed = Parser!Malformed
        /\ ParserTheory!ReadAsSize = Parser!ReadAsSize
    BY DEF ParserTheory!IsComment, Parser!IsComment, ParserTheory!Word, Parser!Word,
           ParserTheory!Slashes, Parser!Slashes, ParserTheory!NothingOn,
           Parser!NothingOn, ParserTheory!Malformed, Parser!Malformed,
           ParserTheory!ReadAsSize, Parser!ReadAsSize
  <2>3. Parser!parseLine(line)
           = read(Parser!Instruction(command, CHOOSE a \in actions : TRUE))
    BY DEF Parser!parseLine
  <2>4. ParserTheory!parseLine(line)
           = read(ParserTheory!Instruction(command, CHOOSE a \in theirs : TRUE))
    BY <1>4, <2>1, <2>2 DEF ParserTheory!parseLine
  <2> HIDE DEF command, actions, theirs, read
  <2> QED BY <1>6, <2>1, <2>3, <2>4
<1>8. \A p : ParserTheory!AfterSeparator(p) = Parser!AfterSeparator(p)
  BY DEF ParserTheory!AfterSeparator, Parser!AfterSeparator,
         ParserTheory!Program, Parser!Program
<1>9. \A p, parsed : ParserTheory!AfterCommand(p, parsed) = Parser!AfterCommand(p, parsed)
  BY DEF ParserTheory!AfterCommand, Parser!AfterCommand,
         ParserTheory!WithLabels, Parser!WithLabels
<1>10. /\ ParserTheory!Initially = Parser!Initially
       /\ ParserTheory!THREAD_SEPARATOR = Parser!THREAD_SEPARATOR
  BY DEF ParserTheory!Initially, Parser!Initially, ParserTheory!THREAD_SEPARATOR,
         Parser!THREAD_SEPARATOR, ParserTheory!Word, Parser!Word
<1>11. \A p, line : ParserTheory!AfterLine(p, line) = Parser!AfterLine(p, line)
  BY <1>7, <1>8, <1>9, <1>10 DEF ParserTheory!AfterLine, Parser!AfterLine
<1>12. \A lines : ParserTheory!AfterLines(lines) = Parser!AfterLines(lines)
  BY <1>10, <1>11 DEF ParserTheory!AfterLines, Parser!AfterLines
<1> QED BY <1>12 DEF ParserTheory!Loop, ParserTheory!Token, Parser!Token,
           ParserTheory!Slashes, Parser!Slashes, ParserTheory!Blank, Parser!Blank,
           ParserTheory!Program, Parser!Program

(* Every thread gets a program whose instructions and labels are typed.    *)
LEMMA ProgramsTyped ==
    ASSUME NEW file \in DOMAIN Files, NEW t \in Thread
    PROVE  programsOf(file)[t + 1] \in ParserTheory!ThreadProgram
<1> DEFINE p == ParserTheory!Loop(Files[file])
<1>1. p \in ParserTheory!LoopState
  <2>1. Files[file] \in Seq(Seq(ParserTheory!Token))
    BY MainAssumption, SameParser
  <2> QED BY <2>1, ParserAssumptions, ParserTheory!LoopTyped
<1>2. programsOf(file) = Append(p.threadPrograms, ParserTheory!Program(p))
  BY SameParser DEF programsOf, Parser!parseFromStream
<1>3. programsOf(file) \in Seq(ParserTheory!ThreadProgram)
  <2>1. /\ p.threadPrograms \in Seq(ParserTheory!ThreadProgram)
        /\ ParserTheory!Program(p) \in ParserTheory!ThreadProgram
    BY <1>1, ParserAssumptions, ParserTheory!ProgramType DEF ParserTheory!LoopState
  <2> HIDE DEF p
  <2> QED BY <1>2, <2>1
<1>4. t + 1 \in 1 .. Len(programsOf(file))
  BY MainAssumption, FS_CardinalityType
<1> QED BY <1>3, <1>4

-----------------------------------------------------------------------------
(***************************************************************************)
(* What is proved of the managers, for any values and increments, as the   *)
(* main program uses them.                                                 *)
(***************************************************************************)
Modes == {"SEQ_CST", "REL", "ACQ", "REL_ACQ", "RLX"}

SCTheory  == INSTANCE SCStorage_proof WITH Value <- Int32, Increment <- Int32
TSOTheory == INSTANCE TSOStorage_proof WITH Value <- Int32, Increment <- Int32
PSOTheory == INSTANCE PSOStorage_proof WITH Value <- Int32, Increment <- Int32
RATheory  == INSTANCE RAStorage_proof WITH
    Models <- {"RA", "SRA"}, Managers <- {"random", "interactive"},
    AccessModes <- Modes, FenceModes <- Modes,
    Value <- Int32, Increment <- Int32, Address <- 0 .. StorageSize,
    model <- IF argv.memoryModel = "sra" THEN "SRA" ELSE "RA",
    manager <- IF argv.executionMode = "rand" THEN "random" ELSE "interactive"

LEMMA SameInt == /\ SCTheory!Int32 = Int32 /\ TSOTheory!Int32 = Int32
                 /\ PSOTheory!Int32 = Int32 /\ RATheory!Int32 = Int32
  BY DEF SCTheory!Int32, TSOTheory!Int32, PSOTheory!Int32, RATheory!Int32, Int32,
         SCTheory!MinInt, TSOTheory!MinInt, PSOTheory!MinInt, RATheory!MinInt, MinInt

LEMMA SCOperators ==
    /\ SCTheory!Location = SC!Location
    /\ \A mem, a, e, v : SCTheory!Swapped(mem, a, e, v) = SC!Swapped(mem, a, e, v)
    /\ \A mem, a, v : SCTheory!Incremented(mem, a, v) = SC!Incremented(mem, a, v)
  BY DEF SCTheory!Location, SC!Location, SCTheory!Swapped, SC!Swapped,
         SCTheory!Incremented, SC!Incremented, SCTheory!Plus32, SC!Plus32,
         SCTheory!Wrap, SC!Wrap, SCTheory!MinInt, SC!MinInt

LEMMA SCSteps ==
    ASSUME NEW t \in Thread
    PROVE  /\ \A a \in Address, v \in Int32 : SC!Load(t, a, v) => SCTheory!Next
           /\ \A a \in Address, v \in Int32 : SC!Store(t, a, v) => SCTheory!Next
           /\ \A a \in Address, e, v \in Int32 :
                 SC!CompareAndSwap(t, a, e, v) => SCTheory!Next
           /\ \A a \in Address, v \in Int32 : SC!FetchAndIncrement(t, a, v) => SCTheory!Next
           /\ \A a \in Address : SC!BadAccess(t, a) => SCTheory!Next
           /\ SC!Fence(t) => SCTheory!Next
<1>1. \A a, v : SC!Load(t, a, v) => SCTheory!Load(t, a, v)
  BY SCOperators DEF SC!Load, SCTheory!Load, SC!vars, SCTheory!vars
<1>2. \A a, v : SC!Store(t, a, v) => SCTheory!Store(t, a, v)
  BY SCOperators DEF SC!Store, SCTheory!Store
<1>3. \A a, e, v : SC!CompareAndSwap(t, a, e, v) => SCTheory!CompareAndSwap(t, a, e, v)
  BY SCOperators DEF SC!CompareAndSwap, SCTheory!CompareAndSwap
<1>4. \A a, v : SC!FetchAndIncrement(t, a, v) => SCTheory!FetchAndIncrement(t, a, v)
  BY SCOperators DEF SC!FetchAndIncrement, SCTheory!FetchAndIncrement
<1>5. \A a : SC!BadAccess(t, a) => SCTheory!BadAccess(t, a)
  BY SCOperators DEF SC!BadAccess, SCTheory!BadAccess
<1>6. SC!Fence(t) => SCTheory!Fence(t)
  BY DEF SC!Fence, SCTheory!Fence, SC!vars, SCTheory!vars
<1> QED BY <1>1, <1>2, <1>3, <1>4, <1>5, <1>6, SameInt DEF SCTheory!Next

LEMMA TSOOperators ==
    /\ TSOTheory!Location = TSO!Location
    /\ \A buffer, a : TSOTheory!Find(buffer, a) = TSO!Find(buffer, a)
    /\ \A mem, buffer, a : TSOTheory!Through(mem, buffer, a) = TSO!Through(mem, buffer, a)
    /\ \A mem, buffer : TSOTheory!Flushed(mem, buffer) = TSO!Flushed(mem, buffer)
    /\ \A buffer : TSOTheory!InRange(buffer) <=> TSO!InRange(buffer)
    /\ \A mem, a, e, v : TSOTheory!Swapped(mem, a, e, v) = TSO!Swapped(mem, a, e, v)
    /\ \A mem, a, v : TSOTheory!Incremented(mem, a, v) = TSO!Incremented(mem, a, v)
<1>1. TSOTheory!Location = TSO!Location
  BY DEF TSOTheory!Location, TSO!Location
<1>2. \A buffer, a : TSOTheory!Find(buffer, a) = TSO!Find(buffer, a)
  BY DEF TSO!Find, TSOTheory!Find, TSO!SelectLastInSeq, TSOTheory!SelectLastInSeq,
         TSO!Max, TSOTheory!Max
<1>3. \A mem, buffer, a : TSOTheory!Through(mem, buffer, a) = TSO!Through(mem, buffer, a)
  BY <1>2 DEF TSO!Through, TSOTheory!Through
<1>4. \A mem, buffer : TSOTheory!Flushed(mem, buffer) = TSO!Flushed(mem, buffer)
  BY <1>1, <1>3 DEF TSO!Flushed, TSOTheory!Flushed
<1>5. \A buffer : TSOTheory!InRange(buffer) <=> TSO!InRange(buffer)
  BY <1>1 DEF TSO!InRange, TSOTheory!InRange
<1>6. /\ \A mem, a, e, v : TSOTheory!Swapped(mem, a, e, v) = TSO!Swapped(mem, a, e, v)
      /\ \A mem, a, v : TSOTheory!Incremented(mem, a, v) = TSO!Incremented(mem, a, v)
  BY DEF TSO!Swapped, TSOTheory!Swapped, TSO!Incremented, TSOTheory!Incremented,
         TSO!Plus32, TSOTheory!Plus32, TSO!Wrap, TSOTheory!Wrap, TSO!MinInt,
         TSOTheory!MinInt
<1> QED BY <1>1, <1>2, <1>3, <1>4, <1>5, <1>6

LEMMA TSOSteps ==
    ASSUME NEW t \in Thread
    PROVE  /\ \A a \in Address, v \in Int32 : TSO!Load(t, a, v) => TSOTheory!Next
           /\ \A a \in Address : TSO!BadLoad(t, a) => TSOTheory!Next
           /\ \A a \in Address, v \in Int32 : TSO!Store(t, a, v) => TSOTheory!Next
           /\ \A a \in Address, e, v \in Int32 :
                 TSO!CompareAndSwap(t, a, e, v) => TSOTheory!Next
           /\ \A a \in Address, v \in Int32 :
                 TSO!FetchAndIncrement(t, a, v) => TSOTheory!Next
           /\ TSO!Fence(t) => TSOTheory!Next
           /\ TSO!Propagate(t) => TSOTheory!Next
<1>1. \A a, v : TSO!Load(t, a, v) => TSOTheory!Load(t, a, v)
  BY TSOOperators DEF TSO!Load, TSOTheory!Load, TSO!Readable, TSOTheory!Readable,
         TSO!vars, TSOTheory!vars
<1>2. \A a : TSO!BadLoad(t, a) => TSOTheory!BadLoad(t, a)
  BY TSOOperators DEF TSO!BadLoad, TSOTheory!BadLoad, TSO!Readable,
         TSOTheory!Readable, TSO!Abort, TSOTheory!Abort
<1>3. \A a, v : TSO!Store(t, a, v) => TSOTheory!Store(t, a, v)
  BY TSOOperators DEF TSO!Store, TSOTheory!Store
<1>4. \A a, e, v : TSO!CompareAndSwap(t, a, e, v) => TSOTheory!CompareAndSwap(t, a, e, v)
  BY TSOOperators DEF TSO!CompareAndSwap, TSOTheory!CompareAndSwap, TSO!FlushThen,
         TSOTheory!FlushThen, TSO!Abort, TSOTheory!Abort
<1>5. \A a, v : TSO!FetchAndIncrement(t, a, v) => TSOTheory!FetchAndIncrement(t, a, v)
  BY TSOOperators DEF TSO!FetchAndIncrement, TSOTheory!FetchAndIncrement,
         TSO!FlushThen, TSOTheory!FlushThen, TSO!Abort, TSOTheory!Abort
<1>6. TSO!Fence(t) => TSOTheory!Fence(t)
  BY TSOOperators DEF TSO!Fence, TSOTheory!Fence, TSO!FlushThen, TSOTheory!FlushThen,
         TSO!Abort, TSOTheory!Abort
<1>7. TSO!Propagate(t) => TSOTheory!Propagate(t)
  BY TSOOperators DEF TSO!Propagate, TSOTheory!Propagate, TSO!Abort, TSOTheory!Abort
<1> QED BY <1>1, <1>2, <1>3, <1>4, <1>5, <1>6, <1>7, SameInt
       DEF TSOTheory!Next, TSOTheory!InternalUpdate

LEMMA PSOOperators ==
    /\ PSOTheory!Location = PSO!Location
    /\ \A mem, buffer, l : PSOTheory!Through(mem, buffer, l) = PSO!Through(mem, buffer, l)
    /\ \A mem, buffer, ls :
          PSOTheory!Flushed(mem, buffer, ls) = PSO!Flushed(mem, buffer, ls)
    /\ \A buffer, ls : PSOTheory!Emptied(buffer, ls) = PSO!Emptied(buffer, ls)
    /\ \A mem, a, e, v : PSOTheory!Swapped(mem, a, e, v) = PSO!Swapped(mem, a, e, v)
    /\ \A mem, a, v : PSOTheory!Incremented(mem, a, v) = PSO!Incremented(mem, a, v)
<1>1. PSOTheory!Location = PSO!Location
  BY DEF PSOTheory!Location, PSO!Location
<1>2. \A mem, buffer, l : PSOTheory!Through(mem, buffer, l) = PSO!Through(mem, buffer, l)
  BY DEF PSO!Through, PSOTheory!Through
<1>3. /\ \A mem, buffer, ls :
            PSOTheory!Flushed(mem, buffer, ls) = PSO!Flushed(mem, buffer, ls)
      /\ \A buffer, ls : PSOTheory!Emptied(buffer, ls) = PSO!Emptied(buffer, ls)
  BY <1>1, <1>2 DEF PSO!Flushed, PSOTheory!Flushed, PSO!Emptied, PSOTheory!Emptied
<1>4. /\ \A mem, a, e, v : PSOTheory!Swapped(mem, a, e, v) = PSO!Swapped(mem, a, e, v)
      /\ \A mem, a, v : PSOTheory!Incremented(mem, a, v) = PSO!Incremented(mem, a, v)
  BY DEF PSO!Swapped, PSOTheory!Swapped, PSO!Incremented, PSOTheory!Incremented,
         PSO!Plus32, PSOTheory!Plus32, PSO!Wrap, PSOTheory!Wrap, PSO!MinInt,
         PSOTheory!MinInt
<1> QED BY <1>1, <1>2, <1>3, <1>4

LEMMA PSOSteps ==
    ASSUME NEW t \in Thread
    PROVE  /\ \A a \in Address, v \in Int32 : PSO!Load(t, a, v) => PSOTheory!Next
           /\ \A a \in Address, v \in Int32 : PSO!Store(t, a, v) => PSOTheory!Next
           /\ \A a \in Address, e, v \in Int32 :
                 PSO!CompareAndSwap(t, a, e, v) => PSOTheory!Next
           /\ \A a \in Address, v \in Int32 :
                 PSO!FetchAndIncrement(t, a, v) => PSOTheory!Next
           /\ \A a \in Address : PSO!BadAccess(t, a) => PSOTheory!Next
           /\ PSO!Fence(t) => PSOTheory!Next
           /\ \A l \in Location : PSO!Propagate(t, l) => PSOTheory!Next
<1>1. \A a, v : PSO!Load(t, a, v) => PSOTheory!Load(t, a, v)
  BY PSOOperators DEF PSO!Load, PSOTheory!Load, PSO!vars, PSOTheory!vars
<1>2. \A a, v : PSO!Store(t, a, v) => PSOTheory!Store(t, a, v)
  BY PSOOperators DEF PSO!Store, PSOTheory!Store
<1>3. \A a, e, v : PSO!CompareAndSwap(t, a, e, v) => PSOTheory!CompareAndSwap(t, a, e, v)
  BY PSOOperators DEF PSO!CompareAndSwap, PSOTheory!CompareAndSwap, PSO!FlushThen,
         PSOTheory!FlushThen
<1>4. \A a, v : PSO!FetchAndIncrement(t, a, v) => PSOTheory!FetchAndIncrement(t, a, v)
  BY PSOOperators DEF PSO!FetchAndIncrement, PSOTheory!FetchAndIncrement,
         PSO!FlushThen, PSOTheory!FlushThen
<1>5. \A a : PSO!BadAccess(t, a) => PSOTheory!BadAccess(t, a)
  BY PSOOperators DEF PSO!BadAccess, PSOTheory!BadAccess, PSO!Abort, PSOTheory!Abort
<1>6. PSO!Fence(t) => PSOTheory!Fence(t)
  BY PSOOperators DEF PSO!Fence, PSOTheory!Fence, PSO!FlushThen, PSOTheory!FlushThen
<1>7. \A l : PSO!Propagate(t, l) => PSOTheory!Propagate(t, l)
  BY PSOOperators DEF PSO!Propagate, PSOTheory!Propagate
<1>8. Location = PSOTheory!Location
  BY DEF Location, PSOTheory!Location
<1> QED BY <1>1, <1>2, <1>3, <1>4, <1>5, <1>6, <1>7, <1>8, SameInt
       DEF PSOTheory!Next, PSOTheory!InternalUpdate

LEMMA RASteps ==
    ASSUME NEW u \in Thread
    PROVE  /\ \A a \in 0 .. StorageSize, mode \in Modes :
                 /\ \A m \in messages[a] :
                       /\ RA!Load(u, a, mode, m) => RATheory!Next
                       /\ \A e, v \in Int32 :
                             RA!CompareAndSwap(u, a, e, v, mode, m) => RATheory!Next
                       /\ \A v \in Int32 :
                             RA!FetchAndIncrement(u, a, v, mode, m) => RATheory!Next
                 /\ \A v \in Int32 : RA!Store(u, a, v, mode) => RATheory!Next
                 /\ RA!NothingToUpdate(u, a) => RATheory!Next
           /\ \A mode \in Modes :
                 /\ mode = "SEQ_CST" /\ RA!SCFence(u) => RATheory!Next
                 /\ \A m \in messages[RA!FenceLocation] :
                       RA!AcquireFence(u, mode, m) => RATheory!Next
                 /\ mode = "REL_ACQ" /\ RA!NothingToUpdate(u, RA!FenceLocation)
                       => RATheory!Next
                 /\ RA!ReleaseFence(u, mode) => RATheory!Next
<1>1. \A v, w : RATheory!Join(v, w) = RA!Join(v, w)
  BY DEF RA!Join, RATheory!Join, RA!LogLocation, RATheory!LogLocation
<1>2. \A log, view, l : RATheory!Available(log, view, l) = RA!Available(log, view, l)
  BY DEF RA!Available, RATheory!Available
<1>3. \A ms : RATheory!Unused(ms) = RA!Unused(ms)
  BY DEF RA!Unused, RATheory!Unused
<1>4. \A ms : RATheory!Earliest(ms) = RA!Earliest(ms)
  BY DEF RA!Earliest, RATheory!Earliest
<1>5. \A ms : RATheory!Latest(ms) = RA!Latest(ms)
  BY DEF RA!Latest, RATheory!Latest
<1>6. \A ms, m : RATheory!Later(ms, m) = RA!Later(ms, m)
  BY DEF RA!Later, RATheory!Later
<1>7. \A ms, b : RATheory!TimestampAfter(ms, b) = RA!TimestampAfter(ms, b)
  BY <1>4, <1>6 DEF RA!TimestampAfter, RATheory!TimestampAfter
<1>8. \A ms, b : RATheory!Exhausted(ms, b) <=> RA!Exhausted(ms, b)
  BY <1>7 DEF RA!Exhausted, RATheory!Exhausted
<1>9. \A ms, min : RATheory!Bases(ms, min) = RA!Bases(ms, min)
  BY <1>4, <1>5, <1>3 DEF RA!Bases, RATheory!Bases
<1>10. \A t, l, marks : RATheory!Readable(t, l, marks) = RA!Readable(t, l, marks)
  BY <1>2, <1>3 DEF RA!Readable, RATheory!Readable
<1>11. \A t, m, acq : RATheory!ViewsAfterRead(t, m, acq) = RA!ViewsAfterRead(t, m, acq)
  BY <1>1 DEF RA!ViewsAfterRead, RATheory!ViewsAfterRead
<1>12. \A log, m, marks : RATheory!Marked(log, m, marks) = RA!Marked(log, m, marks)
  BY DEF RA!Marked, RATheory!Marked
<1>13. \A log, views, l :
         RATheory!CleanedUp(log, views, l) = RA!CleanedUp(log, views, l)
  BY DEF RA!CleanedUp, RATheory!CleanedUp
<1>14. \A t, l, m, acq, marks :
         RATheory!LogAfterRead(t, l, m, acq, marks) = RA!LogAfterRead(t, l, m, acq,
         marks)
  BY <1>11, <1>12, <1>13 DEF RA!LogAfterRead, RATheory!LogAfterRead
<1>15. \A t, l, m, acq, marks :
         RA!Read(t, l, m, acq, marks) => RATheory!Read(t, l, m, acq, marks)
  BY <1>11, <1>14 DEF RA!Read, RATheory!Read
<1>16. \A t, l, v, time, rel, log, views :
         RA!Push(t, l, v, time, rel, log, views) => RATheory!Push(t, l, v, time, rel,
         log, views)
  BY DEF RA!Push, RATheory!Push, RA!BaseViewAfter, RATheory!BaseViewAfter,
         RA!ReleaseView, RATheory!ReleaseView, RA!FenceLocation, RATheory!FenceLocation
<1>17. \A ms, l : RATheory!Enterable(ms, l) = RA!Enterable(ms, l)
  BY <1>5 DEF RA!Enterable, RATheory!Enterable
<1>18. \A t, l, v, min, rel, log, views :
         RA!Write(t, l, v, min, rel, log, views) => RATheory!Write(t, l, v, min, rel,
         log, views)
  BY <1>2, <1>9, <1>8, <1>4, <1>7, <1>17, <1>16 DEF RA!Write, RATheory!Write,
         RA!Abort, RATheory!Abort
<1>19. \A t, l, v, mode, m, marks :
         RA!Update(t, l, v, mode, m, marks) => RATheory!Update(t, l, v, mode, m, marks)
  <2> SUFFICES ASSUME NEW t, NEW l, NEW v, NEW mode, NEW m, NEW marks,
                      RA!Update(t, l, v, mode, m, marks)
               PROVE  RATheory!Update(t, l, v, mode, m, marks)
    OBVIOUS
  <2>1. RATheory!isRelease(mode) = RA!isRelease(mode)
    BY DEF RA!isRelease, RATheory!isRelease
  <2>2. RATheory!isAcquire(mode) = RA!isAcquire(mode)
    BY DEF RA!isAcquire, RATheory!isAcquire
  <2>3. RATheory!LogAfterRead(t, l, m, RATheory!isAcquire(mode), marks) =
            RA!LogAfterRead(t, l, m, RA!isAcquire(mode), marks)
    BY <2>2, <1>14
  <2>4. RATheory!ViewsAfterRead(t, m, RATheory!isAcquire(mode)) =
            RA!ViewsAfterRead(t, m, RA!isAcquire(mode))
    BY <2>2, <1>11
  <2>5. RA!Write(t, l, v, TRUE, RA!isRelease(mode),
                 RA!LogAfterRead(t, l, m, RA!isAcquire(mode), marks),
                 RA!ViewsAfterRead(t, m, RA!isAcquire(mode)))
    BY DEF RA!Update
  <2>6. RATheory!Write(t, l, v, TRUE, RA!isRelease(mode),
                       RA!LogAfterRead(t, l, m, RA!isAcquire(mode), marks),
                       RA!ViewsAfterRead(t, m, RA!isAcquire(mode)))
    BY <2>5, <1>18
  <2> QED BY <2>1, <2>3, <2>4, <2>6 DEF RATheory!Update
<1>20. \A t, a, mode, m : RA!Load(t, a, mode, m) => RATheory!Load(t, a, mode, m)
  BY <1>10, <1>15 DEF RA!Load, RATheory!Load, RA!isAcquire, RATheory!isAcquire
<1>21. \A t, a, v, mode : RA!Store(t, a, v, mode) => RATheory!Store(t, a, v, mode)
  BY <1>18 DEF RA!Store, RATheory!Store, RA!isRelease, RATheory!isRelease
<1>22. \A t, a, e, v, mode, m :
         RA!CompareAndSwap(t, a, e, v, mode, m) => RATheory!CompareAndSwap(t, a, e, v,
         mode, m)
  <2> TAKE t, a, e, v, mode, m
  <2>1. RA!isAcquire(mode) = RATheory!isAcquire(mode)
    BY DEF RA!isAcquire, RATheory!isAcquire
  <2> QED BY <2>1, <1>10, <1>15, <1>19 DEF RA!CompareAndSwap, RATheory!CompareAndSwap
<1>23. \A t, a, v, mode, m :
         RA!FetchAndIncrement(t, a, v, mode, m) => RATheory!FetchAndIncrement(t, a, v,
         mode, m)
  BY <1>10, <1>19 DEF RA!FetchAndIncrement, RATheory!FetchAndIncrement, RA!Plus32,
         RATheory!Plus32, RA!Wrap, RATheory!Wrap, RA!MinInt, RATheory!MinInt
<1>24. \A t, l : RA!NothingToUpdate(t, l) => RATheory!NothingToUpdate(t, l)
  BY <1>10 DEF RA!NothingToUpdate, RATheory!NothingToUpdate, RA!Abort, RATheory!Abort
<1>25. \A t : RA!SCFence(t) => RATheory!SCFence(t)
  BY <1>1, <1>13 DEF RA!SCFence, RATheory!SCFence, RA!LogLocation, RATheory!LogLocation
<1>26. \A t, mode, m : RA!AcquireFence(t, mode, m) => RATheory!AcquireFence(t, mode, m)
  BY <1>10, <1>19 DEF RA!AcquireFence, RATheory!AcquireFence, RA!isAcquire,
         RATheory!isAcquire, RA!isRelease, RATheory!isRelease, RA!FenceLocation,
         RATheory!FenceLocation
<1>27. \A t, mode : RA!ReleaseFence(t, mode) => RATheory!ReleaseFence(t, mode)
  BY <1>18 DEF RA!ReleaseFence, RATheory!ReleaseFence, RA!isRelease,
         RATheory!isRelease, RA!FenceLocation, RATheory!FenceLocation
<1>28. RATheory!FenceLocation = RA!FenceLocation
  BY DEF RATheory!FenceLocation, RA!FenceLocation
<1> QED BY <1>20, <1>21, <1>22, <1>23, <1>24, <1>25, <1>26, <1>27, <1>28, SameInt DEF
         RATheory!Next, Modes

LEMMA ManagerAssumptions ==
    /\ MaxInt \in Nat /\ StorageSize \in Nat /\ Address \subseteq Nat
    /\ SCTheory!Location \subseteq Address /\ Int32 \subseteq SCTheory!Int32
    /\ TSOTheory!Location \subseteq Address /\ Int32 \subseteq TSOTheory!Int32
    /\ PSOTheory!Location \subseteq Address /\ Int32 \subseteq PSOTheory!Int32
    /\ MaxBuffer \in Nat
    /\ 0 .. StorageSize \subseteq Nat
    /\ RATheory!Location \subseteq 0 .. StorageSize /\ Int32 \subseteq RATheory!Int32
    /\ 0 .. StorageSize \subseteq RATheory!LogLocation
    /\ Modes \subseteq RATheory!MemoryAccessMode
    /\ Scale \in Nat \ {0, 1} /\ MaxTime \in [RATheory!LogLocation -> Nat]
    /\ RATheory!IsFiniteSet(Thread) /\ Thread # {}
<1>1. /\ SCTheory!Location \subseteq Address
      /\ TSOTheory!Location \subseteq Address
      /\ PSOTheory!Location \subseteq Address
  BY StorageAssumption
     DEF SCTheory!Location, TSOTheory!Location, PSOTheory!Location, Location
<1>2. RATheory!Location \subseteq 0 .. StorageSize /\ 0 .. StorageSize \subseteq Nat
  BY StorageAssumption DEF RATheory!Location
<1>3. RATheory!IsFiniteSet(Thread)
  BY MainAssumption DEF IsFiniteSet, RATheory!IsFiniteSet
<1> QED BY <1>1, <1>2, <1>3, SameInt, IntAssumption, StorageAssumption, MemoryAssumption,
           MainAssumption
       DEF RATheory!LogLocation, RATheory!MemoryAccessMode, Modes

(***************************************************************************)
(* A step of the memory is a step of the manager that main has picked.     *)
(***************************************************************************)
MemoryNext ==
    \/ argv.memoryModel = "sc" /\ SCTheory!Next /\ UNCHANGED <<argv, buffers, viewVars>>
    \/ argv.memoryModel = "tso" /\ TSOTheory!Next /\ UNCHANGED <<argv, viewVars>>
    \/ argv.memoryModel = "pso" /\ PSOTheory!Next /\ UNCHANGED <<argv, viewVars>>
    \/ isRA /\ RATheory!Next /\ UNCHANGED <<argv, bufferVars>>

LEMMA AccessSteps ==
    ASSUME NEW t \in Thread, NEW a \in Address, NEW mode \in Modes
    PROVE  /\ \A v \in Int32 : load(t, a, mode, v) => MemoryNext
           /\ badLoad(t, a) => MemoryNext
           /\ \A v \in Int32 : store(t, a, v, mode) => MemoryNext
           /\ \A e, v \in Int32 : compareAndSwap(t, a, e, v, mode) => MemoryNext
           /\ \A v \in Int32 : fetchAndIncrement(t, a, v, mode) => MemoryNext
<1>1. HasLog(a) => a \in 0 .. StorageSize
  BY DEF HasLog, RA!LogLocation
<1>2. ASSUME NEW v \in Int32, load(t, a, mode, v)
      PROVE  MemoryNext
  BY <1>1, <1>2, SCSteps, TSOSteps, PSOSteps, RASteps DEF load, Of, MemoryNext
<1>3. ASSUME badLoad(t, a)
      PROVE  MemoryNext
  BY <1>3, SCSteps, TSOSteps, PSOSteps DEF badLoad, Of, MemoryNext
<1>4. ASSUME NEW v \in Int32, store(t, a, v, mode)
      PROVE  MemoryNext
  BY <1>1, <1>4, SCSteps, TSOSteps, PSOSteps, RASteps DEF store, Of, MemoryNext
<1>5. ASSUME NEW e \in Int32, NEW v \in Int32, compareAndSwap(t, a, e, v, mode)
      PROVE  MemoryNext
  BY <1>1, <1>5, SCSteps, TSOSteps, PSOSteps, RASteps DEF compareAndSwap, Of, MemoryNext
<1>6. ASSUME NEW v \in Int32, fetchAndIncrement(t, a, v, mode)
      PROVE  MemoryNext
  BY <1>1, <1>6, SCSteps, TSOSteps, PSOSteps, RASteps
     DEF fetchAndIncrement, Of, MemoryNext
<1> QED BY <1>2, <1>3, <1>4, <1>5, <1>6

LEMMA OtherSteps ==
    ASSUME NEW t \in Thread
    PROVE  /\ \A mode \in Modes : fence(t, mode) => MemoryNext
           /\ propagate(t) => MemoryNext
<1>1. ASSUME NEW mode \in Modes, fence(t, mode)
      PROVE  MemoryNext
  BY <1>1, SCSteps, TSOSteps, PSOSteps, RASteps DEF fence, Of, MemoryNext
<1>2. ASSUME propagate(t)
      PROVE  MemoryNext
  BY <1>2, TSOSteps, PSOSteps DEF propagate, Of, MemoryNext
<1> QED BY <1>1, <1>2

(***************************************************************************)
(* What holds of the memory in every state: the invariant of the manager   *)
(* that is used, while the variables of the others are empty.              *)
(***************************************************************************)
MemoryInv ==
    /\ argv.memoryModel = "sc" => SCTheory!TypeOK /\ buffers = None
    /\ argv.memoryModel = "tso" => TSOTheory!TypeOK
    /\ argv.memoryModel = "pso" => PSOTheory!TypeOK
    /\ isRA => RATheory!CarriedInv /\ bufferVars = <<None, None>>
    /\ ~isRA => viewVars = <<None, None, None>>
    /\ crashed \in BOOLEAN

LEMMA ManagerStep ==
    ASSUME MemoryInv, [MemoryNext]_memoryVars
    PROVE  MemoryInv'
<1>1. argv' = argv
  BY DEF memoryVars, MemoryNext
<1>2. CASE argv.memoryModel = "sc"
  <2>1. /\ [SCTheory!Next]_SCTheory!vars
        /\ UNCHANGED <<buffers, viewVars>>
    BY <1>2 DEF MemoryNext, memoryVars, bufferVars, SCTheory!vars, isRA
  <2>2. SCTheory!TypeOK'
    BY <1>2, <2>1, ManagerAssumptions, SCTheory!TypeStep DEF MemoryInv
  <2> QED BY <1>1, <1>2, <2>1, <2>2 DEF MemoryInv, isRA, SCTheory!TypeOK, viewVars, None
<1>3. CASE argv.memoryModel = "tso"
  <2>1. [TSOTheory!Next]_TSOTheory!vars /\ UNCHANGED viewVars
    BY <1>3 DEF MemoryNext, memoryVars, bufferVars, TSOTheory!vars, isRA
  <2>2. TSOTheory!TypeOK'
    BY <1>3, <2>1, ManagerAssumptions, TSOTheory!TypeStep DEF MemoryInv
  <2> QED BY <1>1, <1>3, <2>1, <2>2 DEF MemoryInv, isRA, TSOTheory!TypeOK, viewVars, None
<1>4. CASE argv.memoryModel = "pso"
  <2>1. [PSOTheory!Next]_PSOTheory!vars /\ UNCHANGED viewVars
    BY <1>4 DEF MemoryNext, memoryVars, bufferVars, PSOTheory!vars, isRA
  <2>2. PSOTheory!TypeOK'
    BY <1>4, <2>1, ManagerAssumptions, PSOTheory!TypeStep DEF MemoryInv
  <2> QED BY <1>1, <1>4, <2>1, <2>2 DEF MemoryInv, isRA, PSOTheory!TypeOK, viewVars, None
<1>5. CASE isRA
  <2>1. [RATheory!Next]_RATheory!vars /\ UNCHANGED bufferVars
    BY <1>5 DEF MemoryNext, memoryVars, viewVars, RATheory!vars, isRA
  <2>2. RATheory!CarriedInv
    BY <1>5 DEF MemoryInv
  <2>3. RATheory!CarriedInv'
    BY <2>1, <2>2, ManagerAssumptions, RATheory!CarriedStep
  <2>4. crashed' \in BOOLEAN
    BY <2>3 DEF RATheory!CarriedInv, RATheory!RAInv
  <2> QED BY <1>1, <1>5, <2>1, <2>3, <2>4 DEF MemoryInv, isRA, bufferVars, None
<1>6. CASE argv.memoryModel \notin {"sc", "tso", "pso"} /\ ~isRA
  <2>1. UNCHANGED memoryVars
    BY <1>6 DEF MemoryNext
  <2> QED BY <1>1, <1>6, <2>1 DEF MemoryInv, isRA, memoryVars, viewVars, None
<1> QED BY <1>2, <1>3, <1>4, <1>5, <1>6

(* An exception of a thread leaves the memory as it is.                    *)
LEMMA MemoryAbort ==
    ASSUME MemoryInv, Abort
    PROVE  MemoryInv'
<1>1. UNCHANGED <<argv, bufferVars, viewVars>> /\ crashed' = TRUE
  BY DEF Abort
<1>2. /\ SCTheory!TypeOK => SCTheory!TypeOK'
      /\ TSOTheory!TypeOK => TSOTheory!TypeOK'
      /\ PSOTheory!TypeOK => PSOTheory!TypeOK'
  BY <1>1 DEF SCTheory!TypeOK, TSOTheory!TypeOK, PSOTheory!TypeOK, bufferVars
<1>3. RATheory!CarriedInv => RATheory!CarriedInv'
  <2>1. RATheory!RAInv => RATheory!RAInv'
    BY <1>1 DEF RATheory!RAInv, viewVars
  <2> QED BY <1>1, <2>1 DEF RATheory!CarriedInv, viewVars
<1> QED BY <1>1, <1>2, <1>3 DEF MemoryInv, isRA, bufferVars, viewVars, None

LEMMA MemoryBegins ==
    ASSUME MemoryInit
    PROVE  MemoryInv
<1>1. /\ SC!Init => SCTheory!Init
      /\ TSO!Init => TSOTheory!Init
      /\ PSO!Init => PSOTheory!Init
  BY DEF SC!Init, SCTheory!Init, TSO!Init, TSOTheory!Init, PSO!Init, PSOTheory!Init,
         SC!ZeroedMemory, SCTheory!ZeroedMemory, TSO!ZeroedMemory,
         TSOTheory!ZeroedMemory, PSO!ZeroedMemory, PSOTheory!ZeroedMemory,
         SC!Location, SCTheory!Location, TSO!Location, TSOTheory!Location,
         PSO!Location, PSOTheory!Location
<1>2. RA!Init => RATheory!Init
  BY DEF RA!Init, RATheory!Init, RA!ZeroView, RATheory!ZeroView, RA!InitialMessage,
         RATheory!InitialMessage, RA!LogLocation, RATheory!LogLocation
<1>3. /\ SCTheory!Init => SCTheory!TypeOK
      /\ TSOTheory!Init => TSOTheory!TypeOK
      /\ PSOTheory!Init => PSOTheory!TypeOK
  BY ManagerAssumptions, SCTheory!TypeInit, TSOTheory!TypeInit, PSOTheory!TypeInit
<1>4. RATheory!Init => RATheory!CarriedInv
  BY ManagerAssumptions, RATheory!CarriedInit
<1> QED BY <1>1, <1>2, <1>3, <1>4
       DEF MemoryInit, MemoryInv, isRA, bufferVars, viewVars, SCTheory!TypeOK,
           TSOTheory!TypeOK, PSOTheory!TypeOK, RATheory!CarriedInv, RATheory!RAInv

(* The types of the managers as they stand in MemoryModel.                 *)
LEMMA MemoryTyped ==
    ASSUME MemoryInv, argv.memoryModel \in {"sc", "tso", "pso", "ra", "sra"}
    PROVE  MemoryTypeOK
<1>1. /\ SCTheory!TypeOK => SC!TypeOK
      /\ TSOTheory!TypeOK => TSO!TypeOK
      /\ PSOTheory!TypeOK => PSO!TypeOK
  BY DEF SC!TypeOK, SCTheory!TypeOK, TSO!TypeOK, TSOTheory!TypeOK, PSO!TypeOK,
         PSOTheory!TypeOK, SC!Memory, SCTheory!Memory, TSO!Memory, TSOTheory!Memory,
         PSO!Memory, PSOTheory!Memory, SC!Location, SCTheory!Location, TSO!Location,
         TSOTheory!Location, PSO!Location, PSOTheory!Location, SC!Int32,
         SCTheory!Int32, TSO!Int32, TSOTheory!Int32, PSO!Int32, PSOTheory!Int32,
         SC!MinInt, SCTheory!MinInt, TSO!MinInt, TSOTheory!MinInt, PSO!MinInt,
         PSOTheory!MinInt, TSO!StoreInstruction, TSOTheory!StoreInstruction
<1>2. RATheory!CarriedInv => RA!TypeOK
  BY DEF RATheory!CarriedInv, RATheory!RAInv, RATheory!Sound, RATheory!Views, RATheory!Logs, RA!TypeOK,
         RATheory!View, RA!View, RATheory!Message, RA!Message, RATheory!LogLocation,
         RA!LogLocation, RATheory!Int32, RA!Int32, RATheory!MinInt, RA!MinInt
<1> QED BY <1>1, <1>2 DEF MemoryInv, MemoryTypeOK, isRA

-----------------------------------------------------------------------------
(***************************************************************************)
(* What holds of the threads in every state: every thread runs a program   *)
(* the parser has made, and is at an instruction of it or at its end.      *)
(***************************************************************************)
ThreadInv ==
    /\ program \in [Thread -> ParserTheory!ThreadProgram]
    /\ localStorage \in [Thread -> [Register -> Int32]]
    /\ currentInstruction \in [Thread -> Nat]
    /\ \A t \in Thread : currentInstruction[t] <= Size(t)

LEMMA ProgramOf ==
    ASSUME ThreadInv, NEW t \in Thread
    PROVE  /\ program[t].instructions \in Seq(ParserTheory!AllInstructions)
           /\ Size(t) \in Nat
           /\ \A l \in DOMAIN program[t].labels :
                 program[t].labels[l] \in Nat /\ program[t].labels[l] <= Size(t)
<1>1. program[t] \in ParserTheory!ThreadProgram
  BY DEF ThreadInv
<1>2. /\ program[t].instructions \in Seq(ParserTheory!AllInstructions)
      /\ program[t].labels \in ParserTheory!Labelling
      /\ \A l \in DOMAIN program[t].labels :
            program[t].labels[l] <= Len(program[t].instructions)
  BY <1>1 DEF ParserTheory!ThreadProgram
<1>3. \A l \in DOMAIN program[t].labels : program[t].labels[l] \in Nat
  BY <1>2 DEF ParserTheory!Labelling
<1> QED BY <1>2, <1>3 DEF Size

LEMMA CurrentTyped ==
    ASSUME ThreadInv, NEW t \in Thread, ~isFinished(t)
    PROVE  /\ Instruction(t) \in ParserTheory!AllInstructions
           /\ currentInstruction[t] \in Nat /\ currentInstruction[t] + 1 <= Size(t)
<1>1. /\ currentInstruction[t] \in Nat /\ currentInstruction[t] <= Size(t)
      /\ currentInstruction[t] # Size(t)
  BY DEF ThreadInv, isFinished
<1>2. program[t].instructions \in Seq(ParserTheory!AllInstructions) /\ Size(t) \in Nat
  BY ProgramOf
<1>3. currentInstruction[t] + 1 \in 1 .. Len(program[t].instructions)
  BY <1>1, <1>2 DEF Size
<1> QED BY <1>1, <1>2, <1>3 DEF Instruction

(* A field of the instruction that is a register is one the thread has.    *)
LEMMA RegisterNamed ==
    ASSUME NEW t \in Thread, RegistersOf(Instruction(t)) \subseteq Register,
           NEW field \in DOMAIN Instruction(t) \cap
              {"storeRegister", "leftRegister", "rightRegister", "conditionRegister",
               "addressRegister", "valueRegister", "resultRegister",
               "expectedValueRegister", "newValueRegister", "incrementRegister"}
    PROVE  Instruction(t)[field] \in Register
  BY DEF RegistersOf

LEMMA ContentsTyped ==
    ASSUME ThreadInv, NEW t \in Thread, NEW r \in Register
    PROVE  localStorage[t][r] \in Int32
  BY DEF ThreadInv

LEMMA AddressTyped == \A n \in Int32 : ToAddress(n) \in Address
  BY ThreadAssumption, IntAssumption DEF ToAddress, Int32, MinInt

LEMMA WrapTyped == \A n \in Int : Wrap(n) \in Int32
  BY IntAssumption DEF Wrap, Int32, MinInt

(* A quotient is no larger than what is divided.                           *)
LEMMA DivideBound ==
    ASSUME NEW m \in Nat, NEW n \in Nat \ {0}
    PROVE  /\ m \div n \in Nat /\ m \div n <= m
           /\ n > 1 /\ m > 0 => m \div n < m
<1> DEFINE q == m \div n
<1>1. q \in Int /\ n * q <= m /\ m < n * (q + 1)
  BY Z3
<1>2. q >= 0
  <2>1. CASE q <= -1
    BY <1>1, <2>1, n * (q + 1) <= 0
  <2> QED BY <1>1, <2>1
<1> HIDE DEF q
<1>3. (n - 1) * q >= 0
  BY <1>1, <1>2
<1>4. n * q = q + (n - 1) * q
  BY <1>1
<1>5. q <= m
  BY <1>1, <1>3, <1>4
<1>6. ASSUME n > 1, m > 0 PROVE q < m
  <2>1. CASE q = 0
    BY <1>6, <2>1
  <2>2. CASE q > 0
    <3>1. (n - 1) * q >= q
      BY <1>1, <1>2, <1>6, (n - 2) * q >= 0, (n - 1) * q = q + (n - 2) * q
    <3> QED BY <1>1, <1>4, <2>2, <3>1
  <2> QED BY <1>1, <1>2, <2>1, <2>2
<1> QED BY <1>1, <1>2, <1>5, <1>6 DEF q

LEMMA QuotientTyped ==
    ASSUME NEW m \in Int32, NEW n \in Int32, n # 0, ~(m = MinInt /\ n = -1)
    PROVE  Quotient(m, n) \in Int32
<1> DEFINE q == Magnitude(m) \div Magnitude(n)
<1>1. /\ Magnitude(m) \in Nat /\ Magnitude(n) \in Nat \ {0}
      /\ Magnitude(m) <= MaxInt + 1
  BY IntAssumption DEF Magnitude, Int32, MinInt
<1>2. /\ q \in Nat /\ q <= Magnitude(m)
      /\ Magnitude(n) > 1 /\ Magnitude(m) > 0 => q < Magnitude(m)
  BY <1>1, DivideBound
<1>3. Quotient(m, n) = q \/ Quotient(m, n) = -q
  BY <1>2 DEF Quotient
<1>4. CASE q <= MaxInt
  BY <1>2, <1>3, <1>4, IntAssumption DEF Int32, MinInt
<1>5. CASE q > MaxInt
  <2>1. q = MaxInt + 1 /\ Magnitude(m) = MaxInt + 1
    BY <1>1, <1>2, <1>5, IntAssumption
  <2>2. m = MinInt
    BY <2>1, IntAssumption DEF Magnitude, Int32, MinInt
  <2>3. n = 1
    BY <1>1, <1>2, <2>1, <2>2, IntAssumption DEF Magnitude, Int32
  <2>4. Quotient(m, n) = q * (-1)
    BY <2>2, <2>3, IntAssumption DEF Quotient, MinInt
  <2> HIDE DEF q
  <2> QED BY <2>1, <2>4, IntAssumption DEF Int32, MinInt
<1> QED BY <1>2, <1>4, <1>5, IntAssumption

LEMMA OperationTyped ==
    ASSUME NEW m \in Int32, NEW n \in Int32,
           NEW operation \in ParserTheory!BinaryOperations, ~Traps(operation, m, n)
    PROVE  applyBinaryOperation(operation, m, n) \in Int32
<1>1. m \in Int /\ n \in Int
  BY IntAssumption DEF Int32, MinInt
<1>2. m + n \in Int /\ m - n \in Int /\ m * n \in Int
  BY <1>1
<1>3. operation = "/" => Quotient(m, n) \in Int32
  BY QuotientTyped DEF Traps
<1> QED BY <1>2, <1>3, WrapTyped
       DEF applyBinaryOperation, ParserTheory!BinaryOperations

-----------------------------------------------------------------------------
(* The parts of ThreadInv after a step, one for each variable of a thread. *)
LEMMA GoesToTyped ==
    ASSUME ThreadInv, NEW t \in Thread, NEW position \in Nat, position <= Size(t),
           GoesTo(t, position), localStorage' \in [Thread -> [Register -> Int32]]
    PROVE  ThreadInv'
<1>1. /\ program' = program
      /\ currentInstruction' = [currentInstruction EXCEPT ![t] = position]
  BY DEF GoesTo
<1>2. \A u \in Thread : Size(u)' = Size(u)
  BY <1>1 DEF Size
<1> QED BY <1>1, <1>2 DEF ThreadInv

LEMMA AdvancesTyped ==
    ASSUME ThreadInv, NEW t \in Thread, ~isFinished(t), Advances(t),
           localStorage' \in [Thread -> [Register -> Int32]]
    PROVE  ThreadInv'
<1>1. /\ currentInstruction[t] \in Nat /\ currentInstruction[t] + 1 <= Size(t)
      /\ Size(t) \in Nat
  BY CurrentTyped, ProgramOf
<1>2. PICK position \in {currentInstruction[t], currentInstruction[t] + 1} :
         GoesTo(t, position)
  BY DEF Advances
<1>3. position \in Nat /\ position <= Size(t)
  BY <1>1
<1> QED BY <1>2, <1>3, GoesToTyped

LEMMA SetsTyped ==
    ASSUME ThreadInv, NEW t \in Thread, NEW r \in Register, NEW v \in Int32, Sets(t, r, v)
    PROVE  localStorage' \in [Thread -> [Register -> Int32]]
  BY DEF ThreadInv, Sets

LEMMA ThreadStays ==
    ASSUME ThreadInv, UNCHANGED threadVars
    PROVE  ThreadInv'
  BY DEF ThreadInv, threadVars, Size

(***************************************************************************)
(* An instruction keeps the registers and the position of its thread       *)
(* typed, and works on the memory in steps of the manager only; or it      *)
(* throws itself.                                                          *)
(***************************************************************************)
LEMMA InstructionTyped ==
    ASSUME ThreadInv, NEW t \in Thread, evaluateInstruction(t)
    PROVE  ThreadInv' /\ (MemoryNext \/ UNCHANGED memoryVars \/ Abort)
<1> DEFINE i == Instruction(t)
<1>1. ~isFinished(t)
  BY DEF evaluateInstruction, StoreConstInRegister, StoreExprInRegister, Goto, Load,
         Store, CompareAndSwap, FetchAndIncrement, Fence, BadRegister, At
<1>2. i \in ParserTheory!AllInstructions
  BY <1>1, CurrentTyped
<1>3. localStorage \in [Thread -> [Register -> Int32]]
  BY DEF ThreadInv
<1>4. \A n \in Int32 : ToAddress(n) \in Address
  BY AddressTyped
<1>5. ParserTheory!MemoryAccessModes = Modes /\ ParserTheory!Int32 = Int32
  BY DEF ParserTheory!MemoryAccessModes, Modes, ParserTheory!Int32, Int32,
         ParserTheory!MinInt, MinInt
<1>6. CASE StoreConstInRegister(t)
  <2>1. /\ i.action = "StoreConstInRegister" /\ RegistersOf(i) \subseteq Register
        /\ Sets(t, i.storeRegister, i.value)
        /\ UNCHANGED memoryVars /\ Advances(t)
    BY <1>6 DEF StoreConstInRegister, At
  <2>2. i.storeRegister \in Register /\ i.value \in Int32
    BY <1>2, <1>5, <2>1, RegisterNamed, ParserAssumptions, ParserTheory!FieldsTyped
  <2> QED BY <1>1, <2>1, <2>2, SetsTyped, AdvancesTyped
<1>7. CASE StoreExprInRegister(t)
  <2> DEFINE lhs == localStorage[t][i.leftRegister]
             rhs == localStorage[t][i.rightRegister]
  <2>1. /\ i.action = "StoreExprInRegister" /\ RegistersOf(i) \subseteq Register
        /\ \/ /\ ~Traps(i.operation, lhs, rhs)
              /\ Sets(t, i.storeRegister, applyBinaryOperation(i.operation, lhs, rhs))
              /\ UNCHANGED memoryVars /\ Advances(t)
           \/ Abort /\ UNCHANGED threadVars
    BY <1>7 DEF StoreExprInRegister, At
  <2>2. /\ i.storeRegister \in Register
        /\ i.leftRegister \in Register /\ i.rightRegister \in Register
        /\ i.operation \in ParserTheory!BinaryOperations
    BY <1>2, <2>1, RegisterNamed, ParserAssumptions, ParserTheory!FieldsTyped
  <2>3. lhs \in Int32 /\ rhs \in Int32
    BY <2>2, ContentsTyped
  <2>4. ~Traps(i.operation, lhs, rhs) =>
           applyBinaryOperation(i.operation, lhs, rhs) \in Int32
    BY <2>2, <2>3, OperationTyped
  <2> HIDE DEF lhs, rhs
  <2> QED BY <1>1, <2>1, <2>2, <2>4, SetsTyped, AdvancesTyped, ThreadStays
<1>8. CASE Goto(t)
  <2> DEFINE labels == program[t].labels
  <2>1. \/ UNCHANGED <<memoryVars, localStorage>> /\ Advances(t)
        \/ /\ i.label \in DOMAIN labels
           /\ UNCHANGED <<memoryVars, localStorage>> /\ GoesTo(t, labels[i.label])
        \/ Abort /\ UNCHANGED threadVars
    BY <1>8 DEF Goto
  <2>2. i.label \in DOMAIN labels =>
           labels[i.label] \in Nat /\ labels[i.label] <= Size(t)
    BY ProgramOf
  <2> HIDE DEF labels
  <2> QED BY <1>1, <1>3, <2>1, <2>2, AdvancesTyped, GoesToTyped, ThreadStays
<1>9. CASE Load(t)
  <2>1. i.action = "Load" /\ RegistersOf(i) \subseteq Register
    BY <1>9 DEF Load, At
  <2>2. /\ i.addressRegister \in Register /\ i.resultRegister \in Register
        /\ i.mode \in Modes
    BY <1>2, <1>5, <2>1, RegisterNamed, ParserAssumptions, ParserTheory!FieldsTyped
  <2>3. AddressOf(t) \in Address
    BY <1>4, <2>2, ContentsTyped DEF AddressOf
  <2>4. CASE badLoad(t, AddressOf(t)) /\ UNCHANGED threadVars
    BY <2>2, <2>3, <2>4, AccessSteps, ThreadStays
  <2>5. ASSUME NEW v \in Int32, load(t, AddressOf(t), i.mode, v),
               Sets(t, i.resultRegister, v), Advances(t)
        PROVE  ThreadInv' /\ MemoryNext
    BY <1>1, <2>2, <2>3, <2>5, AccessSteps, SetsTyped, AdvancesTyped
  <2> QED BY <1>9, <2>4, <2>5 DEF Load
<1>10. CASE Store(t)
  <2>1. i.action = "Store" /\ RegistersOf(i) \subseteq Register
    BY <1>10 DEF Store, At
  <2>2. /\ i.addressRegister \in Register /\ i.valueRegister \in Register
        /\ i.mode \in Modes
    BY <1>2, <1>5, <2>1, RegisterNamed, ParserAssumptions, ParserTheory!FieldsTyped
  <2>3. AddressOf(t) \in Address /\ Contents(t, i.valueRegister) \in Int32
    BY <1>4, <2>2, ContentsTyped DEF AddressOf, Contents
  <2>4. /\ store(t, AddressOf(t), Contents(t, i.valueRegister), i.mode)
        /\ UNCHANGED localStorage /\ Advances(t)
    BY <1>10 DEF Store
  <2> QED BY <1>1, <1>3, <2>2, <2>3, <2>4, AccessSteps, AdvancesTyped
<1>11. CASE CompareAndSwap(t)
  <2>1. i.action = "CompareAndSwap" /\ RegistersOf(i) \subseteq Register
    BY <1>11 DEF CompareAndSwap, At
  <2>2. /\ i.addressRegister \in Register /\ i.expectedValueRegister \in Register
        /\ i.newValueRegister \in Register /\ i.mode \in Modes
    BY <1>2, <1>5, <2>1, RegisterNamed, ParserAssumptions, ParserTheory!FieldsTyped
  <2>3. /\ AddressOf(t) \in Address
        /\ Contents(t, i.expectedValueRegister) \in Int32
        /\ Contents(t, i.newValueRegister) \in Int32
    BY <1>4, <2>2, ContentsTyped DEF AddressOf, Contents
  <2>4. /\ compareAndSwap(t, AddressOf(t), Contents(t, i.expectedValueRegister),
                          Contents(t, i.newValueRegister), i.mode)
        /\ UNCHANGED localStorage /\ Advances(t)
    BY <1>11 DEF CompareAndSwap
  <2> QED BY <1>1, <1>3, <2>2, <2>3, <2>4, AccessSteps, AdvancesTyped
<1>12. CASE FetchAndIncrement(t)
  <2>1. i.action = "FetchAndIncrement" /\ RegistersOf(i) \subseteq Register
    BY <1>12 DEF FetchAndIncrement, At
  <2>2. /\ i.addressRegister \in Register /\ i.incrementRegister \in Register
        /\ i.mode \in Modes
    BY <1>2, <1>5, <2>1, RegisterNamed, ParserAssumptions, ParserTheory!FieldsTyped
  <2>3. AddressOf(t) \in Address /\ Contents(t, i.incrementRegister) \in Int32
    BY <1>4, <2>2, ContentsTyped DEF AddressOf, Contents
  <2>4. /\ fetchAndIncrement(t, AddressOf(t), Contents(t, i.incrementRegister), i.mode)
        /\ UNCHANGED localStorage /\ Advances(t)
    BY <1>12 DEF FetchAndIncrement
  <2> QED BY <1>1, <1>3, <2>2, <2>3, <2>4, AccessSteps, AdvancesTyped
<1>13. CASE Fence(t)
  <2>1. i.action = "Fence"
    BY <1>13 DEF Fence, At
  <2>2. i.memoryAccessMode \in Modes
    BY <1>2, <1>5, <2>1, ParserAssumptions, ParserTheory!FieldsTyped
  <2>3. fence(t, i.memoryAccessMode) /\ UNCHANGED localStorage /\ Advances(t)
    BY <1>13 DEF Fence
  <2> QED BY <1>1, <1>3, <2>2, <2>3, OtherSteps, AdvancesTyped
<1>14. CASE BadRegister(t)
  BY <1>14, ThreadStays DEF BadRegister
<1> QED BY <1>6, <1>7, <1>8, <1>9, <1>10, <1>11, <1>12, <1>13, <1>14
       DEF evaluateInstruction

-----------------------------------------------------------------------------
(***************************************************************************)
(* A step of main changes threads and memory by the instruction of a       *)
(* thread, an internal update or an exception, and halted only to TRUE.    *)
(***************************************************************************)
Works ==
    \/ UNCHANGED <<memoryVars, threadVars>>
    \/ \E t \in Thread : evaluateInstruction(t)
    \/ Abort /\ UNCHANGED threadVars
    \/ MemoryNext /\ UNCHANGED threadVars

LEMMA StepWorks ==
    ASSUME [Next]_vars
    PROVE  Works /\ halted' \in {halted, TRUE}
<1> USE DEF Works
<1>1. ASSUME NEW t \in Thread, NEW input, Execute(t, input)
      PROVE  Works /\ halted' = halted
  BY <1>1 DEF Execute, GoTo
<1>2. ASSUME NEW t \in Thread, propagate(t), UNCHANGED threadVars
      PROVE  Works
  BY <1>2, OtherSteps
<1>3. \A input : \/ ~ExecuteThreadFails(input) /\ ~UpdateFails(input)
                 \/ halted' \in {halted, TRUE}
  BY DEF ExecuteThreadFails, UpdateFails, GoTo
<1>4. CASE UNCHANGED vars
  BY <1>4 DEF vars
<1>5. CASE RandomNext
  BY <1>2, <1>5 DEF RandomNext, ExecuteThread, ExecuteInternalMemoryUpdate, Halt
<1>6. CASE AskForThread \/ AskForMemory \/ NoOperation \/ ListNext \/ LocalEnd
  BY <1>6 DEF AskForThread, AskForMemory, NoOperation, ListNext, LocalEnd, GoTo
<1>7. CASE NoThread \/ NothingToPropagate \/ NoBuffer \/ ListEnd
  BY <1>3, <1>7 DEF NoThread, NothingToPropagate, NoBuffer, ListEnd, GoTo
<1>8. CASE RunAhead
  BY <1>8 DEF RunAhead
<1>9. ASSUME NEW t \in Thread, ChooseThread(t) \/ ChooseBuffer(t)
      PROVE  Works /\ halted' = halted
  BY <1>1, <1>2, <1>9 DEF ChooseThread, ChooseBuffer, GoTo
<1>10. CASE UninitializedThread
  BY <1>1, <1>10 DEF UninitializedThread, unfinishedThreads
<1>11. CASE NoNumber
  BY <1>1, <1>11 DEF NoNumber, unfinishedThreads, GoTo
<1> QED BY <1>4, <1>5, <1>6, <1>7, <1>8, <1>9, <1>10, <1>11
       DEF Next, InteractiveNext, InteractiveStep

(***************************************************************************)
(* The inductive invariant of the program: of the picked memory, the       *)
(* threads and the executor.                                               *)
(***************************************************************************)
MainInv ==
    /\ argv \in CommandLines
    /\ MemoryInv
    /\ ThreadInv
    /\ ExecutorInv
    /\ halted \in BOOLEAN

LEMMA MainInit == Init => MainInv
<1> SUFFICES ASSUME Init PROVE MainInv
  OBVIOUS
<1>1. argv \in CommandLines /\ argv.file \in DOMAIN Files
  BY MainAssumption DEF Init
<1>2. ThreadInit(programsOf(argv.file)) /\ halted = FALSE
  BY DEF Init
<1>3. program \in [Thread -> ParserTheory!ThreadProgram]
  BY <1>1, <1>2, ProgramsTyped DEF ThreadInit
<1>4. 0 \in Int32
  BY IntAssumption DEF Int32, MinInt
<1>5. /\ localStorage \in [Thread -> [Register -> Int32]]
      /\ currentInstruction \in [Thread -> Nat]
      /\ \A t \in Thread : currentInstruction[t] = 0
  BY <1>2, <1>4 DEF ThreadInit
<1>6. \A t \in Thread : Size(t) \in Nat
  BY <1>3 DEF Size, ParserTheory!ThreadProgram
<1>7. ThreadInv
  BY <1>3, <1>5, <1>6 DEF ThreadInv
<1>8. MemoryInv
  BY MemoryBegins DEF Init
<1> QED BY <1>1, <1>2, <1>7, <1>8, ExecutorInit DEF MainInv

LEMMA MainStep ==
    ASSUME MainInv, [Next]_vars
    PROVE  MainInv'
<1>1. Works /\ halted' \in {halted, TRUE}
  BY StepWorks
<1>2. /\ MemoryNext \/ UNCHANGED memoryVars \/ Abort
      /\ ThreadInv'
  BY <1>1, InstructionTyped, ThreadStays DEF MainInv, Works
<1>3. MemoryInv'
  BY <1>2, ManagerStep, MemoryAbort DEF MainInv
<1>4. argv' = argv
  BY <1>2 DEF MemoryNext, memoryVars, Abort
<1> QED BY <1>1, <1>2, <1>3, <1>4, ExecutorStep DEF MainInv

(***************************************************************************)
(* MainInv is inductive, for any files the parser accepts, any arguments,  *)
(* and any sizes and bounds: no instruction, internal update or exception  *)
(* of the whole program breaks what its parts keep.                        *)
(***************************************************************************)
THEOREM MainCorrect == Spec => []MainInv
<1>1. MainInv /\ [Next]_vars => MainInv'
  BY MainStep
<1> QED BY <1>1, MainInit, PTL DEF Spec

(***************************************************************************)
(* The states of the whole program are typed, for any program files the    *)
(* parser accepts and any arguments: every register and every location     *)
(* holds an int32_t, whatever is computed and with whichever manager, no   *)
(* thread's position leaves its program, and the state of the managers     *)
(* that are not used stays empty.                                          *)
(***************************************************************************)
THEOREM TypeCorrect == Spec => []TypeOK
<1>1. MainInv => TypeOK
  <2> SUFFICES ASSUME MainInv PROVE TypeOK
    OBVIOUS
  <2>1. argv.memoryModel \in {"sc", "tso", "pso", "ra", "sra"}
    BY MainAssumption DEF MainInv
  <2>2. MemoryTypeOK
    BY <2>1, MemoryTyped DEF MainInv
  <2>3. ASSUME NEW t \in Thread
        PROVE  currentInstruction[t] \in 0 .. Len(program[t].instructions)
    BY <2>3, ProgramOf DEF MainInv, ThreadInv, Size
  <2>4. ThreadTypeOK
    BY <2>3 DEF ThreadTypeOK, MainInv, ThreadInv
  <2> QED BY <2>2, <2>4 DEF TypeOK, MainInv, ExecutorInv, ConsoleInv
<1> QED BY <1>1, MainCorrect, PTL

-----------------------------------------------------------------------------
(***************************************************************************)
(* What is proved of the store buffers, for the whole program: what a      *)
(* thread sees at a location changes only when it writes there itself or,  *)
(* if it has nothing buffered for the location, by what others write.  No  *)
(* instruction, internal update or exception of any other thread can make  *)
(* it lose sight of its own newest store.                                  *)
(***************************************************************************)
OwnWritesStaySeen ==
    \A t \in Thread, l \in Location :
        /\ argv.memoryModel = "tso" /\ TSOTheory!View(t, l)' # TSOTheory!View(t, l) =>
              \/ TSOTheory!Writes(t, l)
              \/ /\ TSOTheory!Find(buffers[t], l) = 0
                 /\ buffers'[t] = buffers[t] /\ storage'[l] # storage[l]
        /\ argv.memoryModel = "pso" /\ PSOTheory!View(t, l)' # PSOTheory!View(t, l) =>
              \/ PSOTheory!Writes(t, l)
              \/ /\ buffers[t][l] = <<>>
                 /\ buffers'[t] = buffers[t] /\ storage'[l] # storage[l]

LEMMA OwnWritesStep ==
    ASSUME MainInv, [Next]_vars
    PROVE  OwnWritesStaySeen
<1> SUFFICES ASSUME NEW t \in Thread, NEW l \in Location
             PROVE  OwnWritesStaySeen!(t, l)
  BY DEF OwnWritesStaySeen
<1>1. MemoryNext \/ UNCHANGED bufferVars
  <2>1. MemoryNext \/ UNCHANGED memoryVars \/ Abort
    BY StepWorks, InstructionTyped DEF MainInv, Works
  <2> QED BY <2>1 DEF memoryVars, Abort
<1>2. CASE UNCHANGED bufferVars
  <2>1. buffers' = buffers /\ storage' = storage
    BY <1>2 DEF bufferVars
  <2>2. /\ TSOTheory!View(t, l)' = TSOTheory!View(t, l)
        /\ PSOTheory!View(t, l)' = PSOTheory!View(t, l)
    BY <2>1 DEF TSOTheory!View, PSOTheory!View, TSOTheory!Through, PSOTheory!Through,
                TSOTheory!Find, TSOTheory!SelectLastInSeq
  <2> QED BY <2>2
<1>3. CASE MemoryNext
  <2>1. ASSUME argv.memoryModel = "tso", TSOTheory!View(t, l)' # TSOTheory!View(t, l)
        PROVE  \/ TSOTheory!Writes(t, l)
               \/ /\ TSOTheory!Find(buffers[t], l) = 0
                  /\ buffers'[t] = buffers[t] /\ storage'[l] # storage[l]
    <3>1. TSOTheory!Next /\ TSOTheory!TypeOK /\ l \in TSOTheory!Location
      BY <1>3, <2>1 DEF MemoryNext, isRA, MainInv, MemoryInv, Location, TSOTheory!Location
    <3> QED BY <2>1, <3>1, ManagerAssumptions, TSOTheory!ViewStep
  <2>2. ASSUME argv.memoryModel = "pso", PSOTheory!View(t, l)' # PSOTheory!View(t, l)
        PROVE  \/ PSOTheory!Writes(t, l)
               \/ /\ buffers[t][l] = <<>>
                  /\ buffers'[t] = buffers[t] /\ storage'[l] # storage[l]
    <3>1. PSOTheory!Next /\ PSOTheory!TypeOK /\ l \in PSOTheory!Location
      BY <1>3, <2>2 DEF MemoryNext, isRA, MainInv, MemoryInv, Location, PSOTheory!Location
    <3> QED BY <2>2, <3>1, ManagerAssumptions, PSOTheory!ViewStep
  <2> QED BY <2>1, <2>2
<1> QED BY <1>1, <1>2, <1>3

(***************************************************************************)
(* In every run of the program under TSO or PSO, a thread never loses      *)
(* sight of its own newest store by what the others and the buffers do.    *)
(***************************************************************************)
THEOREM ProgramsSeeOwnWrites == Spec => [][OwnWritesStaySeen]_vars
<1>1. MainInv /\ [Next]_vars => [OwnWritesStaySeen]_vars
  BY OwnWritesStep
<1> QED BY <1>1, MainCorrect, PTL DEF Spec

(***************************************************************************)
(* The same for the views of RA and SRA: a thread always has a message to  *)
(* read at every location, and its view never goes back, whatever program  *)
(* it runs and whichever executor runs it.                                 *)
(***************************************************************************)
ViewsGrowInRA ==
    isRA => \A t \in Thread : RATheory!Below(threadViews[t], threadViews'[t])

ViewsPointInRA == isRA => RATheory!ViewsPointAtMessages

(* And it carries the base view of the message that it has come to.        *)
BaseViewsCausalInRA == isRA => RATheory!BaseViewsAreCausal

LEMMA ViewsStep ==
    ASSUME MainInv, [Next]_vars
    PROVE  ViewsGrowInRA
<1> SUFFICES ASSUME isRA PROVE ViewsGrowInRA
  BY DEF ViewsGrowInRA
<1>1. MemoryNext \/ UNCHANGED <<argv, viewVars, crashed>> \/ Abort
  BY StepWorks, InstructionTyped DEF MainInv, Works, memoryVars
<1>2. RATheory!RAInv
  BY DEF MainInv, MemoryInv, RATheory!CarriedInv
<1>3. \A t \in Thread : RATheory!Below(threadViews[t], threadViews[t])
  BY <1>2 DEF RATheory!RAInv, RATheory!Sound, RATheory!Views, RATheory!View,
              RATheory!Below
<1>4. CASE MemoryNext
  <2>1. RATheory!Next
    BY <1>4 DEF MemoryNext, isRA
  <2> QED BY <1>2, <2>1, ManagerAssumptions, RATheory!RAStep DEF ViewsGrowInRA
<1>5. CASE threadViews' = threadViews
  BY <1>3, <1>5 DEF ViewsGrowInRA
<1> QED BY <1>1, <1>4, <1>5 DEF viewVars, Abort

(***************************************************************************)
(* In every run of the program under RA or SRA, there is a message to read *)
(* at every view, no view goes back, and a thread that has come to a       *)
(* message has what its writer had published by release fences.            *)
(***************************************************************************)
THEOREM ProgramsViews ==
    Spec => [](ViewsPointInRA /\ BaseViewsCausalInRA) /\ [][ViewsGrowInRA]_vars
<1>1. MainInv /\ [Next]_vars => [ViewsGrowInRA]_vars
  BY ViewsStep
<1>2. MainInv => ViewsPointInRA
  <2> SUFFICES ASSUME MainInv, isRA, NEW t \in Thread, NEW l \in RATheory!LogLocation
               PROVE  \E m \in messages[l] : m.timestamp = threadViews[t][l]
    BY DEF ViewsPointInRA, RATheory!ViewsPointAtMessages
  <2>1. RATheory!RAInv
    BY DEF MainInv, MemoryInv, RATheory!CarriedInv
  <2>2. /\ threadViews[t][l] \in Nat
        /\ RATheory!Reached(threadViews[t], threadViews, messages)
    BY <2>1 DEF RATheory!RAInv, RATheory!Sound, RATheory!Views, RATheory!View
  <2> QED BY <2>2 DEF RATheory!Reached
<1>3. MainInv => BaseViewsCausalInRA
  <2> SUFFICES ASSUME MainInv, isRA
               PROVE  RATheory!BaseViewsAreCausal
    BY DEF BaseViewsCausalInRA
  <2>1. RATheory!CarriedInv
    BY DEF MainInv, MemoryInv
  <2> QED BY <2>1, ManagerAssumptions, RATheory!CarriedIsCausal
<1> QED BY <1>1, <1>2, <1>3, MainCorrect, PTL DEF Spec
=============================================================================
