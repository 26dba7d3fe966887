------------------------------- MODULE Threads -------------------------------
(***************************************************************************)
(* Class Thread, with the ThreadManager that holds one per program: every  *)
(* thread has its program, its registers (a Storage of its own) and the    *)
(* position of its current instruction, and works on the shared memory     *)
(* through the storage manager.                                            *)
(*                                                                         *)
(* An instruction is a record with the fields of its class; a program has  *)
(* its instructions, at positions from 0 as in the code, and the positions *)
(* of its labels.                                                          *)
(***************************************************************************)
EXTENDS MemoryModel

CONSTANTS
    LocalSize,       \* how many registers a thread has (10 in main.cpp)
    SizeRange        \* how many values a size_t has (2^64)

ASSUME ThreadAssumption ==
    /\ LocalSize \in Nat
    /\ SizeRange \in Nat /\ SizeRange > 2 * (MaxInt + 1)
    /\ Address = 0 .. (SizeRange - 1)

VARIABLES
    program,             \* m_program of every thread
    localStorage,        \* m_localStorage of every thread
    currentInstruction   \* m_currentInstruction of every thread

threadVars == <<program, localStorage, currentInstruction>>

Register == 0 .. (LocalSize - 1)

ThreadTypeOK ==
    /\ DOMAIN program = Thread
    /\ localStorage \in [Thread -> [Register -> Int32]]
    /\ \A t \in Thread :
          currentInstruction[t] \in 0 .. Len(program[t].instructions)

(* One thread for each of the programs, of which there are enough.         *)
ThreadInit(programs) ==
    /\ program = [t \in Thread |-> programs[t + 1]]
    /\ localStorage = [t \in Thread |-> [r \in Register |-> 0]]
    /\ currentInstruction = [t \in Thread |-> 0]
-----------------------------------------------------------------------------
Size(t) == Len(program[t].instructions)

isFinished(t) == currentInstruction[t] = Size(t)

Instruction(t) == program[t].instructions[currentInstruction[t] + 1]

(* The registers an instruction names.                                     *)
RegistersOf(i) ==
    {i[field] : field \in DOMAIN i \cap
        {"storeRegister", "leftRegister", "rightRegister", "conditionRegister",
         "addressRegister", "valueRegister", "resultRegister",
         "expectedValueRegister", "newValueRegister", "incrementRegister"}}

(* Mutant of ToAddress: the register is taken as it is.                    *)
ToSignedAddress(n) == n

(* An int32_t in a register becomes a size_t where an address is needed.   *)
ToAddress(n) == n % SizeRange

(* Division of machine integers rounds towards zero.                       *)
Magnitude(n) == IF n < 0 THEN -n ELSE n
Quotient(m, n) ==
    (Magnitude(m) \div Magnitude(n)) * (IF (m < 0) = (n < 0) THEN 1 ELSE -1)

(***************************************************************************)
(* A division by zero, or of the smallest integer by -1, is undefined; the *)
(* division instruction of the machines the program is built for traps.    *)
(***************************************************************************)
Traps(operation, lhs, rhs) ==
    operation = "/" /\ (rhs = 0 \/ (lhs = MinInt /\ rhs = -1))

applyBinaryOperation(operation, lhs, rhs) ==
    CASE operation = "+" -> Wrap(lhs + rhs)
      [] operation = "-" -> Wrap(lhs - rhs)
      [] operation = "*" -> Wrap(lhs * rhs)
      [] operation = "/" -> Quotient(lhs, rhs)
-----------------------------------------------------------------------------
(* An exception of the thread itself ends the process.                     *)
Abort ==
    /\ ~crashed
    /\ crashed' = TRUE
    /\ UNCHANGED <<argv, bufferVars, viewVars>>

(* The thread is at an instruction of this class, on registers it has.     *)
At(t, action) ==
    /\ ~isFinished(t)
    /\ Instruction(t).action = action
    /\ RegistersOf(Instruction(t)) \subseteq Register

Sets(t, r, v) == localStorage' = [localStorage EXCEPT ![t][r] = v]

GoesTo(t, position) ==
    /\ currentInstruction' = [currentInstruction EXCEPT ![t] = position]
    /\ UNCHANGED program

(* An exception of the storage manager leaves the thread where it is.      *)
Advances(t) ==
    GoesTo(t, IF crashed' THEN currentInstruction[t] ELSE currentInstruction[t] + 1)

StoreConstInRegister(t) ==
    /\ At(t, "StoreConstInRegister")
    /\ Sets(t, Instruction(t).storeRegister, Instruction(t).value)
    /\ UNCHANGED memoryVars
    /\ Advances(t)

StoreExprInRegister(t) ==
    /\ At(t, "StoreExprInRegister")
    /\ LET i   == Instruction(t)
           lhs == localStorage[t][i.leftRegister]
           rhs == localStorage[t][i.rightRegister]
       IN  \/ /\ ~Traps(i.operation, lhs, rhs)
              /\ Sets(t, i.storeRegister, applyBinaryOperation(i.operation, lhs, rhs))
              /\ UNCHANGED memoryVars
              /\ Advances(t)
           \/ Traps(i.operation, lhs, rhs) /\ Abort /\ UNCHANGED threadVars

(* getLabelMapping throws on a label the program does not have.            *)
Goto(t) ==
    /\ At(t, "Goto")
    /\ LET i      == Instruction(t)
           jumps  == localStorage[t][i.conditionRegister] # 0
           labels == program[t].labels
       IN  \/ ~jumps /\ UNCHANGED <<memoryVars, localStorage>> /\ Advances(t)
           \/ /\ jumps /\ i.label \in DOMAIN labels
              /\ UNCHANGED <<memoryVars, localStorage>>
              /\ GoesTo(t, labels[i.label])
           \/ /\ jumps /\ i.label \notin DOMAIN labels
              /\ Abort /\ UNCHANGED threadVars

(* The address an instruction accesses, and the contents of a register.    *)
AddressOf(t) == ToAddress(localStorage[t][Instruction(t).addressRegister])
Contents(t, r) == localStorage[t][r]

Load(t) ==
    /\ At(t, "Load")
    /\ \/ \E v \in Int32 :
             /\ load(t, AddressOf(t), Instruction(t).mode, v)
             /\ Sets(t, Instruction(t).resultRegister, v)
             /\ Advances(t)
       \/ badLoad(t, AddressOf(t)) /\ UNCHANGED threadVars

Store(t) ==
    /\ At(t, "Store")
    /\ store(t, AddressOf(t), Contents(t, Instruction(t).valueRegister),
             Instruction(t).mode)
    /\ UNCHANGED localStorage
    /\ Advances(t)

CompareAndSwap(t) ==
    /\ At(t, "CompareAndSwap")
    /\ compareAndSwap(t, AddressOf(t),
                      Contents(t, Instruction(t).expectedValueRegister),
                      Contents(t, Instruction(t).newValueRegister),
                      Instruction(t).mode)
    /\ UNCHANGED localStorage
    /\ Advances(t)

FetchAndIncrement(t) ==
    /\ At(t, "FetchAndIncrement")
    /\ fetchAndIncrement(t, AddressOf(t),
                         Contents(t, Instruction(t).incrementRegister),
                         Instruction(t).mode)
    /\ UNCHANGED localStorage
    /\ Advances(t)

Fence(t) ==
    /\ At(t, "Fence")
    /\ fence(t, Instruction(t).memoryAccessMode)
    /\ UNCHANGED localStorage
    /\ Advances(t)

(* A register the thread does not have: Storage::at throws.                *)
BadRegister(t) ==
    /\ ~isFinished(t)
    /\ ~(RegistersOf(Instruction(t)) \subseteq Register)
    /\ Abort
    /\ UNCHANGED threadVars

evaluateInstruction(t) ==
    /\ ~crashed
    /\ \/ StoreConstInRegister(t)
       \/ StoreExprInRegister(t)
       \/ Goto(t)
       \/ Load(t)
       \/ Store(t)
       \/ CompareAndSwap(t)
       \/ FetchAndIncrement(t)
       \/ Fence(t)
       \/ BadRegister(t)
=============================================================================
