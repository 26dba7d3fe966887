# Weak memory models mock: specifications

The program under `src/` runs small concurrent programs on simulated memories:
sequential consistency (SC), total store order (TSO), partial store order (PSO),
release/acquire (RA) and strong release/acquire (SRA).  This directory holds
TLA+ modules that model it, TLC configurations that check the models on small
instances, and proofs that TLAPS checks for every instance.  `PROJECT.json`
links every definition to the source lines it models, every property to the
hazard it is about, and to a mutation of the code's behaviour that breaks it.

Paths below are relative to `src/src/` unless they start with `src/`.

## 1. The system

The process is single-threaded.  The concurrency is simulated: `main` calls
`execute` in a loop, each call runs one instruction of one simulated thread or
one internal update of the memory, and a random generator or the user decides
which.  All orders of these steps are possible; that is where the difficulty is.

| Component | State | Operations | Interacts with |
|---|---|---|---|
| `Storage` (`Storage/Storage.h`) | a vector of `int32_t` | `load`, `store`, both throw on a bad address | is the memory of the SC, TSO and PSO managers and the registers of a thread |
| SC manager | the memory | `load`, `store`, `compareAndSwap`, `fetchAndIncrement`, `fence` | called by threads through `StorageManagerInterface` |
| TSO manager | the memory; one FIFO of stores per thread | the same, `flushBuffer`, `propagate`, `internalUpdate` | the same; internal updates are called by the executor, an update manager chooses the thread |
| PSO manager | the memory; one FIFO per thread and location | the same | the same; the update manager chooses thread and location |
| RA manager (RA and SRA) | per location a log of messages; per thread a view and a base view | `load`, `store`, updates, SC fences and the other fences | update managers choose the message read and the timestamp written |
| `Thread`, `ThreadManager` | program, registers, position | `evaluateInstruction` | calls the storage manager |
| `RandomExecutor`, `main` | the generator | `execute`, `executeThread`, `executeInternalMemoryUpdate` | calls threads and storage manager |
| `InteractiveExecutor` | `std::cin`, and at which prompt it is | the prompts; `evaluateThreadLocalInstructions` | the same, and its user |
| Parser, program, instructions | programs; while it parses, the program and the labels so far | `parseFromStream`, `parseLine`, `str` | builds what threads run; the interactive executor prints instructions |
| Logger, `Util.h` | none | output | called by the managers, read by nobody |

Behaviours that are hard, with the properties that make each part correct:

* **Store buffers.**  Stores become visible late and, in PSO, out of order.  A
  thread must always see its own newest store, other threads only what has
  reached the memory, in order (in TSO all stores of a thread, in PSO those to
  one location); an atomic update must work on a memory that has the thread's
  own stores to its location; a fence must leave nothing behind.  TSO keeps
  one buffer for all addresses and does not check an address until the store
  is propagated, so the exception for a bad store comes out of a later
  internal update, fence or update.
* **Release/acquire.**  Views are joined, assigned, published in messages and
  read much later; logs are cleaned up while old views still wait in messages.
  A view must always point at a message that is still there; a thread must not
  go back; who sees an effect must see its cause; updates must be atomic; SC
  fences must order writes.
* **Ends of the process.**  No exception is caught anywhere: a bad address,
  register or label, a division by zero, a midpoint beyond the precision of
  `double`, and `assert(false)` all end the process.  Every model has a
  variable `crashed` for it; once set, nothing happens any more.
* **Progress.**  A program that waits for a store of another thread must see it
  in the end and the executor must stop when, and only when, all is done.  The
  interactive executor runs local instructions ahead of its prompts, falls from
  threads to memory or back, and reads input that may end or fail at any
  prompt.
* **Programs.**  Labels are positions in a program that is still growing; a
  separator starts a new thread only if the section before it has instructions.

There are no threads of the operating system, no messages, no persistence and no
time-outs in this program, so that data races, lost messages, recovery after a
crash and timers do not arise.

## 2. Modules

| Module | Models |
|---|---|
| `MachineInt` | `int32_t`, by the bound `MaxInt`; `Wrap`, `Plus32` |
| `StorageManager` | what all managers share: threads, locations, addresses, `Storage` |
| `StoreBuffers` | **abstract**: what SC, TSO and PSO promise behind the interface |
| `SCStorage`, `TSOStorage`, `PSOStorage` | the three managers; each has `ImplementsStoreBuffers` |
| `RAStorage` | the RA manager, both models and both update managers |
| `RAOrder` | `RAStorage` with a history of reads, writes and failed compare-and-swaps, for the properties of release/acquire consistency and what ends the process |
| `MemoryModel` | the manager behind the virtual functions: the choice of `main` among all five memory models |
| `Threads` | `Thread::evaluateInstruction` over `MemoryModel` |
| `Instructions`, `Parser` | the language: the classes of instructions, `parseLine`, `str`, `parseFromStream` |
| `Texts` | every text over a set of lines, and what is to be true of the parser's result |
| `Executor` | what both executors share |
| `RandomExecutor`, `InteractiveExecutor` | the two executors over `Threads` |
| `Main` | `main`: from the arguments and the text of a file to the end of the process |
| `SCStorage_proof`, `TSOStorage_proof`, `PSOStorage_proof` | proofs about the three managers |
| `RAStorage_proof`, `RAOrder_proof`, `RAAcqRel_proof` | proofs about the RA manager, each on top of the one before |
| `Parser_proof` | proofs about the parser |
| `Main_proof` | proofs about the executors, and about the whole program from those of its parts |
| `MC*` | instances for TLC |

`Main` extends both executors, which extend `Executor`, which extends
`Threads`, which extends `MemoryModel`, which instantiates the four managers
over shared variables: the composition runs exactly the actions that are checked, and proved about,
in isolation.  `Main` instantiates `Parser` for the programs, so that what is
run is what the parser makes of a text.

### How the models correspond to the code

**An action is a whole operation.**  The code is sequential, so everything an
operation does happens in one step, the loop of `flushBuffer` and the clean-up
of a log included.  An operation that throws does so in the same step (`Abort`);
what it had changed before is gone with the process and is left unchanged in the
model.

**Store buffers.**  `TSOStorage!Find` is `Buffer::find` (from the back).
`Flushed` is `flushBuffer` in closed form: every location ends up with what the
thread saw there.  That the loop computes this is proved (`FlushLoop`).  The
update managers try all threads (and locations) in random order, or ask the user for one
that can propagate; any non-empty buffer may be next, which is
`InternalUpdate`.  `compareAndSwap` and `fetchAndIncrement` of SC, TSO and PSO
act on the memory behind the buffers after their flush.

**Machine integers.**  Overflow of `int32_t` in `value + increment` is undefined
in C++; the addition instruction the compiler emits wraps, and `Wrap` says so.
A register that holds an address is converted to `size_t`
(`ToAddress`): negative values become large and out of range.  Division by zero
and of the smallest integer by -1 trap (`Traps`).

**RA.**  A message holds both views; the code's release view is optional and a
reader without one takes the base view, so that the model stores the base view
in its place.  A log is a set ordered by timestamp.  A timestamp is a `double` in
the code; in the model it is a multiple of `1/Scale`, so that midpoints run out
of precision as they do in the code, only sooner (`Exhausted`).  What the update
managers choose is a choice in the model: the message of a read (`Readable`), the
message a store goes after (`Bases`), or for the interactive manager the
timestamp its prompt asks for (`Enterable`).  The code computes the midpoint of
the first two messages even where it does not use it, which `Write` does
too: it is one of the ways in which the process can end.

**Programs.**  A text is a sequence of lines, a line a sequence of tokens, and a
token a record of what the parser may take it for: a word, a number, an address
`#5`, a label `5:`, a word that begins with `//`, or white space where it
matters.  `Form` lists the tokens of
each class of instruction; `parseLine` and `str` are both read off it, and say
where the code departs from it.  An instruction is a record with the fields of
its class, a program a sequence of instructions with the positions of its labels.
`Tokens` is `parseTokens`, which drops the white space around a line.  A register,
an address or a label is read as a `size_t`: a negative number wraps around, and one of
`SizeRange` (2^64 in the code) or more, of either sign, is no `size_t` and fails the
line (`ReadAsSize`), as does a constant beyond `int32_t`.
`AfterLines` is the loop of `parseFromStream`, a recursive function that gives its
local variables after each number of lines.  `Texts` lets a text grow by a line at a
time, so that every text is a reachable state.

**Interactive executor.**  `console` holds the place where `execute` stands: its
prompts, and the runs of local instructions before and after a thread is
chosen.  Each answer is an action, and so is an input that ends or is no number.
A failed extraction sets `threadId` to 0, and leaves it uninitialized the
next time; both are there as the choices they allow (`NoNumber`,
`UninitializedThread`).  Local instructions are a step each, so that a loop of
them that never ends is a behaviour of the model as of the code.

## 3. What is checked

| Run | Instance | Properties | What it shows |
|---|---|---|---|
| `tso` | 2 threads, 2 locations, a bad address, 1-bit integers, buffers up to 2 | `TypeOK`, `LoadsAgree`, `ReadYourWrites`, `ImplementsStoreBuffers` | a buffer that mixes addresses behaves as a queue per address |
| `pso` | the same, one buffer per location | `TypeOK`, `ReadYourWrites`, `ImplementsStoreBuffers` | the same for PSO |
| `parser` | every text of up to 4 lines out of 19 | `ThreadsAreAsWritten`, `ErrorsNameTheirLine`, `PrintedIsReadBack` | threads get their own instructions and labels, errors name the first bad line, and what is printed of an instruction that is no fetch-and-increment is what was read |
| `litmus` | 4 threads, 24 files, all five models, both modes | `TypeOK`, `MessagePassing`, `StoreBuffering`, `Coherence`, `WriteOrder`, `AtomicUpdates`, `HaltsWhenDone`, `ThreadsWaitAtMemory`, `Terminates`, `PromptComesBack` | the whole program: no outcome that the model forbids, no end before all is done; every random run ends and every prompt comes back |
| `ra_acq_rel` | RA, 2 threads, 1 location and the fence location, REL_ACQ accesses, SC and REL_ACQ fences | `TypeOK`, `ViewsPointAtMessages`, `Causality`, `UpdatesAreExclusive`, `EndsHaveACause`, `UpdatesAreAdjacent`, `NeverReadsBack`, `ViewsOnlyGrow`, `SCFencesOrderWrites` | programs of release writes and acquire reads get what the README of the repository promises, and end only where an assertion or exception has a cause |
| `ra_fences` | RA and SRA, RLX accesses, release, acquire, REL_ACQ and SC fences | `Causality`, `FencesHandOn`, `UpdatesAreExclusive`, `EndsHaveACause`, `SCFencesOrderWrites` | fences of one thread after fences of the other synchronise programs of relaxed accesses, updates exclude each other, SC fences order writes, and SRA ends only after a failed compare-and-swap |
| `ra_mixed` | RA and SRA, both update managers, RLX and REL_ACQ accesses, all fences | `ViewsPointAtMessages`, `BaseViewsAreCausal`, `ViewsOnlyGrow` | views and logs stay consistent whatever modes are mixed |
| `ra_relaxed`, `sra_updates`, `ra_failed_cas`, `ra_interactive`, `parser_printed` | one defect each | one each, violated | see section 5 |

Each manager's `ImplementsStoreBuffers` is a refinement: `StoreBuffers!Spec` with
a mapping of the manager's buffers to a queue per thread and address, the empty
queue for SC.  The SC manager, whose only state is the memory, has no run of its own:
that it implements `StoreBuffers` is proved for every instance (section 4), and its
actions run in `litmus`.  `StoreBuffers` leaves open how many of a thread's waiting stores an
operation takes to the memory; the managers differ in exactly that.

### Bounds, and why they are enough

* *Two threads* for the managers.  No operation of SC, TSO or PSO touches more
  than the buffer of its own thread and the memory, so that a second thread
  stands for all others; in RA only `cleanUpHistory` and the SC fence look at
  all views, one to keep what the smallest view needs, the other to join into
  each.  The litmus programs use four where four play a part (IRIW).
* *Two locations* for TSO and PSO: one buffer with two addresses has every
  overtaking there is.  RA has one location of the program and the fence
  location, which are two locations for views, messages and clean-up.
* *`MaxBuffer = 2`*: two stores to one address, or one to each of two, of which a
  bad one may be first or last.  That nothing is different in longer buffers is
  proved (section 4).  The bound is a guard of `Store` in the specifications of single managers.  In
  `litmus` no thread has more than two stores in a buffer, and the bound never
  holds a thread back.
* *`MaxInt`*: with one bit (-1 and 0) every increment overflows.
* *`Scale`, `MaxTime`*: in `ra_acq_rel` `Scale = 2` and the bound 4 leave room
  for two appended messages at each location, for a midpoint before each of
  them, and for the next midpoint to exhaust the precision.  `ra_mixed` and `ra_fences`
  have the same scale, and the bound 4 for one of the two logs and 2, which is one
  append and one midpoint less, for the other.  `ra_fences` has 4 at the fence location: an
  acquire fence can read what a release fence of the other thread has written, and
  write after it.  `ra_mixed` has 4 at the program's location: a thread can write there
  before its release fence and again after it, and the base view that the second
  write carries reaches whoever reads it (`BaseViewsAreCausal`).  How many
  midpoints there are before the last makes no difference to what is proved
  (section 4), which is for any `Scale` from 2.
* *Texts* of up to four lines in `parser`: a repeated label needs two lines, one
  across a separator that does not separate three, and a fourth stands
  before, between or after them.  The lines have each class of instruction, what only
  looks like a separator or a comment, numbers in odd places, and numbers just within and
  just beyond what an `int32_t` or a `size_t` is read from.
* `litmus` has `Scale = 4` and timestamps up to 12, room for three appended
  writes to a location, or two and two midpoints; no file writes more often.
  Two files are left out of the interactive mode and most of them out of the
  interactive RA and SRA, where a state has the choices of the random mode and
  the place of the prompt besides.
* *Values* in `ra_mixed` are all 0: no view or timestamp depends on a value except
  through a compare-and-swap that fails.  In `ra_acq_rel` and `ra_fences` increments
  of -1 make compare-and-swaps that expect 0 fail, in RA and in SRA.
* *Symmetry*: the two threads are interchangeable in all actions and
  properties, and no run with symmetry checks liveness.
* *View*: `ra_fences` leaves `observed` out of the fingerprint of a state (`VIEW`): it
  is a history variable on which no step and none of that run's properties depends.
* *Deadlock* is not checked: a process that has halted or crashed, or a model at
  one of its bounds, does stop.

### Litmus programs

`MCLitmus` has files in the style of `src/examples`: store buffering with
fences of each kind and with increments for the stores; message passing with
fences, and with release and acquire accesses; causality through a third
thread; coherence of one location; IRIW; two threads that write two locations in
opposite orders (2+2w); concurrent increments and competing swaps, with stores
of the updating threads still buffered; a loop of local instructions; and seven
files that end the process by an address, a label, a register or a quotient
that does not exist.

The weak outcomes that a property excepts do occur in the model; each exception
was removed once to see the property violated:

| Outcome | Occurs under |
|---|---|
| message passing without fences | PSO, RA, SRA |
| message passing by release store and acquire load | PSO, which ignores modes |
| store buffering without fences | TSO, PSO, RA, SRA |
| store buffering with increments for stores | RA, SRA |
| IRIW, and relaxed loads of one location that go back | RA, SRA |
| 2+2w | PSO, RA |
| a competing swap that is told it won and is overwritten | SRA |

### Fairness

`FairSpec` assumes, of the random executor, weak fairness of each thread's next
instruction, of each thread's propagation and of the end.  Every call of `execute` draws
a coin and shuffles anew (`Execution/src/Executor.cpp:13-44`, and the random
update managers shuffle as well), so that a step that stays possible is passed
over for ever with probability zero.  A load of RA or SRA draws one of the
available messages each time, so that a loop that polls a location draws the
newest some time: strong fairness of `ReadsNewest`, which is possible again and
again but not all the time.  Within a thread's propagation in PSO the choice of
the location is left free: the buffers of a finished or waiting thread only get
shorter, so that all of them get empty.

Of the interactive executor only the steps it takes by itself, between two
prompts, are weakly fair.  Nothing is assumed about its user, who may starve
anything; `Terminates` is therefore about random runs, and `PromptComesBack` says
no more than that the executor asks again.

### Mutants

For every checked property `PROJECT.json` names a mutation of a definition under
which the property fails: `Find` from the front, a flush that keeps the stores,
an update that goes through the buffer, a fence that does nothing, a clean-up with
`<` in place of `<=`, a view assigned in place of joined, and so on.  The mutated forms
stand before the definitions they replace, each marked "Mutant of".

## 4. What is proved

All theorems hold for any set of threads, any number of locations, any
addresses, values and increments, machine integers of any width and texts of any
length.  The assumptions are those of the modules themselves: sizes are natural
numbers, values and increments are machine integers, locations are addresses, lines
are sequences of tokens.  TLC evaluates each of them in the runs.

**Store buffers** (`SCStorage_proof`, `TSOStorage_proof`, `PSOStorage_proof`), for
buffers of any length.

* `TypeCorrect == Spec => []TypeOK` of each manager.  `TypeOK` is inductive by
  itself; sums stay in range because `Wrap` maps to machine integers.
* `FlushLoop` (TSO): one iteration of `flushBuffer` keeps `Flushed`, and with an
  empty buffer `Flushed` is the memory.  The closed form is therefore an
  invariant of the loop and what the loop leaves behind.
* `OwnWritesAreSeen == Spec => ReadYourWrites` (TSO, PSO).  For TSO it rests on
  what `Buffer::find` returns (`FindProperties`, by the existence of a greatest
  position, and `FindIs`, its converse), from which the effect of `Append` and
  `Tail` on it follows; then moving the oldest store of a buffer to the
  memory changes nothing that the buffer's thread sees.
* `Implements == Spec => ImplementsStoreBuffers` (SC, TSO, PSO).  Each step is
  shown to be a step of `StoreBuffers` under the mapping, with the queues that
  the step leaves as the witness: none (SC, and whatever flushes in TSO), those
  but the flushed one (an update of PSO), or those with one store less
  (`PropagateTakes`).  The mapping of TSO has to pick the stores to one address
  out of a buffer that mixes them: `Queue` takes them by their rank among the
  positions of that address.  Every set of positions has exactly one enumeration
  in order (`EnumerationExists`, `NthOfEnumeration`), so that the queue after a
  store, a propagation or a flush can be computed by giving its enumeration
  (`QueueAppend`, `QueueTail`, `QueueEmpty`).  A bad address may end the process
  only where some thread uses one, which is what `Abort` of `StoreBuffers` asks.
* `LoadsAreRight == Spec => []LoadsAgree` (TSO): `Buffer::find` over the mixed
  buffer finds the last entry of the queue of its address (`QueueLast`).

**Release/acquire.**

* `RAStorage_proof`: `TypeCorrect`, `ViewsPoint` and `ViewsGrow`, in both models,
  with both update managers and any modes.  `ViewsPointAtMessages` is not
  inductive: a thread can join a view that a message has carried since long
  before the clean-up.  `RAInv` says that every view anybody may still take, of
  a thread, a base view or one in a message, points at each location at a message or
  at a timestamp that all threads have passed (`Reached`); joining the latter
  changes nothing.  Every step is reduced to one of two forms: it only reads
  (`Reading`: views join known ones and logs lose what all have passed), or it adds
  one message at a timestamp that is new and beyond the writer's view (`Adds`).
  That `TimestampAfter` is new is `TimestampIsNew`; the bound `MaxTime` serves
  only to show that a log has a latest message.  In SRA, `RAInv` says besides
  that timestamps are a whole unit apart (`Spaced`), so that the midpoint that
  `write` computes and does not use always exists: SRA never meets the exception
  of `middleTimestamp`.
* `BaseViewsCausal`, in the same module.  An effect is a timestamp with a view
  that belongs to it: a message with its base view, or (in `RAOrder_proof`) a
  release write with its writer's view.  `Causal` says that every view that may
  still be taken is closed under effects, and that no effect lies in the future,
  where a new message might get its timestamp.  Reading keeps it because a join of
  closed views is closed, adding because no view has come to the new timestamp yet.
  `CarriedInv` is `Causal` of the effects that the messages themselves carry.
* `RAOrder_proof`: `EffectsHaveCauses`, `FencesOrder`, `UpdatesExclude` and
  `EndsAreCaused`.  The first is `Causal` of all release writes there have been,
  also those cleaned up since.  For SC fences the invariant
  has what they have shared below every view.  `UpdatesExclude` needs the random
  manager: what an update has read stays marked, or all threads have passed it
  (`Taken`).
* `EndsAreCaused` is about the three ways the process can end: the assertion that
  an unused message is found, the draw of one where there is none, and the
  exception of `middleTimestamp`.  A step that ends it leaves everything else as it
  is, and is taken where some thread is `Stuck`: all messages it may read are
  used, or two messages have no timestamp between them.  `EndsInv` says why a
  message can be used (`Explained`): a compare-and-swap has failed on it, an
  update of RA has read it and written before it, or there is a later message.
  All messages from a thread's view on cannot have the last for a reason, so that the
  newest one has one of the others (`StuckHasACause`).  A later message may be
  cleaned up, but then every thread's view is at one that is later still, which is
  where `RAInv` is needed (`ExplainedStays`).  What a step marks is
  explained at once: an update marks what it has read (`MarksBehind`), and writes after
  it, or before it.  The second cannot be excluded in RA: a relaxed update reads a
  message without moving its view to it (section 5, 1), and writes right after
  its view.
* `RAAcqRel_proof`: `NeverBack` and `UpdatesAdjoin`, for programs whose accesses
  and fences are all REL_ACQ, but for SC fences; without this both are false
  (section 5).  Every message then has its own timestamp in its release view, so that a
  read moves the view exactly to what it has read (`AcquireReadIs`), and an update writes
  right after it.  Nobody writes between the two later, because a store goes
  after an unmarked message only, an update after an unmarked one it has just
  read, and the timestamp chosen overtakes no message of the log
  (`AdjacentWhenPut`).  `UpdatesAdjoin` is about the RA model with the random
  manager.

**Parser** (`Parser_proof`): `ThreadsWritten`, `ErrorsNamed` and
`PrintedReadBack`, for texts of any length over any lines, integers of any width and a
`size_t` of any range that holds them.

* The loop.  What `AfterLines` computes is shown by induction over the lines
  (`InductionOnSets`): the library's theorems of induction take an operator as a
  parameter, and the provers at hand instantiate none, so that the principle is
  derived from the well-foundedness of `<` and stated of a set of numbers.
* `IInv` describes the local variables of the loop by what stands in the text.  It is
  inductive, which the three properties are not, because they speak of the result
  only: a line needs to know which section is open (`Current`), what it has
  (`Sizes`, `InstructionsInPlace`, `LabelsInPlace`), that labels read so far are its
  own and no other thread's (`LabelsOf`), which lines belong to threads already
  closed (`CurrentThread`), and that no line so far was bad (`Accepted`) or which
  was the first (`Rejected`).  There is one lemma per way through the loop:
  `LineAfterError`, `SeparatorOfNothing`, `SeparatorOfThread`, `CommandRejected`,
  `CommandAccepted`.  They rest on a text that grows leaving `ThreadOf` and
  `Position` of the lines before as they were (`EarlierThreads`, `NextLine`,
  `NextCounts`).
* `ReadAsPrinted`: the tokens that `str` prints of an instruction that is no
  fetch-and-increment match the
  form of its own class and of no other, by the first word where there is one and by
  `=` and the number of tokens where there is none, and mean its fields, as a
  number that is in range already does not wrap again.  That the instructions of
  a text are in range is `LoopTyped`.

**Executors** (`Main_proof`): `HaltsDone` and `NothingLocalIsLeft`, for any
files, in all five models and both modes.  `ExecutorInv` adds what the
interactive executor knows where it stands: that there was nothing to
propagate when it turned from memory to threads, nothing to execute when it turned the
other way, and that the threads before the one it lists have run ahead.  It rests on
instructions moving only their own thread, and local ones leaving the buffers
alone.

**The whole program** (`Main_proof`): `TypeCorrect`, `ProgramsSeeOwnWrites` and
`ProgramsViews`, for any files the parser accepts, in all five models and both
modes.  Nothing of the managers or the parser is proved again: their proof modules
are instantiated with what `main` puts there.

* `ParserTheory` is `Parser_proof` for the files.  From `LoopTyped` and
  `FieldsTyped` every thread gets a program whose instructions have the fields of
  their class, constants in range, and labels no further than the end
  (`ProgramsTyped`).
* `SCTheory`, `TSOTheory`, `PSOTheory` and `RATheory` are the proof modules of the
  managers, with `Int32` for the values, since a program may store anything
  it computes.  `MemoryNext` is a step of the one picked, and every instruction and
  internal update is shown to take one, with an address and values a register
  can hold (`AccessSteps`, `OtherSteps`), or to leave the memory alone.
* `MainInv` is the conjunction of the invariant of the picked manager (`MemoryInv`;
  for RA and SRA this is `CarriedInv`, which has `RAInv` as a part, as `TypeOK` is not
  enough to show that a log has a latest message), of the threads (`ThreadInv`) and of the executor
  (`ExecutorInv`).  For the threads, an address is one because `ToAddress` wraps to the
  width of `size_t`, a result is in range because `Wrap` is, and a quotient
  because the one that is too large traps (`QuotientTyped`).
* `ProgramsViews` has three parts: views point at messages, have what release
  fences had published before any message they are at, and never go back.
* What the managers promise of a step then holds of every step of the program,
  by `ViewStep` and `RAStep`: also of an exception that a thread itself throws, which no
  manager knows.  For the same reason `ImplementsStoreBuffers` does not carry over
  as it is: a division by zero ends the process where `StoreBuffers` has no bad
  address to blame.

The assumptions on the files are those of `MainAssumption`: they are sequences of
lines of tokens which the parser accepts, with a program for each thread.

Model-checked only: the outcomes of the litmus files, which are about these files
and no others; and `FencesHandOn`.  Not within reach of the
prover at hand: `Terminates` and `PromptComesBack` (liveness under fairness,
`ENABLED`).  `FlushLoop` is stated as a loop invariant, one iteration at a time.

## 5. Where the code disagrees with what is said of it

1. **A relaxed load can go back** (`ra_relaxed`).  `applyMessage` joins the base
   view of the message it reads, which does not contain the message's own
   timestamp unless a release fence has put it there.  A thread that has read a
   new value without acquire can then read the old one again.
   `src/README.md:34-36`: "A thread can only see messages with a timestamp greater or
   equal to the timestamp that the thread observes."
2. **SRA updates are not adjacent** (`sra_updates`).  In SRA `write` appends
   always, also for an update that has read an older message.  (A relaxed update in
  RA is not adjacent either, as a consequence of 1: its write goes after the
  thread's view and not after the message it has read.)  `src/README.md:58-59`:
   "the new message must come right after the read message in the log and no
   more messages can be inserted between them".
3. **A failed compare-and-swap uses up its message** (`ra_failed_cas`).  The mark is
   set before the comparison.  When the message is the last one, the next store
   or update of a thread that sees no other draws from an empty range and ends
   at the assertion of `findPosOfNthMessageNotUsedInAtomicUpdates`.
4. **Interactive updates are not exclusive** (`ra_interactive`).  The interactive
   update manager does not mark the message an update has read, and a second
   update can read it too.  `src/README.md:59-61` names the mark as what makes
   updates atomic.

5. **A fetch-and-increment cannot be read back** (`parser_printed`).  It is printed as
   "fei" (`Program/src/Instructions.cpp:78`), and the parser knows "fai"
   (`Program/Parser.h:33`).  `src/test/ParserTest.cpp:21` has "fei REL_ACQ #1 2" among the
   commands of all classes that are parsed and for which line 24 checks
   `CHECK_EQ(command, instruction->str())`.  `CommandsAreReadBack` says so of every
   class; `PrintedIsReadBack`, which holds, of the other seven.

Two more that no violated run stands for:

* Labels of a section without instructions stay for the next thread, because
  the separator clears them only after a thread
  (`Program/src/Parser.cpp:188-193`).
* An answer that is no number, where the interactive executor asks for a thread,
  executes thread 0 (`Execution/src/Executor.cpp:84`).

## 6. What is not modelled

* The logger: formatting and printing.  No part reads what it writes.  While
  reading it: a `fetchAndIncrement` that succeeds is logged as failed.
* What the interactive executor shows its user, but for `str()` of instructions.
* The characters within a token, and the wording of a parsing error.
* An argument of `main` that is missing or names nothing, the mode `enum`, a
  file that cannot be opened: the process ends before it has any state.
* `Util.h`: joining strings for output.
* Addresses after the fence location in RA: undefined behaviour of an unchecked
  index, no defined next state (`HasLog` of `MemoryModel`).
* What a user may type at a prompt other than what it asks for.
* The list of the random PSO update manager, which grows by all pairs in every
  reset: the choice it makes is unaffected.

## 7. What is left

1. More files of RA and SRA in the interactive mode.
