------------------------------ MODULE MCLitmus ------------------------------
(***************************************************************************)
(* The whole program on litmus files in the style of examples/, in all     *)
(* memory models and both modes.  Register 1 holds 1, which is also the    *)
(* address of x, and register 2 holds 2, which is also the address of y;   *)
(* register 0 takes what is loaded.  No thread stores more often than a    *)
(* buffer has places, so that MaxBuffer never holds a thread back.         *)
(***************************************************************************)
EXTENDS Main

W(w) == Parser!Word(w)
N(n) == Parser!Number(n)
H(n) == Parser!Hash(n)

(* The lines of a file.                                                    *)
Set(r, v) == <<N(r), W("="), N(v)>>
Compute(r, left, op, right) == <<N(r), W("="), N(left), W(op), N(right)>>
IfGoto(r, l) == <<W("if"), N(r), W("goto"), N(l)>>
Labelled(l, line) == <<Parser!Colon(l)>> \o line
LoadLine(mode, a, r) == <<W("load"), W(mode), H(a), N(r)>>
StoreLine(mode, a, r) == <<W("store"), W(mode), H(a), N(r)>>
CasLine(mode, a, expected, new) == <<W("cas"), W(mode), H(a), N(expected), N(new)>>
FaiLine(mode, a, r) == <<W("fai"), W(mode), H(a), N(r)>>
FenceLine(mode) == <<W("fence"), W(mode)>>
MakeThread == Parser!THREAD_SEPARATOR

x == 1
y == 2

Setup == <<Set(1, 1), Set(2, 2)>>

(* Wait until address a holds the contents of register v.                  *)
Wait(mode, a, v) ==
    <<Labelled(1, LoadLine(mode, a, 0)), Compute(0, 0, "-", v), IfGoto(0, 1)>>

(* A file for four threads, of which two do nothing to speak of.           *)
Four(p, q, r, s) ==
    p \o <<MakeThread>> \o q \o <<MakeThread>> \o r \o <<MakeThread>> \o s
Two(p, q) ==
    Four(Setup \o p, Setup \o q, <<Set(0, 0)>>, <<>>)
-----------------------------------------------------------------------------
StoreBufferingTest(between) ==
    Two(<<StoreLine("RLX", 1, 1)>> \o between \o <<LoadLine("RLX", 2, 0)>>,
        <<StoreLine("RLX", 2, 1)>> \o between \o <<LoadLine("RLX", 1, 0)>>)

(* The same with increments for the stores.                                *)
IncrementBufferingTest ==
    Two(<<FaiLine("RLX", 1, 1), LoadLine("RLX", 2, 0)>>,
        <<FaiLine("RLX", 2, 1), LoadLine("RLX", 1, 0)>>)

(* examples/ra_fences.wmm is one of these, without its last loop.          *)
MessagePassingTest(release, between, acquire, after) ==
    Two(<<StoreLine("RLX", 1, 1)>> \o between \o <<StoreLine(release, 2, 1)>>,
        Wait(acquire, 2, 1) \o after \o <<LoadLine("RLX", 1, 0)>>)

(* The same over a third thread, which only passes on what it has seen.    *)
CausalityTest ==
    Four(<<Set(1, 1), StoreLine("REL", 1, 1)>>,
         Setup \o Wait("ACQ", 1, 1) \o <<StoreLine("REL", 2, 1)>>,
         Setup \o Wait("ACQ", 2, 1) \o <<LoadLine("ACQ", 1, 0)>>, <<>>)

(* One thread writes x twice, the other reads it twice.                    *)
CoherenceTest(release, acquire) ==
    Two(<<StoreLine(release, 1, 1), StoreLine(release, 1, 2)>>,
        <<LoadLine(acquire, 1, 0), LoadLine(acquire, 1, 2)>>)

(* examples/IRIW.wmm, with loads where it waits.                           *)
IRIWTest(between) ==
    Four(<<Set(1, 1), StoreLine("REL", 1, 1)>>,
         <<Set(1, 1), Set(2, 2), StoreLine("REL", 2, 1)>>,
         Setup \o <<LoadLine("ACQ", 1, 0)>> \o between \o <<LoadLine("ACQ", 2, 1)>>,
         Setup \o <<LoadLine("ACQ", 2, 0)>> \o between \o <<LoadLine("ACQ", 1, 1)>>)

(* examples/2+2W.wmm                                                       *)
WriteOrderTest ==
    Two(<<StoreLine("RLX", 1, 1), StoreLine("RLX", 2, 2)>>,
        <<StoreLine("RLX", 2, 1), StoreLine("RLX", 1, 2)>>)

(* examples/atomics.wmm, where one thread's own stores are still buffered. *)
AtomicsTest ==
    Four(Setup \o <<StoreLine("RLX", 2, 1), FaiLine("REL_ACQ", 1, 1)>>,
         Setup \o <<FaiLine("REL_ACQ", 1, 1)>>,
         Setup \o Wait("ACQ", 1, 2), <<>>)

(* examples/shared_storage.wmm, the second thread having buffered a store. *)
SwapTest ==
    Two(<<CasLine("REL_ACQ", 1, 0, 1), LoadLine("ACQ", 1, 0)>>,
        <<StoreLine("REL", 1, 0), CasLine("REL_ACQ", 1, 0, 2),
          LoadLine("ACQ", 1, 0)>>)

(* A loop of local instructions, and a label at the end of a program.      *)
CountdownTest ==
    Two(<<Labelled(5, Compute(2, 2, "-", 1)), IfGoto(2, 5), IfGoto(1, 6),
          Set(0, 1), <<Parser!Colon(6)>>>>,
        <<StoreLine("RLX", 1, 2)>>)

(***************************************************************************)
(* Programs that end the process: with an address of a negative register,  *)
(* a label, a register and a quotient that do not exist.                   *)
(***************************************************************************)
Failing(code) == Four(<<Set(1, -1)>> \o code, <<Set(0, 0)>>, <<Set(0, 0)>>, <<>>)

FailingFiles ==
    "bad_store" :> Failing(<<StoreLine("RLX", 1, 1), LoadLine("RLX", 1, 0)>>) @@
    "bad_load"  :> Failing(<<LoadLine("RLX", 1, 0)>>) @@
    "bad_cas"   :> Failing(<<CasLine("RLX", 1, 0, 0)>>) @@
    "bad_fai"   :> Failing(<<FaiLine("RLX", 1, 1)>>) @@
    "bad_label" :> Failing(<<IfGoto(1, 5)>>) @@
    "bad_register" :> Failing(<<Set(-1, 0)>>) @@
    "bad_quotient" :> Failing(<<Compute(0, 1, "/", 0)>>)

Litmus ==
    "sb"            :> StoreBufferingTest(<<>>) @@
    "sb_sc_fence"   :> StoreBufferingTest(<<FenceLine("SEQ_CST")>>) @@
    "sb_ra_fence"   :> StoreBufferingTest(<<FenceLine("REL_ACQ")>>) @@
    "sb_fai"        :> IncrementBufferingTest @@
    "mp"            :> MessagePassingTest("RLX", <<>>, "RLX", <<>>) @@
    "mp_sc_fence"   :> MessagePassingTest("RLX", <<FenceLine("SEQ_CST")>>, "RLX", <<>>) @@
    "mp_ra_fences"  :> MessagePassingTest("RLX", <<FenceLine("REL")>>,
                                          "RLX", <<FenceLine("ACQ")>>) @@
    "mp_rel_acq"    :> MessagePassingTest("REL", <<>>, "ACQ", <<>>) @@
    "wrc"           :> CausalityTest @@
    "corr"          :> CoherenceTest("RLX", "RLX") @@
    "corr_rel_acq"  :> CoherenceTest("REL", "ACQ") @@
    "iriw"          :> IRIWTest(<<>>) @@
    "iriw_sc_fence" :> IRIWTest(<<FenceLine("SEQ_CST")>>) @@
    "2+2w"          :> WriteOrderTest @@
    "atomics"       :> AtomicsTest @@
    "swap"          :> SwapTest @@
    "countdown"     :> CountdownTest @@
    FailingFiles

(***************************************************************************)
(* What is explored: every file in the random mode, in RA and SRA those of *)
(* them whose addresses exist, and in the interactive mode those with      *)
(* something to choose at every kind of prompt.                            *)
(***************************************************************************)
Lines(files, models, mode) ==
    [file : files, memoryModel : models, executionMode : {mode}]

Explored ==
    Lines(DOMAIN Litmus, {"sc", "tso", "pso"}, "rand") \cup
    Lines(DOMAIN Litmus \ DOMAIN FailingFiles, {"ra", "sra"}, "rand") \cup
    Lines(DOMAIN Litmus \ {"iriw", "iriw_sc_fence"}, {"sc", "tso", "pso"}, "interact") \cup
    Lines({"mp_rel_acq", "mp_ra_fences", "corr_rel_acq"}, {"ra", "sra"}, "interact") \cup
    Lines({"sb_sc_fence", "2+2w", "wrc", "swap", "countdown"}, {"sra"}, "interact")
-----------------------------------------------------------------------------
Times == [l \in 0 .. StorageSize |-> 12]

Is(files) == argv.file \in files
By(models) == argv.memoryModel \in models

Register0(t) == localStorage[t][0]

Done(t) == isFinished(t) /\ ~HasPending(t)

(* The files, and the models, that are to keep the weak outcome from happening. *)
KeepsMessages ==
    \/ Is({"mp_sc_fence", "mp_ra_fences"})
    \/ Is({"mp_rel_acq"}) /\ ~By({"pso"})
    \/ Is({"mp"}) /\ By({"sc", "tso"})

OrdersStores ==
    \/ Is({"sb_sc_fence", "sb_ra_fence"})
    \/ Is({"sb_fai"}) /\ ~isRA
    \/ Is({"sb"}) /\ By({"sc"})

KeepsOrder ==
    \/ Is({"corr_rel_acq", "iriw_sc_fence"})
    \/ Is({"corr", "iriw"}) /\ ~isRA

(***************************************************************************)
(* Message passing: who has seen the flag sees the data, also if another   *)
(* thread has set the flag on seeing the data.  PSO may let the flag       *)
(* overtake the data unless a fence keeps them apart; in RA and SRA the    *)
(* flag carries the data only if it is released and acquired, or a fence   *)
(* does it.                                                                *)
(***************************************************************************)
MessagePassing ==
    /\ KeepsMessages /\ isFinished(1) => Register0(1) = 1
    /\ Is({"wrc"}) /\ isFinished(2) => Register0(2) = 1

(***************************************************************************)
(* Store buffering: two threads that each store and then load what the     *)
(* other stores do not both miss the other's store, if a fence separates   *)
(* the store from the load or memory is sequentially consistent; behind    *)
(* store buffers, increments for the stores do as well.  The REL_ACQ       *)
(* fences of RA and SRA order each other because the random manager has    *)
(* each read the fence location exclusively.                               *)
(***************************************************************************)
StoreBuffering ==
    OrdersStores /\ isFinished(0) /\ isFinished(1) =>
        Register0(0) = 1 \/ Register0(1) = 1

(***************************************************************************)
(* All threads see the stores to a location in one order, and the stores   *)
(* to two locations as well if SC fences order the reads, or the memory    *)
(* is shared: no reader goes back, and no two readers disagree about which *)
(* of two stores was first.  Relaxed loads of RA and SRA are excepted.     *)
(***************************************************************************)
Coherence ==
    KeepsOrder =>
        /\ Is({"corr", "corr_rel_acq"}) /\ isFinished(1) =>
              Register0(1) <= localStorage[1][2]
        /\ Is({"iriw", "iriw_sc_fence"}) /\ isFinished(2) /\ isFinished(3) =>
              \E t \in {2, 3} : Register0(t) = 0 \/ localStorage[t][1] = 1

(***************************************************************************)
(* Two threads that write x and y in opposite orders do not both overwrite *)
(* the other's second write, except in PSO and in RA, where the writes to  *)
(* a location need not be ordered as they are executed.                    *)
(***************************************************************************)
WriteOrder ==
    Is({"2+2w"}) /\ By({"sc", "tso", "sra"}) /\ Done(0) /\ Done(1)
    => ~(FinalValue(x) = 1 /\ FinalValue(y) = 1)

(***************************************************************************)
(* No increment is lost and of two competing swaps one wins, which is what *)
(* a thread sees that has tried, although the updating threads have stores *)
(* of their own in the buffers, or may read old messages.  An update of    *)
(* SRA that has read an old message still appends, and may win later.      *)
(***************************************************************************)
AtomicUpdates ==
    Done(0) /\ Done(1) =>
        /\ Is({"atomics"}) => FinalValue(x) = 2
        /\ Is({"swap"}) =>
              /\ FinalValue(x) \in {1, 2}
              /\ ~By({"sra"}) => Register0(1) = FinalValue(x)

(***************************************************************************)
(* Every random run comes to an end: who waits for a store of another      *)
(* thread sees it eventually, execute returns false once every thread has  *)
(* finished, and a program that cannot go on ends the process.             *)
(***************************************************************************)
Terminates ==
    argv.executionMode = "rand" =>
        <>(IF Is(DOMAIN FailingFiles) THEN crashed ELSE halted)

(***************************************************************************)
(* Whatever its user answers, the interactive executor asks the next       *)
(* question or ends; only a failed input may keep it asking for a thread   *)
(* for ever.                                                               *)
(***************************************************************************)
PromptComesBack ==
    argv.executionMode = "interact" =>
        []<>(\/ AtPrompt \/ halted \/ crashed
             \/ console.at = "thread" /\ console.input = "failed")
=============================================================================
