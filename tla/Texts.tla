------------------------------- MODULE Texts --------------------------------
(***************************************************************************)
(* What Parser::parseFromStream makes of every text over a set of lines:   *)
(* a text grows line by line, so that every text is reached.               *)
(***************************************************************************)
EXTENDS Parser

CONSTANTS
    Line,     \* the lines a text may have
    MaxLines  \* bound on the length of a text

ASSUME LineAssumption == Line \subseteq Seq(Token) /\ MaxLines \in Nat

VARIABLE text  \* the lines read so far

Init == text = <<>>

ReadLine ==
    /\ Len(text) < MaxLines
    /\ \E line \in Line : text' = Append(text, line)

Spec == Init /\ [][ReadLine]_text
-----------------------------------------------------------------------------
Parsed == parseFromStream(text)

IsSeparator(i) == text[i] = THREAD_SEPARATOR

HasInstruction(i) == ~IsSeparator(i) /\ parseLine(text[i]).instruction # <<>>

(* Line i separates two threads: its section has an instruction.           *)
Separates(i) ==
    /\ IsSeparator(i)
    /\ \E j \in 1 .. (i - 1) :
          HasInstruction(j) /\ \A k \in j .. (i - 1) : ~IsSeparator(k)

ThreadOf(i) == 1 + Cardinality({j \in 1 .. (i - 1) : Separates(j)})

(* How many instructions of its thread stand before line i.                *)
Position(i) ==
    Cardinality({j \in 1 .. (i - 1) : HasInstruction(j) /\ ThreadOf(j) = ThreadOf(i)})

(* Line i cannot be parsed, or repeats a label of its thread.              *)
IsBad(i) ==
    /\ ~IsSeparator(i)
    /\ LET line == parseLine(text[i])
       IN  \/ line.failed
           \/ \E j \in 1 .. (i - 1) :
                 /\ ~IsSeparator(j) /\ ThreadOf(j) = ThreadOf(i)
                 /\ parseLine(text[j]).label \cap line.label # {}

(***************************************************************************)
(* What a thread gets are the instructions of its lines in their order,    *)
(* and for each label the position of the next instruction: wherever the   *)
(* labels and the blank lines stand, a jump lands on the line after its    *)
(* label or at the end of the program, and never depends on another        *)
(* thread.  A section without instructions belongs to the next thread.     *)
(***************************************************************************)
ThreadsAreAsWritten ==
    LET lines == {i \in DOMAIN text : ~IsSeparator(i)}
        programs == Parsed.programs
    IN  Parsed.error = 0 =>
        /\ Len(programs) = ThreadOf(Len(text) + 1)
        /\ \A k \in DOMAIN programs :
              LET own == {i \in lines : ThreadOf(i) = k}
                  labels == UNION {parseLine(text[i]).label : i \in own}
              IN  /\ Len(programs[k].instructions)
                         = Cardinality({i \in own : HasInstruction(i)})
                  /\ DOMAIN programs[k].labels = labels
        /\ \A i \in lines :
              /\ HasInstruction(i) =>
                    programs[ThreadOf(i)].instructions[Position(i) + 1]
                        = Head(parseLine(text[i]).instruction)
              /\ \A label \in parseLine(text[i]).label :
                    programs[ThreadOf(i)].labels[label] = Position(i)

(***************************************************************************)
(* A text is rejected if and only if a line of it cannot be parsed or      *)
(* repeats a label of its thread, and the error names the first such line. *)
(***************************************************************************)
ErrorsNameTheirLine ==
    LET bad == {i \in DOMAIN text : IsBad(i)}
    IN  Parsed.error = IF bad = {} THEN 0 ELSE CHOOSE i \in bad : \A j \in bad : i <= j

(* The instructions of all threads, and reading one as it is printed.      *)
Parsing == UNION {Range(Parsed.programs[k].instructions) : k \in DOMAIN Parsed.programs}

IsReadBack(instruction) ==
    parseLine(str(instruction)) = [NothingOn EXCEPT !.instruction = <<instruction>>]

(***************************************************************************)
(* What the interactive executor prints of an instruction can be read back *)
(* and is the same instruction, also after a register or a label wrapped   *)
(* around.  This is about all classes but FetchAndIncrement, of which      *)
(* CommandsAreReadBack speaks too.                                         *)
(***************************************************************************)
PrintedIsReadBack ==
    \A instruction \in Parsing :
        instruction.action # "FetchAndIncrement" => IsReadBack(instruction)

(***************************************************************************)
(* Commands of every class are read and printed alike: the test "Parse     *)
(* command" has one of each, "fei REL_ACQ #1 2" among them, and checks     *)
(* CHECK_EQ(command, instruction->str()) (test/ParserTest.cpp:15-24).      *)
(***************************************************************************)
CommandsAreReadBack == \A instruction \in Parsing : IsReadBack(instruction)
=============================================================================
