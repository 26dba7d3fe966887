------------------------------- MODULE Parser -------------------------------
(***************************************************************************)
(* Parser::parseFromStream: the loop over the lines of a file that         *)
(* assembles the programs of the threads.                                  *)
(***************************************************************************)
EXTENDS Instructions

THREAD_SEPARATOR == <<Word("MAKETHREAD")>>

(***************************************************************************)
(* The local variables of parseFromStream, with the line of the            *)
(* ParsingError it has thrown, or 0.                                       *)
(***************************************************************************)
Initially == [linesRead |-> 0, program |-> <<>>, labelMapping |-> <<>>,
              threadPrograms |-> <<>>, error |-> 0]

Program(p) == [instructions |-> p.program, labels |-> p.labelMapping]

(* Mutant of AfterSeparator: the label mapping is not cleared.             *)
AfterSeparatorKeepingLabels(p) ==
    IF p.program = <<>> THEN p
    ELSE [p EXCEPT !.threadPrograms = Append(@, Program(p)), !.program = <<>>]

(* Without instructions there is no thread, and the labels stay.           *)
AfterSeparator(p) ==
    IF p.program = <<>> THEN p
    ELSE [p EXCEPT !.threadPrograms = Append(@, Program(p)),
                   !.program = <<>>, !.labelMapping = <<>>]

(* The label mapping with these labels at the end of the program.          *)
WithLabels(p, labels) ==
    [l \in DOMAIN p.labelMapping \cup labels |->
        IF l \in labels THEN Len(p.program) ELSE p.labelMapping[l]]

(* Mutant of AfterCommand: a label that is there already is moved.         *)
AfterCommandMovingLabels(p, parsed) ==
    IF parsed.failed THEN [p EXCEPT !.error = p.linesRead]
    ELSE [p EXCEPT !.labelMapping = WithLabels(p, parsed.label),
                   !.program = @ \o parsed.instruction]

AfterCommand(p, parsed) ==
    IF parsed.failed \/ parsed.label \cap DOMAIN p.labelMapping # {}
    THEN [p EXCEPT !.error = p.linesRead]
    ELSE [p EXCEPT !.labelMapping = WithLabels(p, parsed.label),
                   !.program = @ \o parsed.instruction]

(* One iteration of the loop.                                              *)
AfterLine(p, line) ==
    LET read == [p EXCEPT !.linesRead = @ + 1]
    IN  IF p.error # 0 THEN p
        ELSE IF line = THREAD_SEPARATOR THEN AfterSeparator(read)
        ELSE AfterCommand(read, parseLine(line))

(* The local variables after each number of lines of a text.               *)
AfterLines(text) ==
    LET after[n \in 0 .. Len(text)] ==
            IF n = 0 THEN Initially ELSE AfterLine(after[n - 1], text[n])
    IN  after

(***************************************************************************)
(* The programs of a text, the last of which may be empty, and the number  *)
(* of the line that could not be parsed, or 0.                             *)
(***************************************************************************)
parseFromStream(text) ==
    LET p == AfterLines(text)[Len(text)]
    IN  [error |-> p.error, programs |-> Append(p.threadPrograms, Program(p))]
=============================================================================
