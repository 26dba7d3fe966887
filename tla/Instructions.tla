---------------------------- MODULE Instructions ----------------------------
(***************************************************************************)
(* The language of the simulated programs: the eight classes of            *)
(* instructions, how Parser::parseLine reads one from a line and how str() *)
(* prints it again.                                                        *)
(*                                                                         *)
(* A line is the sequence of its tokens, each a record that says what the  *)
(* parser could take it for; a Blank in it is white space at the beginning *)
(* or at the end, which matters to a comment and to a separator.           *)
(***************************************************************************)
EXTENDS MachineInt, SequencesExt

CONSTANT SizeRange  \* how many values a size_t has (2^64)

ASSUME SizeAssumption == SizeRange \in Nat /\ SizeRange > 2 * (MaxInt + 1)

Word(w)    == [kind |-> "word", text |-> w]      \* anything but the following
Number(n)  == [kind |-> "number", number |-> n]  \* "5"
Hash(n)    == [kind |-> "hash", number |-> n]    \* "#5"
Colon(n)   == [kind |-> "colon", number |-> n]   \* "5:"
Slashes    == [kind |-> "slashes"]               \* "//", or any longer word like it
Blank      == [kind |-> "blank"]

Token ==
    [kind : {"word"}, text : STRING] \cup
    [kind : {"number", "hash", "colon"}, number : Int] \cup {Slashes, Blank}

MemoryAccessModes == {"SEQ_CST", "REL", "ACQ", "REL_ACQ", "RLX"}
BinaryOperations  == {"+", "-", "*", "/"}
-----------------------------------------------------------------------------
(***************************************************************************)
(* The tokens of every class of instruction: words that stand for          *)
(* themselves, and the fields of the class, each with what it is.          *)
(***************************************************************************)
Form == [
    StoreConstInRegister |-> <<
        <<"register", "storeRegister">>, <<"word", "=">>, <<"constant", "value">>>>,
    StoreExprInRegister |-> <<
        <<"register", "storeRegister">>, <<"word", "=">>,
        <<"register", "leftRegister">>, <<"operation", "operation">>,
        <<"register", "rightRegister">>>>,
    Goto |-> <<
        <<"word", "if">>, <<"register", "conditionRegister">>,
        <<"word", "goto">>, <<"label", "label">>>>,
    Load |-> <<
        <<"word", "load">>, <<"mode", "mode">>,
        <<"address", "addressRegister">>, <<"register", "resultRegister">>>>,
    Store |-> <<
        <<"word", "store">>, <<"mode", "mode">>,
        <<"address", "addressRegister">>, <<"register", "valueRegister">>>>,
    CompareAndSwap |-> <<
        <<"word", "cas">>, <<"mode", "mode">>,
        <<"address", "addressRegister">>, <<"register", "expectedValueRegister">>,
        <<"register", "newValueRegister">>>>,
    FetchAndIncrement |-> <<
        <<"word", "fai">>, <<"mode", "mode">>,
        <<"address", "addressRegister">>, <<"register", "incrementRegister">>>>,
    Fence |-> <<<<"word", "fence">>, <<"mode", "memoryAccessMode">>>>]

Fields(action) == {i \in DOMAIN Form[action] : Form[action][i][1] # "word"}

(***************************************************************************)
(* A number is read from a stringstream, which stops at the first          *)
(* character that does not belong to it: "5:" is 5 wherever a register, a  *)
(* label or a constant is expected.                                        *)
(***************************************************************************)
BeginsWithNumber(token) == token.kind \in {"number", "colon"}

(* The numbers a size_t is read from; any other fails to be read.          *)
ReadAsSize == (1 - SizeRange) .. (SizeRange - 1)

Fits(token, part) ==
    CASE part[1] = "word"      -> token = Word(part[2])
      [] part[1] = "operation" -> token.kind = "word" /\ token.text \in BinaryOperations
      [] part[1] = "mode"      -> token.kind = "word" /\ token.text \in MemoryAccessModes
      [] part[1] = "address"   -> token.kind = "hash" /\ token.number \in ReadAsSize
      [] part[1] = "constant"  -> BeginsWithNumber(token) /\ token.number \in Int32
      [] OTHER                 -> BeginsWithNumber(token) /\ token.number \in ReadAsSize

(* A negative number is accepted for a size_t and wraps around.            *)
Meaning(token, part) ==
    CASE part[1] \in {"operation", "mode"} -> token.text
      [] part[1] = "constant" -> token.number
      [] OTHER -> token.number % SizeRange

Matches(tokens, action) ==
    /\ Len(tokens) = Len(Form[action])
    /\ \A i \in DOMAIN tokens : Fits(tokens[i], Form[action][i])

Instruction(tokens, action) ==
    [field \in {"action"} \cup {Form[action][i][2] : i \in Fields(action)} |->
        IF field = "action" THEN action
        ELSE LET i == CHOOSE i \in Fields(action) : Form[action][i][2] = field
             IN  Meaning(tokens[i], Form[action][i])]
-----------------------------------------------------------------------------
NothingOn == [failed |-> FALSE, label |-> {}, instruction |-> <<>>]
Malformed == [NothingOn EXCEPT !.failed = TRUE]

(* A line is a comment if "/" is its very first character.                 *)
IsComment(line) == line # <<>> /\ line[1] \in {Word("/"), Slashes}

(* parseTokens: the line without the white space around its tokens.        *)
Tokens(line) ==
    LET words == {i \in DOMAIN line : line[i] # Blank}
    IN  IF words = {} THEN <<>> ELSE SubSeq(line, Min(words), Max(words))

(***************************************************************************)
(* parseLine: the label and the instruction of a line, each of which may   *)
(* be missing: a set of at most one, a sequence of at most one.            *)
(***************************************************************************)
parseLine(line) ==
    LET tokens   == Tokens(line)
        labelled == tokens # <<>> /\ Head(tokens).kind = "colon"
        command  == IF labelled THEN Tail(tokens) ELSE tokens
        actions  == {action \in DOMAIN Form : Matches(command, action)}
    IN  IF IsComment(line) \/ tokens = <<>> THEN NothingOn
        ELSE IF labelled /\ Head(tokens).number \notin ReadAsSize THEN Malformed
        ELSE IF command # <<>> /\ actions = {} THEN Malformed
        ELSE [failed |-> FALSE,
              label |-> IF labelled THEN {Head(tokens).number % SizeRange} ELSE {},
              instruction |-> IF command = <<>> THEN <<>>
                              ELSE <<Instruction(command, CHOOSE a \in actions : TRUE)>>]

(* Mutant of Printed: an address without its "#".                          *)
PrintedBare(instruction, part) ==
    CASE part[1] = "word" -> Word(IF part[2] = "fai" THEN "fei" ELSE part[2])
      [] part[1] \in {"operation", "mode"} -> Word(instruction[part[2]])
      [] OTHER -> Number(instruction[part[2]])

(***************************************************************************)
(* str(): what the interactive executor shows its user.  The word it       *)
(* prints for a fetch-and-increment is not the one that parseLine reads.   *)
(***************************************************************************)
Printed(instruction, part) ==
    CASE part[1] = "word" -> Word(IF part[2] = "fai" THEN "fei" ELSE part[2])
      [] part[1] \in {"operation", "mode"} -> Word(instruction[part[2]])
      [] part[1] = "address" -> Hash(instruction[part[2]])
      [] OTHER -> Number(instruction[part[2]])

str(instruction) ==
    [i \in DOMAIN Form[instruction.action] |->
        Printed(instruction, Form[instruction.action][i])]
=============================================================================
