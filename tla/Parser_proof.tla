---------------------------- MODULE Parser_proof -----------------------------
(***************************************************************************)
(* Proofs about the parser: the loop of parseFromStream, what it makes of  *)
(* every text, that its programs are well formed, and that an instruction  *)
(* is read as it is printed.                                               *)
(***************************************************************************)
EXTENDS Texts, SequenceTheorems, FiniteSetTheorems, WellFoundedInduction, TLAPS

(* A set of numbers that has 0 and the successor of each of its members.   *)
LEMMA InductionOnSets ==
    ASSUME NEW T \in SUBSET Nat, 0 \in T, \A n \in T : n + 1 \in T
    PROVE  T = Nat
<1> SUFFICES ASSUME T # Nat PROVE FALSE
  OBVIOUS
<1> DEFINE Bad == Nat \ T
           R == {p \in Nat \X Nat : p[1] < p[2]}
<1>1. IsWellFoundedOn(R, Nat)
  BY NatLessThanWellFounded DEF OpToRel
<1>2. PICK b \in Bad : \A c \in Bad : ~(<<c, b>> \in R)
  <2>1. Bad \subseteq Nat /\ Bad # {}
    OBVIOUS
  <2> HIDE DEF Bad, R
  <2> QED BY <1>1, <2>1, WFMin
<1>3. b \in Nat /\ b \notin T /\ \A c \in Bad : ~(c < b)
  BY <1>2
<1>4. b # 0
  BY <1>3
<1>5. b - 1 \in Nat /\ b - 1 < b /\ (b - 1) + 1 = b
  BY <1>3, <1>4
<1>6. b - 1 \in T
  BY <1>3, <1>5
<1> QED BY <1>3, <1>5, <1>6

-----------------------------------------------------------------------------
(***************************************************************************)
(* The loop of parseFromStream: its local variables after n lines exist,   *)
(* come from those after n - 1 lines, and do not depend on later lines.    *)
(***************************************************************************)
IsLoop(f, n, lines) ==
    f = [m \in 0 .. n |-> IF m = 0 THEN Initially ELSE AfterLine(f[m - 1], lines[m])]

LEMMA LoopExists ==
    ASSUME NEW lines
    PROVE  \A n \in Nat : \E f : IsLoop(f, n, lines)
<1> DEFINE T == {n \in Nat : \E f : IsLoop(f, n, lines)}
<1>1. 0 \in T
  <2>1. IsLoop([m \in 0 .. 0 |-> Initially], 0, lines)
    BY DEF IsLoop
  <2> QED BY <2>1
<1>2. ASSUME NEW n \in T PROVE n + 1 \in T
  <2>1. n \in Nat
    OBVIOUS
  <2>2. PICK f : IsLoop(f, n, lines)
    OBVIOUS
  <2> DEFINE g == [m \in 0 .. (n + 1) |->
                      IF m = n + 1 THEN AfterLine(f[n], lines[n + 1]) ELSE f[m]]
  <2>3. \A m \in 0 .. n : g[m] = f[m]
    BY <2>1
  <2>4. ASSUME NEW m \in 0 .. (n + 1)
        PROVE  g[m] = IF m = 0 THEN Initially ELSE AfterLine(g[m - 1], lines[m])
    <3>1. CASE m = n + 1
      <4>1. g[m] = AfterLine(f[n], lines[m]) /\ m # 0 /\ m - 1 = n /\ g[n] = f[n]
        BY <2>1, <2>3, <3>1
      <4> HIDE DEF g
      <4> QED BY <4>1
    <3>2. CASE m # n + 1
      <4>1. m \in 0 .. n /\ (m # 0 => m - 1 \in 0 .. n)
        BY <2>1, <3>2
      <4>2. f[m] = IF m = 0 THEN Initially ELSE AfterLine(f[m - 1], lines[m])
        BY <2>2, <4>1 DEF IsLoop
      <4>3. g[m] = f[m] /\ (m # 0 => g[m - 1] = f[m - 1])
        BY <2>3, <4>1
      <4> HIDE DEF g
      <4> QED BY <4>2, <4>3
    <3> QED BY <3>1, <3>2
  <2>5. IsLoop(g, n + 1, lines)
    <3>1. g = [m \in 0 .. (n + 1) |-> g[m]]
      OBVIOUS
    <3> HIDE DEF g
    <3> QED BY <2>4, <3>1 DEF IsLoop
  <2> HIDE DEF g
  <2> QED BY <2>1, <2>5
<1> HIDE DEF T
<1>3. T = Nat
  <2>1. T \in SUBSET Nat
    BY DEF T
  <2> QED BY <1>1, <1>2, <2>1, InductionOnSets
<1> QED BY <1>3 DEF T

LEMMA LoopUnfolds ==
    ASSUME NEW S, NEW lines \in Seq(S)
    PROVE  /\ AfterLines(lines)[0] = Initially
           /\ \A n \in 1 .. Len(lines) :
                 AfterLines(lines)[n] = AfterLine(AfterLines(lines)[n - 1], lines[n])
<1> DEFINE N == Len(lines)
           f == AfterLines(lines)
<1>1. N \in Nat
  OBVIOUS
<1>2. IsLoop(f, N, lines)
  <2>1. \E g : IsLoop(g, N, lines)
    BY <1>1, LoopExists
  <2>2. f = CHOOSE g : IsLoop(g, N, lines)
    BY DEF AfterLines, IsLoop
  <2> HIDE DEF N, f
  <2> QED BY <2>1, <2>2
<1>3. \A m \in 0 .. N : f[m] = IF m = 0 THEN Initially ELSE AfterLine(f[m - 1], lines[m])
  <2> HIDE DEF N, f
  <2> QED BY <1>2 DEF IsLoop
<1> HIDE DEF f
<1>4. f[0] = Initially
  BY <1>1, <1>3
<1>5. ASSUME NEW n \in 1 .. N PROVE f[n] = AfterLine(f[n - 1], lines[n])
  BY <1>1, <1>3
<1> QED BY <1>4, <1>5 DEF f

LEMMA LoopOfPrefix ==
    ASSUME NEW S, NEW lines \in Seq(S), NEW line \in S
    PROVE  \A n \in 0 .. Len(lines) :
              AfterLines(Append(lines, line))[n] = AfterLines(lines)[n]
<1> DEFINE longer == Append(lines, line)
           f == AfterLines(lines)
           g == AfterLines(longer)
           N == Len(lines)
           T == {n \in Nat : n \in 0 .. N => g[n] = f[n]}
<1>1. /\ N \in Nat /\ longer \in Seq(S) /\ Len(longer) = N + 1
      /\ \A n \in 1 .. N : longer[n] = lines[n]
  BY AppendProperties
<1> HIDE DEF longer
<1>2. /\ g[0] = Initially
      /\ \A n \in 1 .. (N + 1) : g[n] = AfterLine(g[n - 1], longer[n])
  BY <1>1, LoopUnfolds
<1>3. /\ f[0] = Initially
      /\ \A n \in 1 .. N : f[n] = AfterLine(f[n - 1], lines[n])
  BY <1>1, LoopUnfolds
<1> HIDE DEF f, g, N
<1>4. 0 \in T
  BY <1>2, <1>3
<1>5. ASSUME NEW n \in T PROVE n + 1 \in T
  <2> SUFFICES ASSUME n + 1 \in 0 .. N PROVE g[n + 1] = f[n + 1]
    OBVIOUS
  <2>1. n \in 0 .. N /\ n + 1 \in 1 .. N /\ n + 1 \in 1 .. (N + 1) /\ (n + 1) - 1 = n
    BY <1>1
  <2>2. g[n] = f[n]
    BY <2>1
  <2> QED BY <1>1, <1>2, <1>3, <2>1, <2>2
<1>6. T = Nat
  <2>1. T \in SUBSET Nat
    OBVIOUS
  <2> HIDE DEF T
  <2> QED BY <1>4, <1>5, <2>1, InductionOnSets
<1> QED BY <1>1, <1>6 DEF f, g, N, longer

(***************************************************************************)
(* One more line of a text is one more iteration of the loop.              *)
(***************************************************************************)
Loop(lines) == AfterLines(lines)[Len(lines)]

LEMMA LoopAppend ==
    ASSUME NEW S, NEW lines \in Seq(S), NEW line \in S
    PROVE  Loop(Append(lines, line)) = AfterLine(Loop(lines), line)
<1> DEFINE longer == Append(lines, line)
<1>1. /\ Len(lines) \in Nat /\ longer \in Seq(S) /\ Len(longer) = Len(lines) + 1
      /\ longer[Len(lines) + 1] = line
  BY AppendProperties
<1>2. AfterLines(longer)[Len(lines)] = AfterLines(lines)[Len(lines)]
  BY <1>1, LoopOfPrefix
<1> HIDE DEF longer
<1>3. AfterLines(longer)[Len(lines) + 1]
        = AfterLine(AfterLines(longer)[Len(lines)], longer[Len(lines) + 1])
  <2>1. Len(lines) + 1 \in 1 .. Len(longer) /\ (Len(lines) + 1) - 1 = Len(lines)
    BY <1>1
  <2>2. \A n \in 1 .. Len(longer) :
           AfterLines(longer)[n] = AfterLine(AfterLines(longer)[n - 1], longer[n])
    BY <1>1, LoopUnfolds
  <2> QED BY <2>1, <2>2
<1>4. Loop(longer) = AfterLine(Loop(lines), line)
  BY <1>1, <1>2, <1>3 DEF Loop
<1> QED BY <1>4 DEF longer

LEMMA LoopEmpty == Loop(<<>>) = Initially
<1>1. <<>> \in Seq({}) /\ Len(<<>>) = 0
  OBVIOUS
<1> QED BY <1>1, LoopUnfolds DEF Loop

-----------------------------------------------------------------------------
(***************************************************************************)
(* The classes of instructions: no two fields of one have the same name,   *)
(* none is called action, and they begin differently.                      *)
(***************************************************************************)
Kinds == {"word", "register", "constant", "operation", "label", "mode", "address"}

IsForm(form) ==
    /\ Len(form) \in Nat \ {0} /\ DOMAIN form = 1 .. Len(form)
    /\ \A k \in 1 .. Len(form) :
          form[k][1] \in Kinds /\ form[k] = <<form[k][1], form[k][2]>>
    /\ \A k \in 1 .. Len(form) : form[k][1] # "word" => form[k][2] # "action"
    /\ \A j, k \in 1 .. Len(form) :
          form[j][1] # "word" /\ form[k][1] # "word" /\ form[j][2] = form[k][2]
             => j = k

(* The length of each class, and the words that tell classes apart.        *)
Opening ==
    /\ Len(Form.StoreConstInRegister) = 3 /\ Form.StoreConstInRegister[1][1] = "register"
    /\ Len(Form.StoreExprInRegister) = 5 /\ Form.StoreExprInRegister[1][1] = "register"
    /\ Len(Form.Goto) = 4 /\ Form.Goto[1][1] = "word" /\ Form.Goto[1][2] = "if"
    /\ Len(Form.Load) = 4 /\ Form.Load[1][1] = "word" /\ Form.Load[1][2] = "load"
    /\ Len(Form.Store) = 4 /\ Form.Store[1][1] = "word" /\ Form.Store[1][2] = "store"
    /\ Len(Form.CompareAndSwap) = 5
    /\ Form.CompareAndSwap[1][1] = "word" /\ Form.CompareAndSwap[1][2] = "cas"
    /\ Len(Form.FetchAndIncrement) = 4
    /\ Form.FetchAndIncrement[1][1] = "word" /\ Form.FetchAndIncrement[1][2] = "fai"
    /\ Len(Form.Fence) = 2 /\ Form.Fence[1][1] = "word" /\ Form.Fence[1][2] = "fence"

Classes ==
    {"StoreConstInRegister", "StoreExprInRegister", "Goto", "Load",
     "Store", "CompareAndSwap", "FetchAndIncrement", "Fence"}

LEMMA Forms ==
    /\ DOMAIN Form = Classes
    /\ \A action \in Classes : IsForm(Form[action])
    /\ Opening
<1>1. DOMAIN Form = Classes
  BY DEF Form, Classes
<1>2. IsForm(Form.StoreConstInRegister)
  <2> DEFINE form == Form.StoreConstInRegister
  <2>1. /\ Len(form) = 3 /\ DOMAIN form = 1 .. 3
        /\ form[1] = <<"register", "storeRegister">>
        /\ form[2] = <<"word", "=">>
        /\ form[3] = <<"constant", "value">>
    BY DEF Form
  <2> HIDE DEF form
  <2>2. 1 .. Len(form) = {1, 2, 3}
    BY <2>1
  <2>3. \A k \in {1, 2, 3} :
           form[k][1] \in Kinds /\ form[k] = <<form[k][1], form[k][2]>>
    BY <2>1 DEF Kinds
  <2>4. IsForm(form)
    BY <2>1, <2>2, <2>3 DEF IsForm
  <2> QED BY <2>4 DEF form
<1>3. IsForm(Form.StoreExprInRegister)
  <2> DEFINE form == Form.StoreExprInRegister
  <2>1. /\ Len(form) = 5 /\ DOMAIN form = 1 .. 5
        /\ form[1] = <<"register", "storeRegister">>
        /\ form[2] = <<"word", "=">>
        /\ form[3] = <<"register", "leftRegister">>
        /\ form[4] = <<"operation", "operation">>
        /\ form[5] = <<"register", "rightRegister">>
    BY DEF Form
  <2> HIDE DEF form
  <2>2. 1 .. Len(form) = {1, 2, 3, 4, 5}
    BY <2>1
  <2>3. \A k \in {1, 2, 3, 4, 5} :
           form[k][1] \in Kinds /\ form[k] = <<form[k][1], form[k][2]>>
    BY <2>1 DEF Kinds
  <2>4. IsForm(form)
    BY <2>1, <2>2, <2>3 DEF IsForm
  <2> QED BY <2>4 DEF form
<1>4. IsForm(Form.Goto)
  <2> DEFINE form == Form.Goto
  <2>1. /\ Len(form) = 4 /\ DOMAIN form = 1 .. 4
        /\ form[1] = <<"word", "if">>
        /\ form[2] = <<"register", "conditionRegister">>
        /\ form[3] = <<"word", "goto">>
        /\ form[4] = <<"label", "label">>
    BY DEF Form
  <2> HIDE DEF form
  <2>2. 1 .. Len(form) = {1, 2, 3, 4}
    BY <2>1
  <2>3. \A k \in {1, 2, 3, 4} :
           form[k][1] \in Kinds /\ form[k] = <<form[k][1], form[k][2]>>
    BY <2>1 DEF Kinds
  <2>4. IsForm(form)
    BY <2>1, <2>2, <2>3 DEF IsForm
  <2> QED BY <2>4 DEF form
<1>5. IsForm(Form.Load)
  <2> DEFINE form == Form.Load
  <2>1. /\ Len(form) = 4 /\ DOMAIN form = 1 .. 4
        /\ form[1] = <<"word", "load">>
        /\ form[2] = <<"mode", "mode">>
        /\ form[3] = <<"address", "addressRegister">>
        /\ form[4] = <<"register", "resultRegister">>
    BY DEF Form
  <2> HIDE DEF form
  <2>2. 1 .. Len(form) = {1, 2, 3, 4}
    BY <2>1
  <2>3. \A k \in {1, 2, 3, 4} :
           form[k][1] \in Kinds /\ form[k] = <<form[k][1], form[k][2]>>
    BY <2>1 DEF Kinds
  <2>4. IsForm(form)
    BY <2>1, <2>2, <2>3 DEF IsForm
  <2> QED BY <2>4 DEF form
<1>6. IsForm(Form.Store)
  <2> DEFINE form == Form.Store
  <2>1. /\ Len(form) = 4 /\ DOMAIN form = 1 .. 4
        /\ form[1] = <<"word", "store">>
        /\ form[2] = <<"mode", "mode">>
        /\ form[3] = <<"address", "addressRegister">>
        /\ form[4] = <<"register", "valueRegister">>
    BY DEF Form
  <2> HIDE DEF form
  <2>2. 1 .. Len(form) = {1, 2, 3, 4}
    BY <2>1
  <2>3. \A k \in {1, 2, 3, 4} :
           form[k][1] \in Kinds /\ form[k] = <<form[k][1], form[k][2]>>
    BY <2>1 DEF Kinds
  <2>4. IsForm(form)
    BY <2>1, <2>2, <2>3 DEF IsForm
  <2> QED BY <2>4 DEF form
<1>7. IsForm(Form.CompareAndSwap)
  <2> DEFINE form == Form.CompareAndSwap
  <2>1. /\ Len(form) = 5 /\ DOMAIN form = 1 .. 5
        /\ form[1] = <<"word", "cas">>
        /\ form[2] = <<"mode", "mode">>
        /\ form[3] = <<"address", "addressRegister">>
        /\ form[4] = <<"register", "expectedValueRegister">>
        /\ form[5] = <<"register", "newValueRegister">>
    BY DEF Form
  <2> HIDE DEF form
  <2>2. 1 .. Len(form) = {1, 2, 3, 4, 5}
    BY <2>1
  <2>3. \A k \in {1, 2, 3, 4, 5} :
           form[k][1] \in Kinds /\ form[k] = <<form[k][1], form[k][2]>>
    BY <2>1 DEF Kinds
  <2>4. IsForm(form)
    BY <2>1, <2>2, <2>3 DEF IsForm
  <2> QED BY <2>4 DEF form
<1>8. IsForm(Form.FetchAndIncrement)
  <2> DEFINE form == Form.FetchAndIncrement
  <2>1. /\ Len(form) = 4 /\ DOMAIN form = 1 .. 4
        /\ form[1] = <<"word", "fai">>
        /\ form[2] = <<"mode", "mode">>
        /\ form[3] = <<"address", "addressRegister">>
        /\ form[4] = <<"register", "incrementRegister">>
    BY DEF Form
  <2> HIDE DEF form
  <2>2. 1 .. Len(form) = {1, 2, 3, 4}
    BY <2>1
  <2>3. \A k \in {1, 2, 3, 4} :
           form[k][1] \in Kinds /\ form[k] = <<form[k][1], form[k][2]>>
    BY <2>1 DEF Kinds
  <2>4. IsForm(form)
    BY <2>1, <2>2, <2>3 DEF IsForm
  <2> QED BY <2>4 DEF form
<1>9. IsForm(Form.Fence)
  <2> DEFINE form == Form.Fence
  <2>1. /\ Len(form) = 2 /\ DOMAIN form = 1 .. 2
        /\ form[1] = <<"word", "fence">>
        /\ form[2] = <<"mode", "memoryAccessMode">>
    BY DEF Form
  <2> HIDE DEF form
  <2>2. 1 .. Len(form) = {1, 2}
    BY <2>1
  <2>3. \A k \in {1, 2} :
           form[k][1] \in Kinds /\ form[k] = <<form[k][1], form[k][2]>>
    BY <2>1 DEF Kinds
  <2>4. IsForm(form)
    BY <2>1, <2>2, <2>3 DEF IsForm
  <2> QED BY <2>4 DEF form
<1>10. Opening
  BY DEF Form, Opening
<1> QED BY <1>1, <1>2, <1>3, <1>4, <1>5, <1>6, <1>7, <1>8, <1>9, <1>10 DEF Classes

-----------------------------------------------------------------------------
(***************************************************************************)
(* The instructions: the fields of each class, with what they may hold.    *)
(***************************************************************************)
Size == 0 .. (SizeRange - 1)

FieldType(part) ==
    CASE part[1] = "operation" -> BinaryOperations
      [] part[1] = "mode"      -> MemoryAccessModes
      [] part[1] = "constant"  -> Int32
      [] OTHER                 -> Size

FieldNames(action) == {"action"} \cup {Form[action][i][2] : i \in Fields(action)}

Contents == Classes \cup BinaryOperations \cup MemoryAccessModes \cup Int32 \cup Size

InstructionsOf(action) ==
    {instruction \in [FieldNames(action) -> Contents] :
        /\ instruction.action = action
        /\ \A i \in Fields(action) :
              instruction[Form[action][i][2]] \in FieldType(Form[action][i])}

AllInstructions == UNION {InstructionsOf(action) : action \in Classes}

LEMMA FieldsOfClass ==
    ASSUME NEW action \in Classes
    PROVE  /\ Fields(action) = {i \in 1 .. Len(Form[action]) : Form[action][i][1] # "word"}
           /\ \A i \in Fields(action) : Form[action][i][2] # "action"
           /\ \A i \in Fields(action) :
                 (CHOOSE j \in Fields(action) : Form[action][j][2] = Form[action][i][2]) = i
<1>1. IsForm(Form[action])
  BY Forms
<1>2. Fields(action) = {i \in 1 .. Len(Form[action]) : Form[action][i][1] # "word"}
  BY <1>1 DEF Fields, IsForm
<1>3. \A i, j \in Fields(action) : Form[action][j][2] = Form[action][i][2] => j = i
  BY <1>1, <1>2 DEF IsForm
<1>4. \A i \in Fields(action) : Form[action][i][2] # "action"
  BY <1>1, <1>2 DEF IsForm
<1> QED BY <1>2, <1>3, <1>4

(* An instruction read from tokens has the meaning of each in its field.   *)
LEMMA InstructionFields ==
    ASSUME NEW tokens, NEW action \in Classes
    PROVE  /\ DOMAIN Instruction(tokens, action) = FieldNames(action)
           /\ Instruction(tokens, action)
                 = [field \in FieldNames(action) |-> Instruction(tokens, action)[field]]
           /\ Instruction(tokens, action).action = action
           /\ \A i \in Fields(action) :
                 Instruction(tokens, action)[Form[action][i][2]]
                    = Meaning(tokens[i], Form[action][i])
<1>1. ASSUME NEW i \in Fields(action)
      PROVE  Instruction(tokens, action)[Form[action][i][2]]
                = Meaning(tokens[i], Form[action][i])
  <2>1. /\ Form[action][i][2] \in FieldNames(action)
        /\ Form[action][i][2] # "action"
        /\ (CHOOSE j \in Fields(action) : Form[action][j][2] = Form[action][i][2]) = i
    BY FieldsOfClass DEF FieldNames
  <2> QED BY <2>1 DEF Instruction, FieldNames
<1>2. "action" \in FieldNames(action)
  BY DEF FieldNames
<1>3. /\ DOMAIN Instruction(tokens, action) = FieldNames(action)
      /\ Instruction(tokens, action).action = action
  BY <1>2 DEF Instruction, FieldNames
<1>4. Instruction(tokens, action)
         = [field \in FieldNames(action) |-> Instruction(tokens, action)[field]]
  BY DEF Instruction, FieldNames
<1> QED BY <1>1, <1>3, <1>4

LEMMA MeaningType ==
    ASSUME NEW token \in Token, NEW part, part[1] \in Kinds \ {"word"}, Fits(token, part)
    PROVE  Meaning(token, part) \in FieldType(part)
<1>1. \A n \in Int : n % SizeRange \in Size
  BY IntAssumption, SizeAssumption DEF Size
<1>2. token.kind \in {"number", "hash", "colon"} => token.number \in Int
  BY DEF Token, Slashes, Blank
<1>3. CASE part[1] \in {"operation", "mode"}
  BY <1>3 DEF Fits, Meaning, FieldType
<1>4. CASE part[1] = "constant"
  BY <1>4 DEF Fits, Meaning, FieldType
<1>5. CASE part[1] = "address"
  BY <1>1, <1>2, <1>5 DEF Fits, Meaning, FieldType
<1>6. CASE part[1] \in {"register", "label"}
  BY <1>1, <1>2, <1>6 DEF Fits, Meaning, FieldType, BeginsWithNumber
<1> QED BY <1>3, <1>4, <1>5, <1>6 DEF Kinds

LEMMA InstructionType ==
    ASSUME NEW tokens \in Seq(Token), NEW action \in Classes, Matches(tokens, action)
    PROVE  Instruction(tokens, action) \in AllInstructions
<1> DEFINE instruction == Instruction(tokens, action)
<1>1. /\ instruction = [field \in FieldNames(action) |-> instruction[field]]
      /\ instruction.action = action
      /\ \A i \in Fields(action) :
            instruction[Form[action][i][2]] = Meaning(tokens[i], Form[action][i])
  BY InstructionFields
<1>2. ASSUME NEW i \in Fields(action)
      PROVE  instruction[Form[action][i][2]] \in FieldType(Form[action][i])
  <2>1. /\ i \in 1 .. Len(Form[action]) /\ Form[action][i][1] # "word"
        /\ Form[action][i][1] \in Kinds
    BY FieldsOfClass, Forms DEF IsForm
  <2>2. i \in DOMAIN tokens /\ tokens[i] \in Token /\ Fits(tokens[i], Form[action][i])
    BY <2>1 DEF Matches
  <2> QED BY <1>1, <2>1, <2>2, MeaningType
<1>3. ASSUME NEW field \in FieldNames(action)
      PROVE  instruction[field] \in Contents
  <2>1. CASE field = "action"
    BY <1>1, <2>1 DEF Contents
  <2>2. CASE field # "action"
    <3>1. PICK i \in Fields(action) : field = Form[action][i][2]
      BY <2>2 DEF FieldNames
    <3>2. instruction[field] \in FieldType(Form[action][i])
      BY <1>2, <3>1
    <3> QED BY <3>2 DEF FieldType, Contents
  <2> QED BY <2>1, <2>2
<1> HIDE DEF instruction
<1>4. instruction \in [FieldNames(action) -> Contents]
  BY <1>1, <1>3
<1>5. instruction \in InstructionsOf(action)
  BY <1>1, <1>2, <1>4 DEF InstructionsOf
<1> QED BY <1>5 DEF AllInstructions, instruction
(* What the fields of each class may hold.                                 *)
LEMMA FieldTyped ==
    ASSUME NEW instruction \in AllInstructions,
           NEW i \in 1 .. Len(Form[instruction.action]),
           Form[instruction.action][i][1] # "word"
    PROVE  /\ Form[instruction.action][i][2] \in DOMAIN instruction
           /\ instruction[Form[instruction.action][i][2]]
                 \in FieldType(Form[instruction.action][i])
<1>1. PICK action \in Classes : instruction \in InstructionsOf(action)
  BY DEF AllInstructions
<1>2. instruction.action = action /\ DOMAIN instruction = FieldNames(action)
  BY <1>1 DEF InstructionsOf
<1>3. i \in Fields(action)
  BY <1>2, FieldsOfClass
<1> QED BY <1>1, <1>2, <1>3 DEF InstructionsOf, FieldNames

LEMMA FieldsTyped ==
    ASSUME NEW instruction \in AllInstructions
    PROVE  LET fields == DOMAIN instruction
           IN  /\ instruction.action \in Classes
               /\ instruction.action = "StoreConstInRegister" =>
                     "storeRegister" \in fields /\ instruction.value \in Int32
               /\ instruction.action = "StoreExprInRegister" =>
                     /\ {"storeRegister", "leftRegister", "rightRegister"} \subseteq fields
                     /\ instruction.operation \in BinaryOperations
               /\ instruction.action = "Goto" => "conditionRegister" \in fields
               /\ instruction.action = "Load" =>
                     /\ {"addressRegister", "resultRegister"} \subseteq fields
                     /\ instruction.mode \in MemoryAccessModes
               /\ instruction.action = "Store" =>
                     /\ {"addressRegister", "valueRegister"} \subseteq fields
                     /\ instruction.mode \in MemoryAccessModes
               /\ instruction.action = "CompareAndSwap" =>
                     /\ {"addressRegister", "expectedValueRegister", "newValueRegister"}
                           \subseteq fields
                     /\ instruction.mode \in MemoryAccessModes
               /\ instruction.action = "FetchAndIncrement" =>
                     /\ {"addressRegister", "incrementRegister"} \subseteq fields
                     /\ instruction.mode \in MemoryAccessModes
               /\ instruction.action = "Fence" =>
                     instruction.memoryAccessMode \in MemoryAccessModes
<1> DEFINE form == Form[instruction.action]
<1>1. instruction.action \in Classes
  BY DEF AllInstructions, InstructionsOf
<1>2. \A i \in 1 .. Len(form) : form[i][1] # "word" =>
         form[i][2] \in DOMAIN instruction /\ instruction[form[i][2]] \in FieldType(form[i])
  BY FieldTyped
<1>3. CASE instruction.action = "StoreConstInRegister"
  <2>1. /\ Len(form) = 3 /\ form[1] = <<"register", "storeRegister">>
        /\ form[3] = <<"constant", "value">>
    BY <1>3 DEF Form
  <2> HIDE DEF form
  <2>2. 1 \in 1 .. Len(form) /\ 3 \in 1 .. Len(form)
    BY <2>1
  <2> QED BY <1>1, <1>2, <1>3, <2>1, <2>2 DEF FieldType
<1>4. CASE instruction.action = "StoreExprInRegister"
  <2>1. /\ Len(form) = 5 /\ form[1] = <<"register", "storeRegister">>
        /\ form[3] = <<"register", "leftRegister">>
        /\ form[4] = <<"operation", "operation">>
        /\ form[5] = <<"register", "rightRegister">>
    BY <1>4 DEF Form
  <2> HIDE DEF form
  <2>2. \A i \in {1, 3, 4, 5} : i \in 1 .. Len(form)
    BY <2>1
  <2>3. /\ {"storeRegister", "leftRegister", "rightRegister"} \subseteq DOMAIN instruction
        /\ instruction.operation \in BinaryOperations
    BY <1>2, <2>1, <2>2 DEF FieldType
  <2> QED BY <1>1, <1>4, <2>3
<1>5. CASE instruction.action = "Goto"
  <2>1. Len(form) = 4 /\ form[2] = <<"register", "conditionRegister">>
    BY <1>5 DEF Form
  <2> HIDE DEF form
  <2>2. 2 \in 1 .. Len(form)
    BY <2>1
  <2> QED BY <1>1, <1>2, <1>5, <2>1, <2>2
<1>6. CASE instruction.action = "Load"
  <2>1. /\ Len(form) = 4
        /\ form[2] = <<"mode", "mode">>
        /\ form[3] = <<"address", "addressRegister">>
        /\ form[4] = <<"register", "resultRegister">>
    BY <1>6 DEF Form
  <2> HIDE DEF form
  <2>2. \A i \in {2, 3, 4} : i \in 1 .. Len(form)
    BY <2>1
  <2>3. /\ {"addressRegister", "resultRegister"} \subseteq DOMAIN instruction
        /\ instruction.mode \in MemoryAccessModes
    BY <1>2, <2>1, <2>2 DEF FieldType
  <2> QED BY <1>1, <1>6, <2>3
<1>7. CASE instruction.action = "Store"
  <2>1. /\ Len(form) = 4
        /\ form[2] = <<"mode", "mode">>
        /\ form[3] = <<"address", "addressRegister">>
        /\ form[4] = <<"register", "valueRegister">>
    BY <1>7 DEF Form
  <2> HIDE DEF form
  <2>2. \A i \in {2, 3, 4} : i \in 1 .. Len(form)
    BY <2>1
  <2>3. /\ {"addressRegister", "valueRegister"} \subseteq DOMAIN instruction
        /\ instruction.mode \in MemoryAccessModes
    BY <1>2, <2>1, <2>2 DEF FieldType
  <2> QED BY <1>1, <1>7, <2>3
<1>8. CASE instruction.action = "CompareAndSwap"
  <2>1. /\ Len(form) = 5
        /\ form[2] = <<"mode", "mode">>
        /\ form[3] = <<"address", "addressRegister">>
        /\ form[4] = <<"register", "expectedValueRegister">>
        /\ form[5] = <<"register", "newValueRegister">>
    BY <1>8 DEF Form
  <2> HIDE DEF form
  <2>2. \A i \in {2, 3, 4, 5} : i \in 1 .. Len(form)
    BY <2>1
  <2>3. /\ {"addressRegister", "expectedValueRegister", "newValueRegister"}
              \subseteq DOMAIN instruction
        /\ instruction.mode \in MemoryAccessModes
    BY <1>2, <2>1, <2>2 DEF FieldType
  <2> QED BY <1>1, <1>8, <2>3
<1>9. CASE instruction.action = "FetchAndIncrement"
  <2>1. /\ Len(form) = 4
        /\ form[2] = <<"mode", "mode">>
        /\ form[3] = <<"address", "addressRegister">>
        /\ form[4] = <<"register", "incrementRegister">>
    BY <1>9 DEF Form
  <2> HIDE DEF form
  <2>2. \A i \in {2, 3, 4} : i \in 1 .. Len(form)
    BY <2>1
  <2>3. /\ {"addressRegister", "incrementRegister"} \subseteq DOMAIN instruction
        /\ instruction.mode \in MemoryAccessModes
    BY <1>2, <2>1, <2>2 DEF FieldType
  <2> QED BY <1>1, <1>9, <2>3
<1>10. CASE instruction.action = "Fence"
  <2>1. /\ Len(form) = 2
        /\ form[2] = <<"mode", "memoryAccessMode">>
    BY <1>10 DEF Form
  <2> HIDE DEF form
  <2>2. \A i \in {2} : i \in 1 .. Len(form)
    BY <2>1
  <2>3. instruction.memoryAccessMode \in MemoryAccessModes
    BY <1>2, <2>1, <2>2 DEF FieldType
  <2> QED BY <1>1, <1>10, <2>3
<1> QED BY <1>1, <1>3, <1>4, <1>5, <1>6, <1>7, <1>8, <1>9, <1>10 DEF Classes

-----------------------------------------------------------------------------
(***************************************************************************)
(* The tokens of a line without the white space around them.               *)
(***************************************************************************)
LEMMA Extremes ==
    ASSUME NEW n \in Nat, NEW I \in SUBSET (1 .. n), I # {}
    PROVE  Min(I) \in I /\ Max(I) \in I /\ \A i \in I : Min(I) <= i /\ i <= Max(I)
<1> DEFINE HasMax(J) == \E x \in J : \A y \in J : x >= y
           HasMin(J) == \E x \in J : \A y \in J : x <= y
           T == {m \in Nat : \A J \in SUBSET (1 .. m) : J # {} => HasMax(J) /\ HasMin(J)}
<1>1. 0 \in T
  <2>1. 1 .. 0 = {}
    OBVIOUS
  <2> HIDE DEF HasMax, HasMin
  <2> QED BY <2>1
<1>2. ASSUME NEW m \in T PROVE m + 1 \in T
  <2> SUFFICES ASSUME NEW J \in SUBSET (1 .. (m + 1)), J # {}
               PROVE  HasMax(J) /\ HasMin(J)
    OBVIOUS
  <2>1. m \in Nat /\ \A j \in J : j \in Nat /\ j <= m + 1
    OBVIOUS
  <2>2. J \ {m + 1} \in SUBSET (1 .. m)
    BY <2>1
  <2>3. CASE J \ {m + 1} = {}
    <3>1. J = {m + 1}
      BY <2>3
    <3> QED BY <2>1, <3>1
  <2>4. CASE J \ {m + 1} # {}
    <3>1. HasMax(J \ {m + 1}) /\ HasMin(J \ {m + 1})
      BY <2>2, <2>4
    <3>2. HasMax(J)
      <4>1. CASE m + 1 \in J
        BY <2>1, <4>1
      <4>2. CASE m + 1 \notin J
        <5>1. J \ {m + 1} = J
          BY <4>2
        <5> QED BY <3>1, <5>1
      <4> QED BY <4>1, <4>2
    <3>3. PICK x \in J \ {m + 1} : \A y \in J \ {m + 1} : x <= y
      BY <3>1
    <3>4. \A y \in J : x <= y
      BY <2>1, <3>3
    <3> QED BY <3>2, <3>3, <3>4
  <2> QED BY <2>3, <2>4
<1>3. T = Nat
  <2>1. T \in SUBSET Nat
    OBVIOUS
  <2> HIDE DEF T
  <2> QED BY <1>1, <1>2, <2>1, InductionOnSets
<1>4. HasMax(I) /\ HasMin(I)
  <2> HIDE DEF HasMax, HasMin
  <2>1. n \in T
    BY <1>3
  <2> QED BY <2>1
<1>5. Max(I) \in I /\ \A y \in I : Max(I) >= y
  BY <1>4 DEF Max
<1>6. Min(I) \in I /\ \A y \in I : Min(I) <= y
  BY <1>4 DEF Min
<1> QED BY <1>5, <1>6

LEMMA TokensType ==
    ASSUME NEW line \in Seq(Token)
    PROVE  Tokens(line) \in Seq(Token)
<1> DEFINE words == {i \in DOMAIN line : line[i] # Blank}
<1>1. Len(line) \in Nat /\ words \in SUBSET (1 .. Len(line))
  BY LenProperties
<1>2. CASE words = {}
  BY <1>2 DEF Tokens
<1>3. CASE words # {}
  <2> HIDE DEF words
  <2>1. Min(words) \in 1 .. Len(line) /\ Max(words) \in 1 .. Len(line)
    BY <1>1, <1>3, Extremes
  <2>2. \A i \in Min(words) .. Max(words) : line[i] \in Token
    BY <1>1, <2>1, ElementOfSeq
  <2>3. SubSeq(line, Min(words), Max(words)) \in Seq(Token)
    BY <2>1, <2>2, SubSeqProperties
  <2> QED BY <1>3, <2>3 DEF Tokens, words
<1> QED BY <1>2, <1>3

(* White space is all there is to take away.                               *)
LEMMA TokensWithoutBlanks ==
    ASSUME NEW S, NEW line \in Seq(S), line # <<>>,
           \A i \in 1 .. Len(line) : line[i] # Blank
    PROVE  Tokens(line) = line
<1>1. Len(line) \in Nat /\ DOMAIN line = 1 .. Len(line) /\ Len(line) # 0
  BY LenProperties, EmptySeq
<1> DEFINE words == {i \in DOMAIN line : line[i] # Blank}
<1>2. words = 1 .. Len(line)
  BY <1>1
<1>3. Tokens(line) = IF words = {} THEN <<>> ELSE SubSeq(line, Min(words), Max(words))
  BY DEF Tokens
<1> HIDE DEF words
<1>4. words \in SUBSET (1 .. Len(line)) /\ words # {}
  BY <1>1, <1>2
<1>5. /\ Min(words) \in words /\ Max(words) \in words
      /\ \A i \in words : Min(words) <= i /\ i <= Max(words)
  BY <1>1, <1>4, Extremes
<1>6. Min(words) = 1 /\ Max(words) = Len(line)
  BY <1>1, <1>2, <1>5
<1> QED BY <1>3, <1>4, <1>6, SubSeqFull

(***************************************************************************)
(* What parseLine returns for any line: at most a label and at most one    *)
(* instruction, with fields of their types, or neither if it fails.        *)
(***************************************************************************)
LEMMA ParsedLine ==
    ASSUME NEW line \in Seq(Token)
    PROVE  /\ parseLine(line).failed \in BOOLEAN
           /\ parseLine(line).label \in SUBSET Size
           /\ \/ parseLine(line).instruction = <<>>
              \/ \E i \in AllInstructions : parseLine(line).instruction = <<i>>
           /\ parseLine(line).failed
                 => parseLine(line).label = {} /\ parseLine(line).instruction = <<>>
<1> DEFINE tokens   == Tokens(line)
           labelled == tokens # <<>> /\ Head(tokens).kind = "colon"
           command  == IF labelled THEN Tail(tokens) ELSE tokens
           actions  == {action \in DOMAIN Form : Matches(command, action)}
           labels   == IF labelled THEN {Head(tokens).number % SizeRange} ELSE {}
           read     == IF command = <<>> THEN <<>>
                       ELSE <<Instruction(command, CHOOSE a \in actions : TRUE)>>
           bad      == labelled /\ Head(tokens).number \notin ReadAsSize
<1>1. parseLine(line) =
         IF IsComment(line) \/ tokens = <<>> THEN NothingOn
         ELSE IF bad THEN Malformed
         ELSE IF command # <<>> /\ actions = {} THEN Malformed
         ELSE [failed |-> FALSE, label |-> labels, instruction |-> read]
  BY DEF parseLine
<1>2. tokens \in Seq(Token)
  BY TokensType
<1>3. tokens # <<>> => Head(tokens) \in Token /\ Tail(tokens) \in Seq(Token)
  BY <1>2, HeadTailProperties
<1>4. command \in Seq(Token)
  BY <1>2, <1>3
<1>5. labels \in SUBSET Size
  <2>1. \A n \in Int : n % SizeRange \in Size
    BY IntAssumption, SizeAssumption DEF Size
  <2>2. labelled => Head(tokens).number \in Int
    BY <1>3 DEF Token, Slashes, Blank
  <2> HIDE DEF tokens
  <2> QED BY <2>1, <2>2
<1>6. command # <<>> /\ actions # {} =>
         \E i \in AllInstructions : read = <<i>>
  <2> SUFFICES ASSUME command # <<>>, actions # {}
               PROVE  \E i \in AllInstructions : read = <<i>>
    OBVIOUS
  <2> DEFINE chosen == CHOOSE a \in actions : TRUE
  <2>1. read = <<Instruction(command, chosen)>>
    OBVIOUS
  <2>2. chosen \in actions
    <3> HIDE DEF actions
    <3> QED OBVIOUS
  <2>3. chosen \in Classes /\ Matches(command, chosen)
    BY <2>2, Forms
  <2> HIDE DEF read, chosen, command
  <2> QED BY <1>4, <2>1, <2>3, InstructionType
<1>7. command = <<>> => read = <<>>
  OBVIOUS
<1> HIDE DEF tokens, labelled, command, actions, labels, read, bad
<1>8. CASE IsComment(line) \/ tokens = <<>>
  <2>1. parseLine(line) = NothingOn
    BY <1>1, <1>8
  <2>2. NothingOn.failed = FALSE /\ NothingOn.label = {} /\ NothingOn.instruction = <<>>
    BY DEF NothingOn
  <2> QED BY <2>1, <2>2
<1>9. CASE /\ ~(IsComment(line) \/ tokens = <<>>)
           /\ bad \/ (command # <<>> /\ actions = {})
  <2>1. parseLine(line) = Malformed
    BY <1>1, <1>9
  <2>2. Malformed.failed = TRUE /\ Malformed.label = {} /\ Malformed.instruction = <<>>
    BY DEF Malformed, NothingOn
  <2> QED BY <2>1, <2>2
<1>10. CASE /\ ~(IsComment(line) \/ tokens = <<>>)
            /\ ~bad
            /\ command = <<>> \/ actions # {}
  <2>1. parseLine(line) = [failed |-> FALSE, label |-> labels, instruction |-> read]
    BY <1>1, <1>10
  <2>2. /\ parseLine(line).failed = FALSE
        /\ parseLine(line).label = labels
        /\ parseLine(line).instruction = read
    BY <2>1
  <2>3. read = <<>> \/ \E i \in AllInstructions : read = <<i>>
    BY <1>6, <1>7, <1>10
  <2> QED BY <1>5, <2>2, <2>3
<1> QED BY <1>8, <1>9, <1>10
-----------------------------------------------------------------------------
(***************************************************************************)
(* What str prints: token by token it fits the class of the instruction    *)
(* and means the field it was printed from, but for the word of a          *)
(* fetch-and-increment.                                                    *)
(***************************************************************************)
LEMMA PrintedPart ==
    ASSUME NEW instruction, NEW part, part[1] \in Kinds,
           part[1] = "word" => part = <<"word", part[2]>>,
           part[1] # "word" => instruction[part[2]] \in FieldType(part)
    PROVE  LET token == Printed(instruction, part)
           IN  /\ token # Blank /\ token.kind # "colon"
               /\ part # <<"word", "fai">> => Fits(token, part)
               /\ part[1] # "word" => Meaning(token, part) = instruction[part[2]]
<1> DEFINE token == Printed(instruction, part)
           field == instruction[part[2]]
<1>1. \A n \in Size : n % SizeRange = n /\ n \in ReadAsSize
  BY IntAssumption, SizeAssumption DEF Size, ReadAsSize
<1>2. part[1] # "word" => part # <<"word", "fai">>
  OBVIOUS
<1>3. Blank.kind = "blank"
  BY DEF Blank
<1>4. CASE part[1] = "word"
  <2>1. \E w : token = Word(w)
    BY <1>4 DEF Printed
  <2>2. token.kind = "word"
    BY <2>1 DEF Word
  <2>3. part # <<"word", "fai">> => token = Word(part[2])
    BY <1>4 DEF Printed
  <2>4. part # <<"word", "fai">> => Fits(token, part)
    BY <1>4, <2>3 DEF Fits
  <2> QED BY <1>3, <1>4, <2>2, <2>4
<1>5. CASE part[1] \in {"operation", "mode"}
  <2>1. token = Word(field)
    BY <1>2, <1>5 DEF Printed
  <2>2. token.kind = "word" /\ token.text = field
    BY <2>1 DEF Word
  <2>3. Fits(token, part) /\ Meaning(token, part) = field
    BY <1>5, <2>2 DEF Fits, Meaning, FieldType
  <2> QED BY <1>3, <1>5, <2>2, <2>3
<1>6. CASE part[1] = "address"
  <2>1. token = Hash(field)
    BY <1>2, <1>6 DEF Printed
  <2>2. token.kind = "hash" /\ token.number = field
    BY <2>1 DEF Hash
  <2>3. field \in Size
    BY <1>6 DEF FieldType
  <2>4. Fits(token, part) /\ Meaning(token, part) = field
    BY <1>1, <1>6, <2>2, <2>3 DEF Fits, Meaning
  <2> QED BY <1>3, <1>6, <2>2, <2>4
<1>7. CASE part[1] \in {"register", "label", "constant"}
  <2>1. token = Number(field)
    BY <1>2, <1>7 DEF Printed
  <2>2. token.kind = "number" /\ token.number = field
    BY <2>1 DEF Number
  <2>3. field \in IF part[1] = "constant" THEN Int32 ELSE Size
    BY <1>7 DEF FieldType
  <2>4. Fits(token, part) /\ Meaning(token, part) = field
    BY <1>1, <1>7, <2>2, <2>3 DEF Fits, Meaning, BeginsWithNumber
  <2> QED BY <1>3, <1>7, <2>2, <2>4
<1>8. \/ part[1] = "word"
      \/ part[1] \in {"operation", "mode"}
      \/ part[1] = "address"
      \/ part[1] \in {"register", "label", "constant"}
  BY DEF Kinds
<1> HIDE DEF token, field
<1> QED BY <1>4, <1>5, <1>6, <1>7, <1>8

LEMMA PrintedLine ==
    ASSUME NEW instruction \in AllInstructions
    PROVE  LET action == instruction.action
               line == str(instruction)
           IN  /\ action \in Classes /\ instruction \in InstructionsOf(action)
               /\ line \in Seq({line[k] : k \in 1 .. Len(line)})
               /\ Len(line) = Len(Form[action])
               /\ \A k \in 1 .. Len(line) :
                     /\ line[k] = Printed(instruction, Form[action][k])
                     /\ line[k] # Blank /\ line[k].kind # "colon"
                     /\ Form[action][k] # <<"word", "fai">>
                           => Fits(line[k], Form[action][k])
                     /\ k \in Fields(action) =>
                           Meaning(line[k], Form[action][k])
                              = instruction[Form[action][k][2]]
<1> DEFINE action == instruction.action
           form == Form[action]
           line == str(instruction)
<1>1. action \in Classes /\ instruction \in InstructionsOf(action)
  BY DEF AllInstructions, InstructionsOf
<1>2. IsForm(form)
  BY <1>1, Forms
<1>3. Len(form) \in Nat /\ DOMAIN form = 1 .. Len(form)
  BY <1>2 DEF IsForm
<1>4. line = [k \in 1 .. Len(form) |-> Printed(instruction, form[k])]
  <2>1. line = [k \in DOMAIN form |-> Printed(instruction, form[k])]
    BY DEF str
  <2> HIDE DEF line, form
  <2> QED BY <1>3, <2>1
<1>5. \A k \in Fields(action) : instruction[form[k][2]] \in FieldType(form[k])
  BY <1>1 DEF InstructionsOf
<1>6. Fields(action) = {k \in 1 .. Len(form) : form[k][1] # "word"}
  BY <1>1, FieldsOfClass
<1>7. \A k \in 1 .. Len(form) : form[k] = <<form[k][1], form[k][2]>>
  BY <1>2 DEF IsForm
<1> HIDE DEF action, form, line
<1>8. line \in Seq({line[k] : k \in 1 .. Len(form)}) /\ Len(line) = Len(form)
  BY <1>3, <1>4
<1>9. ASSUME NEW k \in 1 .. Len(form)
      PROVE  /\ line[k] = Printed(instruction, form[k])
             /\ line[k] # Blank /\ line[k].kind # "colon"
             /\ form[k] # <<"word", "fai">> => Fits(line[k], form[k])
             /\ k \in Fields(action) =>
                   Meaning(line[k], form[k]) = instruction[form[k][2]]
  <2>1. form[k][1] \in Kinds
    BY <1>2 DEF IsForm
  <2>2. form[k][1] # "word" => instruction[form[k][2]] \in FieldType(form[k])
    BY <1>5, <1>6
  <2>3. form[k][1] = "word" => form[k] = <<"word", form[k][2]>>
    BY <1>7
  <2>4. line[k] = Printed(instruction, form[k])
    BY <1>4
  <2> QED BY <1>6, <2>1, <2>2, <2>3, <2>4, PrintedPart
<1> QED BY <1>1, <1>8, <1>9 DEF action, form, line

LEMMA NoOtherIncrement ==
    \A action \in Classes \ {"FetchAndIncrement"} :
        \A k \in 1 .. Len(Form[action]) : Form[action][k] # <<"word", "fai">>
<1>1. \A k \in 1 .. Len(Form.StoreConstInRegister) : Form.StoreConstInRegister[k][2] # "fai"
  BY DEF Form
<1>2. \A k \in 1 .. Len(Form.StoreExprInRegister) : Form.StoreExprInRegister[k][2] # "fai"
  BY DEF Form
<1>3. \A k \in 1 .. Len(Form.Goto) : Form.Goto[k][2] # "fai"
  BY DEF Form
<1>4. \A k \in 1 .. Len(Form.Load) : Form.Load[k][2] # "fai"
  BY DEF Form
<1>5. \A k \in 1 .. Len(Form.Store) : Form.Store[k][2] # "fai"
  BY DEF Form
<1>6. \A k \in 1 .. Len(Form.CompareAndSwap) : Form.CompareAndSwap[k][2] # "fai"
  BY DEF Form
<1>7. \A k \in 1 .. Len(Form.Fence) : Form.Fence[k][2] # "fai"
  BY DEF Form
<1>8. \A part : part = <<"word", "fai">> => part[2] = "fai"
  OBVIOUS
<1> QED BY <1>1, <1>2, <1>3, <1>4, <1>5, <1>6, <1>7, <1>8 DEF Classes

(***************************************************************************)
(* What is printed fits no class but its own.                              *)
(***************************************************************************)
LEMMA MatchesOwnClass ==
    ASSUME NEW instruction \in AllInstructions,
           instruction.action # "FetchAndIncrement"
    PROVE  {action \in DOMAIN Form : Matches(str(instruction), action)}
              = {instruction.action}
<1> DEFINE own == instruction.action
           line == str(instruction)
<1>1. /\ own \in Classes /\ DOMAIN Form = Classes
      /\ Len(line) = Len(Form[own])
      /\ DOMAIN line = 1 .. Len(line)
      /\ Len(line) \in Nat \ {0}
  <2>1. /\ own \in Classes /\ DOMAIN Form = Classes
        /\ Len(line) = Len(Form[own])
        /\ line \in Seq({line[k] : k \in 1 .. Len(line)})
    BY PrintedLine, Forms
  <2> HIDE DEF line, own
  <2>2. DOMAIN line = 1 .. Len(line)
    BY <2>1, LenProperties
  <2>3. IsForm(Form[own])
    BY <2>1, Forms
  <2> QED BY <2>1, <2>2, <2>3 DEF IsForm
<1>2. /\ line[1] = Printed(instruction, Form[own][1])
      /\ Form[own][1] # <<"word", "fai">> => Fits(line[1], Form[own][1])
  <2>1. \A k \in 1 .. Len(line) :
           /\ line[k] = Printed(instruction, Form[own][k])
           /\ Form[own][k] # <<"word", "fai">> => Fits(line[k], Form[own][k])
    BY PrintedLine
  <2> HIDE DEF line, own
  <2> QED BY <1>1, <2>1
<1>3. \A action : Matches(line, action) =>
         Len(line) = Len(Form[action]) /\ Fits(line[1], Form[action][1])
  BY <1>1 DEF Matches
<1>4. \A part : part[1] = "word" => (Fits(line[1], part) <=> line[1] = Word(part[2]))
  BY DEF Fits
<1>5. \A part : part[1] = "register" =>
         (Fits(line[1], part) => line[1].kind \in {"number", "colon"})
  BY DEF Fits, BeginsWithNumber
<1>6. \A w : Word(w).kind = "word" /\ Word(w).text = w
  BY DEF Word
<1>7. ASSUME NEW action \in Classes, Matches(line, action)
      PROVE  action = own
  <2>1. /\ Len(Form[action]) = Len(Form[own])
        /\ Fits(line[1], Form[action][1])
    BY <1>1, <1>3, <1>7
  <2>2. Form[own][1] # <<"word", "fai">>
    BY <1>1, Forms DEF Classes, Opening
  <2>3. Fits(line[1], Form[own][1])
    BY <1>2, <2>2
  <2> HIDE DEF line, own
  <2>4. CASE own \in {"StoreConstInRegister", "StoreExprInRegister"}
    <3>1. line[1].kind \in {"number", "colon"}
      BY <1>5, <2>3, <2>4, Forms DEF Opening
    <3>2. \A w : line[1] # Word(w)
      BY <1>6, <3>1
    <3>3. action \in {"StoreConstInRegister", "StoreExprInRegister"}
      BY <1>4, <2>1, <3>2, Forms DEF Classes, Opening
    <3>4. Len(Form.StoreConstInRegister) # Len(Form.StoreExprInRegister)
      BY Forms DEF Opening
    <3> QED BY <2>1, <2>4, <3>3, <3>4
  <2>5. CASE own \notin {"StoreConstInRegister", "StoreExprInRegister"}
    <3>1. \A a \in Classes \ {"StoreConstInRegister", "StoreExprInRegister"} :
             Form[a][1][1] = "word"
      BY Forms DEF Classes, Opening
    <3>2. Form[own][1][1] = "word"
      BY <1>1, <2>5, <3>1
    <3>3. line[1] = Word(Form[own][1][2])
      BY <1>4, <2>3, <3>2
    <3>4. line[1].kind \notin {"number", "colon"}
      BY <1>6, <3>3
    <3>5. action \notin {"StoreConstInRegister", "StoreExprInRegister"}
      BY <1>5, <2>1, <3>4, Forms DEF Opening
    <3>6. Form[action][1][2] = Form[own][1][2]
      BY <1>4, <1>6, <2>1, <3>1, <3>3, <3>5
    <3> QED BY <1>1, <2>5, <3>5, <3>6, Forms DEF Classes, Opening
  <2> QED BY <2>4, <2>5
<1>8. Matches(line, own)
  <2>1. \A k \in 1 .. Len(Form[own]) : Form[own][k] # <<"word", "fai">>
    BY <1>1, NoOtherIncrement
  <2>2. \A k \in 1 .. Len(line) :
           Form[own][k] # <<"word", "fai">> => Fits(line[k], Form[own][k])
    BY PrintedLine
  <2> HIDE DEF line, own
  <2> QED BY <1>1, <2>1, <2>2 DEF Matches
<1> HIDE DEF line, own
<1> QED BY <1>1, <1>7, <1>8 DEF line, own

(***************************************************************************)
(* An instruction with fields of their types is read as it is printed.     *)
(***************************************************************************)
LEMMA WithInstruction ==
    \A x : [failed |-> FALSE, label |-> {}, instruction |-> x]
             = [NothingOn EXCEPT !.instruction = x]
<1>1. \A f, x, y : [[failed |-> f, label |-> {}, instruction |-> y]
                        EXCEPT !.instruction = x]
         = [failed |-> f, label |-> {}, instruction |-> x]
  OBVIOUS
<1> QED BY Zenon, <1>1 DEF NothingOn

LEMMA ReadAsPrinted ==
    ASSUME NEW instruction \in AllInstructions,
           instruction.action # "FetchAndIncrement"
    PROVE  IsReadBack(instruction)
<1> DEFINE own == instruction.action
           line == str(instruction)
           S == {line[k] : k \in 1 .. Len(line)}
           actions == {action \in DOMAIN Form : Matches(line, action)}
<1>1. /\ own \in Classes /\ instruction \in InstructionsOf(own)
      /\ line \in Seq(S) /\ Len(line) = Len(Form[own])
      /\ \A k \in 1 .. Len(line) :
            /\ line[k] # Blank /\ line[k].kind # "colon"
            /\ line[k] = Printed(instruction, Form[own][k])
            /\ k \in Fields(own) =>
                  Meaning(line[k], Form[own][k]) = instruction[Form[own][k][2]]
  BY PrintedLine
<1>2. actions = {own}
  BY MatchesOwnClass
<1>3. ~IsComment(line) => parseLine(line) =
            [NothingOn EXCEPT !.instruction =
                <<Instruction(line, CHOOSE a \in actions : TRUE)>>]
  <2> HIDE DEF line, own, actions, S
  <2>1. Len(line) \in Nat \ {0} /\ line # <<>> /\ Head(line) = line[1]
    <3>1. IsForm(Form[own])
      BY <1>1, Forms
    <3>2. Len(line) \in Nat \ {0}
      BY <1>1, <3>1 DEF IsForm
    <3> QED BY <1>1, <3>2
  <2>2. Tokens(line) = line
    BY <1>1, <2>1, TokensWithoutBlanks
  <2>3. ~(line # <<>> /\ Head(line).kind = "colon")
    BY <1>1, <2>1
  <2>4. parseLine(line) =
           IF IsComment(line) THEN NothingOn
           ELSE [failed |-> FALSE, label |-> {},
                 instruction |-> <<Instruction(line, CHOOSE a \in actions : TRUE)>>]
    BY <1>2, <2>1, <2>2, <2>3 DEF parseLine, actions
  <2>5. \A x : [failed |-> FALSE, label |-> {}, instruction |-> x]
                  = [NothingOn EXCEPT !.instruction = x]
    BY WithInstruction
  <2> QED BY <2>4, <2>5
<1>4. ~IsComment(line)
  <2>1. line[1] \notin {Word("/"), Slashes}
    <3>1. /\ Form[own][1][1] \in {"word", "register"}
          /\ Form[own][1][1] = "word" => Form[own][1][2] # "/"
      BY <1>1, Forms DEF Classes, Opening
    <3>2. line[1] = Printed(instruction, Form[own][1])
      <4>1. IsForm(Form[own])
        BY <1>1, Forms
      <4> HIDE DEF line, own
      <4>2. 1 \in 1 .. Len(line)
        BY <1>1, <4>1 DEF IsForm
      <4> QED BY <1>1, <4>2
    <3> HIDE DEF line, own
    <3>3. \A part : part[1] = "word" =>
             Printed(instruction, part) = Word(IF part[2] = "fai" THEN "fei" ELSE part[2])
      BY DEF Printed
    <3>4. \A part : part[1] = "register" =>
             Printed(instruction, part) = Number(instruction[part[2]])
      BY DEF Printed
    <3>5. /\ \A w : Word(w).kind = "word" /\ Word(w).text = w
          /\ \A n : Number(n).kind = "number"
          /\ Slashes.kind = "slashes"
      BY DEF Word, Number, Slashes
    <3> QED BY <3>1, <3>2, <3>3, <3>4, <3>5
  <2> QED BY <2>1 DEF IsComment
<1>5. IsReadBack(instruction)
  <2>1. (CHOOSE a \in actions : TRUE) = own
    <3> HIDE DEF actions, own
    <3> QED BY <1>2
  <2>2. /\ DOMAIN instruction = FieldNames(own)
        /\ instruction = [field \in FieldNames(own) |-> instruction[field]]
    BY <1>1 DEF InstructionsOf
  <2>3. ASSUME NEW field \in FieldNames(own)
        PROVE  Instruction(line, own)[field] = instruction[field]
    <3>1. CASE field = "action"
      BY <1>1, <3>1, InstructionFields
    <3>2. CASE field # "action"
      <4>1. PICK i \in Fields(own) : field = Form[own][i][2]
        BY <3>2 DEF FieldNames
      <4>2. i \in 1 .. Len(line)
        BY <1>1, FieldsOfClass
      <4>3. Meaning(line[i], Form[own][i]) = instruction[Form[own][i][2]]
        BY <1>1, <4>2
      <4>4. Instruction(line, own)[field] = Meaning(line[i], Form[own][i])
        BY <1>1, <4>1, InstructionFields
      <4> QED BY <4>1, <4>3, <4>4
    <3> QED BY <3>1, <3>2
  <2>4. Instruction(line, own)
           = [field \in FieldNames(own) |-> Instruction(line, own)[field]]
    BY <1>1, InstructionFields
  <2> HIDE DEF actions, line, own
  <2>5. Instruction(line, own) = instruction
    BY <2>2, <2>3, <2>4
  <2>6. parseLine(line) = [NothingOn EXCEPT !.instruction = <<instruction>>]
    BY <1>3, <1>4, <2>1, <2>5
  <2> QED BY <2>6 DEF IsReadBack, line, own
<1> QED BY <1>5
-----------------------------------------------------------------------------
(***************************************************************************)
(* The types of the local variables of parseFromStream.  A label is a      *)
(* position of its program or the end of it.                               *)
(***************************************************************************)
Labelling == UNION {[labels -> Nat] : labels \in SUBSET Size}

ThreadProgram ==
    {q \in [instructions : Seq(AllInstructions), labels : Labelling] :
        \A l \in DOMAIN q.labels : q.labels[l] <= Len(q.instructions)}

LoopState ==
    {p \in [linesRead : Nat, program : Seq(AllInstructions), labelMapping : Labelling,
            threadPrograms : Seq(ThreadProgram), error : Nat] :
        \A l \in DOMAIN p.labelMapping : p.labelMapping[l] <= Len(p.program)}

LEMMA ProgramType ==
    ASSUME NEW p \in LoopState
    PROVE  /\ Program(p) \in ThreadProgram
           /\ Program(p).instructions = p.program /\ Program(p).labels = p.labelMapping
  BY DEF LoopState, ThreadProgram, Program

(* The three cases of an iteration in which there has been no error.       *)
LEMMA AtSeparator ==
    ASSUME NEW p \in LoopState, p.error = 0
    PROVE  LET q == AfterLine(p, THREAD_SEPARATOR)
           IN  /\ q.error = 0 /\ q.linesRead = p.linesRead + 1
               /\ p.program = <<>> =>
                     /\ q.program = p.program
                     /\ q.labelMapping = p.labelMapping
                     /\ q.threadPrograms = p.threadPrograms
               /\ p.program # <<>> =>
                     /\ q.program = <<>> /\ q.labelMapping = <<>>
                     /\ q.threadPrograms = Append(p.threadPrograms, Program(p))
               /\ q \in LoopState
<1> DEFINE read == [p EXCEPT !.linesRead = @ + 1]
           q == AfterLine(p, THREAD_SEPARATOR)
<1>1. p \in [linesRead : Nat, program : Seq(AllInstructions), labelMapping : Labelling,
             threadPrograms : Seq(ThreadProgram), error : Nat]
  BY DEF LoopState
<1>2. /\ read.linesRead = p.linesRead + 1 /\ read.program = p.program
      /\ read.labelMapping = p.labelMapping /\ read.threadPrograms = p.threadPrograms
      /\ read.error = 0
      /\ read \in [linesRead : Nat, program : Seq(AllInstructions),
                   labelMapping : Labelling, threadPrograms : Seq(ThreadProgram),
                   error : Nat]
  BY <1>1
<1>3. q = AfterSeparator(read)
  BY DEF AfterLine
<1> HIDE DEF q, read
<1>4. CASE p.program = <<>>
  <2>1. q = read
    BY <1>2, <1>3, <1>4 DEF AfterSeparator
  <2>2. q \in LoopState
    BY <1>2, <2>1 DEF LoopState
  <2> QED BY <1>2, <1>4, <2>1, <2>2 DEF q
<1>5. CASE p.program # <<>>
  <2>1. Program(read) = Program(p)
    BY <1>2 DEF Program
  <2>2. q = [read EXCEPT !.threadPrograms = Append(@, Program(read)),
                         !.program = <<>>, !.labelMapping = <<>>]
    BY <1>2, <1>3, <1>5 DEF AfterSeparator
  <2>3. /\ q.error = 0 /\ q.linesRead = p.linesRead + 1
        /\ q.program = <<>> /\ q.labelMapping = <<>>
        /\ q.threadPrograms = Append(p.threadPrograms, Program(p))
        /\ DOMAIN q = {"linesRead", "program", "labelMapping", "threadPrograms", "error"}
    BY <1>2, <2>1, <2>2
  <2>4. Append(p.threadPrograms, Program(p)) \in Seq(ThreadProgram)
    BY <1>1, ProgramType, AppendProperties
  <2>5. <<>> \in Labelling /\ DOMAIN <<>> = {}
    <3>1. <<>> \in [{} -> Nat]
      OBVIOUS
    <3> QED BY <3>1 DEF Labelling
  <2>6. q \in LoopState
    <3>1. <<>> \in Seq(AllInstructions)
      OBVIOUS
    <3>2. q \in [linesRead : Nat, program : Seq(AllInstructions),
                 labelMapping : Labelling, threadPrograms : Seq(ThreadProgram),
                 error : Nat]
      BY <1>2, <2>1, <2>2, <2>4, <2>5, <3>1
    <3>3. DOMAIN q.labelMapping = {}
      BY <2>3, <2>5
    <3> QED BY <3>2, <3>3 DEF LoopState
  <2> QED BY <1>5, <2>3, <2>6 DEF q
<1> QED BY <1>4, <1>5

LEMMA AtCommand ==
    ASSUME NEW p \in LoopState, p.error = 0,
           NEW line \in Seq(Token), line # THREAD_SEPARATOR
    PROVE  LET parsed == parseLine(line)
               repeats == parsed.label \cap DOMAIN p.labelMapping # {}
               q == AfterLine(p, line)
           IN  /\ q.linesRead = p.linesRead + 1
               /\ parsed.failed \/ repeats => q.error = p.linesRead + 1
               /\ ~(parsed.failed \/ repeats) =>
                     /\ q.error = 0
                     /\ q.labelMapping = WithLabels(p, parsed.label)
                     /\ q.program = p.program \o parsed.instruction
                     /\ q.threadPrograms = p.threadPrograms
               /\ q \in LoopState
<1> DEFINE read == [p EXCEPT !.linesRead = @ + 1]
           parsed == parseLine(line)
           repeats == parsed.label \cap DOMAIN p.labelMapping # {}
           q == AfterLine(p, line)
<1>1. /\ p \in [linesRead : Nat, program : Seq(AllInstructions), labelMapping : Labelling,
                threadPrograms : Seq(ThreadProgram), error : Nat]
      /\ \A l \in DOMAIN p.labelMapping : p.labelMapping[l] <= Len(p.program)
  BY DEF LoopState
<1>2. /\ read.linesRead = p.linesRead + 1 /\ read.program = p.program
      /\ read.labelMapping = p.labelMapping /\ read.threadPrograms = p.threadPrograms
      /\ read.error = 0
      /\ read \in [linesRead : Nat, program : Seq(AllInstructions),
                   labelMapping : Labelling, threadPrograms : Seq(ThreadProgram),
                   error : Nat]
  BY <1>1
<1>3. q = AfterCommand(read, parsed)
  BY DEF AfterLine
<1>4. /\ parsed.label \in SUBSET Size
      /\ \/ parsed.instruction = <<>>
         \/ \E i \in AllInstructions : parsed.instruction = <<i>>
  BY ParsedLine
<1> HIDE DEF q, read, parsed
<1>5. parsed.instruction \in Seq(AllInstructions)
  <2>1. \A i \in AllInstructions : <<i>> \in Seq(AllInstructions)
    OBVIOUS
  <2>2. <<>> \in Seq(AllInstructions)
    OBVIOUS
  <2> QED BY <1>4, <2>1, <2>2
<1>6. CASE parsed.failed \/ repeats
  <2>1. q = [read EXCEPT !.error = p.linesRead + 1]
    BY <1>2, <1>3, <1>6 DEF AfterCommand
  <2>2. q.error = p.linesRead + 1 /\ q.linesRead = p.linesRead + 1
    BY <1>2, <2>1
  <2>3. q \in LoopState
    BY <1>1, <1>2, <2>1 DEF LoopState
  <2> QED BY <1>6, <2>2, <2>3 DEF q, parsed
<1>7. CASE ~(parsed.failed \/ repeats)
  <2>1. WithLabels(read, parsed.label) = WithLabels(p, parsed.label)
    BY <1>2 DEF WithLabels
  <2>2. q = [read EXCEPT !.labelMapping = WithLabels(p, parsed.label),
                         !.program = p.program \o parsed.instruction]
    BY <1>2, <1>3, <1>7, <2>1 DEF AfterCommand
  <2>3. /\ q.error = 0 /\ q.linesRead = p.linesRead + 1
        /\ q.labelMapping = WithLabels(p, parsed.label)
        /\ q.program = p.program \o parsed.instruction
        /\ q.threadPrograms = p.threadPrograms
    BY <1>2, <2>2
  <2>4. /\ p.program \o parsed.instruction \in Seq(AllInstructions)
        /\ Len(p.program) \in Nat
        /\ Len(p.program) <= Len(p.program \o parsed.instruction)
    <3>1. p.program \in Seq(AllInstructions)
      BY <1>1
    <3>2. Len(parsed.instruction) \in Nat /\ Len(p.program) \in Nat
      BY <1>5, <3>1, LenProperties
    <3>3. /\ p.program \o parsed.instruction \in Seq(AllInstructions)
          /\ Len(p.program \o parsed.instruction)
                = Len(p.program) + Len(parsed.instruction)
      BY <1>5, <3>1, ConcatProperties
    <3>4. \A m, n \in Nat : m <= m + n
      OBVIOUS
    <3> QED BY Zenon, <3>2, <3>3, <3>4
  <2> DEFINE labels == WithLabels(p, parsed.label)
  <2>5. /\ DOMAIN labels = DOMAIN p.labelMapping \cup parsed.label
        /\ \A l \in DOMAIN labels :
              labels[l] = IF l \in parsed.label THEN Len(p.program) ELSE p.labelMapping[l]
        /\ labels = [l \in DOMAIN labels |-> labels[l]]
    BY DEF WithLabels
  <2>6. /\ DOMAIN p.labelMapping \in SUBSET Size
        /\ \A l \in DOMAIN p.labelMapping : p.labelMapping[l] \in Nat
    BY <1>1 DEF Labelling
  <2> HIDE DEF labels
  <2>7. \A l \in DOMAIN labels :
           labels[l] \in Nat /\ labels[l] <= Len(p.program \o parsed.instruction)
    <3> SUFFICES ASSUME NEW l \in DOMAIN labels
                 PROVE  labels[l] \in Nat
                          /\ labels[l] <= Len(p.program \o parsed.instruction)
      OBVIOUS
    <3>1. Len(p.program \o parsed.instruction) \in Nat
      BY <2>4, LenProperties
    <3>2. CASE l \in parsed.label
      BY <2>4, <2>5, <3>2
    <3>3. CASE l \notin parsed.label
      BY <1>1, <2>4, <2>5, <2>6, <3>1, <3>3
    <3> QED BY <3>2, <3>3
  <2>8. labels \in Labelling
    <3>1. DOMAIN labels \in SUBSET Size
      BY <1>4, <2>5, <2>6
    <3>2. labels \in [DOMAIN labels -> Nat]
      BY <2>5, <2>7
    <3> QED BY <3>1, <3>2 DEF Labelling
  <2>9. q \in LoopState
    <3>1. q \in [linesRead : Nat, program : Seq(AllInstructions),
                 labelMapping : Labelling, threadPrograms : Seq(ThreadProgram),
                 error : Nat]
      BY <1>2, <2>2, <2>4, <2>8 DEF labels
    <3> QED BY <2>3, <2>7, <3>1 DEF LoopState, labels
  <2> QED BY <1>7, <2>3, <2>9 DEF q, parsed
<1> QED BY <1>6, <1>7

LEMMA AfterError ==
    ASSUME NEW p, p.error # 0, NEW line
    PROVE  AfterLine(p, line) = p
  BY DEF AfterLine

(* The types hold after any number of lines.                               *)
LEMMA LoopTyped ==
    ASSUME NEW lines \in Seq(Seq(Token))
    PROVE  Loop(lines) \in LoopState
<1> DEFINE N == Len(lines)
           f == AfterLines(lines)
           T == {n \in Nat : n \in 0 .. N => f[n] \in LoopState}
<1>1. /\ N \in Nat /\ f[0] = Initially
      /\ \A n \in 1 .. N : f[n] = AfterLine(f[n - 1], lines[n]) /\ lines[n] \in Seq(Token)
  BY LoopUnfolds
<1> HIDE DEF N, f
<1>2. Initially \in LoopState
  <2>1. <<>> \in [{} -> Nat] /\ <<>> \in Seq(AllInstructions) /\ <<>> \in Seq(ThreadProgram)
    OBVIOUS
  <2>2. <<>> \in Labelling /\ DOMAIN <<>> = {}
    BY <2>1 DEF Labelling
  <2> QED BY <2>1, <2>2 DEF LoopState, Initially
<1>3. ASSUME NEW n \in T PROVE n + 1 \in T
  <2> SUFFICES ASSUME n + 1 \in 0 .. N PROVE f[n + 1] \in LoopState
    OBVIOUS
  <2>1. n \in 0 .. N /\ n + 1 \in 1 .. N /\ (n + 1) - 1 = n
    BY <1>1
  <2>2. f[n] \in LoopState
    BY <2>1
  <2>3. f[n + 1] = AfterLine(f[n], lines[n + 1]) /\ lines[n + 1] \in Seq(Token)
    BY <1>1, <2>1
  <2>4. CASE f[n].error # 0
    BY <2>2, <2>3, <2>4, AfterError
  <2>5. CASE f[n].error = 0 /\ lines[n + 1] = THREAD_SEPARATOR
    BY Zenon, <2>2, <2>3, <2>5, AtSeparator
  <2>6. CASE f[n].error = 0 /\ lines[n + 1] # THREAD_SEPARATOR
    BY Zenon, <2>2, <2>3, <2>6, AtCommand
  <2> QED BY <2>4, <2>5, <2>6
<1>4. T = Nat
  <2>1. T \in SUBSET Nat /\ 0 \in T
    BY <1>1, <1>2
  <2> HIDE DEF T
  <2> QED BY <1>3, <2>1, InductionOnSets
<1> QED BY <1>1, <1>4 DEF Loop, N, f
-----------------------------------------------------------------------------
(***************************************************************************)
(* The numbers of the threads, which never decrease along a text.          *)
(***************************************************************************)
LEMMA ThreadNumbers ==
    /\ \A i \in Nat \ {0} :
          /\ ThreadOf(i) \in Nat \ {0}
          /\ ThreadOf(i + 1) = IF Separates(i) THEN ThreadOf(i) + 1 ELSE ThreadOf(i)
    /\ ThreadOf(1) = 1
    /\ \A i, j \in Nat \ {0} : i <= j => ThreadOf(i) <= ThreadOf(j)
<1> DEFINE S(i) == {j \in 1 .. (i - 1) : Separates(j)}
<1>1. \A i \in Nat \ {0} :
         /\ IsFiniteSet(S(i)) /\ Cardinality(S(i)) \in Nat
         /\ ThreadOf(i) = 1 + Cardinality(S(i))
  <2> SUFFICES ASSUME NEW i \in Nat \ {0}
               PROVE  /\ IsFiniteSet(S(i)) /\ Cardinality(S(i)) \in Nat
                      /\ ThreadOf(i) = 1 + Cardinality(S(i))
    OBVIOUS
  <2>1. IsFiniteSet(1 .. (i - 1))
    BY FS_Interval
  <2>2. S(i) \in SUBSET (1 .. (i - 1))
    OBVIOUS
  <2>3. IsFiniteSet(S(i))
    BY <2>1, <2>2, FS_Subset
  <2> QED BY <2>3, FS_CardinalityType DEF ThreadOf
<1>2. ASSUME NEW i \in Nat \ {0}
      PROVE  ThreadOf(i + 1) = IF Separates(i) THEN ThreadOf(i) + 1 ELSE ThreadOf(i)
  <2>1. i + 1 \in Nat \ {0}
    OBVIOUS
  <2>2. S(i + 1) = IF Separates(i) THEN S(i) \cup {i} ELSE S(i)
    OBVIOUS
  <2>3. i \notin S(i)
    OBVIOUS
  <2> HIDE DEF S
  <2>4. Cardinality(S(i) \cup {i}) = Cardinality(S(i)) + 1
    BY <1>1, <2>3, FS_AddElement
  <2> QED BY <1>1, <2>1, <2>2, <2>4
<1>3. ThreadOf(1) = 1
  <2>1. S(1) = {}
    OBVIOUS
  <2> HIDE DEF S
  <2> QED BY <1>1, <2>1, FS_EmptySet
<1>4. ASSUME NEW i \in Nat \ {0}, NEW j \in Nat \ {0}, i <= j
      PROVE  ThreadOf(i) <= ThreadOf(j)
  <2>1. S(i) \in SUBSET S(j)
    BY <1>4
  <2> HIDE DEF S
  <2>2. Cardinality(S(i)) <= Cardinality(S(j))
    BY <1>1, <2>1, FS_Subset
  <2> QED BY <1>1, <2>2
<1> HIDE DEF S
<1>5. \A i \in Nat \ {0} : ThreadOf(i) \in Nat \ {0}
  BY <1>1
<1> QED BY <1>2, <1>3, <1>4, <1>5

(* How far an open section reaches: it has an instruction.                 *)
Open ==
    \E j \in 1 .. Len(text) :
        HasInstruction(j) /\ \A k \in j .. Len(text) : ~IsSeparator(k)

(***************************************************************************)
(* Another line changes nothing about the lines before it.                 *)
(***************************************************************************)
LEMMA EarlierLines ==
    ASSUME text \in Seq(Line), NEW line \in Line, text' = Append(text, line)
    PROVE  LET n == Len(text)
           IN  /\ n \in Nat /\ Len(text') = n + 1 /\ text'[n + 1] = line
               /\ \A i \in 1 .. n :
                     /\ text'[i] = text[i]
                     /\ IsSeparator(i)' <=> IsSeparator(i)
                     /\ HasInstruction(i)' <=> HasInstruction(i)
                     /\ Separates(i)' <=> Separates(i)
<1> DEFINE n == Len(text)
<1>1. /\ n \in Nat /\ Len(text') = n + 1 /\ text'[n + 1] = line
      /\ \A i \in 1 .. n : text'[i] = text[i]
  BY AppendProperties, LenProperties
<1> HIDE DEF n
<1>2. \A i \in 1 .. n : IsSeparator(i)' <=> IsSeparator(i)
  BY <1>1 DEF IsSeparator
<1>3. \A i \in 1 .. n : HasInstruction(i)' <=> HasInstruction(i)
  BY <1>1, <1>2 DEF HasInstruction
<1>4. \A i \in 1 .. n : Separates(i)' <=> Separates(i)
  <2> SUFFICES ASSUME NEW i \in 1 .. n PROVE Separates(i)' <=> Separates(i)
    OBVIOUS
  <2>1. \A j \in 1 .. (i - 1) : j \in 1 .. n /\ \A k \in j .. (i - 1) : k \in 1 .. n
    BY <1>1
  <2> QED BY <1>2, <1>3, <2>1 DEF Separates
<1> QED BY <1>1, <1>2, <1>3, <1>4 DEF n

LEMMA EarlierThreads ==
    ASSUME text \in Seq(Line), NEW line \in Line, text' = Append(text, line),
           NEW n \in Nat, n = Len(text)
    PROVE  /\ \A i \in 1 .. (n + 1) :
                 /\ ThreadOf(i)' = ThreadOf(i)
                 /\ Position(i)' = Position(i)
           /\ \A i \in 1 .. n : IsBad(i)' <=> IsBad(i)
           /\ Separates(n + 1)' <=> line = THREAD_SEPARATOR /\ Open
           /\ ThreadOf(n + 2)' = IF line = THREAD_SEPARATOR /\ Open
                                 THEN ThreadOf(n + 1) + 1 ELSE ThreadOf(n + 1)
<1>1. /\ n \in Nat /\ Len(text') = n + 1 /\ text'[n + 1] = line
      /\ \A i \in 1 .. n :
            /\ text'[i] = text[i]
            /\ IsSeparator(i)' <=> IsSeparator(i)
            /\ HasInstruction(i)' <=> HasInstruction(i)
            /\ Separates(i)' <=> Separates(i)
  BY EarlierLines
<1>2. \A i \in 1 .. (n + 1) : ThreadOf(i)' = ThreadOf(i)
  <2> SUFFICES ASSUME NEW i \in 1 .. (n + 1) PROVE ThreadOf(i)' = ThreadOf(i)
    OBVIOUS
  <2>1. \A j \in 1 .. (i - 1) : j \in 1 .. n
    BY <1>1
  <2>2. {j \in 1 .. (i - 1) : Separates(j)'} = {j \in 1 .. (i - 1) : Separates(j)}
    BY <1>1, <2>1
  <2> QED BY <2>2 DEF ThreadOf
<1>3. \A i \in 1 .. (n + 1) : Position(i)' = Position(i)
  <2> SUFFICES ASSUME NEW i \in 1 .. (n + 1) PROVE Position(i)' = Position(i)
    OBVIOUS
  <2>1. \A j \in 1 .. (i - 1) : j \in 1 .. n /\ j \in 1 .. (n + 1)
    BY <1>1
  <2>2. {j \in 1 .. (i - 1) : HasInstruction(j)' /\ ThreadOf(j)' = ThreadOf(i)'}
           = {j \in 1 .. (i - 1) : HasInstruction(j) /\ ThreadOf(j) = ThreadOf(i)}
    BY <1>1, <1>2, <2>1
  <2> QED BY <2>2 DEF Position
<1>4. \A i \in 1 .. n : IsBad(i)' <=> IsBad(i)
  <2> SUFFICES ASSUME NEW i \in 1 .. n PROVE IsBad(i)' <=> IsBad(i)
    OBVIOUS
  <2>1. \A j \in 1 .. (i - 1) : j \in 1 .. n /\ j \in 1 .. (n + 1)
    BY <1>1
  <2>2. i \in 1 .. (n + 1)
    BY <1>1
  <2>3. text'[i] = text[i] /\ (IsSeparator(i)' <=> IsSeparator(i))
    BY <1>1
  <2>4. \A j \in 1 .. (i - 1) :
           /\ text'[j] = text[j] /\ (IsSeparator(j)' <=> IsSeparator(j))
           /\ ThreadOf(j)' = ThreadOf(j) /\ ThreadOf(i)' = ThreadOf(i)
    BY <1>1, <1>2, <2>1, <2>2
  <2> QED BY <2>3, <2>4 DEF IsBad
<1>5. Separates(n + 1)' <=> line = THREAD_SEPARATOR /\ Open
  <2>1. (n + 1) - 1 = n /\ \A j \in 1 .. n : \A k \in j .. n : k \in 1 .. n
    BY <1>1
  <2>2. IsSeparator(n + 1)' <=> line = THREAD_SEPARATOR
    BY <1>1 DEF IsSeparator
  <2> QED BY <1>1, <2>1, <2>2 DEF Separates, Open
<1>6. ThreadOf(n + 2)' = IF line = THREAD_SEPARATOR /\ Open
                         THEN ThreadOf(n + 1) + 1 ELSE ThreadOf(n + 1)
  <2> DEFINE S == {j \in 1 .. n : Separates(j)}
  <2>1. IsFiniteSet(S) /\ Cardinality(S) \in Nat
    <3>1. IsFiniteSet(1 .. n)
      BY <1>1, FS_Interval
    <3>2. S \in SUBSET (1 .. n)
      OBVIOUS
    <3> HIDE DEF S
    <3> QED BY <3>1, <3>2, FS_Subset, FS_CardinalityType
  <2>2. (n + 1) - 1 = n /\ (n + 2) - 1 = n + 1
    BY <1>1
  <2>3. {j \in 1 .. (n + 1) : Separates(j)'}
           = IF line = THREAD_SEPARATOR /\ Open THEN S \cup {n + 1} ELSE S
    <3>1. \A j \in 1 .. (n + 1) : j = n + 1 \/ j \in 1 .. n
      BY <1>1
    <3>2. \A j \in 1 .. n : j \in 1 .. (n + 1) /\ j # n + 1
      BY <1>1
    <3>3. n + 1 \in 1 .. (n + 1)
      BY <1>1
    <3> QED BY <1>1, <1>5, <3>1, <3>2, <3>3
  <2>4. n + 1 \notin S
    BY <1>1
  <2>5. ThreadOf(n + 1) = 1 + Cardinality(S)
    BY <2>2 DEF ThreadOf
  <2>6. ThreadOf(n + 2)' = 1 + Cardinality({j \in 1 .. (n + 1) : Separates(j)'})
    BY <2>2 DEF ThreadOf
  <2> HIDE DEF S
  <2>7. Cardinality(S \cup {n + 1}) = Cardinality(S) + 1
    BY <2>1, <2>4, FS_AddElement
  <2>8. ThreadOf(n + 2)' = 1 + Cardinality(IF line = THREAD_SEPARATOR /\ Open
                                           THEN S \cup {n + 1} ELSE S)
    BY Zenon, <2>3, <2>6
  <2> QED BY <2>1, <2>5, <2>7, <2>8
<1> QED BY <1>2, <1>3, <1>4, <1>5, <1>6
-----------------------------------------------------------------------------
(***************************************************************************)
(* The inductive invariant.  Until there is an error, the local variables  *)
(* of parseFromStream hold what the lines so far say: the threads that are *)
(* complete and the current one as written, the current one without        *)
(* instructions if and only if no section is open.                         *)
(***************************************************************************)
Locals == Loop(text)
Programs == Append(Locals.threadPrograms, Program(Locals))

Own(k) == {i \in DOMAIN text : ~IsSeparator(i) /\ ThreadOf(i) = k}
InstructionLines(k) == {i \in Own(k) : HasInstruction(i)}
LabelsOf(k) == UNION {parseLine(text[i]).label : i \in Own(k)}

Current == ThreadOf(Len(text) + 1)

CurrentThread ==
    /\ Locals.linesRead = Len(text)
    /\ Len(Locals.threadPrograms) + 1 = Current
    /\ Locals.program # <<>> <=> Open

Sizes ==
    \A k \in 1 .. Current :
        /\ Len(Programs[k].instructions) = Cardinality(InstructionLines(k))
        /\ DOMAIN Programs[k].labels = LabelsOf(k)

InstructionsInPlace ==
    \A i \in DOMAIN text :
        HasInstruction(i) =>
            /\ Position(i) + 1 \in 1 .. Len(Programs[ThreadOf(i)].instructions)
            /\ Programs[ThreadOf(i)].instructions[Position(i) + 1]
                  = Head(parseLine(text[i]).instruction)

LabelsInPlace ==
    \A i \in DOMAIN text :
        ~IsSeparator(i) =>
            \A label \in parseLine(text[i]).label :
                Programs[ThreadOf(i)].labels[label] = Position(i)

Accepted ==
    /\ \A i \in DOMAIN text : ~IsBad(i)
    /\ CurrentThread /\ Sizes /\ InstructionsInPlace /\ LabelsInPlace

Rejected ==
    \E first \in DOMAIN text :
        /\ first = Locals.error /\ IsBad(first)
        /\ \A i \in DOMAIN text : IsBad(i) => first <= i

IInv ==
    /\ text \in Seq(Line) /\ Locals \in LoopState
    /\ IF Locals.error = 0 THEN Accepted ELSE Rejected

(* What a line adds to its thread.                                         *)
LEMMA NextLine ==
    ASSUME text \in Seq(Line), NEW line \in Line, text' = Append(text, line),
           NEW n \in Nat, n = Len(text)
    PROVE  /\ IsSeparator(n + 1)' <=> line = THREAD_SEPARATOR
           /\ HasInstruction(n + 1)' <=>
                 line # THREAD_SEPARATOR /\ parseLine(line).instruction # <<>>
           /\ Open' <=> /\ line # THREAD_SEPARATOR
                        /\ Open \/ parseLine(line).instruction # <<>>
           /\ \A k : Own(k)' = IF line # THREAD_SEPARATOR /\ k = ThreadOf(n + 1)
                               THEN Own(k) \cup {n + 1} ELSE Own(k)
<1>1. /\ Len(text') = n + 1 /\ text'[n + 1] = line
      /\ \A i \in 1 .. n :
            /\ text'[i] = text[i]
            /\ IsSeparator(i)' <=> IsSeparator(i)
            /\ HasInstruction(i)' <=> HasInstruction(i)
  BY EarlierLines
<1>2. /\ \A i \in 1 .. (n + 1) : ThreadOf(i)' = ThreadOf(i)
      /\ DOMAIN text = 1 .. n /\ DOMAIN text' = 1 .. (n + 1)
  BY <1>1, EarlierThreads, LenProperties, AppendProperties
<1>3. IsSeparator(n + 1)' <=> line = THREAD_SEPARATOR
  BY <1>1 DEF IsSeparator
<1>4. HasInstruction(n + 1)' <=>
         line # THREAD_SEPARATOR /\ parseLine(line).instruction # <<>>
  BY <1>1, <1>3 DEF HasInstruction
<1>5. Open' <=> line # THREAD_SEPARATOR /\ (Open \/ parseLine(line).instruction # <<>>)
  <2>1. Open' <=> \E j \in 1 .. (n + 1) :
                     HasInstruction(j)' /\ \A k \in j .. (n + 1) : ~IsSeparator(k)'
    BY <1>1 DEF Open
  <2>2. \A j \in 1 .. (n + 1) :
           /\ j = n + 1 \/ j \in 1 .. n
           /\ n + 1 \in j .. (n + 1)
           /\ \A k \in j .. (n + 1) : k = n + 1 \/ (k \in j .. n /\ k \in 1 .. n)
           /\ \A k \in j .. n : k \in 1 .. n /\ k \in j .. (n + 1)
    OBVIOUS
  <2>3. \A j \in 1 .. n : j \in 1 .. (n + 1)
    OBVIOUS
  <2>4. n + 1 \in 1 .. (n + 1) /\ \A k \in (n + 1) .. (n + 1) : k = n + 1
    OBVIOUS
  <2>5. Open <=> \E j \in 1 .. n : HasInstruction(j) /\ \A k \in j .. n : ~IsSeparator(k)
    BY DEF Open
  <2>6. CASE line = THREAD_SEPARATOR
    BY <1>3, <2>1, <2>2, <2>6
  <2>7. CASE line # THREAD_SEPARATOR
    <3>1. ASSUME Open' PROVE Open \/ parseLine(line).instruction # <<>>
      BY <1>1, <1>4, <2>1, <2>2, <2>5, <3>1
    <3>2. ASSUME Open PROVE Open'
      <4>1. PICK j \in 1 .. n : HasInstruction(j) /\ \A k \in j .. n : ~IsSeparator(k)
        BY <2>5, <3>2
      <4>2. HasInstruction(j)'
        BY <1>1, <4>1
      <4>3. \A k \in j .. (n + 1) : ~IsSeparator(k)'
        BY <1>1, <1>3, <2>2, <2>3, <2>7, <4>1
      <4> QED BY <2>1, <2>3, <4>2, <4>3
    <3>3. ASSUME parseLine(line).instruction # <<>> PROVE Open'
      BY <1>3, <1>4, <2>1, <2>4, <2>7, <3>3
    <3> QED BY <2>7, <3>1, <3>2, <3>3
  <2> QED BY <2>6, <2>7
<1>6. \A k : Own(k)' = IF line # THREAD_SEPARATOR /\ k = ThreadOf(n + 1)
                       THEN Own(k) \cup {n + 1} ELSE Own(k)
  <2> SUFFICES ASSUME NEW k
               PROVE  Own(k)' = IF line # THREAD_SEPARATOR /\ k = ThreadOf(n + 1)
                                THEN Own(k) \cup {n + 1} ELSE Own(k)
    OBVIOUS
  <2>1. Own(k)' = {i \in 1 .. (n + 1) : ~IsSeparator(i)' /\ ThreadOf(i)' = k}
    BY <1>2 DEF Own
  <2>2. Own(k) = {i \in 1 .. n : ~IsSeparator(i) /\ ThreadOf(i) = k}
    BY <1>2 DEF Own
  <2>3. /\ \A i \in 1 .. (n + 1) : i = n + 1 \/ i \in 1 .. n
        /\ \A i \in 1 .. n : i \in 1 .. (n + 1)
        /\ n + 1 \in 1 .. (n + 1)
    OBVIOUS
  <2>4. \A i : i \in Own(k)' <=>
           \/ i \in Own(k)
           \/ i = n + 1 /\ line # THREAD_SEPARATOR /\ k = ThreadOf(n + 1)
    BY <1>1, <1>2, <1>3, <2>1, <2>2, <2>3
  <2> QED BY <2>4
<1> QED BY <1>3, <1>4, <1>5, <1>6

LEMMA NextCounts ==
    ASSUME text \in Seq(Line), NEW line \in Line, text' = Append(text, line),
           NEW n \in Nat, n = Len(text)
    PROVE  LET parsed == parseLine(line)
               own(k) == line # THREAD_SEPARATOR /\ k = ThreadOf(n + 1)
           IN  /\ \A k : /\ IsFiniteSet(InstructionLines(k))
                         /\ Cardinality(InstructionLines(k))'
                              = IF own(k) /\ parsed.instruction # <<>>
                                THEN Cardinality(InstructionLines(k)) + 1
                                ELSE Cardinality(InstructionLines(k))
                         /\ LabelsOf(k)' = IF own(k) THEN LabelsOf(k) \cup parsed.label
                                                     ELSE LabelsOf(k)
               /\ Position(n + 1) = Cardinality(InstructionLines(ThreadOf(n + 1)))
               /\ IsBad(n + 1)' <=>
                     /\ line # THREAD_SEPARATOR
                     /\ \/ parsed.failed
                        \/ LabelsOf(ThreadOf(n + 1)) \cap parsed.label # {}
<1> DEFINE parsed == parseLine(line)
           t == ThreadOf(n + 1)
           own(k) == line # THREAD_SEPARATOR /\ k = t
<1>1. /\ Len(text') = n + 1 /\ text'[n + 1] = line
      /\ \A i \in 1 .. n :
            /\ text'[i] = text[i]
            /\ IsSeparator(i)' <=> IsSeparator(i)
            /\ HasInstruction(i)' <=> HasInstruction(i)
  BY EarlierLines
<1>2. /\ \A i \in 1 .. (n + 1) : ThreadOf(i)' = ThreadOf(i)
      /\ DOMAIN text = 1 .. n /\ DOMAIN text' = 1 .. (n + 1)
  BY <1>1, EarlierThreads, LenProperties, AppendProperties
<1>3. /\ IsSeparator(n + 1)' <=> line = THREAD_SEPARATOR
      /\ HasInstruction(n + 1)' <=> line # THREAD_SEPARATOR /\ parsed.instruction # <<>>
      /\ \A k : Own(k)' = IF own(k) THEN Own(k) \cup {n + 1} ELSE Own(k)
  BY NextLine
<1>4. \A k : Own(k) \in SUBSET (1 .. n) /\ n + 1 \notin 1 .. n
  BY <1>2 DEF Own
<1> HIDE DEF t, own, parsed
<1>5. ASSUME NEW k
      PROVE  /\ IsFiniteSet(InstructionLines(k))
             /\ Cardinality(InstructionLines(k))'
                  = IF own(k) /\ parsed.instruction # <<>>
                    THEN Cardinality(InstructionLines(k)) + 1
                    ELSE Cardinality(InstructionLines(k))
  <2>1. IsFiniteSet(InstructionLines(k)) /\ InstructionLines(k) \in SUBSET (1 .. n)
    <3>1. IsFiniteSet(1 .. n)
      BY FS_Interval
    <3>2. InstructionLines(k) \in SUBSET (1 .. n)
      BY <1>4 DEF InstructionLines
    <3> QED BY <3>1, <3>2, FS_Subset
  <2>2. InstructionLines(k)' = {i \in Own(k)' : HasInstruction(i)'}
    BY DEF InstructionLines
  <2>3. InstructionLines(k) = {i \in Own(k) : HasInstruction(i)}
    BY DEF InstructionLines
  <2>4. HasInstruction(n + 1)' <=> parsed.instruction # <<>> /\ line # THREAD_SEPARATOR
    BY <1>3
  <2>5. InstructionLines(k)' = IF own(k) /\ parsed.instruction # <<>>
                               THEN InstructionLines(k) \cup {n + 1}
                               ELSE InstructionLines(k)
    <3>1. \A i \in Own(k) : HasInstruction(i)' <=> HasInstruction(i)
      BY <1>1, <1>4
    <3>2. own(k) => line # THREAD_SEPARATOR
      BY DEF own
    <3>3. Own(k)' = IF own(k) THEN Own(k) \cup {n + 1} ELSE Own(k)
      BY <1>3
    <3>4. \A i : i \in InstructionLines(k)' <=>
                    \/ i \in InstructionLines(k)
                    \/ i = n + 1 /\ own(k) /\ parsed.instruction # <<>>
      BY <2>2, <2>3, <2>4, <3>1, <3>2, <3>3
    <3> QED BY <3>4
  <2>6. n + 1 \notin InstructionLines(k)
    BY <1>4, <2>1
  <2>7. Cardinality(InstructionLines(k) \cup {n + 1})
           = Cardinality(InstructionLines(k)) + 1
    BY <2>1, <2>6, FS_AddElement
  <2>8. Cardinality(InstructionLines(k))'
           = Cardinality(IF own(k) /\ parsed.instruction # <<>>
                         THEN InstructionLines(k) \cup {n + 1}
                         ELSE InstructionLines(k))
    BY Zenon, <2>5
  <2> QED BY <2>1, <2>7, <2>8
<1>6. ASSUME NEW k
      PROVE  LabelsOf(k)' = IF own(k) THEN LabelsOf(k) \cup parsed.label ELSE LabelsOf(k)
  <2>1. \A x : x \in LabelsOf(k) <=> \E i \in Own(k) : x \in parseLine(text[i]).label
    BY DEF LabelsOf
  <2>2. \A x : x \in LabelsOf(k)' <=> \E i \in Own(k)' : x \in parseLine(text'[i]).label
    BY DEF LabelsOf
  <2>3. \A i \in Own(k) : text'[i] = text[i]
    BY <1>1, <1>4
  <2>4. text'[n + 1] = line /\ parsed = parseLine(line)
    BY <1>1 DEF parsed
  <2>5. Own(k)' = IF own(k) THEN Own(k) \cup {n + 1} ELSE Own(k)
    BY <1>3
  <2>6. CASE own(k)
    <3>1. \A x : x \in LabelsOf(k)' <=> x \in LabelsOf(k) \/ x \in parsed.label
      BY <2>1, <2>2, <2>3, <2>4, <2>5, <2>6
    <3> QED BY <2>6, <3>1
  <2>7. CASE ~own(k)
    <3>1. \A x : x \in LabelsOf(k)' <=> x \in LabelsOf(k)
      BY <2>1, <2>2, <2>3, <2>5, <2>7
    <3> QED BY <2>7, <3>1
  <2> QED BY <2>6, <2>7
<1>7. Position(n + 1) = Cardinality(InstructionLines(t))
  <2>1. Position(n + 1)
           = Cardinality({j \in 1 .. n : HasInstruction(j) /\ ThreadOf(j) = t})
    <3>1. (n + 1) - 1 = n
      OBVIOUS
    <3> QED BY <3>1 DEF Position, t
  <2>2. {j \in 1 .. n : HasInstruction(j) /\ ThreadOf(j) = t} = InstructionLines(t)
    BY <1>2 DEF InstructionLines, Own, HasInstruction
  <2> QED BY <2>1, <2>2
<1>8. IsBad(n + 1)' <=>
         line # THREAD_SEPARATOR /\ (parsed.failed \/ LabelsOf(t) \cap parsed.label # {})
  <2> DEFINE shares(other) == parseLine(other).label \cap parsed.label # {}
  <2>1. (\E j \in Own(t) : shares(text[j])) <=> LabelsOf(t) \cap parsed.label # {}
    <3>1. \A x : x \in LabelsOf(t) <=> \E j \in Own(t) : x \in parseLine(text[j]).label
      BY DEF LabelsOf
    <3>2. \A other : shares(other) <=> \E x \in parsed.label : x \in parseLine(other).label
      OBVIOUS
    <3>3. LabelsOf(t) \cap parsed.label # {} <=> \E x \in parsed.label : x \in LabelsOf(t)
      OBVIOUS
    <3> HIDE DEF shares
    <3> QED BY Zenon, <3>1, <3>2, <3>3
  <2>2. \A j : j \in Own(t) <=> j \in 1 .. n /\ ~IsSeparator(j) /\ ThreadOf(j) = t
    BY <1>2 DEF Own
  <2>3. IsBad(n + 1)' <=>
           /\ ~IsSeparator(n + 1)'
           /\ \/ parsed.failed
              \/ \E j \in 1 .. n : /\ ~IsSeparator(j)' /\ ThreadOf(j)' = ThreadOf(n + 1)'
                                    /\ shares(text'[j])
    <3>1. (n + 1) - 1 = n
      OBVIOUS
    <3> QED BY <1>1, <3>1 DEF IsBad, parsed
  <2>4. \A j \in 1 .. n : /\ IsSeparator(j)' <=> IsSeparator(j)
                          /\ text'[j] = text[j] /\ ThreadOf(j)' = ThreadOf(j)
    BY <1>1, <1>2
  <2>5. ThreadOf(n + 1)' = t
    BY <1>2 DEF t
  <2> HIDE DEF shares
  <2>6. (\E j \in 1 .. n : /\ ~IsSeparator(j)' /\ ThreadOf(j)' = ThreadOf(n + 1)'
                           /\ shares(text'[j]))
           <=> \E j \in Own(t) : shares(text[j])
    BY <2>2, <2>4, <2>5
  <2> QED BY <1>3, <2>1, <2>3, <2>6
<1> QED BY <1>5, <1>6, <1>7, <1>8 DEF own, t, parsed

LEMMA Beginning ==
    ASSUME Init PROVE IInv
<1>1. text = <<>> /\ text \in Seq(Line) /\ DOMAIN text = {} /\ Len(text) = 0
  BY DEF Init
<1>2. Locals = Initially
  BY <1>1, LoopEmpty DEF Locals
<1>3. Locals \in LoopState
  <2>1. text \in Seq(Seq(Token))
    BY <1>1
  <2> QED BY <2>1, LoopTyped DEF Locals
<1>4. /\ Locals.error = 0 /\ Locals.linesRead = 0 /\ Locals.program = <<>>
      /\ Locals.labelMapping = <<>> /\ Locals.threadPrograms = <<>>
  BY <1>2 DEF Initially
<1>5. Current = 1
  BY <1>1, ThreadNumbers DEF Current
<1>6. CurrentThread
  <2>1. ~Open
    BY <1>1 DEF Open
  <2>2. Len(Locals.threadPrograms) = 0
    BY <1>4
  <2> QED BY <1>1, <1>4, <1>5, <2>1, <2>2 DEF CurrentThread
<1>7. Sizes
  <2> SUFFICES ASSUME NEW k \in 1 .. Current
               PROVE  /\ Len(Programs[k].instructions) = Cardinality(InstructionLines(k))
                      /\ DOMAIN Programs[k].labels = LabelsOf(k)
    BY DEF Sizes
  <2>1. k = 1
    BY <1>5
  <2>2. Programs[1] = Program(Locals)
    BY <1>4 DEF Programs
  <2>3. Program(Locals).instructions = <<>> /\ Program(Locals).labels = <<>>
    BY <1>4 DEF Program
  <2>4. Own(k) = {}
    BY <1>1 DEF Own
  <2>5. Cardinality(InstructionLines(k)) = 0 /\ LabelsOf(k) = {}
    BY <2>4, FS_EmptySet DEF InstructionLines, LabelsOf
  <2>6. Len(<<>>) = 0 /\ DOMAIN <<>> = {}
    OBVIOUS
  <2> QED BY <2>1, <2>2, <2>3, <2>5, <2>6
<1> QED BY <1>1, <1>3, <1>4, <1>6, <1>7
        DEF IInv, Accepted, InstructionsInPlace, LabelsInPlace

(* What every step has in common.                                          *)
LEMMA NextLocals ==
    ASSUME IInv, NEW line \in Line, text' = Append(text, line),
           NEW n \in Nat, n = Len(text)
    PROVE  /\ text' \in Seq(Line) /\ line \in Seq(Token)
           /\ DOMAIN text = 1 .. n /\ DOMAIN text' = 1 .. (n + 1) /\ Len(text') = n + 1
           /\ Locals' = AfterLine(Locals, line) /\ Locals' \in LoopState
           /\ Current = ThreadOf(n + 1) /\ Current \in Nat \ {0}
           /\ Current' = IF line = THREAD_SEPARATOR /\ Open THEN Current + 1 ELSE Current
<1>1. text \in Seq(Line)
  BY DEF IInv
<1>2. /\ text' \in Seq(Line) /\ Len(text') = n + 1
      /\ DOMAIN text = 1 .. n /\ DOMAIN text' = 1 .. (n + 1)
  BY <1>1, AppendProperties, LenProperties
<1>3. line \in Seq(Token) /\ text' \in Seq(Seq(Token))
  BY <1>2, LineAssumption
<1>4. Locals' = AfterLine(Locals, line)
  BY <1>1, LoopAppend DEF Locals
<1>5. Locals' \in LoopState
  BY <1>3, LoopTyped DEF Locals
<1>6. Current = ThreadOf(n + 1) /\ Current \in Nat \ {0}
  BY ThreadNumbers DEF Current
<1>7. Current' = ThreadOf(n + 2)'
  <2>1. Len(text') + 1 = n + 2
    BY <1>2
  <2> QED BY <2>1 DEF Current, ThreadOf
<1>8. ThreadOf(n + 2)' = IF line = THREAD_SEPARATOR /\ Open
                         THEN ThreadOf(n + 1) + 1 ELSE ThreadOf(n + 1)
  BY <1>1, EarlierThreads
<1> QED BY <1>2, <1>3, <1>4, <1>5, <1>6, <1>7, <1>8

(* No line counts any more after an error.                                 *)
LEMMA LineAfterError ==
    ASSUME IInv, NEW line \in Line, text' = Append(text, line), Locals.error # 0
    PROVE  IInv'
<1> DEFINE n == Len(text)
<1>1. text \in Seq(Line) /\ n \in Nat
  BY LenProperties DEF IInv
<1>2. /\ text' \in Seq(Line) /\ DOMAIN text = 1 .. n /\ DOMAIN text' = 1 .. (n + 1)
      /\ Locals' = AfterLine(Locals, line) /\ Locals' \in LoopState
  BY <1>1, NextLocals
<1>3. Locals' = Locals
  BY <1>2, AfterError
<1>4. PICK first \in DOMAIN text :
         /\ first = Locals.error /\ IsBad(first)
         /\ \A i \in DOMAIN text : IsBad(i) => first <= i
  BY DEF IInv, Rejected
<1>5. \A i \in 1 .. n : IsBad(i)' <=> IsBad(i)
  BY <1>1, EarlierThreads
<1>6. IsBad(first)'
  BY <1>2, <1>4, <1>5
<1>7. \A i \in DOMAIN text' : IsBad(i)' => first <= i
  <2>1. \A i \in 1 .. (n + 1) : i \in 1 .. n \/ first <= i
    BY <1>1, <1>2, <1>4
  <2> HIDE DEF n
  <2> QED BY <1>2, <1>4, <1>5, <2>1
<1>8. first \in DOMAIN text' /\ first = Locals'.error /\ Locals'.error # 0
  BY <1>1, <1>2, <1>3, <1>4
<1>9. Rejected'
  BY <1>6, <1>7, <1>8 DEF Rejected
<1> QED BY <1>2, <1>8, <1>9 DEF IInv

(* What is in place stays there when the programs only grow.               *)
LEMMA PlacesStay ==
    ASSUME IInv, Locals.error = 0,
           NEW line \in Line, text' = Append(text, line),
           NEW n \in Nat, n = Len(text),
           \A k \in 1 .. Current :
              /\ Len(Programs[k].instructions) <= Len(Programs'[k].instructions)
              /\ Len(Programs'[k].instructions) \in Nat
              /\ \A j \in 1 .. Len(Programs[k].instructions) :
                    Programs'[k].instructions[j] = Programs[k].instructions[j]
              /\ \A label \in DOMAIN Programs[k].labels :
                    Programs'[k].labels[label] = Programs[k].labels[label]
    PROVE  /\ \A i \in 1 .. n :
                 HasInstruction(i)' =>
                    /\ Position(i)' + 1 \in 1 .. Len(Programs'[ThreadOf(i)'].instructions)
                    /\ Programs'[ThreadOf(i)'].instructions[Position(i)' + 1]
                          = Head(parseLine(text'[i]).instruction)
           /\ \A i \in 1 .. n :
                 ~IsSeparator(i)' =>
                    \A label \in parseLine(text'[i]).label :
                        Programs'[ThreadOf(i)'].labels[label] = Position(i)'
<1>1. text \in Seq(Line) /\ Accepted
  BY DEF IInv
<1>2. /\ \A i \in 1 .. n :
            /\ text'[i] = text[i]
            /\ IsSeparator(i)' <=> IsSeparator(i)
            /\ HasInstruction(i)' <=> HasInstruction(i)
      /\ \A i \in 1 .. (n + 1) : ThreadOf(i)' = ThreadOf(i) /\ Position(i)' = Position(i)
  BY <1>1, EarlierLines, EarlierThreads
<1>3. /\ DOMAIN text = 1 .. n /\ Current \in Nat \ {0} /\ Current = ThreadOf(n + 1)
      /\ \A k \in 1 .. Current : DOMAIN Programs[k].labels = LabelsOf(k)
  BY <1>1, NextLocals DEF Accepted, Sizes
<1>4. \A i \in 1 .. n : ThreadOf(i) \in 1 .. Current
  <2> SUFFICES ASSUME NEW i \in 1 .. n PROVE ThreadOf(i) \in 1 .. Current
    OBVIOUS
  <2>1. i \in Nat \ {0} /\ n + 1 \in Nat \ {0} /\ i <= n + 1
    OBVIOUS
  <2>2. ThreadOf(i) \in Nat \ {0} /\ ThreadOf(i) <= ThreadOf(n + 1)
    BY <2>1, ThreadNumbers
  <2> QED BY <1>3, <2>2
<1>5. ASSUME NEW i \in 1 .. n, HasInstruction(i)'
      PROVE  /\ Position(i)' + 1 \in 1 .. Len(Programs'[ThreadOf(i)'].instructions)
             /\ Programs'[ThreadOf(i)'].instructions[Position(i)' + 1]
                   = Head(parseLine(text'[i]).instruction)
  <2> DEFINE k == ThreadOf(i)
             j == Position(i) + 1
  <2>1. /\ HasInstruction(i) /\ text'[i] = text[i]
        /\ ThreadOf(i)' = k /\ Position(i)' + 1 = j
    BY <1>2, <1>5
  <2>2. /\ j \in 1 .. Len(Programs[k].instructions)
        /\ Programs[k].instructions[j] = Head(parseLine(text[i]).instruction)
    BY <1>1, <1>3, <2>1 DEF Accepted, InstructionsInPlace
  <2>3. k \in 1 .. Current
    BY <1>4
  <2> HIDE DEF k, j
  <2>4. j \in 1 .. Len(Programs'[k].instructions)
    BY <2>2, <2>3
  <2>5. Programs'[k].instructions[j] = Programs[k].instructions[j]
    BY <2>2, <2>3
  <2> QED BY <2>1, <2>2, <2>4, <2>5
<1>6. ASSUME NEW i \in 1 .. n, ~IsSeparator(i)', NEW label \in parseLine(text'[i]).label
      PROVE  Programs'[ThreadOf(i)'].labels[label] = Position(i)'
  <2> DEFINE k == ThreadOf(i)
  <2>1. /\ ~IsSeparator(i) /\ label \in parseLine(text[i]).label
        /\ ThreadOf(i)' = k /\ Position(i)' = Position(i)
    BY <1>2, <1>6
  <2>2. Programs[k].labels[label] = Position(i)
    BY <1>1, <1>3, <2>1 DEF Accepted, LabelsInPlace
  <2>3. label \in LabelsOf(k)
    BY <1>3, <2>1 DEF LabelsOf, Own
  <2>4. k \in 1 .. Current
    BY <1>4
  <2> HIDE DEF k
  <2>5. Programs'[k].labels[label] = Programs[k].labels[label]
    BY <1>3, <2>3, <2>4
  <2> QED BY <2>1, <2>2, <2>5
<1> QED BY <1>5, <1>6

(* The programs of the loop, the last one being assembled.                 *)
LEMMA ProgramsType ==
    ASSUME Locals \in LoopState
    PROVE  /\ Programs \in Seq(ThreadProgram)
           /\ Len(Programs) = Len(Locals.threadPrograms) + 1
           /\ Len(Locals.threadPrograms) \in Nat
           /\ Programs[Len(Programs)] = Program(Locals)
           /\ \A k \in 1 .. Len(Locals.threadPrograms) :
                 Programs[k] = Locals.threadPrograms[k]
<1>1. Locals.threadPrograms \in Seq(ThreadProgram) /\ Program(Locals) \in ThreadProgram
  BY ProgramType DEF LoopState
<1> QED BY <1>1, AppendProperties, LenProperties DEF Programs

LEMMA ThreadProgramType ==
    ASSUME NEW q \in ThreadProgram
    PROVE  q.instructions \in Seq(AllInstructions) /\ Len(q.instructions) \in Nat
<1>1. q.instructions \in Seq(AllInstructions)
  BY DEF ThreadProgram
<1> QED BY <1>1, LenProperties

(* A separator is never bad, nor is any line before an accepted one.       *)
LEMMA NoneBad ==
    ASSUME IInv, Locals.error = 0,
           NEW line \in Line, text' = Append(text, line),
           NEW n \in Nat, n = Len(text), ~IsBad(n + 1)'
    PROVE  \A i \in DOMAIN text' : ~IsBad(i)'
<1>1. \A i \in 1 .. n : IsBad(i)' <=> IsBad(i)
  BY EarlierThreads DEF IInv
<1>2. \A i \in 1 .. n : ~IsBad(i)
  BY NextLocals DEF IInv, Accepted
<1>3. DOMAIN text' = 1 .. (n + 1) /\ \A i \in 1 .. (n + 1) : i \in 1 .. n \/ i = n + 1
  BY NextLocals
<1> QED BY <1>1, <1>2, <1>3

(* A separator without a section before it changes nothing.                *)
LEMMA SeparatorOfNothing ==
    ASSUME IInv, Locals.error = 0, Locals.program = <<>>,
           NEW line \in Line, text' = Append(text, line), line = THREAD_SEPARATOR
    PROVE  IInv'
<1> SUFFICES ASSUME NEW n \in Nat, n = Len(text) PROVE IInv'
  BY LenProperties DEF IInv
<1>1. text \in Seq(Line) /\ Locals \in LoopState /\ Accepted
  BY DEF IInv
<1>2. /\ text' \in Seq(Line) /\ DOMAIN text = 1 .. n /\ DOMAIN text' = 1 .. (n + 1)
      /\ Len(text') = n + 1
      /\ Locals' = AfterLine(Locals, line) /\ Locals' \in LoopState
      /\ Current \in Nat \ {0}
      /\ Current' = IF line = THREAD_SEPARATOR /\ Open THEN Current + 1 ELSE Current
  BY <1>1, NextLocals
<1>3. /\ Locals'.error = 0 /\ Locals'.linesRead = Locals.linesRead + 1
      /\ Locals'.program = <<>> /\ Locals'.labelMapping = Locals.labelMapping
      /\ Locals'.threadPrograms = Locals.threadPrograms
  BY <1>1, <1>2, AtSeparator
<1>4. Programs' = Programs
  BY <1>3 DEF Programs, Program
<1>5. ~Open /\ Current' = Current
  BY <1>1, <1>2 DEF Accepted, CurrentThread
<1>6. ~Open'
  BY <1>1, NextLine
<1>7. CurrentThread'
  BY <1>1, <1>2, <1>3, <1>5, <1>6 DEF Accepted, CurrentThread
<1>8. Sizes'
  <2>1. \A k : /\ Cardinality(InstructionLines(k))' = Cardinality(InstructionLines(k))
               /\ LabelsOf(k)' = LabelsOf(k)
    BY <1>1, NextCounts
  <2> QED BY <1>1, <1>4, <1>5, <2>1 DEF Accepted, Sizes
<1>9. \A k \in 1 .. Current : Len(Programs[k].instructions) \in Nat
  BY <1>1, <1>2, ProgramsType, ThreadProgramType DEF Accepted, CurrentThread
<1>10. /\ InstructionsInPlace' /\ LabelsInPlace'
  <2>1. ~HasInstruction(n + 1)' /\ IsSeparator(n + 1)'
    BY <1>1, <1>2, NextLine DEF HasInstruction
  <2>2. /\ \A i \in 1 .. n :
              HasInstruction(i)' =>
                 /\ Position(i)' + 1 \in 1 .. Len(Programs'[ThreadOf(i)'].instructions)
                 /\ Programs'[ThreadOf(i)'].instructions[Position(i)' + 1]
                       = Head(parseLine(text'[i]).instruction)
        /\ \A i \in 1 .. n :
              ~IsSeparator(i)' =>
                 \A label \in parseLine(text'[i]).label :
                     Programs'[ThreadOf(i)'].labels[label] = Position(i)'
    <3>1. \A k \in 1 .. Current :
             /\ Len(Programs[k].instructions) <= Len(Programs'[k].instructions)
             /\ Len(Programs'[k].instructions) \in Nat
             /\ \A j \in 1 .. Len(Programs[k].instructions) :
                   Programs'[k].instructions[j] = Programs[k].instructions[j]
             /\ \A label \in DOMAIN Programs[k].labels :
                   Programs'[k].labels[label] = Programs[k].labels[label]
      BY <1>4, <1>9
    <3> QED BY <3>1, PlacesStay
  <2>3. \A i \in 1 .. (n + 1) : i \in 1 .. n \/ i = n + 1
    BY <1>1
  <2> QED BY <1>2, <2>1, <2>2, <2>3 DEF InstructionsInPlace, LabelsInPlace
<1>11. \A i \in DOMAIN text' : ~IsBad(i)'
  <2>1. ~IsBad(n + 1)'
    BY <1>1, NextCounts
  <2> QED BY <1>1, <2>1, NoneBad
<1> QED BY <1>2, <1>3, <1>7, <1>8, <1>10, <1>11 DEF IInv, Accepted

(* A separator after a section starts the next thread.                     *)
LEMMA SeparatorOfThread ==
    ASSUME IInv, Locals.error = 0, Locals.program # <<>>,
           NEW line \in Line, text' = Append(text, line), line = THREAD_SEPARATOR
    PROVE  IInv'
<1> SUFFICES ASSUME NEW n \in Nat, n = Len(text) PROVE IInv'
  BY LenProperties DEF IInv
<1>1. text \in Seq(Line) /\ Locals \in LoopState /\ Accepted
  BY DEF IInv
<1>2. /\ text' \in Seq(Line) /\ DOMAIN text = 1 .. n /\ DOMAIN text' = 1 .. (n + 1)
      /\ Len(text') = n + 1
      /\ Locals' = AfterLine(Locals, line) /\ Locals' \in LoopState
      /\ Current \in Nat \ {0} /\ Current = ThreadOf(n + 1)
      /\ Current' = IF line = THREAD_SEPARATOR /\ Open THEN Current + 1 ELSE Current
  BY <1>1, NextLocals
<1>3. /\ Locals'.error = 0 /\ Locals'.linesRead = Locals.linesRead + 1
      /\ Locals'.program = <<>> /\ Locals'.labelMapping = <<>>
      /\ Locals'.threadPrograms = Programs
  BY <1>1, <1>2, AtSeparator DEF Programs
<1>4. Open /\ Current' = Current + 1 /\ ~Open'
  BY <1>1, <1>2, NextLine DEF Accepted, CurrentThread
<1>5. /\ Programs \in Seq(ThreadProgram) /\ Len(Programs) = Current
  BY <1>1, ProgramsType DEF Accepted, CurrentThread
<1>6. /\ \A k \in 1 .. Current : Programs'[k] = Programs[k]
      /\ Programs'[Current + 1] = Program(Locals')
  <2>1. Programs' = Append(Programs, Program(Locals'))
    BY <1>3 DEF Programs
  <2>2. Program(Locals') \in ThreadProgram
    BY <1>2, ProgramType
  <2> QED BY <1>5, <2>1, <2>2, AppendProperties
<1>7. Program(Locals').instructions = <<>> /\ Program(Locals').labels = <<>>
  BY <1>3 DEF Program
<1>8. \A k \in 1 .. Current : Len(Programs[k].instructions) \in Nat
  BY <1>5, ThreadProgramType
<1>9. CurrentThread'
  <2>1. Locals.linesRead = n
    BY <1>1 DEF Accepted, CurrentThread
  <2> QED BY <1>2, <1>3, <1>4, <1>5, <2>1 DEF CurrentThread
<1>10. Sizes'
  <2>1. \A k : /\ Cardinality(InstructionLines(k))' = Cardinality(InstructionLines(k))
               /\ LabelsOf(k)' = LabelsOf(k)
    BY <1>1, NextCounts
  <2>2. \A k \in 1 .. Current :
           /\ Len(Programs[k].instructions) = Cardinality(InstructionLines(k))
           /\ DOMAIN Programs[k].labels = LabelsOf(k)
    BY <1>1 DEF Accepted, Sizes
  <2>3. Cardinality(InstructionLines(Current + 1)) = 0 /\ LabelsOf(Current + 1) = {}
    <3>1. \A i \in 1 .. n : ThreadOf(i) # Current + 1
      <4> SUFFICES ASSUME NEW i \in 1 .. n PROVE ThreadOf(i) # Current + 1
        OBVIOUS
      <4>1. i \in Nat \ {0} /\ n + 1 \in Nat \ {0} /\ i <= n + 1
        OBVIOUS
      <4>2. ThreadOf(i) \in Nat /\ ThreadOf(i) <= ThreadOf(n + 1)
        BY <4>1, ThreadNumbers
      <4> QED BY <1>2, <4>2
    <3>2. Own(Current + 1) = {}
      BY <1>2, <3>1 DEF Own
    <3> QED BY <3>2, FS_EmptySet DEF InstructionLines, LabelsOf
  <2>4. Len(<<>>) = 0 /\ DOMAIN <<>> = {}
    OBVIOUS
  <2>5. \A k \in 1 .. (Current + 1) : k \in 1 .. Current \/ k = Current + 1
    BY <1>2
  <2>6. ASSUME NEW k \in 1 .. (Current + 1)
        PROVE  /\ Len(Programs'[k].instructions) = Cardinality(InstructionLines(k))'
               /\ DOMAIN Programs'[k].labels = LabelsOf(k)'
    <3>1. CASE k \in 1 .. Current
      BY <1>6, <2>1, <2>2, <3>1
    <3>2. CASE k = Current + 1
      BY <1>6, <1>7, <2>1, <2>3, <2>4, <3>2
    <3> QED BY <2>5, <3>1, <3>2
  <2> QED BY <1>4, <2>6 DEF Sizes
<1>11. /\ InstructionsInPlace' /\ LabelsInPlace'
  <2>1. ~HasInstruction(n + 1)' /\ IsSeparator(n + 1)'
    BY <1>1, <1>2, NextLine DEF HasInstruction
  <2>2. /\ \A i \in 1 .. n :
              HasInstruction(i)' =>
                 /\ Position(i)' + 1 \in 1 .. Len(Programs'[ThreadOf(i)'].instructions)
                 /\ Programs'[ThreadOf(i)'].instructions[Position(i)' + 1]
                       = Head(parseLine(text'[i]).instruction)
        /\ \A i \in 1 .. n :
              ~IsSeparator(i)' =>
                 \A label \in parseLine(text'[i]).label :
                     Programs'[ThreadOf(i)'].labels[label] = Position(i)'
    <3>1. \A k \in 1 .. Current :
             /\ Len(Programs[k].instructions) <= Len(Programs'[k].instructions)
             /\ Len(Programs'[k].instructions) \in Nat
             /\ \A j \in 1 .. Len(Programs[k].instructions) :
                   Programs'[k].instructions[j] = Programs[k].instructions[j]
             /\ \A label \in DOMAIN Programs[k].labels :
                   Programs'[k].labels[label] = Programs[k].labels[label]
      BY <1>6, <1>8
    <3> QED BY <3>1, PlacesStay
  <2>3. \A i \in 1 .. (n + 1) : i \in 1 .. n \/ i = n + 1
    OBVIOUS
  <2> QED BY <1>2, <2>1, <2>2, <2>3 DEF InstructionsInPlace, LabelsInPlace
<1>12. \A i \in DOMAIN text' : ~IsBad(i)'
  <2>1. ~IsBad(n + 1)'
    BY <1>1, NextCounts
  <2> QED BY <1>1, <2>1, NoneBad
<1> QED BY <1>2, <1>3, <1>9, <1>10, <1>11, <1>12 DEF IInv, Accepted

(* The error names the line that cannot be parsed or repeats a label.      *)
LEMMA CommandRejected ==
    ASSUME IInv, Locals.error = 0,
           NEW line \in Line, text' = Append(text, line), line # THREAD_SEPARATOR,
           \/ parseLine(line).failed
           \/ parseLine(line).label \cap DOMAIN Locals.labelMapping # {}
    PROVE  IInv'
<1> SUFFICES ASSUME NEW n \in Nat, n = Len(text) PROVE IInv'
  BY LenProperties DEF IInv
<1>1. text \in Seq(Line) /\ Locals \in LoopState /\ Accepted
  BY DEF IInv
<1>2. /\ text' \in Seq(Line) /\ line \in Seq(Token)
      /\ DOMAIN text = 1 .. n /\ DOMAIN text' = 1 .. (n + 1)
      /\ Locals' = AfterLine(Locals, line) /\ Locals' \in LoopState
      /\ Current \in Nat \ {0} /\ Current = ThreadOf(n + 1)
  BY <1>1, NextLocals
<1>3. Locals'.error = n + 1
  <2>1. Locals.linesRead = n
    BY <1>1 DEF Accepted, CurrentThread
  <2>2. AfterLine(Locals, line).error = Locals.linesRead + 1
    BY <1>1, <1>2, AtCommand
  <2> QED BY <1>2, <2>1, <2>2
<1>4. DOMAIN Locals.labelMapping = LabelsOf(ThreadOf(n + 1))
  <2>1. Programs[Current] = Program(Locals) /\ Program(Locals).labels = Locals.labelMapping
    BY <1>1, ProgramsType, ProgramType DEF Accepted, CurrentThread
  <2>2. DOMAIN Programs[Current].labels = LabelsOf(Current)
    BY <1>1, <1>2 DEF Accepted, Sizes
  <2> QED BY <1>2, <2>1, <2>2
<1>5. IsBad(n + 1)'
  <2>1. parseLine(line).failed \/ LabelsOf(ThreadOf(n + 1)) \cap parseLine(line).label # {}
    BY <1>4
  <2>2. IsBad(n + 1)' <=>
           /\ line # THREAD_SEPARATOR
           /\ \/ parseLine(line).failed
              \/ LabelsOf(ThreadOf(n + 1)) \cap parseLine(line).label # {}
    BY <1>1, NextCounts
  <2> QED BY <2>1, <2>2
<1>6. \A i \in DOMAIN text' : IsBad(i)' => n + 1 <= i
  <2>1. \A i \in 1 .. n : IsBad(i)' <=> IsBad(i)
    BY <1>1, EarlierThreads
  <2>2. \A i \in 1 .. (n + 1) : i \in 1 .. n \/ n + 1 <= i
    OBVIOUS
  <2> QED BY <1>1, <1>2, <2>1, <2>2 DEF Accepted
<1>7. Rejected'
  <2>1. n + 1 \in DOMAIN text'
    BY <1>2
  <2> QED BY <1>3, <1>5, <1>6, <2>1 DEF Rejected
<1> QED BY <1>2, <1>3, <1>7 DEF IInv

(* A command adds its instruction and its label to the current thread.     *)
LEMMA CommandAccepted ==
    ASSUME IInv, Locals.error = 0,
           NEW line \in Line, text' = Append(text, line), line # THREAD_SEPARATOR,
           ~parseLine(line).failed,
           parseLine(line).label \cap DOMAIN Locals.labelMapping = {}
    PROVE  IInv'
<1> SUFFICES ASSUME NEW n \in Nat, n = Len(text) PROVE IInv'
  BY LenProperties DEF IInv
<1> DEFINE parsed == parseLine(line)
<1>1. text \in Seq(Line) /\ Locals \in LoopState /\ Accepted
  BY DEF IInv
<1>2. /\ text' \in Seq(Line) /\ line \in Seq(Token)
      /\ DOMAIN text = 1 .. n /\ DOMAIN text' = 1 .. (n + 1) /\ Len(text') = n + 1
      /\ Locals' = AfterLine(Locals, line) /\ Locals' \in LoopState
      /\ Current \in Nat \ {0} /\ Current = ThreadOf(n + 1) /\ Current' = Current
  BY <1>1, NextLocals
<1>3. /\ Locals'.error = 0 /\ Locals'.linesRead = n + 1
      /\ Locals'.labelMapping = WithLabels(Locals, parsed.label)
      /\ Locals'.program = Locals.program \o parsed.instruction
      /\ Locals'.threadPrograms = Locals.threadPrograms
  <2>1. Locals.linesRead = n
    BY <1>1 DEF Accepted, CurrentThread
  <2> DEFINE q == AfterLine(Locals, line)
  <2>2. /\ q.error = 0 /\ q.linesRead = Locals.linesRead + 1
        /\ q.labelMapping = WithLabels(Locals, parsed.label)
        /\ q.program = Locals.program \o parsed.instruction
        /\ q.threadPrograms = Locals.threadPrograms
    BY <1>1, <1>2, AtCommand
  <2> HIDE DEF q, parsed
  <2> QED BY <1>2, <2>1, <2>2 DEF q
<1>4. /\ text'[n + 1] = line
      /\ IsSeparator(n + 1)' <=> line = THREAD_SEPARATOR
      /\ HasInstruction(n + 1)' <=> line # THREAD_SEPARATOR /\ parsed.instruction # <<>>
      /\ Open' <=> line # THREAD_SEPARATOR /\ (Open \/ parsed.instruction # <<>>)
  BY <1>1, EarlierLines, NextLine
<1>5. /\ \A k : /\ Cardinality(InstructionLines(k))'
                     = IF k = Current /\ parsed.instruction # <<>>
                       THEN Cardinality(InstructionLines(k)) + 1
                       ELSE Cardinality(InstructionLines(k))
                /\ LabelsOf(k)' = IF k = Current THEN LabelsOf(k) \cup parsed.label
                                                 ELSE LabelsOf(k)
      /\ Position(n + 1) = Cardinality(InstructionLines(Current))
      /\ IsBad(n + 1)' <=> parsed.failed \/ LabelsOf(Current) \cap parsed.label # {}
  BY <1>1, <1>2, NextCounts
<1>6. /\ parsed.instruction = <<>>
         \/ \E i \in AllInstructions : parsed.instruction = <<i>>
  BY <1>2, ParsedLine
<1> HIDE DEF parsed
<1>7. /\ Len(Locals.threadPrograms) \in Nat /\ Len(Locals.threadPrograms) + 1 = Current
      /\ Len(Programs) = Current /\ Len(Programs') = Current
      /\ Programs \in Seq(ThreadProgram) /\ Programs' \in Seq(ThreadProgram)
      /\ \A k \in 1 .. Current : k # Current => Programs'[k] = Programs[k]
      /\ Programs[Current].instructions = Locals.program
      /\ Programs[Current].labels = Locals.labelMapping
      /\ Programs'[Current].instructions = Locals'.program
      /\ Programs'[Current].labels = Locals'.labelMapping
  <2>1. /\ Programs \in Seq(ThreadProgram)
        /\ Len(Programs) = Len(Locals.threadPrograms) + 1
        /\ Len(Locals.threadPrograms) \in Nat
        /\ Programs[Len(Programs)] = Program(Locals)
        /\ \A k \in 1 .. Len(Locals.threadPrograms) :
              Programs[k] = Locals.threadPrograms[k]
    BY <1>1, ProgramsType
  <2>2. Programs' = Append(Locals'.threadPrograms, Program(Locals'))
    BY DEF Programs
  <2>3. /\ Locals'.threadPrograms \in Seq(ThreadProgram)
        /\ Program(Locals') \in ThreadProgram
    BY <1>2, ProgramType DEF LoopState
  <2>4. /\ Programs' \in Seq(ThreadProgram)
        /\ Len(Programs') = Len(Locals'.threadPrograms) + 1
        /\ Programs'[Len(Programs')] = Program(Locals')
        /\ \A k \in 1 .. Len(Locals'.threadPrograms) :
              Programs'[k] = Locals'.threadPrograms[k]
    BY <2>2, <2>3, AppendProperties, LenProperties
  <2>5. Len(Locals.threadPrograms) + 1 = Current
    BY <1>1 DEF Accepted, CurrentThread
  <2>6. \A k \in 1 .. Current : k # Current => k \in 1 .. Len(Locals.threadPrograms)
    BY <1>2, <2>1, <2>5
  <2>7. /\ Program(Locals).instructions = Locals.program
        /\ Program(Locals).labels = Locals.labelMapping
        /\ Program(Locals').instructions = Locals'.program
        /\ Program(Locals').labels = Locals'.labelMapping
    BY <1>1, <1>2, ProgramType
  <2>8. Len(Programs') = Current /\ Len(Programs) = Current
    BY <1>3, <2>1, <2>4, <2>5
  <2> QED BY <1>3, <2>1, <2>4, <2>5, <2>6, <2>7, <2>8
<1>8. /\ Len(Locals.program) = Position(n + 1)
      /\ Len(Locals.program) \in Nat
      /\ DOMAIN Locals.labelMapping = LabelsOf(Current)
      /\ \A k \in 1 .. Current :
            /\ Len(Programs[k].instructions) \in Nat
            /\ Len(Programs[k].instructions) = Cardinality(InstructionLines(k))
            /\ DOMAIN Programs[k].labels = LabelsOf(k)
  <2>1. \A k \in 1 .. Current :
           /\ Len(Programs[k].instructions) = Cardinality(InstructionLines(k))
           /\ DOMAIN Programs[k].labels = LabelsOf(k)
    BY <1>1 DEF Accepted, Sizes
  <2>2. \A k \in 1 .. Current : Len(Programs[k].instructions) \in Nat
    BY <1>7, ThreadProgramType
  <2>3. Current \in 1 .. Current
    BY <1>2
  <2> QED BY <1>5, <1>7, <2>1, <2>2, <2>3
<1>9. /\ Locals.program \in Seq(AllInstructions)
      /\ Len(Locals'.program) = IF parsed.instruction = <<>> THEN Len(Locals.program)
                                                           ELSE Len(Locals.program) + 1
      /\ \A j \in 1 .. Len(Locals.program) : Locals'.program[j] = Locals.program[j]
      /\ parsed.instruction # <<>> =>
            Locals'.program[Len(Locals.program) + 1] = Head(parsed.instruction)
  <2>1. Locals.program \in Seq(AllInstructions)
    BY <1>1 DEF LoopState
  <2>2. CASE parsed.instruction = <<>>
    <3>1. Locals'.program = Locals.program
      BY <1>3, <2>1, <2>2
    <3> QED BY <2>1, <2>2, <3>1
  <2>3. CASE parsed.instruction # <<>>
    <3>1. PICK i \in AllInstructions : parsed.instruction = <<i>>
      BY <1>6, <2>3
    <3>2. Len(<<i>>) = 1 /\ Head(<<i>>) = i /\ <<i>> \in Seq(AllInstructions) /\ <<i>>[1] = i
      OBVIOUS
    <3>3. Locals'.program = Locals.program \o <<i>>
      BY <1>3, <3>1
    <3>4. /\ Len(Locals'.program) = Len(Locals.program) + 1
          /\ \A j \in 1 .. Len(Locals'.program) :
                Locals'.program[j] = IF j <= Len(Locals.program) THEN Locals.program[j]
                                     ELSE <<i>>[j - Len(Locals.program)]
      BY <2>1, <3>2, <3>3, ConcatProperties
    <3>5. \A j \in 1 .. Len(Locals.program) : Locals'.program[j] = Locals.program[j]
      BY <1>8, <3>4
    <3>6. Locals'.program[Len(Locals.program) + 1] = <<i>>[1]
      BY <1>8, <3>4
    <3> QED BY <2>1, <2>3, <3>1, <3>2, <3>4, <3>5, <3>6
  <2> QED BY <2>2, <2>3
<1>10. /\ DOMAIN Locals'.labelMapping = LabelsOf(Current) \cup parsed.label
       /\ \A l \in parsed.label : Locals'.labelMapping[l] = Position(n + 1)
       /\ \A l \in LabelsOf(Current) : Locals'.labelMapping[l] = Locals.labelMapping[l]
  <2>1. parsed.label \cap LabelsOf(Current) = {}
    BY <1>8 DEF parsed
  <2> QED BY <1>3, <1>8, <2>1 DEF WithLabels
<1>11. CurrentThread'
  <2>1. Locals'.program # <<>> <=> Locals.program # <<>> \/ parsed.instruction # <<>>
    <3>1. Len(Locals'.program) = 0 <=> Locals'.program = <<>>
      <4>1. Locals'.program \in Seq(AllInstructions)
        BY <1>2 DEF LoopState
      <4> QED BY <4>1, EmptySeq
    <3>2. Len(Locals.program) = 0 <=> Locals.program = <<>>
      BY <1>9, EmptySeq
    <3> QED BY <1>8, <1>9, <3>1, <3>2
  <2>2. Locals.program # <<>> <=> Open
    BY <1>1 DEF Accepted, CurrentThread
  <2>3. Len(Locals'.threadPrograms) + 1 = Current'
    BY <1>2, <1>3, <1>7
  <2> QED BY <1>2, <1>3, <1>4, <2>1, <2>2, <2>3 DEF CurrentThread
<1>12. Sizes'
  <2>1. ASSUME NEW k \in 1 .. Current
        PROVE  /\ Len(Programs'[k].instructions) = Cardinality(InstructionLines(k))'
               /\ DOMAIN Programs'[k].labels = LabelsOf(k)'
    <3>1. CASE k # Current
      BY <1>5, <1>7, <1>8, <3>1
    <3>2. CASE k = Current
      BY <1>5, <1>7, <1>8, <1>9, <1>10, <3>2
    <3> QED BY <3>1, <3>2
  <2> QED BY <1>2, <2>1 DEF Sizes
<1>13. InstructionsInPlace' /\ LabelsInPlace'
  <2>1. /\ \A i \in 1 .. n :
              HasInstruction(i)' =>
                 /\ Position(i)' + 1 \in 1 .. Len(Programs'[ThreadOf(i)'].instructions)
                 /\ Programs'[ThreadOf(i)'].instructions[Position(i)' + 1]
                       = Head(parseLine(text'[i]).instruction)
        /\ \A i \in 1 .. n :
              ~IsSeparator(i)' =>
                 \A label \in parseLine(text'[i]).label :
                     Programs'[ThreadOf(i)'].labels[label] = Position(i)'
    <3>1. ASSUME NEW k \in 1 .. Current
          PROVE  /\ Len(Programs[k].instructions) <= Len(Programs'[k].instructions)
                 /\ Len(Programs'[k].instructions) \in Nat
                 /\ \A j \in 1 .. Len(Programs[k].instructions) :
                       Programs'[k].instructions[j] = Programs[k].instructions[j]
                 /\ \A label \in DOMAIN Programs[k].labels :
                       Programs'[k].labels[label] = Programs[k].labels[label]
      <4>1. CASE k # Current
        BY <1>7, <1>8, <4>1
      <4>2. CASE k = Current
        <5>1. /\ Programs[k].instructions = Locals.program
              /\ Programs'[k].instructions = Locals'.program
              /\ Programs[k].labels = Locals.labelMapping
              /\ Programs'[k].labels = Locals'.labelMapping
          BY <1>7, <4>2
        <5>2. Len(Locals.program) <= Len(Locals'.program) /\ Len(Locals'.program) \in Nat
          BY <1>8, <1>9
        <5>3. \A label \in DOMAIN Locals.labelMapping :
                 Locals'.labelMapping[label] = Locals.labelMapping[label]
          BY <1>8, <1>10
        <5> QED BY <1>9, <5>1, <5>2, <5>3
      <4> QED BY <4>1, <4>2
    <3> QED BY <3>1, PlacesStay
  <2>2. ThreadOf(n + 1)' = Current /\ Position(n + 1)' = Position(n + 1)
    <3>1. n + 1 \in 1 .. (n + 1)
      OBVIOUS
    <3> QED BY Zenon, <1>1, <1>2, <3>1, EarlierThreads
  <2>3. HasInstruction(n + 1)' =>
           /\ Position(n + 1)' + 1 \in 1 .. Len(Programs'[ThreadOf(n + 1)'].instructions)
           /\ Programs'[ThreadOf(n + 1)'].instructions[Position(n + 1)' + 1]
                 = Head(parseLine(text'[n + 1]).instruction)
    BY <1>4, <1>7, <1>8, <1>9, <2>2 DEF parsed
  <2>4. \A label \in parseLine(text'[n + 1]).label :
           Programs'[ThreadOf(n + 1)'].labels[label] = Position(n + 1)'
    BY <1>4, <1>7, <1>10, <2>2 DEF parsed
  <2>5. \A i \in 1 .. (n + 1) : i \in 1 .. n \/ i = n + 1
    OBVIOUS
  <2>6. InstructionsInPlace'
    BY <1>2, <2>1, <2>3, <2>5 DEF InstructionsInPlace
  <2>7. LabelsInPlace'
    BY <1>2, <2>1, <2>4, <2>5 DEF LabelsInPlace
  <2> QED BY <2>6, <2>7
<1>14. \A i \in DOMAIN text' : ~IsBad(i)'
  <2>1. LabelsOf(Current) \cap parsed.label = {} /\ ~parsed.failed
    BY <1>8 DEF parsed
  <2>2. ~IsBad(n + 1)'
    BY <1>5, <2>1
  <2> QED BY <1>1, <2>2, NoneBad
<1> QED BY <1>2, <1>3, <1>11, <1>12, <1>13, <1>14 DEF IInv, Accepted

LEMMA NextIInv ==
    ASSUME IInv, [ReadLine]_text PROVE IInv'
<1>1. CASE UNCHANGED text
  <2>1. Locals' = Locals /\ Programs' = Programs
    BY <1>1 DEF Locals, Programs
  <2>2. \A i : /\ IsSeparator(i)' = IsSeparator(i) /\ HasInstruction(i)' = HasInstruction(i)
              /\ Separates(i)' = Separates(i)
    BY <1>1 DEF IsSeparator, HasInstruction, Separates
  <2>3. \A i : ThreadOf(i)' = ThreadOf(i)
    BY <2>2 DEF ThreadOf
  <2>4. \A i : Position(i)' = Position(i)
    BY <2>2, <2>3 DEF Position
  <2>5. \A i : IsBad(i)' = IsBad(i)
    BY <1>1, <2>2, <2>3 DEF IsBad
  <2>6. \A k : Own(k)' = Own(k)
    BY <1>1, <2>2, <2>3 DEF Own
  <2>7. \A k : InstructionLines(k)' = InstructionLines(k) /\ LabelsOf(k)' = LabelsOf(k)
    BY <1>1, <2>2, <2>6 DEF InstructionLines, LabelsOf
  <2>8. Current' = Current /\ Open' = Open
    BY <1>1, <2>2, <2>3 DEF Current, Open, ThreadOf, Separates, IsSeparator, HasInstruction
  <2>9. CurrentThread' = CurrentThread
    BY <1>1, <2>1, <2>8 DEF CurrentThread
  <2>10. Sizes' = Sizes
    BY <2>1, <2>7, <2>8 DEF Sizes
  <2>11. /\ InstructionsInPlace' = InstructionsInPlace
         /\ LabelsInPlace' = LabelsInPlace
    BY <1>1, <2>1, <2>2, <2>3, <2>4 DEF InstructionsInPlace, LabelsInPlace
  <2>12. Accepted' = Accepted /\ Rejected' = Rejected
    BY <1>1, <2>1, <2>5, <2>9, <2>10, <2>11 DEF Accepted, Rejected
  <2> QED BY <1>1, <2>1, <2>12 DEF IInv
<1>2. CASE ReadLine
  <2>1. PICK line \in Line : text' = Append(text, line)
    BY <1>2 DEF ReadLine
  <2>2. CASE Locals.error # 0
    BY <2>1, <2>2, LineAfterError
  <2>3. CASE Locals.error = 0 /\ line = THREAD_SEPARATOR
    BY <2>1, <2>3, SeparatorOfNothing, SeparatorOfThread
  <2>4. CASE Locals.error = 0 /\ line # THREAD_SEPARATOR
    BY <2>1, <2>4, CommandRejected, CommandAccepted
  <2> QED BY <2>2, <2>3, <2>4
<1> QED BY <1>1, <1>2

LEMMA Invariance == Spec => []IInv
<1>1. Init => IInv
  BY Beginning
<1>2. IInv /\ [ReadLine]_text => IInv'
  BY NextIInv
<1> QED BY <1>1, <1>2, PTL DEF Spec

LEMMA ParsedIsLocals == Parsed.error = Locals.error /\ Parsed.programs = Programs
  BY DEF Parsed, parseFromStream, Locals, Programs, Loop

(***************************************************************************)
(* For every set of lines, threads get the instructions of their lines in  *)
(* order and each label the position of the next instruction.              *)
(***************************************************************************)
THEOREM ThreadsWritten == Spec => []ThreadsAreAsWritten
<1>1. IInv => ThreadsAreAsWritten
  <2> SUFFICES ASSUME IInv, Locals.error = 0 PROVE ThreadsAreAsWritten
    BY ParsedIsLocals DEF ThreadsAreAsWritten
  <2>1. /\ CurrentThread /\ Sizes /\ InstructionsInPlace /\ LabelsInPlace
        /\ Locals \in LoopState
    BY DEF IInv, Accepted
  <2>2. /\ Len(Programs) = Current /\ Programs \in Seq(ThreadProgram)
        /\ DOMAIN Programs = 1 .. Current
    BY <2>1, ProgramsType, LenProperties DEF CurrentThread
  <2>3. \A k : {i \in {i \in DOMAIN text : ~IsSeparator(i)} : ThreadOf(i) = k} = Own(k)
    BY DEF Own
  <2>4. \A k \in DOMAIN Programs :
           /\ Len(Programs[k].instructions)
                = Cardinality({i \in Own(k) : HasInstruction(i)})
           /\ DOMAIN Programs[k].labels = UNION {parseLine(text[i]).label : i \in Own(k)}
    BY <2>1, <2>2 DEF Sizes, InstructionLines, LabelsOf
  <2>5. \A i \in {i \in DOMAIN text : ~IsSeparator(i)} :
           /\ HasInstruction(i) =>
                 Programs[ThreadOf(i)].instructions[Position(i) + 1]
                     = Head(parseLine(text[i]).instruction)
           /\ \A label \in parseLine(text[i]).label :
                 Programs[ThreadOf(i)].labels[label] = Position(i)
    BY <2>1 DEF InstructionsInPlace, LabelsInPlace
  <2>6. Len(Programs) = ThreadOf(Len(text) + 1)
    BY <2>2 DEF Current
  <2> QED BY <2>3, <2>4, <2>5, <2>6, ParsedIsLocals DEF ThreadsAreAsWritten
<1> QED BY <1>1, Invariance, PTL

(***************************************************************************)
(* A text is rejected exactly at its first line that cannot be parsed or   *)
(* repeats a label of its thread.                                          *)
(***************************************************************************)
THEOREM ErrorsNamed == Spec => []ErrorsNameTheirLine
<1>1. IInv => ErrorsNameTheirLine
  <2> SUFFICES ASSUME IInv PROVE ErrorsNameTheirLine
    OBVIOUS
  <2> DEFINE bad == {i \in DOMAIN text : IsBad(i)}
  <2>1. CASE Locals.error = 0
    <3>1. bad = {}
      BY <2>1 DEF IInv, Accepted
    <3> QED BY <2>1, <3>1, ParsedIsLocals DEF ErrorsNameTheirLine
  <2>2. CASE Locals.error # 0
    <3>1. PICK first \in DOMAIN text :
             /\ first = Locals.error /\ IsBad(first)
             /\ \A i \in DOMAIN text : IsBad(i) => first <= i
      BY <2>2 DEF IInv, Rejected
    <3>2. bad \in SUBSET Nat /\ first \in Nat
      <4>1. DOMAIN text = 1 .. Len(text) /\ Len(text) \in Nat
        BY LenProperties DEF IInv
      <4> QED BY <4>1
    <3>3. first \in bad /\ \A j \in bad : first <= j
      BY <3>1
    <3> HIDE DEF bad
    <3>4. (CHOOSE i \in bad : \A j \in bad : i <= j) = first
      <4> DEFINE least(i) == i \in bad /\ \A j \in bad : i <= j
      <4>1. least(first)
        BY <3>3
      <4>2. least(CHOOSE i : least(i))
        BY <4>1
      <4>3. \A c \in Nat : c <= first /\ first <= c => c = first
        BY <3>2, <3>3
      <4>4. \A c : least(c) => c = first
        BY <3>2, <3>3, <4>3
      <4>5. (CHOOSE i : least(i)) = first
        <5> HIDE DEF least
        <5> QED BY Zenon, <4>2, <4>4
      <4> QED BY <4>5
    <3>5. Locals.error = IF bad = {} THEN 0 ELSE CHOOSE i \in bad : \A j \in bad : i <= j
      BY <3>1, <3>3, <3>4
    <3> QED BY <3>5, ParsedIsLocals DEF ErrorsNameTheirLine, bad
  <2> QED BY <2>1, <2>2
<1> QED BY <1>1, Invariance, PTL

(***************************************************************************)
(* Every instruction of a parsed text that is no fetch-and-increment is    *)
(* read back as str() prints it.  A parsed register, address or label is   *)
(* what a size_t holds, whatever number within its range was written.      *)
(***************************************************************************)
THEOREM PrintedReadBack == Spec => []PrintedIsReadBack
<1>1. IInv => PrintedIsReadBack
  <2> SUFFICES ASSUME IInv, NEW instruction \in Parsing,
                      instruction.action # "FetchAndIncrement"
               PROVE  IsReadBack(instruction)
    BY DEF PrintedIsReadBack
  <2>1. Programs \in Seq(ThreadProgram)
    BY ProgramsType DEF IInv
  <2>2. PICK k \in DOMAIN Programs : instruction \in Range(Programs[k].instructions)
    BY ParsedIsLocals DEF Parsing
  <2>3. Programs[k].instructions \in Seq(AllInstructions)
    <3>1. Programs[k] \in ThreadProgram
      BY <2>1, <2>2
    <3> QED BY <3>1, ThreadProgramType
  <2>4. instruction \in AllInstructions
    BY <2>2, <2>3 DEF Range
  <2> QED BY <2>4, ReadAsPrinted
<1> QED BY <1>1, Invariance, PTL
=============================================================================
