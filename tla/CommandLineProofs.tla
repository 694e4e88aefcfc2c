-------------------------- MODULE CommandLineProofs --------------------------
(* Proofs about CommandLine, for any declarations and any command lines.     *)
EXTENDS CommandLine, FiniteSetTheorems, WellFoundedInduction, TLAPS

(* The fields of a declaration. *)
LEMMA Fields ==
  ASSUME NEW d \in Declaration
  PROVE  /\ d.id \in Ids /\ d # None
         /\ d.form \in Forms /\ d.type \in OptionTypes \union ValueTypes
         /\ d.base \in {"None", "String", "Integer", "Float"} /\ d.limit \in {"none", "range", "enum"}
         /\ d.ch \in Chars \union {None} /\ d.name \in Names \union {None}
         /\ d.cfg \in Seq(Int)
         /\ d.limit = "range" => d.base \in {"Integer", "Float"}
BY CommandLineAssumption DEF Declaration

(* Nothing is declared and nothing is known. *)
LEMMA InitInv == Init => IInv
<1> SUFFICES ASSUME Init PROVE IInv
  OBVIOUS
<1>. USE CommandLineAssumption DEF Init, NoOptions
<1>1. TypeOK
  <2>1. parsedValArgs \in Seq(Values) /\ valArgs \in Seq(Values) /\ idx \in Nat \ {0}
    OBVIOUS
  <2>2. optVals \in [Ids -> Values \union {None}] /\ parsedOptVals \in [Ids -> Values \union {None}]
    OBVIOUS
  <2>3. optValueInSameArg \in BOOLEAN /\ threw \in BOOLEAN
    <3>1. threw = FALSE
      BY ONLY Init, Zenon DEF Init
    <3>2. optValueInSameArg \in BOOLEAN
      BY ONLY Init, Zenon DEF Init
    <3>. QED  BY ONLY <3>1, <3>2
  <2>4. line = None /\ stage = "idle"
    OBVIOUS
  <2>5. expectedArgs \in [Ids -> Entries] /\ idValueTypeArg \in Ids \union {None}
    BY DEF Entries
  <2>6. argsByCharLabel \in [Chars -> Ids \union {None}] /\ argsByNameLabel \in [Names -> Ids \union {None}]
    OBVIOUS
  <2>. QED  BY ONLY <2>1, <2>2, <2>3, <2>4, <2>5, <2>6 DEF TypeOK
<1>2. LabelsLead
  BY DEF LabelsLead
<1>3. CastsAreRight
  BY DEF CastsAreRight
<1>4. ResultsFit /\ CallFits
  BY DEF ResultsFit, CallFits, OptionsFit, ValuesFit
<1>5. OnlyCoherent /\ Following
  BY DEF OnlyCoherent, Following
<1>. QED  BY <1>1, <1>2, <1>3, <1>4, <1>5 DEF IInv

(* The argument that an option of the line denotes, and its text. *)
LEMMA TurnTypes ==
  ASSUME TypeOK, Turn
  PROVE  /\ Arg \in Word /\ Arg.whole \in Texts
         /\ ArgId \in Ids \union {None} \/ Arg.label = None
         /\ Accompanying \in Texts \union {None}
<1>1. line \in Lines /\ line \in Seq(Word)
  BY CommandLineAssumption DEF TypeOK, Turn
<1>2. \A i \in 1..Len(line) : line[i] \in Word
  BY <1>1
<1>3. \A w \in Word : w.label \in Chars \union Names \union {None} /\ w.text \in Texts \union {None} /\ w.whole \in Texts
  BY DEF Word
<1>5. idx \in 1..Len(line) /\ (idx < Len(line) => idx + 1 \in 1..Len(line))
  BY <1>1 DEF TypeOK, Turn
<1>6. ArgId \in Ids \union {None} \/ Arg.label = None
  BY <1>2, <1>3, <1>5 DEF ArgId, Arg, TypeOK
<1>7. Accompanying \in Texts \union {None}
  BY <1>2, <1>3, <1>5 DEF Accompanying, Arg
<1>. QED  BY <1>2, <1>3, <1>5, <1>6, <1>7 DEF Arg

(* What a text stands for is a value, unless it does not read as one.        *)
LEMMA ReadsValue ==
  ASSUME NEW d \in Declaration, NEW t \in Texts
  PROVE  /\ ValueOf(d, t) \in Values \union {None} /\ None \notin Values
         /\ d.base \in {"Integer", "String"} => ValueOf(d, t) \in Int \union {None} /\ ValueOf(d, t) # NaN
<1>1. None \notin Values /\ NaN # None /\ NaN \notin Int /\ t \in Int
  BY CommandLineAssumption DEF Values
<1>2. ReadInteger[t] \in Int \union {None} /\ ReadFloat[t] \in Values \union {None}
  BY CommandLineAssumption
<1>. QED  BY <1>1, <1>2 DEF ValueOf, Number, Values

(* A valid text is a value that fits. *)
LEMMA ValidFits ==
  ASSUME NEW d \in Declaration, NEW t \in Texts, IsValid(d, t), Len(d.cfg) >= ElementsRead(d)
  PROVE  ValueOf(d, t) \in Values /\ Fits(d, ValueOf(d, t))
<1>1. ValueOf(d, t) \in Values /\ (ValueOf(d, t) = NaN => d.base = "Float")
  BY ReadsValue, Fields DEF IsValid
<1>2. d.limit = "enum" => ValueOf(d, t) \in {d.cfg[i] : i \in 1..Len(d.cfg)}
  BY DEF IsValid, InEnum
<1>3. d.limit = "range" => ValueOf(d, t) \in d.cfg[Len(d.cfg) - 1]..d.cfg[Len(d.cfg)] \union {NaN}
  BY DEF IsValid, InRange
<1>. QED  BY <1>1, <1>2, <1>3 DEF IsValid, Fits

(* A turn that refuses the line, whether or not an assertion forbids it.     *)
Rejects == Turn /\ Fails /\ Return("fail") /\ UNCHANGED <<tables, optValueInSameArg, results, threw>>
LEMMA BothReject ==
  ASSUME ParseFails \/ ParseDenied
  PROVE  Rejects
<1>1. NamesValue => Fails
  BY DEF NamesValue, IsFirst, Fails, OptionIsValid, ValueTypes
<1>2. ReadsUntyped => Fails
  BY DEF ReadsUntyped, IsFirst, Fails, OptionIsValid, ValueIsValid, IsValid
<1>. QED  BY <1>1, <1>2 DEF ParseFails, ParseDenied, Rejects

(* What the actions that declare, and the others, leave alone. *)
Declares(d) == Refuse(d) \/ RefuseName(d) \/ RefuseLabelled(d) \/ RefuseId(d) \/ Accept(d)
Answers == (\E id \in Ids : GetArgValue(id)) \/ GetArgListOfValues
Parses == (\E l \in Lines : ParseBegin(l)) \/ ParseOption \/ ParseValue \/ Rejects \/ ParseStray
            \/ ParseEnds \/ ParseMiscounts
LEMMA Kinds ==
  ASSUME Next
  PROVE  (\E d \in Decls : Declares(d)) \/ Parses \/ Answers \/ Destroy
BY BothReject DEF Next, Declares, Parses, Answers, AddExpectedArgument

(* A declaration enters the tables, or some of its labels do. *)
LEMMA DeclareFrame ==
  ASSUME IInv, NEW d \in Decls, Declares(d)
  PROVE  /\ d \in Declaration
         /\ UNCHANGED <<optValueInSameArg, results, call, stage>> /\ stage = "idle"
         /\ \/ expectedArgs' = expectedArgs /\ threw' = TRUE
            \/ /\ expectedArgs' = [expectedArgs EXCEPT ![d.id] = d] /\ threw' = threw
               /\ expectedArgs[d.id] = None /\ Accept(d)
         /\ \/ idValueTypeArg' = idValueTypeArg
            \/ /\ idValueTypeArg = None /\ idValueTypeArg' = d.id
               /\ Charges(d) /\ (Accept(d) \/ expectedArgs[d.id] # None)
         /\ argsByCharLabel' = argsByCharLabel \/ (~CharIsTaken(d) /\ EnterChar(d))
         /\ argsByNameLabel' = argsByNameLabel \/ (~NameIsTaken(d) /\ EnterName(d))
<1>. USE DEF tables
<1>1. d \in Declaration
  BY CommandLineAssumption
<1>2. CASE Refuse(d)
  BY <1>1, <1>2 DEF Refuse, Declaring
<1>3. CASE RefuseName(d)
  BY <1>1, <1>3 DEF RefuseName, Declaring
<1>4. CASE RefuseLabelled(d)
  BY <1>1, <1>4 DEF RefuseLabelled, Declaring, FreeLabels
<1>5. CASE RefuseId(d)
  BY <1>1, <1>5 DEF RefuseId, Declaring, Fresh, FreeLabels
<1>6. CASE Accept(d)
  <2>1. threw' = (threw \/ FALSE) /\ threw \in BOOLEAN
    BY <1>6 DEF Accept, Declaring, IInv, TypeOK
  <2>2. threw' = threw
    BY ONLY <2>1
  <2>. QED  BY <1>1, <1>6, <2>2 DEF Accept, Declaring, Fresh, FreeLabels
<1>. QED  BY <1>2, <1>3, <1>4, <1>5, <1>6 DEF Declares

(* Declarations keep the types. *)
LEMMA TypeDeclare ==
  ASSUME IInv, NEW d \in Decls, Declares(d)
  PROVE  TypeOK'
<1>0. /\ d \in Declaration
      /\ UNCHANGED <<optValueInSameArg, results, call, stage>>
      /\ expectedArgs' \in {expectedArgs, [expectedArgs EXCEPT ![d.id] = d]}
      /\ idValueTypeArg' \in {idValueTypeArg, d.id}
      /\ argsByCharLabel' = argsByCharLabel \/ EnterChar(d)
      /\ argsByNameLabel' = argsByNameLabel \/ EnterName(d)
      /\ threw' = TRUE \/ threw' = threw
  BY DeclareFrame
<1>1. d.id \in Ids /\ d.ch \in Chars \union {None} /\ d.name \in Names \union {None}
  BY <1>0, Fields
<1>2. expectedArgs' \in [Ids -> Entries]
  BY <1>0, <1>1 DEF Entries, IInv, TypeOK
<1>3. idValueTypeArg' \in Ids \union {None}
  BY <1>0, <1>1 DEF IInv, TypeOK
<1>4. argsByCharLabel' \in [Chars -> Ids \union {None}]
  BY <1>0, <1>1 DEF EnterChar, IInv, TypeOK
<1>5. argsByNameLabel' \in [Names -> Ids \union {None}]
  BY <1>0, <1>1 DEF EnterName, IInv, TypeOK
<1>6. threw' \in BOOLEAN /\ optValueInSameArg' \in BOOLEAN
  <2>1. threw \in BOOLEAN /\ optValueInSameArg \in BOOLEAN
    BY ONLY IInv DEF IInv, TypeOK
  <2>2. optValueInSameArg' = optValueInSameArg /\ (threw' = TRUE \/ threw' = threw)
    BY <1>0
  <2>. QED  BY ONLY <2>1, <2>2
<1>7. UNCHANGED <<parsedOptVals, parsedValArgs, line, idx, optVals, valArgs, stage>>
  BY <1>0 DEF results, call
<1>. QED  BY ONLY IInv, <1>2, <1>3, <1>4, <1>5, <1>6, <1>7 DEF IInv, TypeOK

(* What the parser leaves alone. *)
LEMMA ParseFrame ==
  ASSUME Parses
  PROVE  UNCHANGED <<expectedArgs, argsByCharLabel, argsByNameLabel, idValueTypeArg, optValueInSameArg, threw>>
BY DEF Parses, ParseBegin, ParseOption, ParseValue, Rejects, ParseStray, ParseEnds, ParseMiscounts, tables

(* The parser keeps the types. *)
LEMMA TypeParse ==
  ASSUME IInv, Parses
  PROVE  TypeOK'
<1>. DEFINE Same == UNCHANGED <<expectedArgs, argsByCharLabel, argsByNameLabel, idValueTypeArg, optValueInSameArg, threw>>
            Call == /\ optVals \in [Ids -> Values \union {None}] /\ valArgs \in Seq(Values) /\ idx \in Nat \ {0}
                    /\ parsedOptVals \in [Ids -> Values \union {None}] /\ parsedValArgs \in Seq(Values)
                    /\ stage \in {"idle", "parsing", "undefined", "gone"}
                    /\ line \in Lines \union {None} /\ (line = None <=> stage \in {"idle", "gone"})
<1>0. SUFFICES Call'
  <2>1. Same
    BY ParseFrame
  <2>. QED  BY ONLY IInv, <2>1, Call' DEF IInv, TypeOK
<1>a. Call
  BY DEF IInv, TypeOK
<1>b. None \notin Lines
  BY CommandLineAssumption
<1>c. NoOptions \in [Ids -> Values \union {None}] /\ <<>> \in Seq(Values)
  BY DEF NoOptions
<1>1. ASSUME NEW l \in Lines, ParseBegin(l) PROVE Call'
  BY <1>1, <1>a, <1>b, <1>c DEF ParseBegin, results
<1>2. CASE ParseOption
  <2>1. ArgId \in Ids /\ ArgDecl \in Declaration /\ Accompanying \in Texts \union {None}
    BY <1>2, TurnTypes DEF ParseOption, IsOption, IsDeclared, ArgDecl, Entries, IInv, TypeOK
  <2>2. ASSUME ArgDecl.type # "OptionSwitch" PROVE ValueOf(ArgDecl, Accompanying) \in Values
    <3>1. Accompanying \in Texts /\ IsValid(ArgDecl, Accompanying)
      BY <1>2, <2>1, <2>2 DEF ParseOption, OptionIsValid
    <3>. QED  BY <2>1, <3>1, ReadsValue DEF IsValid
  <2>3. optVals' \in [Ids -> Values \union {None}]
    BY <1>2, <1>a, <2>1, <2>2 DEF ParseOption, Values
  <2>4. idx' = idx + 1 \/ idx' = idx + 2
    BY <1>2 DEF ParseOption
  <2>5. idx' \in Nat \ {0}
    BY ONLY <1>a, <2>4
  <2>. QED  BY <1>2, <1>a, <2>3, <2>5 DEF ParseOption, results
<1>3. CASE ParseValue
  <2>1. ValueOf(ValueDecl, Arg.whole) \in Values
    <3>1. IsValid(ValueDecl, Arg.whole) /\ idValueTypeArg # None
      BY <1>3 DEF ParseValue, ValueIsValid, ValueIsExpected
    <3>2. Arg.whole \in Texts
      BY <1>3, TurnTypes DEF ParseValue, IInv
    <3>3. ValueDecl \in Declaration
      BY <3>1 DEF IInv, TypeOK, LabelsLead, ValueDecl, Entries
    <3>. QED  BY <3>1, <3>2, <3>3, ReadsValue DEF IsValid
  <2>2. valArgs' \in Seq(Values) /\ idx' \in Nat \ {0}
    BY <1>3, <1>a, <2>1 DEF ParseValue
  <2>. QED  BY <1>3, <1>a, <2>2 DEF ParseValue, results
<1>4. CASE Rejects
  BY <1>4, <1>a, <1>c DEF Rejects, Return, results
<1>5. CASE ParseStray
  BY <1>5, <1>a DEF ParseStray, Turn, call, results
<1>6. CASE ParseEnds
  BY <1>6, <1>a, <1>c DEF ParseEnds, Return
<1>7. CASE ParseMiscounts
  BY <1>7, <1>a, <1>c DEF ParseMiscounts, Return, results
<1>. QED  BY <1>1, <1>2, <1>3, <1>4, <1>5, <1>6, <1>7 DEF Parses

(* The other actions leave everything but what they return and the stage. *)
LEMMA OtherFrame ==
  ASSUME Answers \/ Destroy \/ UNCHANGED vars
  PROVE  /\ UNCHANGED <<tables, optValueInSameArg, results, call, threw>>
         /\ stage' = stage \/ (stage = "idle" /\ stage' = "gone")
BY DEF Answers, Destroy, GetArgValue, GetArgListOfValues, vars

(* A declaration takes no label of another, and one that is accepted has     *)
(* its own.                                                                  *)
LEMMA LabelsDeclare ==
  ASSUME IInv, NEW d \in Decls, Declares(d)
  PROVE  LabelsLead'
<1>0. /\ d \in Declaration /\ UNCHANGED stage
      /\ \/ expectedArgs' = expectedArgs /\ threw' = TRUE
         \/ /\ expectedArgs' = [expectedArgs EXCEPT ![d.id] = d] /\ threw' = threw
            /\ expectedArgs[d.id] = None /\ Accept(d)
      /\ \/ idValueTypeArg' = idValueTypeArg
         \/ /\ idValueTypeArg = None /\ idValueTypeArg' = d.id
            /\ Charges(d) /\ (Accept(d) \/ expectedArgs[d.id] # None)
      /\ argsByCharLabel' = argsByCharLabel \/ (~CharIsTaken(d) /\ EnterChar(d))
      /\ argsByNameLabel' = argsByNameLabel \/ (~NameIsTaken(d) /\ EnterName(d))
  BY DeclareFrame
<1>1. /\ d.id \in Ids /\ d.ch \in Chars \union {None} /\ d.name \in Names \union {None}
      /\ d # None /\ None \notin Ids /\ None \notin Chars /\ None \notin Names
  BY <1>0, Fields, CommandLineAssumption
<1>2. /\ expectedArgs \in [Ids -> Entries]
      /\ argsByCharLabel \in [Chars -> Ids \union {None}] /\ argsByNameLabel \in [Names -> Ids \union {None}]
      /\ idValueTypeArg \in Ids \union {None}
  BY DEF IInv, TypeOK
<1>3. \A e \in Declaration : e.ch \in Chars \union {None} /\ e.name \in Names \union {None}
  BY Fields
<1>4. ASSUME NEW id \in Ids, expectedArgs'[id] # None PROVE DeclaredAs(id)'
  <2>1. CASE expectedArgs'[id] = expectedArgs[id]
    <3>1. expectedArgs[id] # None /\ expectedArgs[id] \in Declaration
      BY <1>2, <1>4, <2>1 DEF Entries
    <3>2. DeclaredAs(id)
      BY <3>1 DEF IInv, LabelsLead
    <3>3. expectedArgs[id].ch # None => argsByCharLabel'[expectedArgs[id].ch] = id
      BY <1>0, <1>1, <1>2, <1>3, <3>1, <3>2 DEF DeclaredAs, CharIsTaken, EnterChar
    <3>4. expectedArgs[id].name # None => argsByNameLabel'[expectedArgs[id].name] = id
      BY <1>0, <1>1, <1>2, <1>3, <3>1, <3>2 DEF DeclaredAs, NameIsTaken, EnterName
    <3>. QED  BY <2>1, <3>2, <3>3, <3>4 DEF DeclaredAs
  <2>2. CASE expectedArgs'[id] # expectedArgs[id]
    <3>1. id = d.id /\ expectedArgs'[id] = d /\ Accept(d)
      BY <1>0, <1>1, <1>2, <2>2
    <3>2. EnterChar(d) /\ EnterName(d)
      BY <3>1 DEF Accept
    <3>. QED  BY <1>1, <1>2, <3>1, <3>2 DEF DeclaredAs, EnterChar, EnterName
  <2>. QED  BY <2>1, <2>2
<1>5. \A id \in Ids : expectedArgs[id] # None => expectedArgs'[id] # None
  BY <1>0, <1>1, <1>2
<1>6. Accept(d) => expectedArgs'[d.id] = d
  BY <1>1, <1>2 DEF Accept
<1>7. idValueTypeArg' # None => expectedArgs'[idValueTypeArg'] # None
  BY <1>0, <1>1, <1>2, <1>5, <1>6 DEF IInv, LabelsLead, ValueDecl
<1>8. ASSUME ~threw'
      PROVE  /\ \A c \in Chars : argsByCharLabel'[c] # None =>
                  /\ expectedArgs'[argsByCharLabel'[c]] # None
                  /\ expectedArgs'[argsByCharLabel'[c]].ch = c
             /\ \A n \in Names : argsByNameLabel'[n] # None =>
                  /\ expectedArgs'[argsByNameLabel'[n]] # None
                  /\ expectedArgs'[argsByNameLabel'[n]].name = n
             /\ \A id \in Ids : expectedArgs'[id] # None => (Charges(expectedArgs'[id]) <=> idValueTypeArg' = id)
             /\ stage' # "undefined"
  <2>1. /\ ~threw /\ Accept(d) /\ expectedArgs[d.id] = None
        /\ expectedArgs' = [expectedArgs EXCEPT ![d.id] = d]
    BY <1>0, <1>8
  <2>2. /\ EnterChar(d) /\ EnterName(d) /\ stage = "idle" /\ (Charges(d) => idValueTypeArg = None)
        /\ idValueTypeArg' = IF Charges(d) THEN d.id ELSE idValueTypeArg
    BY <2>1 DEF Accept, Declaring, Fresh
  <2>3. /\ \A c \in Chars : argsByCharLabel[c] # None =>
             expectedArgs[argsByCharLabel[c]] # None /\ expectedArgs[argsByCharLabel[c]].ch = c
        /\ \A n \in Names : argsByNameLabel[n] # None =>
             expectedArgs[argsByNameLabel[n]] # None /\ expectedArgs[argsByNameLabel[n]].name = n
        /\ \A id \in Ids : expectedArgs[id] # None => (Charges(expectedArgs[id]) <=> idValueTypeArg = id)
        /\ idValueTypeArg # None => expectedArgs[idValueTypeArg] # None
    BY <2>1 DEF IInv, LabelsLead, ValueDecl
  <2>4. ASSUME NEW c \in Chars, argsByCharLabel'[c] # None
        PROVE  expectedArgs'[argsByCharLabel'[c]] # None /\ expectedArgs'[argsByCharLabel'[c]].ch = c
    BY <1>1, <1>2, <2>1, <2>2, <2>3, <2>4 DEF EnterChar
  <2>5. ASSUME NEW n \in Names, argsByNameLabel'[n] # None
        PROVE  expectedArgs'[argsByNameLabel'[n]] # None /\ expectedArgs'[argsByNameLabel'[n]].name = n
    BY <1>1, <1>2, <2>1, <2>2, <2>3, <2>5 DEF EnterName
  <2>6. ASSUME NEW id \in Ids, expectedArgs'[id] # None
        PROVE  Charges(expectedArgs'[id]) <=> idValueTypeArg' = id
    BY <1>1, <1>2, <2>1, <2>2, <2>3, <2>6
  <2>. QED  BY <1>0, <2>2, <2>4, <2>5, <2>6
<1>. QED  BY <1>4, <1>7, <1>8 DEF LabelsLead, ValueDecl, Charges

(* The parser does not touch the tables; it reaches the end of the map only  *)
(* by a label that a failed declaration has left.                            *)
LEMMA LabelsParse ==
  ASSUME IInv, Parses
  PROVE  LabelsLead'
<1>1. UNCHANGED <<expectedArgs, argsByCharLabel, argsByNameLabel, idValueTypeArg, optValueInSameArg, threw>>
  BY ParseFrame
<1>2. ASSUME ~threw PROVE stage' # "undefined"
  <2>1. ASSUME ParseStray PROVE FALSE
    <3>1. Turn /\ Arg.label # None /\ ArgId # None /\ ArgDecl = None
      BY <2>1 DEF ParseStray, IsOption
    <3>2. Arg \in Word
      BY <3>1, TurnTypes DEF IInv
    <3>3. Arg.label \in Chars \/ Arg.label \in Names
      BY <3>1, <3>2 DEF Word
    <3>. QED  BY <1>2, <3>1, <3>3 DEF IInv, LabelsLead, ArgId, ArgDecl
  <2>2. stage # "undefined"
    BY <1>2 DEF IInv, LabelsLead
  <2>. QED  BY <2>1, <2>2 DEF Parses, ParseBegin, ParseOption, ParseValue, Rejects, ParseEnds, ParseMiscounts, Return
<1>. QED  BY <1>1, <1>2 DEF IInv, LabelsLead, DeclaredAs, ValueDecl, Charges

(* What is accepted has the configuration that its overload verified. *)
LEMMA CastsDeclare ==
  ASSUME IInv, NEW d \in Decls, Declares(d)
  PROVE  CastsAreRight'
<1>0. /\ d \in Declaration
      /\ \/ expectedArgs' = expectedArgs
         \/ expectedArgs' = [expectedArgs EXCEPT ![d.id] = d] /\ Accept(d)
  BY DeclareFrame
<1>1. ASSUME Accept(d) PROVE d.form \in {"plain", TakenFor(d)} /\ Len(d.cfg) >= ElementsRead(d)
  <2>1. SuitsForm(d) /\ IsConsistent(d) /\ (d.form = "plain" \/ ConfigIsRight(d))
    BY <1>1 DEF Accept, Fresh, Coherent
  <2>2. /\ d.form \in Forms /\ d.type \in OptionTypes \union ValueTypes
        /\ d.base \in {"None", "String", "Integer", "Float"} /\ d.limit \in {"none", "range", "enum"}
        /\ d.cfg \in Seq(Int) /\ Len(d.cfg) \in Nat
    BY <1>0, Fields
  <2>3. d.form \in {"plain", TakenFor(d)}
    BY <2>1, <2>2 DEF SuitsForm, Forms, TakenFor, ValueTypes, OptionTypes
  <2>4. Len(d.cfg) >= ElementsRead(d)
    <3>1. CASE d.form = "plain"
      BY <2>1, <2>2, <3>1 DEF SuitsForm, ElementsRead
    <3>2. CASE d.form # "plain"
      <4>1. ConfigIsRight(d) /\ IsConsistent(d)
        BY <2>1, <3>2
      <4>2. d.type \notin OptionTypes => d.limit = "none"
        BY <4>1 DEF IsConsistent
      <4>3. d.limit = "enum" => Len(d.cfg) >= 1
        BY <4>1 DEF ConfigIsRight
      <4>4. d.limit = "range" => Len(d.cfg) \in {2, 3}
        BY <4>1 DEF ConfigIsRight
      <4>5. d.limit = "none" /\ d.type = "ValuesList" => Len(d.cfg) = 2
        BY <4>1 DEF ConfigIsRight
      <4>. QED  BY ONLY <2>2, <4>2, <4>3, <4>4, <4>5 DEF ElementsRead, OptionTypes, ValueTypes
    <3>. QED  BY <3>1, <3>2
  <2>. QED  BY <2>3, <2>4
<1>2. expectedArgs \in [Ids -> Entries]
  BY DEF IInv, TypeOK
<1>3. ASSUME NEW id \in Ids, expectedArgs'[id] # None
      PROVE  /\ expectedArgs'[id].form \in {"plain", TakenFor(expectedArgs'[id])}
             /\ Len(expectedArgs'[id].cfg) >= ElementsRead(expectedArgs'[id])
  <2>1. expectedArgs'[id] = expectedArgs[id] \/ (expectedArgs'[id] = d /\ Accept(d))
    BY <1>0, <1>2
  <2>2. CASE expectedArgs'[id] = expectedArgs[id]
    BY <1>3, <2>2 DEF IInv, CastsAreRight
  <2>3. CASE expectedArgs'[id] = d /\ Accept(d)
    BY <1>1, <2>3
  <2>. QED  BY <2>1, <2>2, <2>3
<1>. QED  BY <1>3 DEF CastsAreRight

(* The results are of arguments that are declared, and no declaration        *)
(* replaces one.                                                             *)
LEMMA ResultsDeclare ==
  ASSUME IInv, NEW d \in Decls, Declares(d)
  PROVE  ResultsFit' /\ CallFits'
<1>0. /\ UNCHANGED <<parsedOptVals, parsedValArgs, stage>> /\ stage = "idle"
      /\ \/ expectedArgs' = expectedArgs
         \/ expectedArgs' = [expectedArgs EXCEPT ![d.id] = d] /\ expectedArgs[d.id] = None
      /\ idValueTypeArg' = idValueTypeArg \/ idValueTypeArg = None
  BY DeclareFrame DEF results
<1>1. expectedArgs \in [Ids -> Entries] /\ idValueTypeArg \in Ids \union {None}
  BY DEF IInv, TypeOK
<1>2. \A id \in Ids : expectedArgs[id] # None => expectedArgs'[id] = expectedArgs[id]
  BY <1>0, <1>1
<1>3. OptionsFit(parsedOptVals)'
  <2>1. OptionsFit(parsedOptVals)
    BY DEF IInv, ResultsFit
  <2>. QED  BY <1>0, <1>2, <2>1 DEF OptionsFit
<1>4. /\ ValuesFit(parsedValArgs)'
      /\ parsedValArgs # <<>> => ValueDecl' = ValueDecl
  <2>1. ValuesFit(parsedValArgs)
    BY DEF IInv, ResultsFit
  <2>2. parsedValArgs # <<>> => idValueTypeArg' = idValueTypeArg /\ ValueDecl' = ValueDecl /\ ValueDecl # None
    BY <1>0, <1>1, <1>2, <2>1 DEF ValuesFit, ValueDecl
  <2>. QED  BY <1>0, <2>1, <2>2 DEF ValuesFit
<1>5. CallFits'
  BY <1>0 DEF CallFits
<1>. QED  BY <1>0, <1>3, <1>4, <1>5 DEF ResultsFit, IInv

(* The turns of the loop add a value that is valid, and the end of the line  *)
(* makes the results of what has been added.                                 *)
LEMMA ResultsParse ==
  ASSUME IInv, Parses
  PROVE  ResultsFit' /\ CallFits'
<1>0. UNCHANGED <<expectedArgs, idValueTypeArg>>
  BY ParseFrame
<1>1. /\ expectedArgs \in [Ids -> Entries] /\ idValueTypeArg \in Ids \union {None}
      /\ optVals \in [Ids -> Values \union {None}] /\ valArgs \in Seq(Values)
      /\ None \notin Values /\ None # 0
  BY CommandLineAssumption DEF IInv, TypeOK, Values
<1>2. \A id \in Ids : expectedArgs[id] # None =>
        expectedArgs[id] \in Declaration /\ Len(expectedArgs[id].cfg) >= ElementsRead(expectedArgs[id])
  BY <1>1 DEF IInv, CastsAreRight, Entries
<1>4. ASSUME UNCHANGED results PROVE ResultsFit'
  BY <1>0, <1>4 DEF IInv, ResultsFit, OptionsFit, ValuesFit, ValueDecl, results
<1>5. ASSUME NEW l \in Lines, ParseBegin(l) PROVE ResultsFit' /\ CallFits'
  BY <1>4, <1>5 DEF ParseBegin, CallFits, OptionsFit, ValuesFit, NoOptions
<1>6. CASE ParseOption
  <2>1. /\ UNCHANGED results /\ stage = "parsing" /\ valArgs' = valArgs
        /\ OptionsFit(optVals) /\ ValuesFit(valArgs)
    BY <1>6 DEF ParseOption, Turn, IInv, CallFits
  <2>2. /\ ArgId \in Ids /\ ArgDecl # None /\ ArgDecl \in Declaration /\ Len(ArgDecl.cfg) >= ElementsRead(ArgDecl)
        /\ Accompanying \in Texts \union {None}
    BY <1>1, <1>2, <1>6, TurnTypes DEF ParseOption, IsOption, IsDeclared, ArgDecl, IInv
  <2>3. CASE ArgDecl.type = "OptionSwitch"
    <3>1. optVals' = [optVals EXCEPT ![ArgId] = 0]
      BY <1>6, <2>3 DEF ParseOption
    <3>2. OptionsFit(optVals)'
      BY <1>0, <1>1, <2>1, <2>2, <2>3, <3>1 DEF OptionsFit, ArgDecl
    <3>. QED  BY <1>0, <1>4, <2>1, <3>2 DEF CallFits, ValuesFit, ValueDecl
  <2>4. CASE ArgDecl.type # "OptionSwitch"
    <3>1. optVals' = [optVals EXCEPT ![ArgId] = ValueOf(ArgDecl, Accompanying)]
      BY <1>6, <2>4 DEF ParseOption
    <3>2. ArgDecl.type = "OptionWithReqValue" /\ Fits(ArgDecl, ValueOf(ArgDecl, Accompanying))
      BY <1>6, <2>2, <2>4, ValidFits DEF ParseOption, OptionIsValid
    <3>3. OptionsFit(optVals)'
      BY <1>0, <1>1, <2>1, <2>2, <3>1, <3>2 DEF OptionsFit, ArgDecl
    <3>. QED  BY <1>0, <1>4, <2>1, <3>3 DEF CallFits, ValuesFit, ValueDecl
  <2>. QED  BY <2>3, <2>4
<1>7. CASE ParseValue
  <2>1. /\ UNCHANGED results /\ stage = "parsing" /\ optVals' = optVals
        /\ OptionsFit(optVals) /\ ValuesFit(valArgs) /\ ValueIsValid
        /\ valArgs' = Append(valArgs, ValueOf(ValueDecl, Arg.whole))
    BY <1>7 DEF ParseValue, Turn, IInv, CallFits
  <2>2. /\ idValueTypeArg # None /\ ValueDecl # None /\ ValueDecl \in Declaration
        /\ Len(ValueDecl.cfg) >= ElementsRead(ValueDecl) /\ Arg.whole \in Texts
    BY <1>1, <1>2, <1>7, <2>1, TurnTypes DEF ParseValue, ValueIsValid, ValueIsExpected, IInv, LabelsLead, ValueDecl
  <2>3. /\ ValueOf(ValueDecl, Arg.whole) \in Values /\ Fits(ValueDecl, ValueOf(ValueDecl, Arg.whole))
        /\ ValueDecl.type = "ValuesList" \/ valArgs = <<>>
    BY <2>1, <2>2, ValidFits DEF ValueIsValid, ValueIsExpected
  <2>4. Len(valArgs') = Len(valArgs) + 1 /\ Len(valArgs) \in Nat
    BY <1>1, <2>1, <2>3
  <2>5. ASSUME NEW i \in 1..Len(valArgs') PROVE Fits(ValueDecl, valArgs'[i])
    <3>1. CASE i = Len(valArgs) + 1
      BY <1>1, <2>1, <2>3, <2>4, <3>1
    <3>2. CASE i \in 1..Len(valArgs)
      <4>1. valArgs'[i] = valArgs[i] /\ valArgs # <<>>
        BY <1>1, <2>1, <2>3, <2>4, <3>2
      <4>. QED  BY <2>1, <3>2, <4>1 DEF ValuesFit
    <3>. QED  BY <2>4, <3>1, <3>2
  <2>6. ValueDecl' = ValueDecl
    BY <1>0 DEF ValueDecl
  <2>7. valArgs' # <<>> /\ (ValueDecl.type # "ValuesList" => Len(valArgs') = 1)
    BY <1>1, <2>1, <2>3, <2>4
  <2>8. ValuesFit(valArgs)'
    BY <1>0, <2>2, <2>5, <2>6, <2>7 DEF ValuesFit
  <2>9. OptionsFit(optVals)'
    BY <1>0, <2>1 DEF OptionsFit
  <2>. QED  BY <1>4, <2>1, <2>8, <2>9 DEF CallFits
<1>8. CASE Rejects \/ ParseMiscounts
  BY <1>4, <1>8 DEF Rejects, ParseMiscounts, Return, CallFits
<1>9. CASE ParseStray
  BY <1>4, <1>9 DEF ParseStray, CallFits
<1>10. CASE ParseEnds
  <2>1. /\ parsedOptVals' = optVals /\ parsedValArgs' = valArgs /\ stage' = "idle"
        /\ OptionsFit(optVals) /\ ValuesFit(valArgs) /\ CountIsRight
    BY <1>10 DEF ParseEnds, Return, IInv, CallFits
  <2>2. OptionsFit(parsedOptVals)' /\ ValuesFit(parsedValArgs)' /\ CallFits'
    BY <1>0, <2>1 DEF OptionsFit, ValuesFit, ValueDecl, CallFits
  <2>3. ASSUME valArgs # <<>>, ValueDecl.type = "ValuesList"
        PROVE  Len(valArgs) \in ValueDecl.cfg[1]..ValueDecl.cfg[2]
    <3>1. idValueTypeArg # None /\ ValueDecl # None
      BY <2>1, <2>3 DEF ValuesFit
    <3>2. ValueDecl \in Declaration /\ Len(ValueDecl.cfg) >= 2
      BY <1>1, <1>2, <2>3, <3>1 DEF ValueDecl, ElementsRead
    <3>3. ValueDecl.cfg \in Seq(Int)
      BY <3>2, Fields
    <3>4. ValueDecl.cfg[1] \in Int /\ ValueDecl.cfg[2] \in Int /\ Len(valArgs) \in Int
      BY <1>1, <3>2, <3>3
    <3>5. ValueDecl.cfg[1] <= Len(valArgs) /\ Len(valArgs) <= ValueDecl.cfg[2]
      BY <2>1, <2>3, <3>1 DEF CountIsRight
    <3>. QED  BY <3>4, <3>5
  <2>4. ValueDecl' = ValueDecl
    BY <1>0 DEF ValueDecl
  <2>. QED  BY <2>1, <2>2, <2>3, <2>4 DEF ResultsFit
<1>. QED  BY <1>5, <1>6, <1>7, <1>8, <1>9, <1>10 DEF Parses

(* A set of numbers that is not empty has a least one. *)
LEMMA LeastNumber ==
  ASSUME NEW S \in SUBSET Nat, S # {}
  PROVE  \E n \in S : \A m \in S : n <= m
<1>1. \E n \in S : \A m \in S : ~(<<m, n>> \in OpToRel(<, Nat))
  BY NatLessThanWellFounded, WFMin
<1>2. \A m, n \in Nat : m < n => <<m, n>> \in OpToRel(<, Nat)
  BY DEF OpToRel
<1>3. PICK n \in S : \A m \in S : ~(<<m, n>> \in OpToRel(<, Nat))
  BY <1>1
<1>4. \A m \in S : m \in Nat /\ n \in Nat /\ ~(m < n)
  BY <1>2, <1>3
<1>. QED  BY <1>4

(* Along a line, whether a word is the value of the one before it follows    *)
(* from whether that one is: there is a set that satisfies the definition.   *)
LEMMA Alternation ==
  ASSUME NEW C, NEW n \in Nat
  PROVE  \E V \in SUBSET (1..n) : V = {p \in 1..n : p > 1 /\ p - 1 \notin V /\ p \in C}
<1>. DEFINE Is(V, k) == V = {p \in 1..k : p > 1 /\ p - 1 \notin V /\ p \in C}
            Bad == {k \in Nat : ~ \E V \in SUBSET (1..k) : Is(V, k)}
<1>1. SUFFICES ASSUME Bad # {} PROVE FALSE
  OBVIOUS
<1>2. PICK k \in Bad : \A m \in Bad : k <= m
  BY <1>1, LeastNumber
<1>3. k # 0
  <2>1. {} \in SUBSET (1..0) /\ Is({}, 0)
    OBVIOUS
  <2>. QED  BY <1>2, <2>1
<1>4. k - 1 \in Nat /\ k - 1 \notin Bad
  BY <1>2, <1>3
<1>5. PICK V \in SUBSET (1..(k - 1)) : Is(V, k - 1)
  BY <1>4
<1>6. ASSUME NEW U \in SUBSET (1..k), Is(U, k) PROVE FALSE
  BY <1>2, <1>6
<1>7. V \in SUBSET (1..k) /\ k \notin V
  BY <1>4, <1>5
<1>8. CASE k > 1 /\ k - 1 \notin V /\ k \in C
  <2>1. V \union {k} \in SUBSET (1..k)
    BY <1>4, <1>7
  <2>2. ASSUME NEW p \in 1..k
        PROVE  p \in V \union {k} <=> p > 1 /\ p - 1 \notin V \union {k} /\ p \in C
    <3>1. CASE p = k
      BY <1>8, <3>1
    <3>2. CASE p # k
      <4>1. p \in 1..(k - 1) /\ p - 1 # k
        BY <3>2
      <4>. QED  BY <1>5, <4>1, <3>2
    <3>. QED  BY <3>1, <3>2
  <2>3. Is(V \union {k}, k)
    BY <2>1, <2>2
  <2>. QED  BY <1>6, <2>1, <2>3
<1>9. CASE ~(k > 1 /\ k - 1 \notin V /\ k \in C)
  <2>1. ASSUME NEW p \in 1..k
        PROVE  p \in V <=> p > 1 /\ p - 1 \notin V /\ p \in C
    <3>1. CASE p = k
      BY <1>7, <1>9, <3>1
    <3>2. CASE p # k
      <4>1. p \in 1..(k - 1)
        BY <3>2
      <4>. QED  BY <1>5, <4>1
    <3>. QED  BY <3>1, <3>2
  <2>2. Is(V, k)
    BY <1>7, <2>1
  <2>. QED  BY <1>6, <1>7, <2>2
<1>. QED  BY <1>8, <1>9

(* What follows an option that requires a value, and is not one itself.      *)
LEMMA AttachedIs ==
  ASSUME TypeOK, line # None
  PROVE  /\ Meaning!Attached(line) \subseteq 1..Len(line)
         /\ \A p \in 1..Len(line) : p \in Meaning!Attached(line) <=>
              /\ p > 1 /\ p - 1 \notin Meaning!Attached(line) /\ ~optValueInSameArg
              /\ Meaning!IsOption(line[p - 1]) /\ Meaning!Expects(line[p - 1])
<1>1. DOMAIN line = 1..Len(line) /\ Len(line) \in Nat
  BY CommandLineAssumption DEF TypeOK
<1>. DEFINE C == {p \in 1..Len(line) : ~optValueInSameArg /\ Meaning!IsOption(line[p - 1]) /\ Meaning!Expects(line[p - 1])}
            Is(V) == V = {p \in DOMAIN line : p > 1 /\ p - 1 \notin V /\ ~optValueInSameArg
                            /\ Meaning!IsOption(line[p - 1]) /\ Meaning!Expects(line[p - 1])}
<1>2. PICK V \in SUBSET (1..Len(line)) : V = {p \in 1..Len(line) : p > 1 /\ p - 1 \notin V /\ p \in C}
  BY <1>1, Alternation
<1>3. \A p \in 1..Len(line) : p \in C <=> ~optValueInSameArg /\ Meaning!IsOption(line[p - 1]) /\ Meaning!Expects(line[p - 1])
  OBVIOUS
<1>4. V \in SUBSET DOMAIN line /\ Is(V)
  <2>. HIDE DEF C
  <2>. QED  BY <1>1, <1>2, <1>3
<1>5. Meaning!Attached(line) = CHOOSE W \in SUBSET DOMAIN line : Is(W)
  BY DEF Meaning!Attached
<1>6. Meaning!Attached(line) \in SUBSET DOMAIN line /\ Is(Meaning!Attached(line))
  <2>. HIDE DEF Is
  <2>. QED  BY ONLY <1>4, <1>5
<1>. QED  BY <1>1, <1>6

(* The words of a line. *)
LEMMA LineWords ==
  ASSUME TypeOK, line # None
  PROVE  /\ DOMAIN line = 1..Len(line) /\ Len(line) \in Nat
         /\ \A p \in 1..Len(line) :
              /\ line[p] \in Word /\ line[p].label \in Chars \union Names \union {None}
              /\ line[p].text \in Texts \union {None} /\ line[p].whole \in Texts
<1>1. line \in Seq(Word)
  BY CommandLineAssumption DEF TypeOK
<1>2. \A w \in Word :
        w.label \in Chars \union Names \union {None} /\ w.text \in Texts \union {None} /\ w.whole \in Texts
  BY DEF Word
<1>3. \A p \in 1..Len(line) : line[p] \in Word
  BY <1>1
<1>. QED  BY <1>1, <1>2, <1>3

(* The argument at which the tables lead from a label. *)
LookedUp(label) == IF label \in Chars THEN argsByCharLabel[label] ELSE argsByNameLabel[label]

(* As long as no declaration has failed, that is the one argument with this  *)
(* label, or none has it.                                                    *)
LEMMA DenotedIs ==
  ASSUME TypeOK, LabelsLead, ~threw, NEW w \in Word, w.label # None
  PROVE  /\ LookedUp(w.label) \in Ids \union {None}
         /\ LookedUp(w.label) = None => Meaning!Denoted(w) = {}
         /\ LookedUp(w.label) # None =>
              Meaning!Denoted(w) = {LookedUp(w.label)} /\ expectedArgs[LookedUp(w.label)] # None
<1>. DEFINE g == LookedUp(w.label)
<1>0. /\ w.label \in Chars \/ w.label \in Names
      /\ Chars \intersect Names = {} /\ None \notin Chars /\ None \notin Names /\ None \notin Ids
  BY CommandLineAssumption DEF Word
<1>1. g \in Ids \union {None}
  BY <1>0 DEF TypeOK, LookedUp
<1>2. \A id \in Ids : expectedArgs[id] # None =>
        /\ expectedArgs[id].ch \in Chars \union {None} /\ expectedArgs[id].name \in Names \union {None}
  BY Fields DEF TypeOK, Entries
<1>3. ASSUME NEW id \in Meaning!Denoted(w) PROVE id = g /\ id \in Ids
  <2>1. id \in Ids /\ expectedArgs[id] # None /\ w.label \in {expectedArgs[id].ch, expectedArgs[id].name}
    BY DEF Meaning!Denoted
  <2>2. DeclaredAs(id)
    BY <2>1 DEF LabelsLead
  <2>. QED  BY <1>0, <1>2, <2>1, <2>2 DEF DeclaredAs, LookedUp
<1>4. ASSUME g # None PROVE g \in Meaning!Denoted(w) /\ expectedArgs[g] # None
  <2>1. /\ \A c \in Chars : argsByCharLabel[c] # None =>
             expectedArgs[argsByCharLabel[c]] # None /\ expectedArgs[argsByCharLabel[c]].ch = c
        /\ \A n \in Names : argsByNameLabel[n] # None =>
             expectedArgs[argsByNameLabel[n]] # None /\ expectedArgs[argsByNameLabel[n]].name = n
    BY DEF LabelsLead
  <2>. QED  BY <1>0, <1>1, <1>4, <2>1 DEF Meaning!Denoted, LookedUp
<1>5. g = None => Meaning!Denoted(w) = {}
  BY <1>0, <1>3
<1>6. g # None => Meaning!Denoted(w) = {g}
  BY <1>3, <1>4
<1>. QED  BY <1>1, <1>4, <1>5, <1>6

(* The parser and the meaning read a text in the same way. *)
LEMMA SameReading ==
  ASSUME NEW d \in Declaration, NEW t \in Texts, Len(d.cfg) >= ElementsRead(d)
  PROVE  /\ Meaning!Allowed(d, t) <=> IsValid(d, t)
         /\ IsValid(d, t) => Meaning!Value(d, t) = ValueOf(d, t)
<1>. DEFINE v == ValueOf(d, t)
            n == Len(d.cfg)
<1>1. /\ d.base \in {"None", "String", "Integer", "Float"} /\ d.cfg \in Seq(Int) /\ DOMAIN d.cfg = 1..n
      /\ v \in Int \union {NaN, None} /\ NaN \notin Int
  BY Fields, ReadsValue, CommandLineAssumption DEF Values
<1>2. d.base # "None" => Meaning!Value(d, t) = v
  BY <1>1 DEF Meaning!Value, ValueOf, Number
<1>3. ASSUME d.limit = "range", v # None
      PROVE  InRange(d, v) <=> (v # NaN => d.cfg[n - 1] <= v /\ v <= d.cfg[n])
  <2>1. d.cfg[n - 1] \in Int /\ d.cfg[n] \in Int
    BY <1>1, <1>3 DEF ElementsRead
  <2>. QED  BY <1>1, <1>3, <2>1 DEF InRange
<1>4. InEnum(d, v) <=> \E i \in DOMAIN d.cfg : d.cfg[i] = v
  BY <1>1 DEF InEnum
<1>. HIDE DEF v
<1>5. CASE d.base = "None" \/ v = None
  BY <1>2, <1>5 DEF Meaning!Allowed, IsValid, v
<1>6. CASE d.base # "None" /\ v # None
  BY <1>2, <1>3, <1>4, <1>6 DEF Meaning!Allowed, IsValid, v
<1>. QED  BY <1>5, <1>6

(* The values go to the argument that charged the parser with them. *)
LEMMA CollectsIs ==
  ASSUME TypeOK, LabelsLead, ~threw, NEW id \in Ids
  PROVE  Meaning!Collects(id) <=> idValueTypeArg = id
<1>1. expectedArgs[id] # None => (Charges(expectedArgs[id]) <=> idValueTypeArg = id)
  BY DEF LabelsLead
<1>2. idValueTypeArg = id => expectedArgs[id] # None
  BY CommandLineAssumption DEF LabelsLead, ValueDecl
<1>. QED  BY <1>1, <1>2 DEF Meaning!Collects, Charges, ValueTypes

(* The word at a position is an option, a value, or the value of an option.  *)
LEMMA OneWordMore ==
  ASSUME TypeOK, line # None, NEW k \in 1..Len(line)
  PROVE  /\ k \in Meaning!Attached(line) =>
              OptionsBefore(k + 1) = OptionsBefore(k) /\ ValuesBefore(k + 1) = ValuesBefore(k)
         /\ k \notin Meaning!Attached(line) /\ Meaning!IsOption(line[k]) =>
              /\ k \in Meaning!Options(line) /\ OptionsBefore(k + 1) = OptionsBefore(k) \union {k}
              /\ ValuesBefore(k + 1) = ValuesBefore(k)
         /\ k \notin Meaning!Attached(line) /\ ~Meaning!IsOption(line[k]) =>
              /\ k \in Meaning!Values(line) /\ ValuesBefore(k + 1) = ValuesBefore(k) \union {k}
              /\ OptionsBefore(k + 1) = OptionsBefore(k)
<1>1. DOMAIN line = 1..Len(line)
  BY LineWords
<1>2. \A p \in 1..Len(line) : p < k + 1 <=> p < k \/ p = k
  BY LineWords
<1>3. /\ \A p : p \in Meaning!Options(line) <=>
           p \in 1..Len(line) /\ p \notin Meaning!Attached(line) /\ Meaning!IsOption(line[p])
      /\ \A p : p \in Meaning!Values(line) <=>
           p \in 1..Len(line) /\ p \notin Meaning!Attached(line) /\ ~Meaning!IsOption(line[p])
  BY <1>1 DEF Meaning!Options, Meaning!Values
<1>4. /\ \A p : p \in OptionsBefore(k + 1) <=> p \in Meaning!Options(line) /\ (p < k \/ p = k)
      /\ \A p : p \in ValuesBefore(k + 1) <=> p \in Meaning!Values(line) /\ (p < k \/ p = k)
  BY <1>2, <1>3 DEF OptionsBefore, ValuesBefore
<1>5. /\ \A p : p \in OptionsBefore(k) <=> p \in Meaning!Options(line) /\ p < k
      /\ \A p : p \in ValuesBefore(k) <=> p \in Meaning!Values(line) /\ p < k
  BY DEF OptionsBefore, ValuesBefore
<1>6. CASE k \in Meaning!Attached(line)
  <2>1. k \notin Meaning!Options(line) /\ k \notin Meaning!Values(line)
    BY <1>3, <1>6
  <2>2. OptionsBefore(k + 1) = OptionsBefore(k)
    BY ONLY <1>4, <1>5, <2>1
  <2>3. ValuesBefore(k + 1) = ValuesBefore(k)
    BY ONLY <1>4, <1>5, <2>1
  <2>. QED  BY <1>6, <2>2, <2>3
<1>7. CASE k \notin Meaning!Attached(line) /\ Meaning!IsOption(line[k])
  <2>1. k \in Meaning!Options(line) /\ k \notin Meaning!Values(line)
    BY <1>3, <1>7
  <2>2. OptionsBefore(k + 1) = OptionsBefore(k) \union {k}
    BY ONLY <1>4, <1>5, <2>1
  <2>3. ValuesBefore(k + 1) = ValuesBefore(k)
    BY ONLY <1>4, <1>5, <2>1
  <2>. QED  BY <1>7, <2>1, <2>2, <2>3
<1>8. CASE k \notin Meaning!Attached(line) /\ ~Meaning!IsOption(line[k])
  <2>1. k \notin Meaning!Options(line) /\ k \in Meaning!Values(line)
    BY <1>3, <1>8
  <2>2. OptionsBefore(k + 1) = OptionsBefore(k)
    BY ONLY <1>4, <1>5, <2>1
  <2>3. ValuesBefore(k + 1) = ValuesBefore(k) \union {k}
    BY ONLY <1>4, <1>5, <2>1
  <2>. QED  BY <1>8, <2>1, <2>2, <2>3
<1>. QED  BY <1>6, <1>7, <1>8

(* The values can be counted, and at the end of the line all have been read. *)
LEMMA Counted ==
  ASSUME TypeOK, line # None
  PROVE  /\ IsFiniteSet(Meaning!Values(line)) /\ Meaning!Values(line) \subseteq 1..Len(line)
         /\ Meaning!Options(line) \subseteq 1..Len(line)
         /\ \A k : IsFiniteSet(ValuesBefore(k)) /\ Cardinality(ValuesBefore(k)) \in Nat
         /\ \A k : k > Len(line) /\ k \in Nat =>
              OptionsBefore(k) = Meaning!Options(line) /\ ValuesBefore(k) = Meaning!Values(line)
<1>1. DOMAIN line = 1..Len(line) /\ Len(line) \in Nat
  BY LineWords
<1>2. Meaning!Values(line) \subseteq 1..Len(line) /\ Meaning!Options(line) \subseteq 1..Len(line)
  BY <1>1 DEF Meaning!Options, Meaning!Values
<1>3. IsFiniteSet(1..Len(line))
  BY <1>1, FS_Interval
<1>4. IsFiniteSet(Meaning!Values(line))
  BY <1>2, <1>3, FS_Subset
<1>5. ASSUME NEW k PROVE IsFiniteSet(ValuesBefore(k)) /\ Cardinality(ValuesBefore(k)) \in Nat
  <2>1. ValuesBefore(k) \in SUBSET Meaning!Values(line)
    BY DEF ValuesBefore
  <2>2. IsFiniteSet(ValuesBefore(k))
    BY <1>4, <2>1, FS_Subset
  <2>. QED  BY <2>2, FS_CardinalityType
<1>6. ASSUME NEW k \in Nat, k > Len(line)
      PROVE  OptionsBefore(k) = Meaning!Options(line) /\ ValuesBefore(k) = Meaning!Values(line)
  <2>1. \A p \in 1..Len(line) : p < k
    BY <1>1, <1>6
  <2>. QED  BY <1>2, <2>1 DEF OptionsBefore, ValuesBefore
<1>. QED  BY <1>2, <1>4, <1>5, <1>6

(* What a line means depends on the declarations and the line alone. *)
LEMMA SameMeaning ==
  ASSUME UNCHANGED <<expectedArgs, idValueTypeArg, optValueInSameArg, line>>
  PROVE  /\ Meaning!Attached(line)' = Meaning!Attached(line)
         /\ OptionsRead(idx, optVals)' <=> OptionsRead(idx', optVals')
         /\ ValuesRead(idx, valArgs)' <=> ValuesRead(idx', valArgs')
<1>1. Meaning!Attached(line)' = Meaning!Attached(line)
  BY DEF Meaning!Attached, Meaning!IsOption, Meaning!Expects, Meaning!Denoted
<1>2. Meaning!Options(line)' = Meaning!Options(line) /\ Meaning!Values(line)' = Meaning!Values(line)
  BY <1>1 DEF Meaning!Options, Meaning!Values, Meaning!IsOption
<1>3. OptionsRead(idx, optVals)' <=> OptionsRead(idx', optVals')
  BY <1>1, <1>2 DEF OptionsRead, OptionsBefore, AsMeant, Meaning!Given, Meaning!Denoted,
                    Meaning!Allowed, Meaning!Value
<1>4. ValuesRead(idx, valArgs)' <=> ValuesRead(idx', valArgs')
  BY <1>1, <1>2 DEF ValuesRead, ValuesBefore, ValueDecl, Meaning!Allowed, Meaning!Value
<1>. QED  BY <1>1, <1>3, <1>4

(* At a turn, the position is of an option or a value that is to be read.    *)
LEMMA AtTurn ==
  ASSUME IInv, ~threw, Turn
  PROVE  /\ idx \in 1..Len(line) /\ idx \notin Meaning!Attached(line) /\ line # None
         /\ OptionsRead(idx, optVals) /\ ValuesRead(idx, valArgs)
         /\ Arg \in Word /\ (IsOption <=> Meaning!IsOption(line[idx]))
         /\ IsOption => Arg.label # None /\ ArgId = LookedUp(Arg.label)
         /\ stage = "parsing" /\ TypeOK /\ LabelsLead
<1>1. stage = "parsing" /\ TypeOK /\ LabelsLead /\ line # None
  BY DEF Turn, IInv, TypeOK
<1>2. /\ idx \in (1..Len(line) + 1) \ Meaning!Attached(line)
      /\ OptionsRead(idx, optVals) /\ ValuesRead(idx, valArgs)
  BY <1>1 DEF IInv, Following
<1>3. idx \in 1..Len(line)
  BY <1>1, <1>2, LineWords DEF Turn
<1>4. Arg \in Word
  BY <1>1, <1>3, LineWords DEF Arg
<1>. QED  BY <1>1, <1>2, <1>3, <1>4 DEF IsOption, Meaning!IsOption, Arg, ArgId, LookedUp

(* An option denotes one declared argument, or none. *)
LEMMA OptionsDenote ==
  ASSUME TypeOK, LabelsLead, ~threw, line # None, NEW p \in Meaning!Options(line)
  PROVE  \A g, h \in Meaning!Denoted(line[p]) : g = h
<1>1. p \in 1..Len(line) /\ Meaning!IsOption(line[p])
  BY LineWords DEF Meaning!Options
<1>2. line[p] \in Word /\ line[p].label # None
  BY <1>1, LineWords DEF Meaning!IsOption
<1>. QED  BY <1>2, DenotedIs

(* The argument of an option, and the value that goes with it. *)
LEMMA OptionAt ==
  ASSUME IInv, ~threw, Turn, IsOption, IsDeclared
  PROVE  /\ ArgId \in Ids /\ ArgDecl \in Declaration /\ Len(ArgDecl.cfg) >= ElementsRead(ArgDecl)
         /\ Meaning!Denoted(line[idx]) = {ArgId}
         /\ idx + 1 \in Meaning!Attached(line) <=>
              idx + 1 \in 1..Len(line) /\ ~optValueInSameArg /\ ArgDecl.type = "OptionWithReqValue"
         /\ ArgDecl.type = "OptionWithReqValue" => Meaning!Given(line, idx) = Accompanying
<1>1. /\ idx \in 1..Len(line) /\ idx \notin Meaning!Attached(line) /\ line # None
      /\ Arg \in Word /\ Meaning!IsOption(line[idx])
      /\ Arg.label # None /\ ArgId = LookedUp(Arg.label)
      /\ TypeOK /\ LabelsLead /\ Arg = line[idx]
  BY AtTurn DEF Arg
<1>2. /\ ArgId \in Ids /\ ArgDecl \in Declaration /\ Meaning!Denoted(line[idx]) = {ArgId}
      /\ Len(ArgDecl.cfg) >= ElementsRead(ArgDecl)
  BY <1>1, DenotedIs DEF IsDeclared, TypeOK, Entries, ArgDecl, IInv, CastsAreRight
<1>3. Meaning!Expects(line[idx]) <=> ArgDecl.type = "OptionWithReqValue"
  BY <1>2 DEF Meaning!Expects, ArgDecl
<1>4. /\ Len(line) \in Nat
      /\ Meaning!Attached(line) \subseteq 1..Len(line)
      /\ \A p \in 1..Len(line) : p \in Meaning!Attached(line) <=>
              /\ p > 1 /\ p - 1 \notin Meaning!Attached(line) /\ ~optValueInSameArg
              /\ Meaning!IsOption(line[p - 1]) /\ Meaning!Expects(line[p - 1])
  BY <1>1, LineWords, AttachedIs
<1>5. idx + 1 \in Meaning!Attached(line) <=>
        idx + 1 \in 1..Len(line) /\ ~optValueInSameArg /\ ArgDecl.type = "OptionWithReqValue"
  <2>1. idx + 1 > 1 /\ (idx + 1) - 1 = idx
    BY <1>1, <1>4
  <2>. QED  BY <1>1, <1>3, <1>4, <2>1
<1>6. ArgDecl.type = "OptionWithReqValue" => Meaning!Given(line, idx) = Accompanying
  BY <1>1, <1>4, <1>5 DEF Meaning!Given, Accompanying
<1>. QED  BY <1>2, <1>5, <1>6

(* A turn reads the option at the position as it is meant, with its value.   *)
LEMMA OptionTurn ==
  ASSUME IInv, ~threw, ParseOption
  PROVE  /\ idx' \in (1..Len(line) + 1) \ Meaning!Attached(line)
         /\ OptionsRead(idx', optVals') /\ ValuesRead(idx', valArgs)
<1>. DEFINE g == ArgId
            d == expectedArgs[g]
<1>1. /\ idx \in 1..Len(line) /\ idx \notin Meaning!Attached(line) /\ line # None
      /\ OptionsRead(idx, optVals) /\ ValuesRead(idx, valArgs)
      /\ Meaning!IsOption(line[idx])
      /\ TypeOK /\ LabelsLead /\ Arg = line[idx]
  BY AtTurn DEF ParseOption, Arg
<1>2. /\ OptionIsValid /\ IsDeclared
      /\ optVals' = [optVals EXCEPT ![g] = IF d.type = "OptionSwitch" THEN 0 ELSE ValueOf(d, Accompanying)]
      /\ idx' = IF d.type = "OptionSwitch" \/ optValueInSameArg THEN idx + 1 ELSE idx + 2
  BY DEF ParseOption, ArgDecl
<1>3. /\ g \in Ids /\ d \in Declaration /\ Meaning!Denoted(line[idx]) = {g}
      /\ Len(d.cfg) >= ElementsRead(d) /\ optVals \in [Ids -> Values \union {None}]
  BY <1>1, <1>2, OptionAt DEF ParseOption, TypeOK, ArgDecl
<1>5. /\ optVals[g] = None
      /\ \/ d.type = "OptionSwitch" /\ line[idx].text = None
         \/ d.type = "OptionWithReqValue" /\ Accompanying # None /\ IsValid(d, Accompanying)
  BY <1>1, <1>2 DEF OptionIsValid, ArgDecl
<1>6. /\ Len(line) \in Nat
      /\ Meaning!Attached(line) \subseteq 1..Len(line)
      /\ \A p \in 1..Len(line) : p \in Meaning!Attached(line) => p - 1 \notin Meaning!Attached(line)
  BY <1>1, LineWords, AttachedIs
<1>7. idx + 1 \in Meaning!Attached(line) <=>
        idx + 1 \in 1..Len(line) /\ ~optValueInSameArg /\ d.type = "OptionWithReqValue"
  BY <1>2, OptionAt DEF ParseOption, ArgDecl
<1>8. d.type = "OptionWithReqValue" => Meaning!Given(line, idx) = Accompanying
  BY <1>2, OptionAt DEF ParseOption, ArgDecl
<1>9. /\ idx \in Meaning!Options(line)
      /\ OptionsBefore(idx + 1) = OptionsBefore(idx) \union {idx} /\ ValuesBefore(idx + 1) = ValuesBefore(idx)
  BY <1>1, OneWordMore
<1>10. /\ idx' \in (1..Len(line) + 1) \ Meaning!Attached(line)
       /\ OptionsBefore(idx') = OptionsBefore(idx) \union {idx} /\ ValuesBefore(idx') = ValuesBefore(idx)
  <2>1. CASE d.type = "OptionSwitch" \/ optValueInSameArg
    <3>1. idx' = idx + 1 /\ idx + 1 \notin Meaning!Attached(line)
      BY <1>2, <1>7, <2>1
    <3>. QED  BY <1>1, <1>6, <1>9, <3>1
  <2>2. CASE ~(d.type = "OptionSwitch" \/ optValueInSameArg)
    <3>1. d.type = "OptionWithReqValue" /\ idx' = idx + 2 /\ Accompanying # None
      BY <1>2, <1>5, <2>2
    <3>2. idx < Len(line) /\ idx + 1 \in 1..Len(line)
      BY <1>1, <1>6, <2>2, <3>1 DEF Accompanying
    <3>3. idx + 1 \in Meaning!Attached(line)
      BY <1>7, <2>2, <3>1, <3>2
    <3>4. (idx + 2) - 1 = idx + 1 /\ (idx + 1) + 1 = idx + 2
      BY <1>1
    <3>5. idx + 2 \notin Meaning!Attached(line)
      BY <1>6, <3>3, <3>4
    <3>6. OptionsBefore(idx + 2) = OptionsBefore(idx + 1) /\ ValuesBefore(idx + 2) = ValuesBefore(idx + 1)
      BY <1>1, <3>2, <3>3, <3>4, OneWordMore
    <3>. QED  BY <1>1, <1>6, <1>9, <3>1, <3>2, <3>5, <3>6
  <2>. QED  BY <2>1, <2>2
<1>11. optVals'[g] # None /\ AsMeant(g, idx, optVals'[g])
  <2>1. CASE d.type = "OptionSwitch"
    <3>1. optVals'[g] = 0 /\ line[idx].text = None
      BY <1>2, <1>3, <1>5, <2>1
    <3>. QED  BY <2>1, <3>1, CommandLineAssumption DEF AsMeant
  <2>2. CASE d.type = "OptionWithReqValue"
    <3>1. optVals'[g] = ValueOf(d, Accompanying) /\ Accompanying # None /\ IsValid(d, Accompanying)
      BY <1>2, <1>3, <1>5, <2>2
    <3>2. Accompanying \in Texts
      BY <1>1, <3>1, TurnTypes DEF ParseOption
    <3>3. ValueOf(d, Accompanying) # None
      BY <3>1 DEF IsValid
    <3>4. Meaning!Allowed(d, Accompanying) /\ Meaning!Value(d, Accompanying) = ValueOf(d, Accompanying)
      BY <1>3, <3>1, <3>2, SameReading
    <3>. QED  BY <1>8, <2>2, <3>1, <3>3, <3>4 DEF AsMeant
  <2>. QED  BY <1>5, <2>1, <2>2
<1>12. ASSUME NEW p \in OptionsBefore(idx) PROVE g \notin Meaning!Denoted(line[p])
  <2>1. PICK id \in Meaning!Denoted(line[p]) : optVals[id] # None
    BY <1>1 DEF OptionsRead
  <2>2. p \in Meaning!Options(line)
    BY DEF OptionsBefore
  <2>. QED  BY <1>1, <1>5, <2>1, <2>2, OptionsDenote
<1>13. \A p \in OptionsBefore(idx) : p # idx
  BY <1>1 DEF OptionsBefore
<1>14. \A id \in Ids : id # g => optVals'[id] = optVals[id]
  BY <1>2, <1>3
<1>15. ASSUME NEW p \in OptionsBefore(idx) \union {idx}
       PROVE  \E id \in Meaning!Denoted(line[p]) :
                /\ optVals'[id] # None /\ AsMeant(id, p, optVals'[id])
                /\ \A q \in (OptionsBefore(idx) \union {idx}) \ {p} : id \notin Meaning!Denoted(line[q])
  <2>1. CASE p = idx
    BY <1>3, <1>11, <1>12, <2>1
  <2>2. CASE p \in OptionsBefore(idx)
    <3>1. PICK id \in Meaning!Denoted(line[p]) :
             /\ optVals[id] # None /\ AsMeant(id, p, optVals[id])
             /\ \A q \in OptionsBefore(idx) \ {p} : id \notin Meaning!Denoted(line[q])
      BY <1>1, <2>2 DEF OptionsRead
    <3>2. id # g /\ id \in Ids
      BY <1>12, <2>2, <3>1 DEF Meaning!Denoted
    <3>3. optVals'[id] = optVals[id] /\ id \notin Meaning!Denoted(line[idx])
      BY <1>3, <1>14, <3>2
    <3>. QED  BY ONLY <3>1, <3>3
  <2>. QED  BY <2>1, <2>2
<1>16. ASSUME NEW id \in Ids, optVals'[id] # None
       PROVE  \E p \in OptionsBefore(idx) \union {idx} : id \in Meaning!Denoted(line[p])
  BY <1>1, <1>3, <1>14, <1>16 DEF OptionsRead
<1>17. OptionsRead(idx', optVals')
  BY <1>10, <1>15, <1>16 DEF OptionsRead
<1>18. ValuesRead(idx', valArgs)
  BY <1>1, <1>10 DEF ValuesRead
<1>. QED  BY <1>10, <1>17, <1>18

(* The module of the meaning counts as this one does. *)
LEMMA CountedAlike == \A S : Meaning!Cardinality(S) = Cardinality(S)
BY DEF Meaning!Cardinality, Cardinality

(* The place of a value: how many there are before it; no two have the same. *)
LEMMA Places ==
  ASSUME TypeOK, line # None, NEW p \in Meaning!Values(line), NEW q \in Meaning!Values(line),
         Cardinality(ValuesBefore(p)) = Cardinality(ValuesBefore(q))
  PROVE  p = q
<1>1. p \in Nat /\ q \in Nat
  BY Counted, LineWords
<1>2. ASSUME NEW r \in Meaning!Values(line), NEW s \in Meaning!Values(line), r \in Nat, s \in Nat, r < s
      PROVE  Cardinality(ValuesBefore(r)) # Cardinality(ValuesBefore(s))
  <2>1. ValuesBefore(r) \in SUBSET ValuesBefore(s)
    <3>1. \A t \in Meaning!Values(line) : t \in Nat
      BY Counted, LineWords
    <3>2. \A t \in Meaning!Values(line) : t < r => t < s
      BY <1>2, <3>1
    <3>. QED  BY <3>2 DEF ValuesBefore
  <2>2. r \in ValuesBefore(s) /\ r \notin ValuesBefore(r)
    BY <1>2 DEF ValuesBefore
  <2>3. IsFiniteSet(ValuesBefore(s))
    BY Counted
  <2>4. Cardinality(ValuesBefore(s)) = Cardinality(ValuesBefore(r)) => ValuesBefore(s) = ValuesBefore(r)
    BY <2>1, <2>3, FS_Subset
  <2>. QED  BY <2>2, <2>4
<1>. QED  BY <1>1, <1>2

(* A turn reads the value at the position, next in the order of the line.    *)
LEMMA ValueTurn ==
  ASSUME IInv, ~threw, ParseValue
  PROVE  /\ idx' \in (1..Len(line) + 1) \ Meaning!Attached(line)
         /\ OptionsRead(idx', optVals) /\ ValuesRead(idx', valArgs')
<1>. DEFINE v == ValueOf(ValueDecl, line[idx].whole)
<1>1. /\ idx \in 1..Len(line) /\ idx \notin Meaning!Attached(line) /\ line # None
      /\ OptionsRead(idx, optVals) /\ ValuesRead(idx, valArgs)
      /\ ~Meaning!IsOption(line[idx]) /\ TypeOK /\ LabelsLead /\ Arg = line[idx]
  BY AtTurn DEF ParseValue, Arg
<1>2. /\ idValueTypeArg # None /\ IsValid(ValueDecl, line[idx].whole)
      /\ idx' = idx + 1 /\ valArgs' = Append(valArgs, v) /\ valArgs \in Seq(Values)
  BY <1>1 DEF ParseValue, ValueIsValid, ValueIsExpected, TypeOK
<1>3. ValueDecl \in Declaration /\ Len(ValueDecl.cfg) >= ElementsRead(ValueDecl)
  BY <1>1, <1>2 DEF LabelsLead, ValueDecl, TypeOK, Entries, IInv, CastsAreRight
<1>4. /\ Len(line) \in Nat /\ line[idx].whole \in Texts
      /\ Meaning!Attached(line) \subseteq 1..Len(line)
      /\ \A p \in 1..Len(line) : p \in Meaning!Attached(line) => Meaning!IsOption(line[p - 1])
  BY <1>1, LineWords, AttachedIs
<1>5. idx + 1 \notin Meaning!Attached(line)
  <2>1. (idx + 1) - 1 = idx
    BY <1>1
  <2>. QED  BY <1>1, <1>4, <2>1
<1>6. /\ idx \in Meaning!Values(line) /\ OptionsBefore(idx + 1) = OptionsBefore(idx)
      /\ ValuesBefore(idx + 1) = ValuesBefore(idx) \union {idx} /\ idx \notin ValuesBefore(idx)
  BY <1>1, OneWordMore DEF ValuesBefore
<1>7. Meaning!Allowed(ValueDecl, line[idx].whole) /\ v = Meaning!Value(ValueDecl, line[idx].whole)
  BY <1>2, <1>3, <1>4, SameReading
<1>8. Cardinality(ValuesBefore(idx + 1)) = Cardinality(ValuesBefore(idx)) + 1
  BY <1>1, <1>6, Counted, FS_AddElement
<1>9. v \in Values
  BY <1>2, <1>3, <1>4, ValidFits
<1>10. /\ Len(valArgs) \in Nat /\ Len(valArgs') = Len(valArgs) + 1 /\ valArgs'[Len(valArgs) + 1] = v
       /\ \A i \in 1..Len(valArgs) : valArgs'[i] = valArgs[i]
  BY <1>2, <1>9
<1>11. Len(valArgs) = Cardinality(ValuesBefore(idx))
  BY <1>1 DEF ValuesRead
<1>12. ASSUME NEW p \in ValuesBefore(idx + 1)
       PROVE  idValueTypeArg # None /\ Meaning!Allowed(ValueDecl, line[p].whole)
  BY <1>1, <1>2, <1>6, <1>7 DEF ValuesRead
<1>13. ASSUME NEW i \in 1..Len(valArgs')
       PROVE  \E p \in ValuesBefore(idx + 1) :
                Cardinality(ValuesBefore(p)) = i - 1 /\ valArgs'[i] = Meaning!Value(ValueDecl, line[p].whole)
  <2>1. CASE i = Len(valArgs) + 1
    <3>1. i - 1 = Len(valArgs)
      BY <1>10, <2>1
    <3>. QED  BY <1>6, <1>7, <1>10, <1>11, <2>1, <3>1
  <2>2. CASE i # Len(valArgs) + 1
    <3>1. i \in 1..Len(valArgs)
      BY <1>10, <2>2
    <3>2. PICK p \in ValuesBefore(idx) :
            Cardinality(ValuesBefore(p)) = i - 1 /\ valArgs[i] = Meaning!Value(ValueDecl, line[p].whole)
      BY <1>1, <3>1 DEF ValuesRead
    <3>. QED  BY <1>6, <1>10, <3>1, <3>2
  <2>. QED  BY <2>1, <2>2
<1>14. ValuesRead(idx', valArgs')
  BY <1>2, <1>8, <1>10, <1>11, <1>12, <1>13 DEF ValuesRead
<1>15. OptionsRead(idx', optVals)
  BY <1>1, <1>2, <1>6 DEF OptionsRead
<1>16. idx' \in (1..Len(line) + 1) \ Meaning!Attached(line)
  BY <1>1, <1>2, <1>4, <1>5
<1>. QED  BY <1>14, <1>15, <1>16

(* Nothing is read at the beginning. *)
LEMMA AtBegin ==
  TypeOK /\ line # None =>
    /\ 1 \in (1..Len(line) + 1) \ Meaning!Attached(line)
    /\ OptionsRead(1, NoOptions) /\ ValuesRead(1, <<>>)
<1>. SUFFICES ASSUME TypeOK, line # None
     PROVE  /\ 1 \in (1..Len(line) + 1) \ Meaning!Attached(line)
            /\ OptionsRead(1, NoOptions) /\ ValuesRead(1, <<>>)
  OBVIOUS
<1>1. 1 \in (1..Len(line) + 1) \ Meaning!Attached(line)
  <2>1. Len(line) \in Nat
    BY LineWords
  <2>2. ~(1 > 1)
    OBVIOUS
  <2>3. 1 \notin Meaning!Attached(line)
    BY <2>2, AttachedIs
  <2>. QED  BY <2>1, <2>3
<1>2. OptionsBefore(1) = {} /\ ValuesBefore(1) = {}
  <2>1. \A p \in 1..Len(line) : ~(p < 1)
    BY LineWords
  <2>. QED  BY <2>1, Counted DEF OptionsBefore, ValuesBefore
<1>3. OptionsRead(1, NoOptions)
  BY <1>2 DEF OptionsRead, NoOptions
<1>4. ValuesRead(1, <<>>)
  BY <1>2, FS_EmptySet DEF ValuesRead
<1>. QED  BY <1>1, <1>3, <1>4

(* Every turn of the loop keeps to the meaning of what it has read. *)
LEMMA FollowParse ==
  ASSUME IInv, Parses
  PROVE  Following'
<1>0. TypeOK' /\ UNCHANGED <<expectedArgs, idValueTypeArg, optValueInSameArg, threw>>
  BY TypeParse, ParseFrame
<1>. SUFFICES ASSUME stage' = "parsing", ~threw
     PROVE  /\ idx' \in (1..Len(line') + 1) \ Meaning!Attached(line)'
            /\ OptionsRead(idx, optVals)' /\ ValuesRead(idx, valArgs)'
  BY <1>0 DEF Following
<1>1. ASSUME NEW l \in Lines, ParseBegin(l)
      PROVE  /\ idx' \in (1..Len(line') + 1) \ Meaning!Attached(line)'
             /\ OptionsRead(idx, optVals)' /\ ValuesRead(idx, valArgs)'
  <2>1. idx' = 1 /\ optVals' = NoOptions /\ valArgs' = <<>> /\ line' # None
    BY <1>1, CommandLineAssumption DEF ParseBegin
  <2>2. (TypeOK /\ line # None =>
           /\ 1 \in (1..Len(line) + 1) \ Meaning!Attached(line)
           /\ OptionsRead(1, NoOptions) /\ ValuesRead(1, <<>>))'
    BY AtBegin, PTL
  <2>3. /\ 1 \in (1..Len(line') + 1) \ Meaning!Attached(line)'
        /\ OptionsRead(1, NoOptions)' /\ ValuesRead(1, <<>>)'
    BY <1>0, <2>1, <2>2
  <2>4. NoOptions' = NoOptions
    BY DEF NoOptions
  <2>5. OptionsRead(idx, optVals)'
    BY <2>1, <2>3, <2>4 DEF OptionsRead, OptionsBefore, AsMeant
  <2>6. ValuesRead(idx, valArgs)'
    BY <2>1, <2>3 DEF ValuesRead, ValuesBefore
  <2>. QED  BY <2>1, <2>3, <2>5, <2>6
<1>2. CASE ParseOption
  <2>1. valArgs' = valArgs /\ line' = line
    BY <1>2 DEF ParseOption
  <2>2. /\ idx' \in (1..Len(line) + 1) \ Meaning!Attached(line)
        /\ OptionsRead(idx', optVals') /\ ValuesRead(idx', valArgs')
    BY <1>2, <2>1, OptionTurn
  <2>. QED  BY <1>0, <2>1, <2>2, SameMeaning
<1>3. CASE ParseValue
  <2>1. optVals' = optVals /\ line' = line
    BY <1>3 DEF ParseValue
  <2>2. /\ idx' \in (1..Len(line) + 1) \ Meaning!Attached(line)
        /\ OptionsRead(idx', optVals') /\ ValuesRead(idx', valArgs')
    BY <1>3, <2>1, ValueTurn
  <2>. QED  BY <1>0, <2>1, <2>2, SameMeaning
<1>4. CASE Rejects \/ ParseStray \/ ParseEnds \/ ParseMiscounts
  BY <1>4 DEF Rejects, ParseStray, ParseEnds, ParseMiscounts, Return
<1>. QED  BY <1>1, <1>2, <1>3, <1>4 DEF Parses

(* What the overloads accept is coherent. *)
LEMMA CoherentDeclare ==
  ASSUME IInv, NEW d \in Decls, Declares(d)
  PROVE  OnlyCoherent' /\ Following'
<1>0. /\ d \in Declaration /\ stage' = "idle"
      /\ \/ expectedArgs' = expectedArgs
         \/ expectedArgs' = [expectedArgs EXCEPT ![d.id] = d] /\ Accept(d)
  BY DeclareFrame
<1>1. Accept(d) => Coherent(d)
  BY DEF Accept, Fresh
<1>2. expectedArgs \in [Ids -> Entries] /\ OnlyCoherent
  BY DEF IInv, TypeOK
<1>3. ASSUME NEW id \in Ids, expectedArgs'[id] # None PROVE Coherent(expectedArgs'[id])
  BY <1>0, <1>1, <1>2, <1>3 DEF OnlyCoherent
<1>4. OnlyCoherent'
  BY <1>3 DEF OnlyCoherent, Coherent, SuitsForm, IsConsistent, ConfigIsRight
<1>. QED  BY <1>0, <1>4 DEF Following

(* A line with an option that a turn refuses has no meaning. *)
LEMMA OptionRefused ==
  ASSUME IInv, ~threw, Turn, IsOption, ArgId = None \/ (IsDeclared /\ ~OptionIsValid)
  PROVE  ~Meaning!Meaningful(line)
<1>1. /\ idx \in 1..Len(line) /\ idx \notin Meaning!Attached(line) /\ line # None
      /\ OptionsRead(idx, optVals) /\ Arg \in Word /\ Meaning!IsOption(line[idx])
      /\ Arg.label # None /\ ArgId = LookedUp(Arg.label)
      /\ TypeOK /\ LabelsLead /\ Arg = line[idx]
  BY AtTurn DEF Arg
<1>2. idx \in Meaning!Options(line)
  BY <1>1, OneWordMore
<1>. SUFFICES ASSUME NEW id \in Meaning!Denoted(line[idx]),
                     \A q \in Meaning!Options(line) \ {idx} : id \notin Meaning!Denoted(line[q]),
                     \/ expectedArgs[id].type = "OptionSwitch" /\ line[idx].text = None
                     \/ /\ expectedArgs[id].type = "OptionWithReqValue" /\ Meaning!Given(line, idx) # None
                        /\ Meaning!Allowed(expectedArgs[id], Meaning!Given(line, idx))
              PROVE  FALSE
  BY <1>2 DEF Meaning!Meaningful, Meaning!OptionIsRight
<1>3. IsDeclared /\ ~OptionIsValid
  BY <1>1, DenotedIs
<1>4. id = ArgId /\ id \in Ids /\ ArgDecl = expectedArgs[id] /\ ArgDecl \in Declaration
  BY <1>3, OptionAt DEF ArgDecl
<1>5. optVals[id] = None
  <2>1. ASSUME optVals[id] # None PROVE FALSE
    <3>1. PICK p \in OptionsBefore(idx) : id \in Meaning!Denoted(line[p])
      BY <1>1, <1>4, <2>1 DEF OptionsRead
    <3>2. p \in Meaning!Options(line) /\ p < idx
      BY DEF OptionsBefore
    <3>. QED  BY <1>1, <3>1, <3>2
  <2>. QED  BY <2>1
<1>6. CASE ArgDecl.type = "OptionSwitch"
  BY <1>1, <1>3, <1>4, <1>5, <1>6 DEF OptionIsValid
<1>7. CASE ArgDecl.type = "OptionWithReqValue"
  <2>1. Meaning!Given(line, idx) = Accompanying
    BY <1>3, <1>7, OptionAt
  <2>2. Accompanying # None /\ Accompanying \in Texts /\ Len(ArgDecl.cfg) >= ElementsRead(ArgDecl)
    BY <1>1, <1>3, <1>4, <1>7, <2>1, OptionAt, TurnTypes
  <2>3. IsValid(ArgDecl, Accompanying)
    BY <1>4, <1>7, <2>1, <2>2, SameReading
  <2>. QED  BY <1>3, <1>4, <1>5, <1>7, <2>2, <2>3 DEF OptionIsValid
<1>. QED  BY <1>4, <1>6, <1>7

(* A line with a value that a turn refuses has no meaning. *)
LEMMA ValueRefused ==
  ASSUME IInv, ~threw, Turn, ~IsOption, ~ValueIsValid
  PROVE  ~Meaning!Meaningful(line)
<1>1. /\ idx \in 1..Len(line) /\ idx \notin Meaning!Attached(line) /\ line # None
      /\ ValuesRead(idx, valArgs) /\ ~Meaning!IsOption(line[idx])
      /\ TypeOK /\ LabelsLead /\ Arg = line[idx]
  BY AtTurn DEF Arg
<1>2. /\ idx \in Meaning!Values(line) /\ idx \notin ValuesBefore(idx)
      /\ ValuesBefore(idx + 1) = ValuesBefore(idx) \union {idx}
  BY <1>1, OneWordMore DEF ValuesBefore
<1>. DEFINE n == Cardinality(Meaning!Values(line))
<1>3. /\ Cardinality(ValuesBefore(idx + 1)) = Cardinality(ValuesBefore(idx)) + 1
      /\ Cardinality(ValuesBefore(idx)) \in Nat
  BY <1>1, <1>2, Counted, FS_AddElement
<1>4. n \in Nat /\ Cardinality(ValuesBefore(idx)) + 1 <= n
  <2>1. ValuesBefore(idx + 1) \in SUBSET Meaning!Values(line)
    BY DEF ValuesBefore
  <2>. QED  BY <1>1, <1>3, <2>1, Counted, FS_Subset, FS_CardinalityType
<1>. SUFFICES ASSUME NEW id \in Ids, Meaning!Collects(id),
                     \A p \in Meaning!Values(line) : Meaning!Allowed(expectedArgs[id], line[p].whole),
                     expectedArgs[id].type = "SingleValue" => n = 1
              PROVE  FALSE
  <2>1. n > 0
    BY <1>3, <1>4
  <2>. QED  BY <2>1, CountedAlike DEF Meaning!Meaningful, Meaning!ValuesAreRight
<1>5. idValueTypeArg = id /\ idValueTypeArg # None /\ ValueDecl = expectedArgs[id] /\ ValueDecl \in Declaration
  BY <1>1, CollectsIs, CommandLineAssumption DEF ValueDecl, Meaning!Collects, TypeOK, Entries
<1>6. IsValid(ValueDecl, Arg.whole)
  <2>1. Len(ValueDecl.cfg) >= ElementsRead(ValueDecl)
    BY <1>5, CommandLineAssumption DEF IInv, CastsAreRight, Declaration
  <2>2. Arg.whole \in Texts
    BY <1>1, LineWords
  <2>. QED  BY <1>1, <1>2, <1>5, <2>1, <2>2, SameReading
<1>7. ValueDecl.type # "ValuesList" /\ valArgs # <<>>
  BY <1>5, <1>6 DEF ValueIsValid, ValueIsExpected
<1>8. n = 1
  BY <1>5, <1>7 DEF Meaning!Collects
<1>9. Len(valArgs) = Cardinality(ValuesBefore(idx)) /\ valArgs \in Seq(Values)
  BY <1>1 DEF ValuesRead, TypeOK
<1>10. Len(valArgs) # 0
  BY <1>7, <1>9
<1>. QED  BY <1>3, <1>4, <1>8, <1>9, <1>10

(* At the end of the line everything in it has been read. *)
LEMMA AtEnd ==
  ASSUME IInv, ~threw, stage = "parsing", idx > Len(line)
  PROVE  /\ line # None /\ TypeOK /\ LabelsLead
         /\ OptionsBefore(idx) = Meaning!Options(line) /\ ValuesBefore(idx) = Meaning!Values(line)
         /\ OptionsRead(idx, optVals) /\ ValuesRead(idx, valArgs)
         /\ Cardinality(Meaning!Values(line)) = Len(valArgs)
         /\ valArgs \in Seq(Values) /\ optVals \in [Ids -> Values \union {None}]
<1>1. /\ line # None /\ TypeOK /\ LabelsLead /\ idx \in Nat
      /\ valArgs \in Seq(Values) /\ optVals \in [Ids -> Values \union {None}]
  BY DEF IInv, TypeOK
<1>2. OptionsRead(idx, optVals) /\ ValuesRead(idx, valArgs)
  BY DEF IInv, Following
<1>3. OptionsBefore(idx) = Meaning!Options(line) /\ ValuesBefore(idx) = Meaning!Values(line)
  BY <1>1, Counted
<1>. QED  BY <1>1, <1>2, <1>3 DEF ValuesRead

(* The line has a meaning unless its values are too few or too many. *)
LEMMA EndIsRight ==
  ASSUME IInv, ~threw, stage = "parsing", idx > Len(line)
  PROVE  Meaning!Meaningful(line) <=> CountIsRight
<1>1. /\ line # None /\ TypeOK /\ LabelsLead
      /\ OptionsBefore(idx) = Meaning!Options(line) /\ ValuesBefore(idx) = Meaning!Values(line)
      /\ OptionsRead(idx, optVals) /\ ValuesRead(idx, valArgs)
      /\ Cardinality(Meaning!Values(line)) = Len(valArgs)
      /\ valArgs \in Seq(Values)
  BY AtEnd
<1>2. ASSUME NEW p \in Meaning!Options(line) PROVE Meaning!OptionIsRight(line, p)
  BY <1>1 DEF OptionsRead, AsMeant, Meaning!OptionIsRight
<1>3. ASSUME CountIsRight, Cardinality(Meaning!Values(line)) > 0
      PROVE  \E id \in Ids :
               /\ Meaning!Collects(id)
               /\ \A p \in Meaning!Values(line) : Meaning!Allowed(expectedArgs[id], line[p].whole)
               /\ IF expectedArgs[id].type = "SingleValue" THEN Cardinality(Meaning!Values(line)) = 1
                  ELSE /\ expectedArgs[id].cfg[1] <= Cardinality(Meaning!Values(line))
                       /\ Cardinality(Meaning!Values(line)) <= expectedArgs[id].cfg[2]
  <2>1. Meaning!Values(line) # {} /\ valArgs # <<>>
    <3>1. Cardinality({}) = 0
      BY FS_EmptySet
    <3>2. Len(<<>>) = 0
      OBVIOUS
    <3>3. Cardinality(Meaning!Values(line)) # 0 /\ Len(valArgs) # 0
      BY <1>1, <1>3
    <3>4. Meaning!Values(line) # {}
      BY ONLY <3>1, <3>3
    <3>5. valArgs # <<>>
      BY ONLY <3>2, <3>3
    <3>. QED  BY <3>4, <3>5
  <2>2. /\ idValueTypeArg # None /\ idValueTypeArg \in Ids
        /\ \A p \in Meaning!Values(line) : Meaning!Allowed(ValueDecl, line[p].whole)
    BY <1>1, <2>1 DEF ValuesRead, TypeOK
  <2>3. Meaning!Collects(idValueTypeArg)
    BY <1>1, <2>2, CollectsIs
  <2>4. ValueDecl.type = "SingleValue" \/ ValueDecl.type = "ValuesList"
    BY <2>3 DEF Meaning!Collects, ValueDecl
  <2>5. ValueDecl.type # "ValuesList" => Len(valArgs) = 1
    BY <2>1 DEF IInv, CallFits, ValuesFit
  <2>6. ValueDecl.type = "ValuesList" => ValueDecl.cfg[1] <= Len(valArgs) /\ Len(valArgs) <= ValueDecl.cfg[2]
    BY <1>3, <2>1, <2>2 DEF CountIsRight
  <2>. QED  BY <1>1, <2>2, <2>3, <2>4, <2>5, <2>6 DEF ValueDecl
<1>4. ASSUME Meaning!ValuesAreRight(line) PROVE CountIsRight
  <2>. SUFFICES ASSUME idValueTypeArg # None, ValueDecl.type = "ValuesList", valArgs # <<>>
                PROVE  ValueDecl.cfg[1] <= Len(valArgs) /\ Len(valArgs) <= ValueDecl.cfg[2]
    BY DEF CountIsRight
  <2>1. Cardinality(Meaning!Values(line)) > 0
    BY <1>1
  <2>2. PICK id \in Ids :
               /\ Meaning!Collects(id)
               /\ IF expectedArgs[id].type = "SingleValue" THEN Cardinality(Meaning!Values(line)) = 1
                  ELSE /\ expectedArgs[id].cfg[1] <= Cardinality(Meaning!Values(line))
                       /\ Cardinality(Meaning!Values(line)) <= expectedArgs[id].cfg[2]
    BY <1>4, <2>1, CountedAlike DEF Meaning!ValuesAreRight
  <2>3. idValueTypeArg = id
    BY <1>1, <2>2, CollectsIs
  <2>. QED  BY <1>1, <2>2, <2>3 DEF ValueDecl
<1>5. CountIsRight => Meaning!ValuesAreRight(line)
  BY <1>3, CountedAlike DEF Meaning!ValuesAreRight
<1>. QED  BY <1>2, <1>4, <1>5 DEF Meaning!Meaningful

(* What has been read is what the line means. *)
LEMMA EndIsMeant ==
  ASSUME IInv, ~threw, stage = "parsing", idx > Len(line)
  PROVE  optVals = Meaning!OptionsOf(line) /\ valArgs = Meaning!ValuesOf(line)
<1>1. /\ line # None /\ TypeOK /\ LabelsLead
      /\ OptionsBefore(idx) = Meaning!Options(line) /\ ValuesBefore(idx) = Meaning!Values(line)
      /\ OptionsRead(idx, optVals) /\ ValuesRead(idx, valArgs)
      /\ Cardinality(Meaning!Values(line)) = Len(valArgs)
      /\ valArgs \in Seq(Values) /\ optVals \in [Ids -> Values \union {None}]
  BY AtEnd
<1>2. ASSUME NEW id \in Ids
      PROVE  optVals[id] =
               IF \E p \in Meaning!Options(line) : id \in Meaning!Denoted(line[p])
                 THEN LET p == CHOOSE p \in Meaning!Options(line) : id \in Meaning!Denoted(line[p])
                      IN  IF expectedArgs[id].type = "OptionSwitch" THEN 0
                          ELSE Meaning!Value(expectedArgs[id], Meaning!Given(line, p))
                 ELSE None
  <2>1. CASE \E p \in Meaning!Options(line) : id \in Meaning!Denoted(line[p])
    <3>. DEFINE p == CHOOSE p \in Meaning!Options(line) : id \in Meaning!Denoted(line[p])
    <3>1. p \in Meaning!Options(line) /\ id \in Meaning!Denoted(line[p])
      BY <2>1
    <3>. HIDE DEF p
    <3>2. PICK h \in Meaning!Denoted(line[p]) : AsMeant(h, p, optVals[h])
      BY <1>1, <3>1 DEF OptionsRead
    <3>3. h = id
      BY <1>1, <3>1, <3>2, OptionsDenote
    <3>4. optVals[id] = IF expectedArgs[id].type = "OptionSwitch" THEN 0
                        ELSE Meaning!Value(expectedArgs[id], Meaning!Given(line, p))
      BY <3>2, <3>3 DEF AsMeant
    <3>. QED  BY <2>1, <3>4 DEF p
  <2>2. CASE ~ \E p \in Meaning!Options(line) : id \in Meaning!Denoted(line[p])
    BY <1>1, <2>2 DEF OptionsRead
  <2>. QED  BY <2>1, <2>2
<1>3. optVals = Meaning!OptionsOf(line)
  BY <1>1, <1>2 DEF Meaning!OptionsOf
<1>4. ASSUME NEW i \in 1..Len(valArgs)
      PROVE  valArgs[i] = Meaning!Value(expectedArgs[CHOOSE id \in Ids : Meaning!Collects(id)],
               line[CHOOSE p \in Meaning!Values(line) :
                      Cardinality({q \in Meaning!Values(line) : q < p}) = i - 1].whole)
  <2>1. PICK p \in Meaning!Values(line) :
          Cardinality(ValuesBefore(p)) = i - 1 /\ valArgs[i] = Meaning!Value(ValueDecl, line[p].whole)
    BY <1>1 DEF ValuesRead
  <2>2. idValueTypeArg # None /\ idValueTypeArg \in Ids
    BY <1>1, <2>1 DEF ValuesRead, TypeOK
  <2>3. (CHOOSE id \in Ids : Meaning!Collects(id)) = idValueTypeArg
    BY <1>1, <2>2, CollectsIs
  <2>. DEFINE r == CHOOSE r \in Meaning!Values(line) : Cardinality({q \in Meaning!Values(line) : q < r}) = i - 1
  <2>4. \A s : ValuesBefore(s) = {q \in Meaning!Values(line) : q < s}
    BY DEF ValuesBefore
  <2>5. r \in Meaning!Values(line) /\ Cardinality(ValuesBefore(r)) = i - 1
    BY <2>1, <2>4
  <2>. HIDE DEF r
  <2>6. r = p
    BY <1>1, <2>1, <2>5, Places
  <2>. QED  BY <2>1, <2>3, <2>6 DEF r, ValueDecl
<1>5. valArgs = [i \in 1..Len(valArgs) |-> valArgs[i]]
  BY <1>1
<1>6. valArgs = Meaning!ValuesOf(line)
  BY <1>1, <1>4, <1>5, CountedAlike DEF Meaning!ValuesOf
<1>. QED  BY <1>3, <1>6

(* The actions that neither declare nor parse keep the invariant. *)
LEMMA OtherInv ==
  ASSUME IInv, Answers \/ Destroy \/ UNCHANGED vars
  PROVE  IInv'
<1>1. /\ UNCHANGED <<expectedArgs, argsByCharLabel, argsByNameLabel, idValueTypeArg, optValueInSameArg, threw>>
      /\ UNCHANGED <<parsedOptVals, parsedValArgs, line, idx, optVals, valArgs>>
      /\ stage' = stage \/ (stage = "idle" /\ stage' = "gone")
  BY OtherFrame DEF tables, results, call
<1>2. TypeOK'
  BY ONLY IInv, <1>1 DEF IInv, TypeOK
<1>3. LabelsLead'
  BY <1>1 DEF IInv, LabelsLead, DeclaredAs, ValueDecl, Charges
<1>4. CastsAreRight'
  BY <1>1 DEF IInv, CastsAreRight
<1>5. ResultsFit' /\ CallFits'
  BY <1>1 DEF IInv, ResultsFit, CallFits, OptionsFit, ValuesFit, ValueDecl
<1>6. OnlyCoherent'
  BY <1>1 DEF IInv, OnlyCoherent, Coherent, SuitsForm, IsConsistent, ConfigIsRight
<1>7. Following'
  <2>1. stage' = "parsing" => stage = "parsing"
    BY <1>1
  <2>. QED  BY <1>1, <2>1, SameMeaning DEF IInv, Following
<1>. QED  BY <1>2, <1>3, <1>4, <1>5, <1>6, <1>7 DEF IInv

(* Every action keeps the invariant. *)
LEMMA StepInv ==
  ASSUME IInv, [Next]_vars
  PROVE  IInv'
<1>1. ASSUME NEW d \in Decls, Declares(d) PROVE IInv'
  BY <1>1, TypeDeclare, LabelsDeclare, CastsDeclare, ResultsDeclare, CoherentDeclare DEF IInv
<1>2. CASE Parses
  <2>1. CastsAreRight'
    BY <1>2, ParseFrame DEF IInv, CastsAreRight
  <2>2. OnlyCoherent'
    <3>1. expectedArgs' = expectedArgs /\ OnlyCoherent
      BY <1>2, ParseFrame DEF IInv
    <3>. QED  BY ONLY <3>1 DEF OnlyCoherent, Coherent, SuitsForm, IsConsistent, ConfigIsRight
  <2>. QED  BY <1>2, <2>1, <2>2, TypeParse, LabelsParse, ResultsParse, FollowParse DEF IInv
<1>3. CASE Answers \/ Destroy \/ UNCHANGED vars
  BY <1>3, OtherInv
<1>. QED  BY <1>1, <1>2, <1>3, Kinds

(* The inductive invariant: the parts rest on one another.  A valid value is *)
(* read from a configuration that CastsAreRight makes long enough, and the   *)
(* parser finds the argument of a label by LabelsLead.                       *)
THEOREM Invariance == Spec => []IInv
<1>. QED  BY InitInv, StepInv, PTL DEF Spec

(* The labels of AddExpectedArgument lead to the arguments that declared     *)
(* them, and Parse never takes the end of the map for an argument unless a   *)
(* declaration has failed.                                                   *)
THEOREM LabelsAlwaysLead == Spec => []LabelsLead
<1>1. IInv => LabelsLead
  BY DEF IInv
<1>. QED  BY Invariance, <1>1, PTL

(* The configuration that is kept as a pointer to void has the type and the  *)
(* elements for which it is taken.                                           *)
THEOREM CastsAreAlwaysRight == Spec => []CastsAreRight
<1>1. IInv => CastsAreRight
  BY DEF IInv
<1>. QED  BY Invariance, <1>1, PTL

(* What GetArgValue and GetArgListOfValues read is allowed by the            *)
(* declarations.                                                             *)
THEOREM ResultsAlwaysFit == Spec => []ResultsFit
<1>1. IInv => ResultsFit
  BY DEF IInv
<1>. QED  BY Invariance, <1>1, PTL

(* Every step is one of the meaning, or changes nothing that it mentions.    *)
LEMMA StepImplements ==
  ASSUME IInv, [Next]_vars
  PROVE  [Meaning!Next]_<<expectedArgs, optValueInSameArg, threw, line, Meaning!results, returned>>
<1>. DEFINE Same == UNCHANGED <<expectedArgs, optValueInSameArg, threw, line, parsedOptVals, parsedValArgs, returned>>
<1>0. SUFFICES Meaning!Next \/ Same
  BY DEF Meaning!results
<1>1. ASSUME NEW d \in Decls, Declares(d) PROVE Meaning!Next
  <2>1. /\ d \in Declaration /\ UNCHANGED <<optValueInSameArg, parsedOptVals, parsedValArgs, line>> /\ stage = "idle"
        /\ \/ expectedArgs' = expectedArgs /\ threw' = TRUE
           \/ /\ expectedArgs' = [expectedArgs EXCEPT ![d.id] = d] /\ threw' = threw
              /\ expectedArgs[d.id] = None
    BY <1>1, DeclareFrame DEF results, call
  <2>2. line = None
    BY <2>1 DEF IInv, TypeOK
  <2>3. CASE expectedArgs' = expectedArgs /\ threw' = TRUE
    BY <2>1, <2>2, <2>3 DEF Meaning!Next, Meaning!Refuse, Meaning!results
  <2>4. CASE expectedArgs' # expectedArgs \/ threw' # TRUE
    <3>1. /\ expectedArgs' = [expectedArgs EXCEPT ![d.id] = d] /\ threw' = threw
          /\ expectedArgs[d.id] = None
      BY <2>1, <2>4
    <3>. QED  BY <2>1, <2>2, <3>1 DEF Meaning!Next, Meaning!Declare, Meaning!results
  <2>. QED  BY <2>3, <2>4
<1>2. ASSUME NEW l \in Lines, ParseBegin(l) PROVE Meaning!Next
  <2>1. line = None
    BY <1>2 DEF ParseBegin, IInv, TypeOK
  <2>. QED  BY <1>2, <2>1 DEF ParseBegin, tables, results, Meaning!Next, Meaning!Read, Meaning!results
<1>3. CASE ParseOption \/ ParseValue \/ ParseStray
  BY <1>3 DEF ParseOption, ParseValue, ParseStray, tables, results, call
<1>4. CASE Rejects \/ ParseMiscounts
  <2>1. /\ UNCHANGED <<expectedArgs, optValueInSameArg, threw, parsedOptVals, parsedValArgs>>
        /\ stage = "parsing" /\ returned' = [as |-> "fail"] /\ line' = None
    BY <1>4 DEF Rejects, ParseMiscounts, Return, Turn, tables, results
  <2>2. line # None
    BY <2>1 DEF IInv, TypeOK
  <2>3. ASSUME ~threw PROVE ~Meaning!Meaningful(line)
    <3>1. CASE Rejects
      BY <2>3, <3>1, OptionRefused, ValueRefused DEF Rejects, Fails
    <3>2. CASE ParseMiscounts
      BY <2>3, <3>2, EndIsRight DEF ParseMiscounts
    <3>. QED  BY <1>4, <3>1, <3>2
  <2>4. Meaning!Reject
    BY <2>1, <2>2, <2>3 DEF Meaning!Reject, Meaning!results
  <2>. QED  BY <2>4 DEF Meaning!Next
<1>5. CASE ParseEnds
  <2>1. /\ UNCHANGED <<expectedArgs, optValueInSameArg, threw>> /\ line # None
        /\ parsedOptVals' = optVals /\ parsedValArgs' = valArgs
        /\ stage = "parsing" /\ returned' = [as |-> "okay"] /\ line' = None
    BY <1>5 DEF ParseEnds, Return, tables, IInv, TypeOK
  <2>2. ASSUME ~threw
        PROVE  /\ Meaning!Meaningful(line)
               /\ parsedOptVals' = Meaning!OptionsOf(line) /\ parsedValArgs' = Meaning!ValuesOf(line)
    BY <1>5, <2>1, <2>2, EndIsRight, EndIsMeant DEF ParseEnds
  <2>3. Meaning!Understand
    BY <2>1, <2>2 DEF Meaning!Understand
  <2>. QED  BY <2>3 DEF Meaning!Next
<1>6. ASSUME NEW id \in Ids, GetArgValue(id) PROVE Meaning!Next
  <2>1. /\ UNCHANGED <<expectedArgs, optValueInSameArg, threw, line, parsedOptVals, parsedValArgs>>
        /\ line = None
    BY <1>6 DEF GetArgValue, tables, results, call, IInv, TypeOK
  <2>2. \/ returned'.as = "threw"
        \/ returned'.as \in {"value", "switch"} /\ (threw \/ Meaning!Answered(returned'))
    <3>1. CASE expectedArgs[id] = None
      BY <1>6, <3>1 DEF GetArgValue
    <3>2. CASE expectedArgs[id] # None /\ GetSwitch(id)
      BY <3>2 DEF GetSwitch, Meaning!Answered, Meaning!Collects
    <3>3. CASE expectedArgs[id] # None /\ GetValue(id)
      <4>1. \/ returned'.as = "threw"
            \/ returned'.as = "value" /\ returned'.id = id
        BY <3>3 DEF GetValue
      <4>2. ASSUME ~threw, returned'.as # "threw" PROVE Meaning!Answered(returned')
        <5>. DEFINE d == expectedArgs[id]
        <5>1. /\ d \in Declaration /\ Coherent(d) /\ d.type # "ValuesList" /\ d.base # "None"
              /\ DOMAIN d.cfg = 1..Len(d.cfg) /\ Len(d.cfg) \in Nat /\ d.cfg \in Seq(Int)
          BY <3>3, Fields DEF GetValue, IInv, OnlyCoherent, TypeOK, Entries
        <5>2. d.type # "OptionSwitch"
          BY <5>1 DEF Coherent, SuitsForm, ConfigIsRight
        <5>3. Meaning!Collects(id) <=> idValueTypeArg = id
          BY <4>2, CollectsIs DEF IInv
        <5>4. returned'.id = id
          BY <4>1, <4>2
        <5>5. CASE id = idValueTypeArg
          <6>1. d.type = "SingleValue"
            BY <5>1, <5>3, <5>5 DEF Meaning!Collects
          <6>2. IF parsedValArgs # <<>> THEN returned'.value = parsedValArgs[1]
                                        ELSE ~returned'.present /\ returned'.value = None
            BY <3>3, <5>5 DEF GetValue
          <6>. QED  BY <5>3, <5>4, <6>1, <6>2 DEF Meaning!Answered
        <5>6. CASE id # idValueTypeArg
          <6>1. IF parsedOptVals[id] # None
                  THEN returned'.present /\ returned'.value = parsedOptVals[id]
                  ELSE ~returned'.present /\ returned'.value = Default(d) /\ ~(d.base = "String" /\ d.form # "plain" /\ d.cfg = <<>>)
            BY <3>3, <4>2, <5>6 DEF GetValue
          <6>2. ASSUME parsedOptVals[id] = None PROVE returned'.value = None \/ \E i \in DOMAIN d.cfg : returned'.value = d.cfg[i]
            <7>1. CASE Default(d) = None
              BY <6>1, <6>2, <7>1
            <7>2. CASE Default(d) # None
              <8>1. Default(d) = d.cfg[1] /\ (Len(d.cfg) > 2 \/ d.cfg # <<>>)
                BY <6>1, <6>2, <7>2 DEF Default
              <8>2. 1 \in DOMAIN d.cfg
                BY <5>1, <8>1
              <8>. QED  BY <6>1, <6>2, <8>1, <8>2
            <7>. QED  BY <7>1, <7>2
          <6>. QED  BY <5>2, <5>3, <5>4, <5>6, <6>1, <6>2 DEF Meaning!Answered
        <5>. QED  BY <5>5, <5>6
      <4>. QED  BY <4>1, <4>2
    <3>. QED  BY <1>6, <3>1, <3>2, <3>3 DEF GetArgValue
  <2>3. Meaning!Answer
    BY <2>1, <2>2 DEF Meaning!Answer, Meaning!results
  <2>. QED  BY <2>3 DEF Meaning!Next
<1>7. CASE GetArgListOfValues
  <2>1. /\ UNCHANGED <<expectedArgs, optValueInSameArg, threw, line, parsedOptVals, parsedValArgs>>
        /\ line = None
        /\ returned'.as = "threw" \/ returned' = [as |-> "list", values |-> parsedValArgs]
    BY <1>7 DEF GetArgListOfValues, tables, results, call, IInv, TypeOK
  <2>. QED  BY <2>1 DEF Meaning!Next, Meaning!Answer, Meaning!results
<1>8. CASE Destroy \/ UNCHANGED vars
  BY <1>8 DEF Destroy, vars, tables, results, call
<1>. QED  BY <1>1, <1>2, <1>3, <1>4, <1>5, <1>6, <1>7, <1>8, Kinds DEF Parses, Answers

(* A line is understood exactly when the declarations give it a meaning, and *)
(* gets that meaning; what fails changes nothing; the answers are about the  *)
(* last line that was understood: Parse and the answers of                   *)
(* CommandLineArguments do what LineMeaning says of a line as a whole.       *)
THEOREM Refinement == Spec => ImplementsMeaning
<1>1. Init => Meaning!Init
  BY DEF Init, NoOptions, Nothing, Meaning!Init
<1>2. IInv /\ [Next]_vars => [Meaning!Next]_<<expectedArgs, optValueInSameArg, threw, line, Meaning!results, returned>>
  BY StepImplements
<1>. QED  BY Invariance, <1>1, <1>2, PTL DEF Spec, ImplementsMeaning, Meaning!Spec
===============================================================================
