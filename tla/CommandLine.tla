------------------------------ MODULE CommandLine ------------------------------
(***************************************************************************)
(* CommandLineArguments: the arguments that an application declares, the   *)
(* loop that parses a command line against them, and the answers that the  *)
(* application then asks for.  One thread uses the object.                 *)
(***************************************************************************)
EXTENDS Integers, Sequences, FiniteSets

CONSTANTS
  Ids,           (* the IDs of arguments                                    *)
  Chars, Names,  (* the labels: single characters, names                    *)
  Alnum,         (* the characters that isalnum accepts                     *)
  Spaced, Odd,   (* the names with white spaces, and the ones with          *)
                 (* characters never accepted, or more than 24 of them      *)
  Decls,         (* the declarations that the application tries             *)
  Texts,         (* texts, which are integers                               *)
  ReadInteger,   (* what strtoll and strtod read in a text as a whole, or   *)
  ReadFloat,     (* None; a float stands for its rank among those in use    *)
  NaN,           (* the float that is not a number                          *)
  Lines,         (* command lines, without the name of the program          *)
  None

OptionTypes == {"OptionSwitch", "OptionWithReqValue"}
ValueTypes == {"SingleValue", "ValuesList"}
Forms == {"plain", "long long", "double", "const char *", "uint16_t"}    \* the overloads

(* Enumerations of floats and ranges of strings do not exist.                *)
Declaration ==
  {d \in [form : Forms, id : Ids, type : OptionTypes \union ValueTypes,
          base : {"None", "String", "Integer", "Float"}, limit : {"none", "range", "enum"},
          ch : Chars \union {None}, name : Names \union {None}, described : BOOLEAN, cfg : Seq(Int)] :
     /\ d.limit = "range" => d.base \in {"Integer", "Float"}
     /\ d.limit = "enum" => d.base \in {"Integer", "String"}
     /\ d.form = "plain" => d.cfg = <<>>}

(* The label and the value that the regular expressions of options find in a *)
(* word; and the word as a text, which may be a number even if it has the    *)
(* form of an option, as -5 has.                                             *)
Word == {w \in [label : Chars \union Names \union {None}, text : Texts \union {None}, whole : Texts] :
           w.label = None => w.text = None}

Values == Int \union {NaN}

ASSUME CommandLineAssumption ==
  /\ Decls \subseteq Declaration
  /\ Lines \subseteq Seq(Word)
  /\ \A l \in Lines : Len(l) < 65535                      \* the index has 16 bits
  /\ Texts \subseteq Int
  /\ ReadInteger \in [Texts -> Int \union {None}] /\ ReadFloat \in [Texts -> Values \union {None}]
  /\ NaN \notin Int /\ NaN # None
  /\ Chars \intersect Names = {}
  /\ None \notin Int /\ None \notin Ids /\ None \notin Chars \union Names
  /\ None \notin Declaration /\ None \notin Lines

VARIABLES
  expectedArgs, argsByCharLabel, argsByNameLabel, idValueTypeArg,
  optValueInSameArg,
  parsedOptVals, parsedValArgs,
  (* A call of Parse: its argument, and its variables.                      *)
  line, idx, optVals, valArgs,
  (* What the application sees.                                             *)
  stage,       (* "idle", "parsing", "undefined" (behaviour), "gone"        *)
  threw,       (* a declaration has thrown an exception                     *)
  returned     (* by the last call                                          *)

tables == <<expectedArgs, argsByCharLabel, argsByNameLabel, idValueTypeArg>>
results == <<parsedOptVals, parsedValArgs>>
call == <<line, idx, optVals, valArgs>>
vars == <<tables, optValueInSameArg, results, call, stage, threw, returned>>

Nothing == [as |-> "nothing"]
NoOptions == [id \in Ids |-> None]

Init ==
  /\ expectedArgs = [id \in Ids |-> None] /\ idValueTypeArg = None
  /\ argsByCharLabel = [c \in Chars |-> None] /\ argsByNameLabel = [n \in Names |-> None]
  /\ optValueInSameArg \in BOOLEAN
  /\ parsedOptVals = NoOptions /\ parsedValArgs = <<>>
  /\ line = None /\ idx = 1 /\ optVals = NoOptions /\ valArgs = <<>>
  /\ stage = "idle" /\ threw = FALSE /\ returned = Nothing

-----------------------------------------------------------------------------
(* AddExpectedArgument.                                                      *)

(* mutant: the overloads with values leave lists to whoever comes later.     *)
SuitsFormOfValue(d) ==
  CASE d.form = "plain" -> d.type # "ValuesList" /\ d.limit = "none"
    [] d.form = "long long" -> d.base = "Integer"
    [] d.form = "double" -> d.base = "Float"
    [] d.form = "const char *" -> d.base = "String"
    [] d.form = "uint16_t" -> d.type = "ValuesList"

(* What each overload refuses before anything else.                          *)
SuitsForm(d) ==
  CASE d.form = "plain" -> /\ d.type = "OptionSwitch" => d.base = "None"
                           /\ d.type # "ValuesList" /\ d.limit = "none"
    [] d.form = "long long" -> d.base = "Integer" /\ d.type # "ValuesList"
    [] d.form = "double" -> d.base = "Float" /\ d.type # "ValuesList"
    [] d.form = "const char *" -> d.base = "String" /\ d.type # "ValuesList"
    [] d.form = "uint16_t" -> d.type = "ValuesList"

(* LookForCommonInconsistencies                                              *)
IsConsistent(d) ==
  IF d.type \in OptionTypes
    THEN d.name # None \/ d.ch \in Alnum
    ELSE d.ch = None /\ d.name # None /\ d.limit = "none"

(* VerifyArgTypedValConfig                                                   *)
ConfigIsRight(d) ==
  LET n == Len(d.cfg) IN
    /\ d.type # "OptionSwitch"
    /\ d.limit = "enum" => n >= 1
    /\ d.limit = "range" => /\ n \in {2, 3} /\ d.cfg[n - 1] < d.cfg[n]
                            /\ n = 3 => d.cfg[1] \in d.cfg[2]..d.cfg[3]
    /\ d.limit = "none" => IF d.type = "ValuesList" THEN n = 2 /\ d.cfg[1] > 0 /\ d.cfg[1] <= d.cfg[2]
                                                    ELSE n <= 1

CharIsTaken(d) == d.ch # None /\ argsByCharLabel[d.ch] # None
NameIsTaken(d) == d.name # None /\ argsByNameLabel[d.name] # None
NameIsBad(d) == d.name \in Odd \/ (d.name \in Spaced /\ d.type # "ValuesList")
Charges(d) == d.form # "plain" /\ d.type \in ValueTypes     \* sets m_idValueTypeArg

Coherent(d) == SuitsForm(d) /\ IsConsistent(d) /\ (d.form = "plain" \/ ConfigIsRight(d)) /\ d.described
EnterChar(d) == argsByCharLabel' = IF d.ch = None THEN argsByCharLabel ELSE [argsByCharLabel EXCEPT ![d.ch] = d.id]
EnterName(d) == argsByNameLabel' = IF d.name = None THEN argsByNameLabel ELSE [argsByNameLabel EXCEPT ![d.name] = d.id]

Declaring(d, throws) ==
  /\ stage = "idle" /\ threw' = (threw \/ throws) /\ returned' = Nothing
  /\ UNCHANGED <<optValueInSameArg, results, call, stage>>

Refuse(d) ==
  /\ ~Coherent(d) \/ CharIsTaken(d)
  /\ Declaring(d, TRUE) /\ UNCHANGED tables

(* The label of a character stays where it is.                               *)
RefuseName(d) ==
  /\ Coherent(d) /\ ~CharIsTaken(d) /\ NameIsTaken(d) /\ EnterChar(d)
  /\ Declaring(d, TRUE) /\ UNCHANGED <<expectedArgs, argsByNameLabel, idValueTypeArg>>

(* mutant: the second argument with a name takes it.                         *)
FreeChar(d) == ~CharIsTaken(d)

(* Both labels stay.                                                         *)
FreeLabels(d) == ~CharIsTaken(d) /\ ~NameIsTaken(d)
RefuseLabelled(d) ==
  /\ Coherent(d) /\ FreeLabels(d) /\ EnterChar(d) /\ EnterName(d)
  /\ NameIsBad(d) \/ (Charges(d) /\ idValueTypeArg # None)
  /\ Declaring(d, TRUE) /\ UNCHANGED <<expectedArgs, idValueTypeArg>>

(* With the ID of another argument, which may become the one for values.     *)
Fresh(d) == Coherent(d) /\ FreeLabels(d) /\ ~NameIsBad(d) /\ (Charges(d) => idValueTypeArg = None)
RefuseId(d) ==
  /\ Fresh(d) /\ expectedArgs[d.id] # None /\ EnterChar(d) /\ EnterName(d)
  /\ idValueTypeArg' = IF Charges(d) THEN d.id ELSE idValueTypeArg
  /\ Declaring(d, TRUE) /\ UNCHANGED expectedArgs

Accept(d) ==
  /\ Fresh(d) /\ expectedArgs[d.id] = None /\ EnterChar(d) /\ EnterName(d)
  /\ expectedArgs' = [expectedArgs EXCEPT ![d.id] = d]
  /\ idValueTypeArg' = IF Charges(d) THEN d.id ELSE idValueTypeArg
  /\ Declaring(d, FALSE)

AddExpectedArgument(d) == Refuse(d) \/ RefuseName(d) \/ RefuseLabelled(d) \/ RefuseId(d) \/ Accept(d)

-----------------------------------------------------------------------------
(* Parse: an action for a turn of its loop.                                  *)

(* ParseInteger, ParseFloat, ValidateEnumValue, ValidateRangedValue: what is  *)
(* not a number is neither less than the one boundary nor more than the      *)
(* other.                                                                    *)
Number(d, t) == IF d.base = "Integer" THEN ReadInteger[t] ELSE ReadFloat[t]
ValueOf(d, t) == IF d.base = "String" THEN t ELSE Number(d, t)
InEnum(d, v) == \E i \in 1..Len(d.cfg) : d.cfg[i] = v
InRange(d, v) == v \in d.cfg[Len(d.cfg) - 1]..d.cfg[Len(d.cfg)] \union {NaN}
IsValid(d, t) ==                                           \* ParseAndValidateValue
  /\ d.base # "None" /\ ValueOf(d, t) # None
  /\ d.limit = "enum" => InEnum(d, ValueOf(d, t))
  /\ d.limit = "range" => InRange(d, ValueOf(d, t))

ParseBegin(l) ==
  /\ stage = "idle" /\ stage' = "parsing"
  /\ line' = l /\ idx' = 1 /\ optVals' = NoOptions /\ valArgs' = <<>> /\ returned' = Nothing
  /\ UNCHANGED <<tables, optValueInSameArg, results, threw>>

Return(status) ==
  /\ stage' = "idle" /\ returned' = [as |-> status]
  /\ line' = None /\ idx' = 1 /\ optVals' = NoOptions /\ valArgs' = <<>>

(* Only an argument of the line that has the form of an option is looked up. *)
Turn == stage = "parsing" /\ idx <= Len(line)
Arg == line[idx]
IsOption == Arg.label # None /\ (Arg.text # None => optValueInSameArg)
ArgId == IF Arg.label \in Chars THEN argsByCharLabel[Arg.label] ELSE argsByNameLabel[Arg.label]
ArgDecl == expectedArgs[ArgId]
IsDeclared == ArgId # None /\ ArgDecl # None

(* The value of an option, or None if it has none: the next argument, of any *)
(* form, which may be the null pointer that ends them.                       *)
Accompanying ==
  IF optValueInSameArg THEN Arg.text ELSE IF idx < Len(line) THEN line[idx + 1].whole ELSE None

(* mutant: an option may be repeated.                                        *)
OptionIsValidAgain ==
  \/ ArgDecl.type = "OptionSwitch" /\ Arg.text = None
  \/ ArgDecl.type = "OptionWithReqValue" /\ Accompanying # None /\ IsValid(ArgDecl, Accompanying)

OptionIsValid ==
  /\ optVals[ArgId] = None
  /\ \/ ArgDecl.type = "OptionSwitch" /\ Arg.text = None
     \/ ArgDecl.type = "OptionWithReqValue" /\ Accompanying # None /\ IsValid(ArgDecl, Accompanying)

(* The iterator to the argument for values, taken when the call begins.      *)
ValueDecl == expectedArgs[idValueTypeArg]

(* mutant: a single value may be followed by others.                         *)
ValueIsValidAgain == idValueTypeArg # None /\ IsValid(ValueDecl, Arg.whole)

ValueIsExpected == idValueTypeArg # None /\ (ValueDecl.type = "ValuesList" \/ valArgs = <<>>)
ValueIsValid == ValueIsExpected /\ IsValid(ValueDecl, Arg.whole)

ParseOption ==
  /\ Turn /\ IsOption /\ IsDeclared /\ OptionIsValid
  /\ IF ArgDecl.type = "OptionSwitch"
       THEN optVals' = [optVals EXCEPT ![ArgId] = 0] /\ idx' = idx + 1
       ELSE /\ optVals' = [optVals EXCEPT ![ArgId] = ValueOf(ArgDecl, Accompanying)]
            /\ idx' = idx + (IF optValueInSameArg THEN 1 ELSE 2)
  /\ UNCHANGED <<tables, optValueInSameArg, results, line, valArgs, stage, threw, returned>>

ParseValue ==
  /\ Turn /\ ~IsOption /\ ValueIsValid
  /\ valArgs' = Append(valArgs, ValueOf(ValueDecl, Arg.whole)) /\ idx' = idx + 1
  /\ UNCHANGED <<tables, optValueInSameArg, results, line, optVals, stage, threw, returned>>

(* An option that is unknown, repeated, with a value that it does not expect *)
(* or without one that it requires; a value that is unexpected, or not valid.*)
Fails ==
  \/ IsOption /\ (ArgId = None \/ (IsDeclared /\ ~OptionIsValid))
  \/ ~IsOption /\ ~ValueIsValid

(* Assertions forbid that an option names an argument for values, and that a *)
(* value is read for an argument without a type of values. In a build that   *)
(* has no assertions the line is refused there, too.                         *)
IsFirst == IsOption /\ IsDeclared /\ optVals[ArgId] = None
NamesValue == IsFirst /\ ArgDecl.type \in ValueTypes
ReadsUntyped ==
  \/ IsFirst /\ ArgDecl.type = "OptionWithReqValue" /\ Accompanying # None /\ ArgDecl.base = "None"
  \/ ~IsOption /\ ValueIsExpected /\ ValueDecl.base = "None"

ParseFails ==
  /\ Turn /\ Fails /\ ~NamesValue /\ ~ReadsUntyped
  /\ Return("fail") /\ UNCHANGED <<tables, optValueInSameArg, results, threw>>

ParseDenied ==
  /\ Turn /\ (NamesValue \/ ReadsUntyped)
  /\ Return("fail") /\ UNCHANGED <<tables, optValueInSameArg, results, threw>>

(* An assertion forbids this; without it, the end of the map is an argument. *)
ParseStray ==
  /\ Turn /\ IsOption /\ ArgId # None /\ ArgDecl = None
  /\ stage' = "undefined"
  /\ UNCHANGED <<tables, optValueInSameArg, results, call, threw, returned>>

CountIsRight ==
  idValueTypeArg # None /\ ValueDecl.type = "ValuesList" /\ valArgs # <<>> =>
    ValueDecl.cfg[1] <= Len(valArgs) /\ Len(valArgs) <= ValueDecl.cfg[2]

ParseEnds ==
  /\ stage = "parsing" /\ idx > Len(line) /\ CountIsRight
  /\ parsedOptVals' = optVals /\ parsedValArgs' = valArgs
  /\ Return("okay") /\ UNCHANGED <<tables, optValueInSameArg, threw>>

ParseMiscounts ==
  /\ stage = "parsing" /\ idx > Len(line) /\ ~CountIsRight
  /\ Return("fail") /\ UNCHANGED <<tables, optValueInSameArg, results, threw>>

-----------------------------------------------------------------------------
(* The answers, asked with the function for the type of the argument.        *)

(* What is returned in place of a value that the line does not have: of the  *)
(* configured ones, or the zero or null that None stands for.                *)
Default(d) ==
  IF d.form # "plain" /\ (d.base = "String" \/ (d.limit # "none" /\ Len(d.cfg) > 2)) THEN d.cfg[1] ELSE None

(* isPresent stays as the caller had it when the value is there.             *)
GetValue(id) ==
  LET d == expectedArgs[id] IN
    /\ d.type # "ValuesList" /\ d.base # "None"
    /\ returned' \in
         IF id = idValueTypeArg
           THEN IF parsedValArgs # <<>>
                  THEN [as : {"value"}, id : {id}, value : {parsedValArgs[1]}, present : BOOLEAN]
                  ELSE {[as |-> "value", id |-> id, value |-> None, present |-> FALSE]}
         ELSE IF parsedOptVals[id] # None
           THEN {[as |-> "value", id |-> id, value |-> parsedOptVals[id], present |-> TRUE]}
         ELSE IF d.base = "String" /\ d.form # "plain" /\ d.cfg = <<>>
           THEN {[as |-> "threw"]}                         \* there is no first element
           ELSE {[as |-> "value", id |-> id, value |-> Default(d), present |-> FALSE]}

GetSwitch(id) ==
  /\ expectedArgs[id].type = "OptionSwitch"
  /\ returned' = [as |-> "switch", id |-> id, present |-> parsedOptVals[id] # None]

GetArgValue(id) ==
  /\ stage = "idle"
  /\ IF expectedArgs[id] = None THEN returned' = [as |-> "threw"] ELSE GetValue(id) \/ GetSwitch(id)
  /\ UNCHANGED <<tables, optValueInSameArg, results, call, stage, threw>>

GetArgListOfValues ==
  /\ stage = "idle"
  /\ returned' = IF idValueTypeArg = None THEN [as |-> "threw"] ELSE [as |-> "list", values |-> parsedValArgs]
  /\ UNCHANGED <<tables, optValueInSameArg, results, call, stage, threw>>

(* The destructor deletes the configuration of every argument.               *)
Destroy ==
  /\ stage = "idle" /\ stage' = "gone"
  /\ UNCHANGED <<tables, optValueInSameArg, results, call, threw, returned>>

Next ==
  \/ \E d \in Decls : AddExpectedArgument(d)
  \/ \E l \in Lines : ParseBegin(l)
  \/ ParseOption \/ ParseValue \/ ParseFails \/ ParseDenied \/ ParseStray \/ ParseEnds \/ ParseMiscounts
  \/ \E id \in Ids : GetArgValue(id)
  \/ GetArgListOfValues \/ Destroy

Spec == Init /\ [][Next]_vars

-----------------------------------------------------------------------------
Entries == Declaration \union {None}
TypeOK ==
  /\ expectedArgs \in [Ids -> Entries] /\ idValueTypeArg \in Ids \union {None}
  /\ argsByCharLabel \in [Chars -> Ids \union {None}] /\ argsByNameLabel \in [Names -> Ids \union {None}]
  /\ optValueInSameArg \in BOOLEAN /\ threw \in BOOLEAN
  /\ parsedOptVals \in [Ids -> Values \union {None}] /\ parsedValArgs \in Seq(Values)
  /\ optVals \in [Ids -> Values \union {None}] /\ valArgs \in Seq(Values) /\ idx \in Nat \ {0}
  /\ stage \in {"idle", "parsing", "undefined", "gone"}
  /\ line \in Lines \union {None} /\ (line = None <=> stage \in {"idle", "gone"})

(* A label that was declared leads to its argument, however many later       *)
(* declarations failed half-way; and as long as none has, a label leads      *)
(* nowhere else, the values go to an argument for values, and no command     *)
(* line makes the parser use the end of the map as if it were an argument.   *)
DeclaredAs(id) == /\ expectedArgs[id].id = id
                  /\ expectedArgs[id].ch # None => argsByCharLabel[expectedArgs[id].ch] = id
                  /\ expectedArgs[id].name # None => argsByNameLabel[expectedArgs[id].name] = id
LabelsLead ==
  /\ \A id \in Ids : expectedArgs[id] # None => DeclaredAs(id)
  /\ idValueTypeArg # None => ValueDecl # None
  /\ ~threw =>
       /\ \A c \in Chars : LET id == argsByCharLabel[c] IN
            id # None => expectedArgs[id] # None /\ expectedArgs[id].ch = c
       /\ \A n \in Names : LET id == argsByNameLabel[n] IN
            id # None => expectedArgs[id] # None /\ expectedArgs[id].name = n
       /\ \A id \in Ids : expectedArgs[id] # None => (Charges(expectedArgs[id]) <=> idValueTypeArg = id)
       /\ stage # "undefined"

(* The configuration of an argument, kept as a pointer to void, is of the    *)
(* type that the parser, the answers and the destructor take it for, and has *)
(* the elements that they read without looking.                              *)
TakenFor(d) ==
  CASE d.type = "ValuesList" -> "uint16_t"
    [] d.type # "ValuesList" /\ d.base = "Integer" -> "long long"
    [] d.type # "ValuesList" /\ d.base = "Float" -> "double"
    [] d.type # "ValuesList" /\ d.base = "String" -> "const char *"
    [] OTHER -> "plain"
ElementsRead(d) == IF d.type = "ValuesList" \/ d.limit = "range" THEN 2 ELSE IF d.limit = "enum" THEN 1 ELSE 0
CastsAreRight ==
  \A id \in Ids : LET d == expectedArgs[id] IN
    d # None => d.form \in {"plain", TakenFor(d)} /\ Len(d.cfg) >= ElementsRead(d)

(* Whatever the last line that was understood has given to an argument is    *)
(* something its declaration allows, and stays so through later failures,    *)
(* of declarations and of lines. (A range allows what is not a number.)      *)
Fits(d, v) ==
  /\ d.base # "None" /\ (v = NaN => d.base = "Float")
  /\ d.limit = "enum" => v \in {d.cfg[i] : i \in 1..Len(d.cfg)}
  /\ d.limit = "range" => v \in d.cfg[Len(d.cfg) - 1]..d.cfg[Len(d.cfg)] \union {NaN}
OptionsFit(given) ==
  \A id \in Ids : LET d == expectedArgs[id] IN
    given[id] # None =>
      /\ d # None
      /\ \/ d.type = "OptionSwitch" /\ given[id] = 0
         \/ d.type = "OptionWithReqValue" /\ Fits(d, given[id])
ValuesFit(given) ==
  given # <<>> =>
    /\ idValueTypeArg # None /\ ValueDecl # None
    /\ \A i \in 1..Len(given) : Fits(ValueDecl, given[i])
    /\ ValueDecl.type # "ValuesList" => Len(given) = 1
ResultsFit ==
  /\ OptionsFit(parsedOptVals) /\ ValuesFit(parsedValArgs)
  /\ parsedValArgs # <<>> /\ ValueDecl.type = "ValuesList" => Len(parsedValArgs) \in ValueDecl.cfg[1]..ValueDecl.cfg[2]

CallFits == stage = "parsing" => OptionsFit(optVals) /\ ValuesFit(valArgs)

(* The meaning of a line, by the declarations alone.                         *)
Meaning == INSTANCE LineMeaning WITH
  decls <- expectedArgs, sameArg <- optValueInSameArg,
  opts <- parsedOptVals, vals <- parsedValArgs

(* Half-way through a line, and unless a declaration has failed, the call    *)
(* has read the words that precede the position k as the whole line means    *)
(* them, and no others; what was accepted is coherent.                       *)
OnlyCoherent == \A id \in Ids : expectedArgs[id] # None => Coherent(expectedArgs[id])
OptionsBefore(k) == {p \in Meaning!Options(line) : p < k}
ValuesBefore(k) == {p \in Meaning!Values(line) : p < k}
AsMeant(id, p, v) ==
  LET d == expectedArgs[id]
      text == Meaning!Given(line, p)
  IN  \/ d.type = "OptionSwitch" /\ line[p].text = None /\ v = 0
      \/ d.type = "OptionWithReqValue" /\ text # None /\ Meaning!Allowed(d, text) /\ v = Meaning!Value(d, text)
OptionsRead(k, given) ==
  /\ \A p \in OptionsBefore(k) : \E id \in Meaning!Denoted(line[p]) :
       /\ given[id] # None /\ AsMeant(id, p, given[id])
       /\ \A q \in OptionsBefore(k) \ {p} : id \notin Meaning!Denoted(line[q])
  /\ \A id \in Ids : given[id] # None => \E p \in OptionsBefore(k) : id \in Meaning!Denoted(line[p])
ValuesRead(k, given) ==
  /\ Len(given) = Cardinality(ValuesBefore(k))
  /\ \A p \in ValuesBefore(k) : idValueTypeArg # None /\ Meaning!Allowed(ValueDecl, line[p].whole)
  /\ \A i \in 1..Len(given) : \E p \in ValuesBefore(k) :
       Cardinality(ValuesBefore(p)) = i - 1 /\ given[i] = Meaning!Value(ValueDecl, line[p].whole)
Following ==
  stage = "parsing" /\ ~threw =>
    idx \in (1..Len(line) + 1) \ Meaning!Attached(line) /\ OptionsRead(idx, optVals) /\ ValuesRead(idx, valArgs)

IInv == TypeOK /\ LabelsLead /\ CastsAreRight /\ ResultsFit /\ CallFits /\ OnlyCoherent /\ Following

(* Until a declaration fails, the loop of the parser understands a line      *)
(* exactly when it has a meaning, gives it that meaning, and changes nothing *)
(* otherwise; and the answers are about the last line understood.            *)
ImplementsMeaning == Meaning!Spec

-----------------------------------------------------------------------------
(* What the code says of itself, and does not keep.                          *)

(* By the assertion in the default case of Parse, every argument that an     *)
(* option of the line names is an option.                                    *)
OnlyOptionsAreNamed == ~threw /\ Turn => ~NamesValue

(* By the assertion of ParseAndValidateValue, a value is only read for an    *)
(* argument that has a type of values.                                       *)
OnlyTypedAreRead == ~threw /\ Turn => ~ReadsUntyped

(* By the comments of the range, what the answers give for an argument that  *)
(* is limited to one falls into it.                                          *)
RangesAreKept ==
  \A id \in Ids : LET d == expectedArgs[id] IN
    d # None /\ d.limit = "range" /\ parsedOptVals[id] # None =>
      parsedOptVals[id] \in d.cfg[Len(d.cfg) - 1]..d.cfg[Len(d.cfg)]
===============================================================================
