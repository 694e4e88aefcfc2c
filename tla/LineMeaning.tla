----------------------------- MODULE LineMeaning -----------------------------
(***************************************************************************)
(* What the parser of command lines promises to an application whose       *)
(* declarations were all accepted: a line is understood as a whole, by      *)
(* what has been declared, or it changes nothing.                           *)
(***************************************************************************)
EXTENDS Integers, FiniteSets, Sequences

CONSTANTS Ids, Decls, ReadInteger, ReadFloat, NaN, Lines, None

VARIABLES
  decls,       (* the declaration of each argument, or None                 *)
  sameArg,     (* the value of an option comes in the same word             *)
  threw,       (* a declaration has failed: nothing is promised any more    *)
  line,        (* the line being parsed, or None                            *)
  opts, vals,  (* what the last line that was understood said               *)
  returned     (* what the last call has returned                           *)

results == <<opts, vals>>

(* The positions of a line that are values of the option that precedes them: *)
(* the set is the only one that satisfies its own definition.                *)
IsOption(word) == word.label # None /\ (word.text # None => sameArg)
Denoted(word) == {id \in Ids : decls[id] # None /\ word.label \in {decls[id].ch, decls[id].name}}
Expects(word) == \E id \in Denoted(word) : decls[id].type = "OptionWithReqValue"
Attached(l) ==
  CHOOSE V \in SUBSET DOMAIN l :
    V = {p \in DOMAIN l : p > 1 /\ p - 1 \notin V /\ ~sameArg /\ IsOption(l[p - 1]) /\ Expects(l[p - 1])}

Options(l) == {p \in DOMAIN l \ Attached(l) : IsOption(l[p])}
Values(l) == {p \in DOMAIN l \ Attached(l) : ~IsOption(l[p])}

(* The value that a text stands for, and whether it was declared as allowed: *)
(* no comparison excludes what is not a number from a range.                 *)
Value(d, t) ==
  CASE d.base = "Integer" -> ReadInteger[t]
    [] d.base = "Float"   -> ReadFloat[t]
    [] OTHER              -> t
Allowed(d, t) ==
  /\ d.base # "None" /\ Value(d, t) # None
  /\ d.limit = "enum" => \E i \in DOMAIN d.cfg : d.cfg[i] = Value(d, t)
  /\ d.limit = "range" /\ Value(d, t) # NaN =>
       LET n == Len(d.cfg) IN d.cfg[n - 1] <= Value(d, t) /\ Value(d, t) <= d.cfg[n]

Given(l, p) == IF sameArg THEN l[p].text ELSE IF p + 1 \in Attached(l) THEN l[p + 1].whole ELSE None

OptionIsRight(l, p) ==
  \E id \in Denoted(l[p]) :
    /\ \A q \in Options(l) \ {p} : id \notin Denoted(l[q])
    /\ \/ decls[id].type = "OptionSwitch" /\ l[p].text = None
       \/ decls[id].type = "OptionWithReqValue" /\ Given(l, p) # None /\ Allowed(decls[id], Given(l, p))

(* The argument that takes the values which follow no option.                *)
Collects(id) == decls[id] # None /\ decls[id].type \in {"SingleValue", "ValuesList"} /\ decls[id].form # "plain"

ValuesAreRight(l) ==
  LET n == Cardinality(Values(l)) IN
    n > 0 => \E id \in Ids :
      /\ Collects(id) /\ \A p \in Values(l) : Allowed(decls[id], l[p].whole)
      /\ IF decls[id].type = "SingleValue" THEN n = 1 ELSE decls[id].cfg[1] <= n /\ n <= decls[id].cfg[2]

Meaningful(l) == (\A p \in Options(l) : OptionIsRight(l, p)) /\ ValuesAreRight(l)

OptionsOf(l) ==
  [id \in Ids |->
    IF \E p \in Options(l) : id \in Denoted(l[p])
      THEN LET p == CHOOSE p \in Options(l) : id \in Denoted(l[p])
           IN  IF decls[id].type = "OptionSwitch" THEN 0 ELSE Value(decls[id], Given(l, p))
      ELSE None]

(* The values in the order in which the line has them.                       *)
ValuesOf(l) ==
  LET d == decls[CHOOSE id \in Ids : Collects(id)]
      Place(i) == CHOOSE p \in Values(l) : Cardinality({q \in Values(l) : q < p}) = i - 1
  IN  [i \in 1..Cardinality(Values(l)) |-> Value(d, l[Place(i)].whole)]
-----------------------------------------------------------------------------
Init ==
  /\ decls = [id \in Ids |-> None] /\ sameArg \in BOOLEAN /\ threw = FALSE /\ line = None
  /\ opts = [id \in Ids |-> None] /\ vals = <<>> /\ returned = [as |-> "nothing"]

Declare ==
  /\ line = None
  /\ \E d \in Decls : decls[d.id] = None /\ decls' = [decls EXCEPT ![d.id] = d]
  /\ UNCHANGED <<sameArg, threw, line, results>>

Refuse == line = None /\ threw' = TRUE /\ UNCHANGED <<decls, sameArg, line, results>>

Read == line = None /\ line' \in Lines /\ UNCHANGED <<decls, sameArg, threw, results>>

Understand ==
  /\ line # None /\ returned' = [as |-> "okay"] /\ line' = None
  /\ ~threw => Meaningful(line) /\ opts' = OptionsOf(line) /\ vals' = ValuesOf(line)
  /\ UNCHANGED <<decls, sameArg, threw>>

Reject ==
  /\ line # None /\ returned' = [as |-> "fail"] /\ line' = None
  /\ ~threw => ~Meaningful(line)
  /\ UNCHANGED <<decls, sameArg, threw, results>>

(* The answer about an argument is what the last line understood said of it, *)
(* or else one of the values of its configuration.                           *)
Answered(a) ==
  LET d == decls[a.id] IN
    /\ d.type = "OptionSwitch" => a.present = (opts[a.id] # None)
    /\ d.type = "OptionWithReqValue" =>
         IF opts[a.id] # None THEN a.present /\ a.value = opts[a.id]
                              ELSE ~a.present /\ (a.value = None \/ \E i \in DOMAIN d.cfg : a.value = d.cfg[i])
    /\ Collects(a.id) => IF vals # <<>> THEN a.value = vals[1] ELSE ~a.present /\ a.value = None

Answer ==
  /\ line = None
  /\ \/ returned'.as = "threw"
     \/ returned' = [as |-> "list", values |-> vals]
     \/ returned'.as \in {"value", "switch"} /\ (threw \/ Answered(returned'))
  /\ UNCHANGED <<decls, sameArg, threw, line, results>>

Next == Declare \/ Refuse \/ Read \/ Understand \/ Reject \/ Answer
Spec == Init /\ [][Next]_<<decls, sameArg, threw, line, results, returned>>
===============================================================================
