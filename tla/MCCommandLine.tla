---------------------------- MODULE MCCommandLine ----------------------------
(* Declarations of every kind, and lines that tell them apart.  The texts    *)
(* 1, 2, 3 are integers, 4 is a float between 1 and 2, 5 is the float that   *)
(* is not a number, 6 is -5, which is also the option with the character c,  *)
(* 7 is empty, 8 a word, and 9 a word with the form of an option.            *)
EXTENDS CommandLine

CONSTANTS a, b, c, bb, cc, dd, odd

MCTexts == 1..9
MCReadInteger ==
  [t \in MCTexts |-> CASE t \in 1..3 -> t [] t = 6 -> -5 [] t = 7 -> 0 [] OTHER -> None]
MCReadFloat ==
  [t \in MCTexts |-> CASE t = 4 -> 3 [] t = 5 -> NaN
                       [] MCReadInteger[t] # None -> 2 * MCReadInteger[t] [] OTHER -> None]

Arg1(form, id, type, base, limit, ch, name, cfg) ==
  [form |-> form, id |-> id, type |-> type, base |-> base, limit |-> limit,
   ch |-> ch, name |-> name, described |-> TRUE, cfg |-> cfg]

MCDecls == {
  Arg1("plain", 1, "OptionSwitch", "None", "none", a, None, <<>>),
  Arg1("long long", 2, "OptionWithReqValue", "Integer", "range", b, bb, <<2, -5, 2>>),
  Arg1("double", 2, "OptionWithReqValue", "Float", "range", b, None, <<-10, 4>>),
  Arg1("const char *", 3, "OptionWithReqValue", "String", "enum", c, bb, <<8, 9>>),
  Arg1("const char *", 3, "OptionWithReqValue", "String", "enum", c, None, <<8, 9>>),
  Arg1("plain", 3, "OptionWithReqValue", "None", "none", c, None, <<>>),
  Arg1("uint16_t", 4, "ValuesList", "Integer", "none", None, cc, <<1, 2>>),
  Arg1("double", 1, "SingleValue", "Float", "none", None, dd, <<>>),
  Arg1("plain", 3, "OptionSwitch", "None", "none", c, odd, <<>>),
  Arg1("long long", 4, "ValuesList", "Integer", "none", None, cc, <<1, 2>>),
  Arg1("plain", 2, "SingleValue", "String", "none", None, odd, <<>>)}

T(text) == [label |-> None, text |-> None, whole |-> text]
L(label) == [label |-> label, text |-> None, whole |-> IF label = c THEN 6 ELSE 9]
W(label, text) == [label |-> label, text |-> text, whole |-> 9]

MCLines == {
  <<>>, <<L(a)>>, <<L(c)>>, <<T(1)>>, <<T(4)>>, <<T(7)>>, <<T(8)>>, <<L(b)>>, <<L(cc)>>, <<L(dd)>>,
  <<L(a), L(a)>>, <<L(b), T(3)>>, <<L(bb), T(1)>>, <<L(b), L(c)>>, <<L(b), T(5)>>,
  <<W(b, 3)>>, <<W(b, 5)>>, <<W(a, 1)>>, <<L(c), L(a)>>, <<L(c), L(b), L(c)>>,
  <<T(1), T(2)>>, <<T(1), T(2), T(3)>>, <<L(c), T(8), T(1)>>, <<T(2), L(b), T(2)>>, <<L(b), T(2), L(bb), T(3)>>,
  <<W(c, 8), L(a)>>, <<W(c, 1)>>, <<W(b, 2), T(1)>>}
===============================================================================
