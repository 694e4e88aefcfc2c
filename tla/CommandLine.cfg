\* Eleven declarations; several share an argument or a label, and fail half-way.
SPECIFICATION Spec
CONSTANTS
  a = a  b = b  c = c  bb = bb  cc = cc  dd = dd  odd = odd
  None = None
  Ids = {1, 2, 3, 4}
  Chars = {a, b, c}
  Names = {bb, cc, dd, odd}
  Alnum = {a, b, c}
  Spaced = {}
  Odd = {odd}
  Decls <- MCDecls
  NaN = NaN
  Texts <- MCTexts
  ReadInteger <- MCReadInteger
  ReadFloat <- MCReadFloat
  Lines <- MCLines
INVARIANTS IInv LabelsLead ResultsFit
PROPERTIES ImplementsMeaning
CHECK_DEADLOCK FALSE
