\* Three writers that overlap in every way, a list of up to five elements.
CONSTANTS
  Producers = {p1, p2, p3}
  Consumers = {c1}
  Entries = {e1, e2, e3, e4}
  MaxElems = 4
  NULL = NULL
SPECIFICATION FairSpec
INVARIANTS NoUseAfterDelete NothingLeaks IInv
PROPERTIES ImplementsFifo EveryEntryLeaves
\* A queue that has been destroyed, or has no more entries to add, stops.
CHECK_DEADLOCK FALSE
