\* One process, two changes of two files, one crash, searches.
SPECIFICATION FairSpec
CONSTANTS
  Sources = {s1, s2}
  Contents = {c1, c2, c3}
  Blank = {c3}
  Missing = missing
  Declared = {s1}
  MaxEdits = 2
  MaxCrashes = 1
INVARIANTS
  ServedAsNamed
PROPERTIES
  IndexGetsFresh
  ContextGetsReady
