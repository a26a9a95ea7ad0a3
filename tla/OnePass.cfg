SPECIFICATION Spec
CONSTANTS
  f1 = f1
  f2 = f2
  c1 = c1
  Scripts <- MCScripts
  Runs = {r1, r2}
  Outs = {"o1"}
  Free = Free
  MaxFaults = 2
CHECK_DEADLOCK FALSE
SYMMETRY Symmetry
INVARIANTS OnePassInv CompletedIsSound SummaryAddsUp
PROPERTY ResultsAreKept
