\* One calling thread and the monitor are enough for the lost start.
CONSTANTS
  c1 = c1
  Callers = {c1}
SPECIFICATION Spec
INVARIANT YellowMeansRetrying
