SPECIFICATION Spec
CONSTANTS
  None = None
  Workers = {w1, w2}
  Outside = {x1}
  Tasks = {t1, t2, t3}
  Stripes = {1}
  StripeOf <- Together
  SpinCap = 1
INVARIANTS TaskInOnePlace  NoSleepOverWork 
SYMMETRY Alike
