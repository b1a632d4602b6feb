CONSTANTS
  Procs = {r1, r2}
  Clusters = {c1, c2}
  Tokens = {t1, t2}
  Modes = {"Default", "DisasterRecovery"}
  NoPair = NoPair
  None = None
  Failing = {"list", "put default", "delete default", "delete", "generate", "crash"}
  MaxResets = 1
SYMMETRY Symmetry
SPECIFICATION PairSpec
INVARIANT DefaultExists
PROPERTY NotResurrected
