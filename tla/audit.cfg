SPECIFICATION Spec
CONSTANTS
  Writer = {w1, w2}
  Event = {e1, e2}
  Supported = TRUE
  Switches = {"up", "down"}
  Faults = {"transient", "unknown", "error", "lost"}
  MaxSequence = 2
SYMMETRY Symmetry
INVARIANTS SequencesApart OneChain
CHECK_DEADLOCK FALSE
