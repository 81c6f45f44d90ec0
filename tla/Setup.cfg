SPECIFICATION Spec
CONSTANTS
  Programs <- const_Programs
  Globals = {0}
  Probes <- const_Probes
  Fuel = 45
  Patience = 64
  MaxDepth = 3
INVARIANTS Covers Converged
PROPERTY Converges
