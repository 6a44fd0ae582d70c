CONSTANTS
  NoKey = NoKey
  Keys = {k1, k2, k3}
SPECIFICATION Spec
SYMMETRY Symmetry
INVARIANTS
  NobodyIsLockedOut
  NominationsStand
