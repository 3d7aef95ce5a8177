\* One slot reused through all sixteen generations.
CONSTANTS
  Slots = 1
  Gens = 16
  MaxAdds = 17
  Kinds <- TwoKinds
  Constants <- NoConstants
SPECIFICATION Spec
INVARIANT StaleDetected
