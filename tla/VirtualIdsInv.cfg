\* The invariants that VirtualIdsProofs shows inductive.
CONSTANTS
  Slots = 3
  Gens = 2
  MaxAdds = 5
  Kinds <- TwoKinds
  Constants <- OneConstant
SPECIFICATION Spec
INVARIANTS SlotInv GenerationInv CkptTypes DescInv ScanInv CompletionInv
