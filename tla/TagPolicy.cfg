CONSTANTS
  amd = amd
  arm = arm
  e3 = e3
  e4 = e4
  Entries <- MCEntries
  Names <- MCNames
  NameOf <- MCNameOf
  Times = {1, 2, 3}
  Threshold = 1
  Policies <- MCPolicies
SPECIFICATION Spec
INVARIANTS TypeOK KeepsYoungest PolicyHeld NeverPanics
PROPERTY Finishes
