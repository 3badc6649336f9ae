SPECIFICATION Spec
CONSTANTS
  Results = {r1, r2, r3}
  Values = {v1, v2}
INVARIANTS
  FlagsAreTruthful
  OnlySuccessCarries
  NoexceptIsKept
PROPERTY
  OnlyThrowingHollows
