SPECIFICATION Spec
CONSTANTS
  Types <- MCTypes
  Bindings <- MCBindings
  ContextTypes = {"A"}
  MaxRetries = 1
  MaxRuns = 2
INVARIANTS
  StoredValuesSurvive
  OnlyConsumersMove
  SharedReadersLeavePrevAlone
  ArgumentsAreUnmoved
  ForwardedPayloadIsThere
