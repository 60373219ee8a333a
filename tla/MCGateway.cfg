CONSTANTS
  ScopeSets <- MCScopeSets
  TokenScopes <- MCTokenScopes
  Switchable <- MCSwitchable
  Policies <- MCPolicies
  MaxChanges = 1
SPECIFICATION Spec
PROPERTIES EffectsGranted StreamStops
CHECK_DEADLOCK FALSE
