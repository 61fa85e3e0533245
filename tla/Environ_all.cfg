SPECIFICATION Spec
CONSTANTS
  Names <- TwoNames
  Chars <- AllKinds
  MaxFile = 2
  Environs <- Environments
INVARIANTS TypeOK EnvironmentRight
CHECK_DEADLOCK FALSE
