SPECIFICATION Spec
CONSTANT Configs <- EveryConfig
INVARIANTS ReleasedOnceInOrder UsedOnlyAuthenticated DenialIsExhaustive
