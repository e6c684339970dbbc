SPECIFICATION Spec
CONSTANTS
    Handlers = {h1, h2}
    Rules <- ThreeRules
    MaxChanges = 1
SYMMETRY Symmetry
INVARIANT TypeOK
PROPERTIES NothingOverwritten NoTrafficCut OnlyOwnIp ConflictMeansUntouched
