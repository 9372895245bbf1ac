SPECIFICATION Spec
CONSTANTS
    a1 = a1
    Branches = {b1, b2}
    Agents = {a1}
    AgentOf <- OneAgent
    Nests <- MCNests
    VaultTries = 3
SYMMETRY Symmetry
INVARIANTS EnteredIsCleaned BodyHasItsFile ErrorsArePassedOn BodyHasItsSecrets
CHECK_DEADLOCK FALSE
