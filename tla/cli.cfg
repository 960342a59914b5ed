SPECIFICATION FairSpec

CONSTANTS
    Arguments <- MCArguments
    MaxArgs = 3
    Unknown = {"-x"}
    PortNumber <- MCPortNumber
    Default <- MCDefault
    Files <- MCFiles
    Random <- MCRandom

INVARIANTS
    TypeOK
    ServesValidated
    CommandLineWins

PROPERTIES
    DaemonKeepsTheRest
    ChainShrinks
    DaemonChainEnds

CHECK_DEADLOCK FALSE
