SPECIFICATION Spec
CONSTANTS
    Addr <- MCAddr
    SystemAccount = "sys"
    Key <- MCKey
    Code = {"wasm"}
    NoCode = "nocode"
    Genesis <- MCGenesis
    Tx <- CallTx
    NoTx = NoTx
    VMOutputs <- MCVMOutputs
    BalancedVM = TRUE
    Creatable = {}
    NonPayable = {"safe"}
    TokenKey = "token"
    RewardKey = "reward"
    MaxNonce = 2
    MaxBalance = 4
    MaxJournal = 4
INVARIANTS
    TokensConserved
PROPERTIES
    RevertRestoresMark
    ImplementsAtomicLedger
