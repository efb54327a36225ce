SPECIFICATION Spec
CONSTANTS
    Addr <- MCAddr
    SystemAccount = "sys"
    Key <- MCKey
    Code = {"wasm"}
    NoCode = "nocode"
    Genesis <- MCGenesis
    Tx <- EveryTx
    NoTx = NoTx
    VMOutputs <- MCVMOutputs
    BalancedVM = FALSE
    Creatable = {"bob"}
    NonPayable = {"safe"}
    TokenKey = "token"
    RewardKey = "reward"
    MaxNonce = 2
    MaxBalance = 4
    MaxJournal = 3
INVARIANTS
    NoNegativeBalance
    TypeOK
    JournalEmptyBetweenTxs
    JournalHoldsMarks
PROPERTIES
    SuccessConservesEgld
    NonceNeverGoesBack
    FailedTxRestores
