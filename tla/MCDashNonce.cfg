SPECIFICATION LedgerSpec
CONSTANTS
    h1 = h1
    h2 = h2
    Holder = {h1, h2}
    SystemAccount = sys
    Token <- MCTokens
    Nonce = {0, 1, 45}
    NoAttrs = "none"
    AttrsOf <- MCAttrs
    EntryKey <- MCEntryKeys
    Entry = {"", "v", "w"}
    Empty = ""
    NoOwner = ""
    Amount = {1}
    Moved <- MCMoved
    MaxAmount = 2
    AccountSpec <- MCAccounts
    Check <- MCChecks
INVARIANT
    FullDataIsComplete
CHECK_DEADLOCK FALSE
