SPECIFICATION LedgerSpec
CONSTANTS
    h1 = h1
    h2 = h2
    Holder = {h1, h2}
    SystemAccount = sys
    Token <- MCTokens
    Nonce = {0, 1, 300}
    NoAttrs = "none"
    AttrsOf <- MCAttrs
    EntryKey <- MCEntryKeys
    Entry = {"", "v", "w"}
    Empty = ""
    NoOwner = ""
    Amount = {1}
    Moved <- MCMoved
    MaxAmount = 2
    AccountSpec <- MCAccounts
    Check <- StarOwnerChecks
PROPERTY
    ImplementsTokenLedger
CHECK_DEADLOCK FALSE
