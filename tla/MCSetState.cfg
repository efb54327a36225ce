SPECIFICATION Spec
CONSTANTS
    alice = alice
    bob = bob
    carol = carol
    vault = vault
    mocked = mocked
    Addr <- MCAddr
    SystemAccount = sys
    Key = {"k1", "k2"}
    Code = {"c1", "c2"}
    NoCode = "nocode"
    Genesis <- MCGenesis
    SCAddr <- MCSCAddr
    Unspecified = Unspecified
    NoInfo = NoInfo
    Metadata = {"", "0506"}
    NoMetadata = ""
    DefaultCodeMetadata = "0506"
    CallData = {"", "call"}
    NoCallData = ""
    BlockHash = {"hash"}
    Creator = {alice, bob}
    Word = 16
    MsPerSecond = 10
    MaxMocks = 1
    SetStateStep <- MCSteps
    Trunk <- MCTrunk
    ByteSize = 2
    MaxNonce = 2
INVARIANTS
    TypeOK
    StepChangesNothingElse
    StepTakesEffect
    NewAddressIsNew
    RunsItsCode
