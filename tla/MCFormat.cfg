SPECIFICATION Spec
CONSTANTS
    Interpret <- MCInterpret
    Address <- MCAddress
    Whatever = Whatever
    StrText <- MCStrText
    AddressText <- MCAddressText
    Remark = "0x01 (1)"
    Files <- MCFiles
    Outputs <- MCOutputs
INVARIANTS
    ResultsCheckedAsWritten
    ReportedLogIsReadAsShown
PROPERTIES
    FormattedIsStable
    KeepsMeaningUnlessLossy
