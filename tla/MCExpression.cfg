SPECIFICATION Spec
CONSTANTS
    FloatBytes <- McFloat
    AddressLen = 5
    LeadingZeros = 1
    VMType <- McVMType
    CodeShown = 2
    Files <- McFiles
    Texts <- McTexts
    Values <- McValues
    MaxNumber = 2
INVARIANT FixedWidthIsNumber
INVARIANT ReconstructedIsReadBack
INVARIANT PanicsOnlyWhere
CHECK_DEADLOCK FALSE
