CONSTANTS
    Keys <- MCKeys
    PackKeys <- MCPackKeys
    PackIn = "packInputPower"
    PackOut = "outputPackPower"
    Messages <- MCMessages
    MaxReports = 4
    Text = Text
    None = None
SPECIFICATION Spec
INVARIANTS TypeOK LatestValues PowerOfFields PacksOfReports
