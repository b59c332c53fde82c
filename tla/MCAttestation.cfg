SPECIFICATION FairSpec
CONSTANTS
    Digests <- MCDigests
    Signatures <- MCSignatures
    Missing = Missing
    Setups <- MCSetups
    FirmwareApp = "menu"
    Ids = {1}
    MaxDisturbances = 2
INVARIANTS TypeOK PassMeansPinned GoodMachinesPass FailuresExplained SummaryAgrees NoFalseAlarm
PROPERTY RecoversFromTimeout
