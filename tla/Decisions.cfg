SPECIFICATION Spec
CONSTANTS
    Requests <- MCRequests
    NoAgent = NoAgent
    Overrides <- MCOverrides
    NoOverride = NoOverride
    EditedPan <- MCEditedPan
    EditedEcm <- MCEditedEcm
    EditedPfm <- MCEditedPfm
    EditedSda <- MCEditedSda
INVARIANTS FailedEthicsNeverApproves FailureNeverHelps WorseRequestNeverHelps NoAgentNoEscalation
