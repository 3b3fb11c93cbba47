SPECIFICATION Spec
CONSTANTS
    Top = 7
    Policies <- Rates
    MinConfirmed = 2
INVARIANT InvalidDrawsNoConclusion
