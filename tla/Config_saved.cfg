\* A form for each mode, one that is refused half-way, and power losses.
SPECIFICATION FairSpec
CONSTANTS
    Forms <- EachMode
    Saved <- HomeBoxes
    PowerLoss = TRUE
INVARIANTS SavedSurvives AcceptedIsUsed
PROPERTY RequestsServed
