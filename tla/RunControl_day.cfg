SPECIFICATION FairSpec
CONSTANTS
    Ids = {a}
    Humans = {g, h}
INVARIANTS TypeOK StoppedStaysOut
PROPERTIES PausedWhileClosed ResumedAtOpen CutoffPauses
