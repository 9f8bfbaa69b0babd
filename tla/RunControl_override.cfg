SPECIFICATION Spec
CONSTANTS
    Ids = {a}
    Humans = {h}
PROPERTIES HumanPauseHolds
