\* The scopes are in the module.
SPECIFICATION Spec
CONSTANTS
    home1 = home1
    home2 = home2
    home3 = home3
    centre = centre
    nowhere = nowhere
    NoOne = NoOne
    AtHead = AtHead
INVARIANTS
    TypeOK
    SeesItselfFirst
    AnswersOwnPrompt
    PictureShowsTurn
PROPERTIES
    TurnFollowsTheRules
    Progress
\* A game and a connection come to an end.
CHECK_DEADLOCK FALSE
