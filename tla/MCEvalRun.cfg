\* Two scenes, two epochs, an embodiment given by name.
SPECIFICATION Spec
CONSTANTS
    Scenes = 2
    Epochs = 2
    OwnsEmbodiment = TRUE
    Rubrics <- MCRubrics
    FailOnErrors <- MCFailOnErrors
INVARIANTS
    TypeOK
    LeftParked
    HookHaltEscapes
    VerdictIsEarned
    ListsAreParallel
PROPERTIES
    NoTrialAfterHalt
