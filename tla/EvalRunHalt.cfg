\* Two scenes, two epochs, an embodiment the caller owns.
SPECIFICATION Spec
CONSTANTS
    Scenes = 2
    Epochs = 2
    OwnsEmbodiment = FALSE
    Rubrics <- MCRubrics
    FailOnErrors <- MCFailOnErrors
INVARIANTS
    HookHaltCarriesLog
