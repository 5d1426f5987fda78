SPECIFICATION FairSpec
CONSTANTS
    Scenes = {s1, s2, s3}
    LoadLimit = 2
    None = None
CHECK_DEADLOCK FALSE
INVARIANTS
    OnlySceneIsLinked
    NeverStuck
PROPERTY
    UsableAgain
