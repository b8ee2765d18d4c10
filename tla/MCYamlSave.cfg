SPECIFICATION Spec
CONSTANTS
    keyA = keyA
    keyB = keyB
    keyC = keyC
    Trees <- SavedTrees
    Drafts <- FileDrafts
    MaxSaves = 3
INVARIANTS
    YamlLoadsWhatWasSaved
CHECK_DEADLOCK FALSE
