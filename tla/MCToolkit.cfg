SPECIFICATION MCSpec
CONSTANTS
    Task = {t1}
    Capacity = 3
    MaxSequence = 8
    keyA = keyA
    keyB = keyB
    keyC = keyC
    TornText = torn
    Missing = missing
    Empty = empty
    Unparsed = unparsed
    BadName = badname
    nameA = nameA
    nameB = nameB
    Folder = Folder
    Absent = Absent
    Tar = Tar
    one = one
    big = big
    x = x
    XX = XX
    go = go
    sub = sub
    None = None
    Dashed = Dashed
INVARIANTS
    NoStarvation
    OnlyOldestLost
    ReloadSound
    TreesSound
    LoadsWhatWasSaved
    SyncSound
    EventsTellAll
    ArchiveSound
    ArgsSound
    ScreenShowsFrame
    WidgetsSound
    KeysInOrder
CHECK_DEADLOCK FALSE
