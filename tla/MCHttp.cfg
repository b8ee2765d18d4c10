SPECIFICATION MCSpec
CONSTANTS
    c1 = c1
    c2 = c2
    None = None
    Old = Old
    Theirs = Theirs
    Nothing = Nothing
    Folder = Folder
    Calls = {c1, c2}
    Arguments <- DownloadArguments
    Backups = {1, 2}
    MaxChunks = 2
    MaxAttempts = 2
    MaxMishaps = 2
INVARIANTS
    ClientContract
    RedirectsSafe
    TransportSound
    DownloadSafe
