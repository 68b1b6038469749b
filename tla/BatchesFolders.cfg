\* Four files in three folders, one of them empty, batches of two files or more.
CONSTANTS
    d1 = d1
    d2 = d2
    d3 = d3
    a = a
    b = b
    c = c
    bad = bad
    Dirs = {d1, d2, d3}
    Files = {a, b, c, bad}
    FilesOf <- MCFilesOf
    Unreadable = {bad}
    Size <- MCSize
    PatchSize = 2
    Configs <- MCConfigs
SPECIFICATION FairSpec
INVARIANTS EachOnce WholeFolders
PROPERTIES Ends
CHECK_DEADLOCK FALSE
