SPECIFICATION MCSpec
CONSTANTS
    name1 = name1
    name2 = name2
    Names <- MCNames
    NULL = NULL
    m_nClusters = 4
    nRootCluster = 2
    FAT_FILES = 2
    FAT_CLUSER_BUFFERS = 3
    FAT_MAX_FILESIZE = 5
    CLUSTER = 2
    ENTRIES = 2
    MAX_CREATES = 2
SYMMETRY NameSymmetry
INVARIANTS ChainsApart FullOnlyWhenFull Contents Saved Pins DirtyIsOwned
\* creations are bounded: when every file has been deleted nothing is left to do
CHECK_DEADLOCK FALSE
