\* A job of every kind of request but the ones that break a revert by
\* themselves, interrupted anywhere in apply by an error or by the death of the
\* process and one conary revert.
SPECIFICATION Spec
CONSTANTS
    f = f
    h = h
    d = d
    g = g
    Path <- MCPath
    Above <- MCAbove
    Trees <- MCTrees
    Asks = {"rename", "remove", "mkdir", "mkdirAgain", "mkdirOverFile", "implicitDir",
            "create", "createOverDir", "overEmptied", "chmod", "special", "symlink",
            "link", "lateLink", "lateFile", "holder", "newFile", "cleanup"}
    MaxBackup = 2
    MaxOps = 3
    CrashIn = {"apply"}
INVARIANTS TypeOK BackupsJournaled OriginalsReachable FilesRestored CommitClean
