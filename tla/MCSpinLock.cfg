SPECIFICATION FairSpec
CONSTANTS
    Threads = {t1, t2, t3}
    Word = 3
INVARIANTS TypeOK MutualExclusion NoLostUpdate LockWordTruthful
PROPERTIES ImplementsMutex LockIsReleased FreeLockIsTaken
