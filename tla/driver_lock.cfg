\* Two invocations with any command line that takes the lock, one kill,
\* stale scratch files from an earlier run, a main() writing one file.
CONSTANTS
    Invocations = {i1, i2}
    OptionSpace <- MCOptionSpace
    MaxScratch = 1
    MaxKills = 1
    StaleOwner = StaleOwner
    None = None
SPECIFICATION Spec
CHECK_DEADLOCK FALSE
PROPERTY CleanupSparesLiveScratch
