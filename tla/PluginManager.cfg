SPECIFICATION TableSpec
CONSTANTS
    Plugins <- TablePlugins
    depends <- TableDepends
    conflicts <- TableConflicts
    priority <- TablePriority
    autoload <- TablePlugins
    permanent <- TablePermanent
    noUnload <- TableNoUnload
CHECK_DEADLOCK FALSE
INVARIANT LoadedAreConsistent
INVARIANT StartupSurvives
PROPERTY Settles
