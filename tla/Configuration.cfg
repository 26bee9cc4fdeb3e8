\* Seven configuration directories, two threads that start machines.
SPECIFICATION Spec
CONSTANTS
    NULL = NULL
    Directories <- MCDirectories
    Bases <- MCBases
    NullModems <- MCNullModems
    ExtraSlots <- MCExtraSlots
    Addresses = {70000}
    Starters = {s1, s2}
    Unnoticed <- MCUnnoticed
    Stops = {4}
    Unlinkable = {2}
INVARIANTS TypeOK NamesResolve BootsAsConfigured TranslationObeysRules ChecksAreExact ConsolesLinked StatusExact
\* A daemon that has exited or crashed does not go on.
SYMMETRY Symmetry
CHECK_DEADLOCK FALSE
