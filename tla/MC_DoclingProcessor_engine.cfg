CONSTANTS
    Objs = {o1, dflt}
    DefaultObj = dflt
    Paths = {p1, p2}
    Engines <- MCEngines
    Modes <- MCModes
    SuffixOf <- MCSuffixOf
    Lower <- MCLower
    NoResult = NoResult
    CallerMutates = FALSE
    NoConverter = NoConverter
    NoContent = NoContent
SPECIFICATION Spec
INVARIANTS UnknownEngineRejected
