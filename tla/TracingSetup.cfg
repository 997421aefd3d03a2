SPECIFICATION SetupSpec
CONSTANTS
    tool = tool
    ancestor = ancestor
    manager = manager
    connection = connection
    Classes <- MCClasses
    Base <- MCBase
    Tools = {tool}
    Managers = {manager}
    Connection = connection
    Defines <- MCDefines
    Installed <- MCInstalled
    MaxForeign = 1
    Libraries = {psycopg}
    MaxRenders = 2
INVARIANTS
    InstrumentorsAreListed
    TracedAtMostOnce
    WrappersAreLogged
    OneSpanPerSubrequest
    ChildSpansNest
PROPERTIES
    CallsTheSameFunction
    AliasesStayAliases
