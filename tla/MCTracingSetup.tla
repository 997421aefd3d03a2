---------------------------- MODULE MCTracingSetup ----------------------------
EXTENDS TracingSetup, TLC

CONSTANTS tool, ancestor, manager, connection

MCClasses == {tool, ancestor, manager, connection}
MCBase == [c \in MCClasses |-> IF c = tool THEN ancestor ELSE c]
MCInstalled == {{connection, tool}, {connection, manager}}

\* A tool that defines all of its methods, inherits one, or inherits all.
MCDefines ==
    LET all == QueryMethods \cup {"__call__"}
    IN  {[c \in MCClasses |->
            CASE c = tool -> d[1]
              [] c = ancestor -> d[2]
              [] OTHER -> {"render", "setstate"}] :
         d \in {<<all, {}>>, <<{"searchResults", "__call__"}, all>>, <<{}, all>>}}

=============================================================================
