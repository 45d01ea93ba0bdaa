\* An old database with an outlet and a key's row, opened by two processes.
CONSTANTS
    Processes = {app, cli}
    Sessions = {o1, e1}
    Outlets = {o1}
    Desktops = {e1}
    MaxCrashes = 0
    MaxSwallowed = 0
    MaxUserEdits = 0
SPECIFICATION SchemaSpec
INVARIANT OutletsKeepTheirConnection
CHECK_DEADLOCK FALSE
