\* Three processes that start, race and die; the four scripts there are.
SPECIFICATION MigrationsSpec
CONSTANTS
    p1 = p1
    p2 = p2
    p3 = p3
    Processes = {p1, p2, p3}
    ScriptCount = 4
INVARIANT SchemaInOrder
PROPERTY SchemaCompletes
