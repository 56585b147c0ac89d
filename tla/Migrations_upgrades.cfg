\* Two processes, the binaries of schema 3, 4 and 5, files of any schema; no
\* symmetry, for liveness.
SPECIFICATION FairSpec
CONSTANTS
    Processes = {p1, p2}
    Latest = 5
    Binaries = {3, 4, 5}
    Dangling = TRUE
INVARIANTS
    TypeOK
    RecordTellsTables
    ServesItsSchema
PROPERTIES
    StartsEnd
    SchemaSpec
