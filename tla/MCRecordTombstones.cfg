SPECIFICATION Spec
CONSTANTS
    Keys = {k1, k2}
    Bodies = {b1, b2}
    NoRow = NoRow
    Revs = {1, 2}
    Purgers = {live}
    PurgeBatch = 1
    Postgres = FALSE
SYMMETRY Symmetry
INVARIANTS
    TombstoneExcludesOlder
    PurgedStaysPurged
PROPERTIES
    NoSupersededWrite
    DeleteLeavesTombstone
