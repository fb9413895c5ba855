SPECIFICATION IdSpec
CONSTANT IdMask = 3
INVARIANT IdInv
PROPERTY TemporallyUnique
