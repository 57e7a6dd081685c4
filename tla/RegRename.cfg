SPECIFICATION Spec
CONSTANTS NumArch = 2 NumPhys = 5 MaxSeq = 4
INVARIANTS TypeOK NoDoubleOwner NoLeak CommittedStateKept SourcesKept RollbackExact RenameChanges IInv
CHECK_DEADLOCK FALSE
