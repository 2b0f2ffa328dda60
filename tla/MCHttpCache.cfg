CONSTANTS
    Trans = {t1, t2, t3}
    Entries = {1, 2}
    Modes = {"READ", "WRITE", "READ_WRITE", "UPDATE"}
    NoTrans = NoTrans
SPECIFICATION Spec
SYMMETRY Symmetry
INVARIANTS TypeOK LockExact WaitsInOnePlace TasksExact NoAbandonedEntry EntryChecks
