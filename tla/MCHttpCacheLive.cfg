CONSTANTS
    Trans = {t1, t2}
    Entries = {1, 2}
    Modes = {"READ", "WRITE", "READ_WRITE", "UPDATE"}
    NoTrans = NoTrans
SPECIFICATION FairSpec
PROPERTY Served
