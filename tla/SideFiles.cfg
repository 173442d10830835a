\* Every handler on two names, with errors and crashes.
SPECIFICATION Spec
CONSTANTS
    t1 = t1
    t2 = t2
    v1 = v1
    v2 = v2
    v3 = v3
    Names = {"a", "b", "passdata"}
    DatxNames = {}
    Depth = 1
    Tails = {v1, v2, v3}
    Threads = {t1, t2}
    Ops = {"create", "mknod", "mkdir", "rmdir", "symlink", "open", "write", "truncate", "unlink", "rename"}
    Faults = {"crash", "error"}
    Operands <- MCOperands
SYMMETRY MCSymmetry
INVARIANTS TypeOK TailKept NoLitter
PROPERTY ImplementsPlainDirectory
