CONSTANTS
    d = d
    e = e
    x = x
    i0 = i0
    i1 = i1
    i2 = i2
    i3 = i3
    NoInode = NoInode
    NoFid = NoFid
    q1 = q1
    q2 = q2
    Procs = {q1, q2}
    Jobs <- Serving
    Paths <- Small
    Inodes = {i0, i1, i2, i3}
    FirstTree <- Start
    Fids = {1, 2, 3, 4, 5, 6}
    MaxOpen = 1
    MaxChanges = 1
    maxConcurrent = 1
SPECIFICATION Spec
SYMMETRY Symmetry
INVARIANTS
    FidsAccounted
    OwnChangeSeen
    SlotsAccounted
