CONSTANTS
    daemon = daemon
    fg = fg
    d1 = d1
    d2 = d2
    f = f
    Procs = {daemon, fg}
    Daemons = {daemon}
    VMs = {d1, d2, f}
    Owner <- MCOwner
    Readers = {r}
    MaxVMSlots = 2
    NoVM = NoVM
    Faults = {"pidreuse"}
    Serialised = TRUE
SPECIFICATION Spec
INVARIANTS
    LiveVMHoldsSlot
    PortsExclusive
    ColumnsBelongToRow
    EndedVMLeavesNothing
    
PROPERTY IsAllocator
