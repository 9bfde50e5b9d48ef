CONSTANTS
    daemon = daemon
    fg = fg
    d1 = d1
    d2 = d2
    f = f
    Procs = {daemon, fg}
    Daemons = {daemon}
    VMs = {d1, f}
    Owner <- MCOwner
    Readers = {r}
    MaxVMSlots = 2
    NoVM = NoVM
    Faults = {}
    Serialised = FALSE
SPECIFICATION Spec
INVARIANTS
    LiveVMHoldsSlot
