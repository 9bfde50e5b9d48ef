CONSTANTS
    c1 = c1
    Conns = {c1, c2}
    MayCall <- StartAndAny
    MaxVMSlots = 1
    Sig = Sig
    None = None
SPECIFICATION FairSpec
INVARIANTS
    InflightCounts
    TimerTracksIdle
    WriterRestored
    
    
    
PROPERTIES
    ExitsWithoutVMs
    EveryRequestEnds
    SignalEndsDaemon
