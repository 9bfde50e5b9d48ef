------------------------- MODULE DaemonSpawnProofs -------------------------
(***************************************************************************)
(* The flock makes the daemon unique and its socket reachable, for any     *)
(* number of clients and daemons.                                          *)
(***************************************************************************)
EXTENDS DaemonSpawn, TLAPS

\* The flock belongs to the one daemon between Lock and Exit, so whoever
\* touches the socket path is the only daemon that has one.
LockInv == \A d \in Daemons : dpc[d] \in HasLock <=> lock = d

SpawnInv == TypeOK /\ LockInv /\ ListenerReachable

LEMMA SpawnInductive == SpawnInv /\ [Next]_vars => SpawnInv'
<1> SUFFICES ASSUME SpawnInv, [Next]_vars PROVE SpawnInv'
  OBVIOUS
<1> USE SpawnAssumption DEF SpawnInv
<1>1. ASSUME NEW d \in Daemons, DaemonStep(d) PROVE SpawnInv'
  <2> USE DEF TypeOK, LockInv, ListenerReachable, HasLock, DaemonPCs, DaemonGoto
  <2>1. CASE Lock(d)
    BY <2>1 DEF Lock
  <2>2. CASE LoseRace(d)
    BY <2>2 DEF LoseRace
  <2>3. CASE SetupFails(d)
    BY <2>3 DEF SetupFails
  <2>4. CASE RemoveStaleSocket(d)
    BY <2>4 DEF RemoveStaleSocket
  <2>5. CASE Listen(d)
    BY <2>5 DEF Listen
  <2>6. CASE CloseListener(d)
    BY <2>6 DEF CloseListener
  <2>7. CASE RemoveSocket(d)
    BY <2>7 DEF RemoveSocket
  <2>8. CASE Exit(d)
    BY <2>8 DEF Exit
  <2>9. CASE Crash(d)
    BY <2>9 DEF Crash
  <2> QED
    BY <1>1, <2>1, <2>2, <2>3, <2>4, <2>5, <2>6, <2>7, <2>8, <2>9 DEF DaemonStep
<1>2. ASSUME NEW c \in Clients, ClientStep(c) PROVE SpawnInv'
  <2>1. CASE Spawn(c)
    BY <2>1 DEF Spawn, ClientGoto, TypeOK, LockInv, ListenerReachable, HasLock,
       DaemonPCs
  <2>2. CASE \/ FastDial(c) \/ FastPing(c) \/ PollDial(c) \/ PollPing(c)
             \/ PollTimeout(c)
    BY <2>2 DEF FastDial, FastPing, PollDial, PollPing, PollTimeout, ClientGoto,
       TypeOK, LockInv, ListenerReachable
  <2> QED
    BY <1>2, <2>1, <2>2 DEF ClientStep
<1>3. CASE UNCHANGED vars
  BY <1>3 DEF vars, TypeOK, LockInv, ListenerReachable
<1> QED
  BY <1>1, <1>2, <1>3 DEF Next

LEMMA SpawnInvariant == Spec => []SpawnInv
<1>1. Init => SpawnInv
  BY SpawnAssumption DEF Init, SpawnInv, TypeOK, LockInv, ListenerReachable,
     HasLock, DaemonPCs
<1> QED
  BY <1>1, SpawnInductive, PTL DEF Spec

\* Whatever clients spawn and whatever crashes, two daemons never listen at
\* the same time.
THEOREM ListenerIsUnique == Spec => []OneListener
<1>1. SpawnInv => OneListener
  BY DEF SpawnInv, LockInv, HasLock, OneListener
<1> QED
  BY <1>1, SpawnInvariant, PTL

\* No daemon's start or teardown takes the socket path away from the daemon
\* that listens.
THEOREM ListenerIsReachable == Spec => []ListenerReachable
BY SpawnInvariant, PTL DEF SpawnInv
=============================================================================
