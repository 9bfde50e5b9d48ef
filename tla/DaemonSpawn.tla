---------------------------- MODULE DaemonSpawn ----------------------------
(***************************************************************************)
(* How clients come by a daemon: EnsureDaemon and Dial                     *)
(* (internal/daemon/client.go) against the parts of Run                    *)
(* (internal/daemon/server.go) that take the flock, replace the socket and *)
(* tear both down.  Everything goes through two names in the file system:  *)
(* the lock file and the socket path.                                      *)
(***************************************************************************)
EXTENDS Naturals, FiniteSets

CONSTANTS
    Clients,     \* calls of EnsureDaemon
    Daemons,     \* processes `homura daemon run` that may be spawned
    None,
    MayCrash,    \* daemons may be killed, or fail to set up
    MayCutPoll   \* a daemon may close its listener while a client polls

ASSUME SpawnAssumption ==
    None \notin Daemons /\ MayCrash \in BOOLEAN /\ MayCutPoll \in BOOLEAN

VARIABLES
    lock,     \* which daemon's open file holds the flock, or None
    path,     \* whose listener the socket path names, or None: no such file
    dpc,      \* where Run of each daemon stands
    cpc,      \* where EnsureDaemon of each client stands
    failed    \* some daemon crashed or failed to set up

vars == <<lock, path, dpc, cpc, failed>>

DaemonPCs == {"none", "spawned", "locked", "unlinked", "listening", "closed",
              "removed", "exited"}
\* From the flock to releaseLock.
HasLock == {"locked", "unlinked", "listening", "closed", "removed"}

TypeOK ==
    /\ lock \in Daemons \cup {None}
    /\ path \in Daemons \cup {None}
    /\ dpc \in [Daemons -> DaemonPCs]
    /\ cpc \in [Clients -> {"dial", "ping", "spawn", "poll", "pollping", "ok",
                            "error"}]
    /\ failed \in BOOLEAN

Init ==
    /\ lock = None
    /\ path = None
    /\ dpc = [d \in Daemons |-> "none"]
    /\ cpc = [c \in Clients |-> "dial"]
    /\ failed = FALSE

-----------------------------------------------------------------------------
(* Run *)

DaemonGoto(d, from, to) ==
    /\ dpc[d] = from
    /\ dpc' = [dpc EXCEPT ![d] = to]
    /\ UNCHANGED cpc

\* Mutant: EWOULDBLOCK is ignored.
LockIgnored(d) ==
    /\ DaemonGoto(d, "spawned", "locked")
    /\ lock' = d
    /\ UNCHANGED <<path, failed>>

\* flock(LOCK_EX|LOCK_NB)
Lock(d) ==
    /\ lock = None
    /\ DaemonGoto(d, "spawned", "locked")
    /\ lock' = d
    /\ UNCHANGED <<path, failed>>

\* EWOULDBLOCK: another daemon runs, Run returns nil.
LoseRace(d) ==
    /\ lock # None
    /\ DaemonGoto(d, "spawned", "exited")
    /\ UNCHANGED <<lock, path, failed>>

\* The log file cannot be opened, or the path cannot be bound: releaseLock.
SetupFails(d) ==
    /\ \/ DaemonGoto(d, "locked", "exited") /\ MayCrash
       \/ DaemonGoto(d, "unlinked", "exited") /\ (MayCrash \/ path # None)
    /\ lock' = None
    /\ failed' = TRUE
    /\ UNCHANGED path

\* os.Remove of a socket left behind by a daemon that was killed.
RemoveStaleSocket(d) ==
    /\ DaemonGoto(d, "locked", "unlinked")
    /\ path' = None
    /\ UNCHANGED <<lock, failed>>

\* bind fails on a path that exists.
Listen(d) ==
    /\ path = None
    /\ DaemonGoto(d, "unlinked", "listening")
    /\ path' = d
    /\ UNCHANGED <<lock, failed>>

\* Mutant: the lock is given up before the socket is removed.
CloseAndUnlock(d) ==
    /\ DaemonGoto(d, "listening", "closed")
    /\ path' = None
    /\ lock' = None
    /\ UNCHANGED failed

Polling(c) == cpc[c] \in {"poll", "pollping"}

\* triggerExit: net's UnixListener.Close unlinks the path it listened on.  The
\* idle timeout is far longer than the 50ms between two polls, so only a
\* signal or a shutdown request closes the listener under a polling client.
CloseListener(d) ==
    /\ MayCutPoll \/ ~\E c \in Clients : Polling(c)
    /\ DaemonGoto(d, "listening", "closed")
    /\ path' = None
    /\ UNCHANGED <<lock, failed>>

\* os.Remove(s.socketPath) after serve returned.
RemoveSocket(d) ==
    /\ DaemonGoto(d, "closed", "removed")
    /\ path' = None
    /\ UNCHANGED <<lock, failed>>

\* releaseLock, and Run returns.
Exit(d) ==
    /\ DaemonGoto(d, "removed", "exited")
    /\ lock' = IF lock = d THEN None ELSE lock
    /\ UNCHANGED <<path, failed>>

\* SIGKILL: the kernel drops the flock, the socket file stays.
Crash(d) ==
    /\ MayCrash
    /\ dpc[d] \in HasLock \cup {"spawned"}
    /\ dpc' = [dpc EXCEPT ![d] = "exited"]
    /\ lock' = IF lock = d THEN None ELSE lock
    /\ failed' = TRUE
    /\ UNCHANGED <<path, cpc>>

-----------------------------------------------------------------------------
(* EnsureDaemon *)

ClientGoto(c, from, to) ==
    /\ cpc[c] = from
    /\ cpc' = [cpc EXCEPT ![c] = to]
    /\ UNCHANGED <<lock, path, failed>>

\* connect(2) succeeds if the path names a listener that is still open.
Answers == \E d \in Daemons : path = d /\ dpc[d] = "listening"

\* The fast path: Dial's probe, then Ping on a connection of its own.
FastDial(c) ==
    /\ ClientGoto(c, "dial", IF Answers THEN "ping" ELSE "spawn")
    /\ UNCHANGED dpc

FastPing(c) ==
    /\ ClientGoto(c, "ping", IF Answers THEN "ok" ELSE "spawn")
    /\ UNCHANGED dpc

\* exec `homura daemon run`; the client does not wait for it.
Spawn(c) ==
    /\ \E d \in Daemons :
          /\ dpc[d] = "none"
          /\ dpc' = [dpc EXCEPT ![d] = "spawned"]
    /\ ClientGoto(c, "spawn", "poll")

PollDial(c) ==
    /\ Answers
    /\ ClientGoto(c, "poll", "pollping")
    /\ UNCHANGED dpc

PollPing(c) ==
    /\ ClientGoto(c, "pollping", IF Answers THEN "ok" ELSE "poll")
    /\ UNCHANGED dpc

\* The deadline passes.  Five seconds are long for a daemon to come up: it
\* passes only when none is on its way and none answers.
PollTimeout(c) ==
    /\ \A d \in Daemons : dpc[d] \in {"none", "exited"}
    /\ ClientGoto(c, "poll", "error")
    /\ UNCHANGED dpc

-----------------------------------------------------------------------------
DaemonStep(d) ==
    \/ Lock(d)
    \/ LoseRace(d)
    \/ SetupFails(d)
    \/ RemoveStaleSocket(d)
    \/ Listen(d)
    \/ CloseListener(d)
    \/ RemoveSocket(d)
    \/ Exit(d)
    \/ Crash(d)

ClientStep(c) ==
    \/ FastDial(c)
    \/ FastPing(c)
    \/ Spawn(c)
    \/ PollDial(c)
    \/ PollPing(c)
    \/ PollTimeout(c)

Next ==
    \/ \E d \in Daemons : DaemonStep(d)
    \/ \E c \in Clients : ClientStep(c)

Spec == Init /\ [][Next]_vars

-----------------------------------------------------------------------------
(* Properties *)

\* However many clients spawn daemons and whichever of them are killed, at
\* most one listens at any time (the flock in Run).
OneListener ==
    \A d, e \in Daemons : dpc[d] = "listening" /\ dpc[e] = "listening" => d = e

\* A daemon that listens can be reached: the socket path names its listener,
\* because neither the teardown of its predecessor nor the start of another
\* one removes the path under it.
ListenerReachable == \A d \in Daemons : dpc[d] = "listening" => path = d

\* "EnsureDaemon returns a client to a running daemon, spawning one if needed.
\* The spawn is race-safe": it gives up only if a daemon crashed or failed.
EnsureDaemonSucceeds == \A c \in Clients : cpc[c] = "error" => failed

=============================================================================
