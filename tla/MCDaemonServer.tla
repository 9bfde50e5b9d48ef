--------------------------- MODULE MCDaemonServer ---------------------------
(* Small instances of DaemonServer. *)
EXTENDS DaemonServer, TLC

CONSTANT c1

\* One client starts a VM, the others ask for anything.
StartAndAny == [c \in Conns |->
                  IF c = c1 THEN {"start-vm"}
                            ELSE {"query", "start-vm", "stop-vm", "shutdown"}]

=============================================================================
