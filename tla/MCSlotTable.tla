---------------------------- MODULE MCSlotTable ----------------------------
(* Small instances of SlotTable: a daemon that owns d1 and d2, a foreground *)
(* process that owns f, and one further command that reads the table.       *)
EXTENDS SlotTable, TLC

CONSTANTS daemon, fg, d1, d2, f

MCOwner == [v \in VMs |-> IF v = f THEN fg ELSE daemon]

=============================================================================
