------------------------------ MODULE MCMyDisk ------------------------------
(* Two clients at the border of the partitions, where bios touch each other. *)
EXTENDS MyDiskStore

CONSTANTS c1, c2

Job(part, op, first, len) == [part |-> part, op |-> op, first |-> first, len |-> len]

MCClients == {c1, c2}

\* Two of the jobs reach beyond the end of their device.
MCJobs == {
    Job("dof1", "write", 508, 1), Job("dof1", "write", 509, 2), Job("dof1", "read", 509, 2),
    Job("dof1", "write", 511, 1),
    Job("dof2", "write", 0, 1), Job("dof", "read", 511, 2), Job("dof", "write", 1023, 2)}

\* dd writes sector after sector; a client is one of its bios.
DdJobs == {Job("dof1", "write", 0, 1), Job("dof1", "write", 1, 1)}
=============================================================================
