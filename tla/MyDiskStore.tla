----------------------------- MODULE MyDiskStore -----------------------------
(* The RAM disk implements SectorStore. *)
EXTENDS MyDisk

\* Calls are the bios in the queue; there is a medium while there is a queue for it.
Promise == INSTANCE SectorStore WITH
    Users <- Clients \cup {Scan},
    Area <- Tracked,
    present <- "queue" \in held,
    store <- dev_data,
    calls <- UNION {Bios(r) : r \in queue},
    result <- got

\* A bio alone in its request reads and writes its sectors and no others, at once;
\* merged ones leave the others alone (main.c:173-232).
ImplementsStore == Promise!StoreSpec

\* Readme.md:17-33 writes zeros with dd and then views "actual data", as on a disk.
ImplementsDisk == Promise!ExactSpec
=============================================================================
