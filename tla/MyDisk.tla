------------------------------- MODULE MyDisk -------------------------------
(***************************************************************************)
(* The RAM disk of Assignment-2_DOF (main.c) under the block layer: loading *)
(* with its error paths, the partition scan of add_disk, clients that open  *)
(* the disk or a partition, read and write, and unloading.                  *)
(*                                                                          *)
(* A bio is one piece of memory to be read or written.  The block layer may *)
(* merge adjacent bios, so that a request is a sequence of them; the code   *)
(* calls them its segments.                                                 *)
(***************************************************************************)
EXTENDS Integers, FiniteSets, FiniteSetsExt, Sequences, SequencesExt

CONSTANTS
    Clients,
    Scan,           \* the kernel, when it looks for partitions
    Closed,         \* no partition
    Jobs,           \* what clients ask for: [part, op, first, len]
    MaxSegments

ASSUME ClientsAssumption ==
    /\ IsFiniteSet(Clients) /\ Scan \notin Clients /\ "mbr" \notin Clients
    /\ MaxSegments \in Nat \ {0}

NSECTORS == 1024

\* abs_start_sec and sec_in_part.  Mutant: the first partition is a sector longer.
DefPartTable_Overlap ==
    [dof1 |-> [start |-> 1, length |-> 512], dof2 |-> [start |-> 512, length |-> 512]]

DefPartTable ==
    [dof1 |-> [start |-> 1, length |-> 511], dof2 |-> [start |-> 512, length |-> 512]]

Partitions == DOMAIN DefPartTable
Devices == Partitions \cup {"dof"}

ASSUME JobsAssumption ==
    /\ Closed \notin Devices
    /\ \A j \in Jobs : /\ j.part \in Devices /\ j.op \in {"read", "write"}
                      /\ j.first \in Nat /\ j.len \in Nat \ {0}

Extent(part) ==
    IF part \in Partitions THEN DefPartTable[part] ELSE [start |-> 0, length |-> NSECTORS]

SectorsOf(part) == Extent(part).start .. Extent(part).start + Extent(part).length - 1

\* The first and only boot record goes to cylinder 10, of 32 sectors.
BrSector == 10 * 32

\* The sectors that matter: those jobs reach, and the two the driver fills.
Tracked == SectorsOf("dof") \cap ({0, BrSector} \cup
    UNION {{Extent(j.part).start + j.first + i : i \in 0..j.len - 1} : j \in Jobs})

\* The contents of a sector: the i-th of a client's memory is <<client, i>>.
Mbr == <<"mbr", 0>>
Br == <<"br", 0>>
Junk == <<"junk", 0>>

-----------------------------------------------------------------------------
VARIABLES
    pc,             \* where loading or unloading is
    held,           \* what the module has obtained from the kernel
    capacity,       \* of the gendisk
    dev_data,
    partitions,     \* those the kernel has found
    opened,         \* the device each client has open
    queue,          \* requests, each a sequence of bios of the same op
    plugged,        \* the block layer has requests it has not called mydisk_request for
    running,        \* mydisk_request runs, under the queue's lock
    got             \* what each client read last, since it opened the disk

loadVars == <<pc, held, capacity, partitions>>
queueVars == <<queue, plugged, running>>
diskVars == <<loadVars, dev_data, opened, queueVars, got>>

Bios(r) == Range(r)
Waiting(c) == \E r \in queue : \E b \in Bios(r) : b.client = c
Start(r) == Head(r).sector
End(r) == Last(r).sector + Last(r).len

Init ==
    /\ pc = "unloaded"
    /\ held = {}
    /\ capacity = 0
    /\ dev_data = [s \in Tracked |-> Junk]
    /\ partitions = {}
    /\ opened = [c \in Clients |-> Closed]
    /\ queue = {} /\ plugged = FALSE /\ running = FALSE
    /\ got = [c \in Clients \cup {Scan} |-> <<>>]

-----------------------------------------------------------------------------
\* mydisk_init.  A failure returns with what was obtained before still held; without
\* memory or gendisk it goes on and dereferences NULL.

Vmalloc ==
    /\ pc \in {"unloaded", "failed"}
    /\ \/ /\ pc' = "register_blkdev"
          /\ held' = held \cup {"memory"}
          /\ dev_data' = [s \in Tracked |-> CASE s = 0 -> Mbr [] s = BrSector -> Br [] OTHER -> Junk]
       \/ /\ pc' = "oops"
          /\ UNCHANGED <<held, dev_data>>
    /\ UNCHANGED <<capacity, partitions, opened, queueVars, got>>

RegisterBlkdev ==
    /\ pc = "register_blkdev"
    /\ \/ /\ pc' = "blk_init_queue"
          /\ held' = held \cup {"major"}
       \/ /\ pc' = "failed"
          /\ UNCHANGED held
    /\ UNCHANGED <<capacity, partitions, dev_data, opened, queueVars, got>>

BlkInitQueue ==
    /\ pc = "blk_init_queue"
    /\ \/ /\ pc' = "alloc_disk"
          /\ held' = held \cup {"queue"}
       \/ /\ pc' = "failed"
          /\ UNCHANGED held
    /\ UNCHANGED <<capacity, partitions, dev_data, opened, queueVars, got>>

\* With set_capacity.  Mutants: it is forgotten; it is given bytes.
AllocDisk_NoCapacity ==
    /\ pc = "alloc_disk"
    /\ pc' \in {"add_disk", "oops"}
    /\ UNCHANGED <<held, capacity, partitions, dev_data, opened, queueVars, got>>

AllocDisk_Bytes ==
    /\ pc = "alloc_disk"
    /\ \/ /\ pc' = "add_disk"
          /\ capacity' = NSECTORS * 512
       \/ /\ pc' = "oops"
          /\ UNCHANGED capacity
    /\ UNCHANGED <<held, partitions, dev_data, opened, queueVars, got>>

AllocDisk ==
    /\ pc = "alloc_disk"
    /\ \/ /\ pc' = "add_disk"
          /\ capacity' = NSECTORS
       \/ /\ pc' = "oops"
          /\ UNCHANGED capacity
    /\ UNCHANGED <<held, partitions, dev_data, opened, queueVars, got>>

\* From here on others can open the disk.
AddDisk ==
    /\ pc = "add_disk"
    /\ held' = held \cup {"disk"}
    /\ IF capacity = 0
       THEN pc' = "live" /\ UNCHANGED queueVars
       ELSE /\ pc' = "scanning"
            /\ queue' = queue \cup {<<[client |-> Scan, op |-> "read", sector |-> 0, len |-> 1]>>}
            /\ plugged' = TRUE
            /\ UNCHANGED running
    /\ UNCHANGED <<capacity, partitions, dev_data, opened, got>>

Scanned ==
    /\ pc = "scanning"
    /\ ~Waiting(Scan)
    /\ partitions' = IF got[Scan] = <<Mbr>> THEN Partitions ELSE {}
    /\ pc' = "live"
    /\ UNCHANGED <<held, capacity, dev_data, opened, queueVars, got>>

-----------------------------------------------------------------------------
\* The kernel keeps a module whose mydisk_fops name it as owner while the disk is open.
\* Mutant: no owner.
ModuleRefs_NoOwner == 0
ModuleRefs == Cardinality({c \in Clients : opened[c] # Closed})

DelGendisk ==
    /\ pc = "live"
    /\ ModuleRefs = 0
    /\ pc' = "blk_cleanup_queue"
    /\ held' = held \ {"disk"}
    /\ partitions' = {}
    /\ UNCHANGED <<capacity, dev_data, opened, queueVars, got>>

BlkCleanupQueue ==
    /\ pc = "blk_cleanup_queue"
    /\ queue = {} /\ ~running
    /\ pc' = "vfree"
    /\ held' = held \ {"queue"}
    /\ UNCHANGED <<capacity, partitions, dev_data, opened, queueVars, got>>

Vfree ==
    /\ pc = "vfree"
    /\ pc' = "unregister_blkdev"
    /\ held' = held \ {"memory"}
    /\ dev_data' = [s \in Tracked |-> Junk]
    /\ UNCHANGED <<capacity, partitions, opened, queueVars, got>>

UnregisterBlkdev ==
    /\ pc = "unregister_blkdev"
    /\ pc' = "unloaded"
    /\ held' = held \ {"major"}
    /\ capacity' = 0
    /\ UNCHANGED <<partitions, dev_data, opened, queueVars, got>>

-----------------------------------------------------------------------------
\* Clients and the block layer.

Open(c, part) ==
    /\ pc \in {"scanning", "live"}
    /\ opened[c] = Closed
    /\ part \in Partitions => part \in partitions
    /\ opened' = [opened EXCEPT ![c] = part]
    /\ UNCHANGED <<loadVars, dev_data, queueVars, got>>

\* The last close waits for what is under way.
Close(c) ==
    /\ opened[c] # Closed
    /\ ~Waiting(c)
    /\ opened' = [opened EXCEPT ![c] = Closed]
    /\ got' = [got EXCEPT ![c] = <<>>]
    /\ UNCHANGED <<loadVars, dev_data, queueVars>>

\* Where a bio may be queued: alone, or merged with a request it touches.
Queued(b) ==
    {queue \cup {<<b>>}}
    \cup {(queue \ {r}) \cup {Append(r, b)} :
             r \in {r \in queue : End(r) = b.sector /\ Head(r).op = b.op /\ Len(r) < MaxSegments}}
    \cup {(queue \ {r}) \cup {<<b>> \o r} :
             r \in {r \in queue : b.sector + b.len = Start(r) /\ Head(r).op = b.op
                                  /\ Len(r) < MaxSegments}}

\* A bio must end within the partition, and within the disk.
Submit(c, j) ==
    LET b == [client |-> c, op |-> j.op, sector |-> Extent(j.part).start + j.first, len |-> j.len] IN
    /\ ~running
    /\ opened[c] = j.part /\ ~Waiting(c) /\ "queue" \in held
    /\ j.part \in Partitions => j.first + j.len <= Extent(j.part).length
    /\ b.sector + b.len <= capacity
    /\ queue' \in Queued(b)
    /\ plugged' = TRUE
    /\ UNCHANGED <<loadVars, dev_data, opened, running, got>>

Unplug ==
    /\ plugged /\ ~running
    /\ plugged' = FALSE
    /\ running' = TRUE
    /\ UNCHANGED <<loadVars, dev_data, opened, queue, got>>

-----------------------------------------------------------------------------
\* mydisk_transfer.  Mutants: a sector is counted too many; reads and writes confused.
Sectors_RoundedUp(b) == 0..b.len
Sectors(b) == 0..b.len - 1

\* The segments of r that reach a sector: all are put where the request begins.
Reaching(r, s) == {i \in DOMAIN r : s - Start(r) \in Sectors(r[i])}

\* Later segments win.
Written(r) ==
    [s \in Tracked |->
        IF Reaching(r, s) = {} THEN dev_data[s]
        ELSE <<r[Max(Reaching(r, s))].client, s - Start(r)>>]

Read(r) ==
    [c \in DOMAIN got |->
        IF \E b \in Bios(r) : b.client = c
        THEN LET b == CHOOSE b \in Bios(r) : b.client = c
             IN  [i \in 1..b.len |-> dev_data[Start(r) + i - 1]]
        ELSE got[c]]

MydiskTransfer(r) ==
    \/ /\ Head(r).op = "write"
       /\ dev_data' = Written(r)
       /\ UNCHANGED got
    \/ /\ Head(r).op = "read"
       /\ got' = Read(r)
       /\ UNCHANGED dev_data

\* The loop goes on while there are requests.  Mutant: one request a call.
Continues_Once(rest) == FALSE
Continues(rest) == rest # {}

\* A round of mydisk_request; the I/O scheduler has put the requests in any order.
MydiskRequest ==
    /\ running
    /\ \E r \in queue :
          /\ MydiskTransfer(r)
          /\ queue' = queue \ {r}
          /\ running' = Continues(queue')
    /\ UNCHANGED <<loadVars, opened, plugged>>

-----------------------------------------------------------------------------
Load == Vmalloc \/ RegisterBlkdev \/ BlkInitQueue \/ AllocDisk \/ AddDisk \/ Scanned
Unload == DelGendisk \/ BlkCleanupQueue \/ Vfree \/ UnregisterBlkdev

DiskNext ==
    \/ Load \/ Unload
    \/ \E c \in Clients :
          \/ \E part \in Devices : Open(c, part)
          \/ Close(c)
          \/ \E j \in Jobs : Submit(c, j)
    \/ Unplug
    \/ MydiskRequest

DiskSpec == Init /\ [][DiskNext]_diskVars

\* A task unplugs before it sleeps, and mydisk_request is called with the lock held.
FairDiskSpec == DiskSpec /\ WF_diskVars(Unplug) /\ WF_diskVars(MydiskRequest)

-----------------------------------------------------------------------------
DiskTypeOK ==
    /\ pc \in {"unloaded", "register_blkdev", "blk_init_queue", "alloc_disk", "add_disk", "scanning",
               "live", "blk_cleanup_queue", "vfree", "unregister_blkdev", "failed", "oops"}
    /\ held \subseteq {"memory", "major", "queue", "disk"}
    /\ capacity \in {0, NSECTORS}
    /\ DOMAIN dev_data = Tracked
    /\ partitions \in {{}, Partitions}
    /\ \A c \in Clients : opened[c] \in Devices \cup {Closed}
    /\ \A r \in queue :
          /\ Len(r) \in 1..MaxSegments
          /\ \A i \in DOMAIN r : r[i].client \in Clients \cup {Scan} /\ r[i].op = Head(r).op
          /\ \A i \in 1..Len(r) - 1 : r[i].sector + r[i].len = r[i + 1].sector
    /\ plugged \in BOOLEAN /\ running \in BOOLEAN
    /\ DOMAIN got = Clients \cup {Scan}

\* mydisk_transfer checks no bounds: what is queued must lie within dev_data, or it
\* writes behind the memory (main.c:203, 297).
WithinDisk == \A r \in queue : Start(r) >= 0 /\ End(r) <= NSECTORS

\* Nothing that a client or mydisk_request may still use has been given back
\* (main.c:310-317 and the owner in 236), nor is the disk open before all is there.
NothingFreedInUse ==
    /\ \A c \in Clients : opened[c] # Closed => {"memory", "major", "queue", "disk"} \subseteq held
    /\ running \/ queue # {} => {"memory", "queue"} \subseteq held

\* Unless something was written over the table, both partitions are found, before
\* anybody can open one: memory, table and capacity precede add_disk (main.c:246-299).
PartitionsFound == pc = "live" /\ dev_data[0] = Mbr => partitions = Partitions

\* The sectors a partition has to itself; the whole disk is shared by who opens it.
Own(part) ==
    IF part \in Partitions THEN SectorsOf(part) \ UNION {SectorsOf(q) : q \in Partitions \ {part}}
                           ELSE SectorsOf(part)

MayWrite(b, s) ==
    /\ b.op = "write"
    /\ s \in b.sector .. b.sector + b.len - 1
    /\ s \in Own(opened[b.client])

OneDevice(r) == \E d \in Devices : \A b \in Bios(r) : b.client \in Clients /\ opened[b.client] = d

\* No sector changes but those that a write in the request under way names, each in the
\* partition its client has open and in no other (main.c:57-85, 193-206).  If all bios
\* of the request are of one device, the data that come to lie in a sector, too, are of
\* somebody who has it open, and a client reads only sectors it has open.  The rest is
\* not so: of bios merged across the border of the partitions, one client's data end up
\* in a sector of the other's, since all segments go to the first sector (main.c:177, 203).
PartitionsIsolated ==
    [][pc = pc' =>
          /\ \A s \in Tracked : dev_data'[s] # dev_data[s] =>
                \E r \in queue \ queue' :
                    /\ \E b \in Bios(r) : MayWrite(b, s)
                    /\ OneDevice(r) => s \in Own(opened[dev_data'[s][1]])
          /\ \A c \in Clients : got'[c] \notin {got[c], <<>>} =>
                \E r \in queue \ queue' :
                    OneDevice(r) =>
                        Range(got'[c]) \subseteq {dev_data[s] : s \in Own(opened[c]) \cap Tracked}
      ]_diskVars

\* Whoever waits for the disk is served: one call of mydisk_request has to empty the
\* queue, there may be no other (main.c:223).
Served == \A c \in Clients \cup {Scan} : Waiting(c) ~> ~Waiting(c)
=============================================================================
