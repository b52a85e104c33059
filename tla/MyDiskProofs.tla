----------------------------- MODULE MyDiskProofs -----------------------------
(***************************************************************************)
(* Proofs about the RAM disk, for any number of clients, any requests of    *)
(* theirs and any number of segments in one request, and that it keeps the   *)
(* promise of SectorStore.                                                   *)
(***************************************************************************)
EXTENDS MyDiskStore, FiniteSetTheorems, TLAPS

-----------------------------------------------------------------------------
(* The requests *)

TrackedBio(b) == \A s \in Nat : b.sector <= s /\ s < b.sector + b.len => s \in Tracked

\* A bio is not empty and within the disk.
DiskBio == {b \in [client : Clients \cup {Scan}, op : {"read", "write"}, sector : Nat, len : Nat] :
               b.len >= 1 /\ b.sector + b.len <= NSECTORS /\ TrackedBio(b)}

\* The segments of a request are of one kind, follow one another and leave no gap.
Shape(r) ==
    /\ r \in Seq(DiskBio) /\ Len(r) \in 1..MaxSegments
    /\ \A i \in 1..Len(r) : r[i].op = r[1].op
    /\ \A i \in 1..Len(r) - 1 : r[i].sector + r[i].len = r[i + 1].sector
    /\ \A i \in 1..Len(r) : r[1].sector + r[i].len <= End(r)
    /\ \A s \in Nat : r[1].sector <= s /\ s < End(r) =>
          \E i \in 1..Len(r) : r[i].sector <= s /\ s < r[i].sector + r[i].len

\* A client's bio lies in what the client has open; the kernel reads the boot record.
Owned(b) ==
    /\ b.client = Scan => b.op = "read" /\ b.sector = 0 /\ b.len = 1
    /\ b.client # Scan =>
          /\ opened[b.client] \in Devices
          /\ Extent(opened[b.client]).start <= b.sector
          /\ b.sector + b.len <= Extent(opened[b.client]).start + Extent(opened[b.client]).length

RequestInv == \A r \in queue : Shape(r) /\ \A i \in 1..Len(r) : Owned(r[i])

LEMMA Ends ==
    ASSUME NEW r \in Seq(DiskBio), Len(r) >= 1
    PROVE  /\ Head(r) = r[1] /\ Start(r) = r[1].sector
           /\ End(r) = r[Len(r)].sector + r[Len(r)].len
           /\ Bios(r) = {r[i] : i \in 1..Len(r)}
BY DEF Start, End, Last, Bios, Range

LEMMA Extents ==
    /\ \A p \in Devices : /\ Extent(p).start \in Nat /\ Extent(p).length \in Nat
                          /\ Extent(p).start + Extent(p).length <= NSECTORS
                          /\ SectorsOf(p) = Extent(p).start .. Extent(p).start + Extent(p).length - 1
    /\ \A p, q \in Partitions : p # q => SectorsOf(p) \cap SectorsOf(q) = {}
    /\ NSECTORS \in Nat /\ 1 <= NSECTORS
BY DEF Extent, SectorsOf, Devices, Partitions, DefPartTable, NSECTORS

LEMMA SingleShape == ASSUME NEW b \in DiskBio PROVE Shape(<<b>>)
<1>1. <<b>> \in Seq(DiskBio) /\ Len(<<b>>) = 1 /\ <<b>>[1] = b
  OBVIOUS
<1>2. End(<<b>>) = b.sector + b.len
  BY DEF End, Last
<1> QED BY <1>1, <1>2, ClientsAssumption DEF Shape, DiskBio

LEMMA AppendShape ==
    ASSUME NEW r, Shape(r), NEW b \in DiskBio,
           End(r) = b.sector, Head(r).op = b.op, Len(r) < MaxSegments
    PROVE  Shape(Append(r, b))
<1> DEFINE q == Append(r, b)
<1>1. /\ r \in Seq(DiskBio) /\ Len(r) \in 1..MaxSegments
      /\ Head(r) = r[1] /\ End(r) = r[Len(r)].sector + r[Len(r)].len
  BY Ends DEF Shape
<1>2. /\ q \in Seq(DiskBio) /\ Len(q) = Len(r) + 1
      /\ q[Len(r) + 1] = b /\ \A i \in 1..Len(r) : q[i] = r[i]
  BY <1>1
<1> HIDE DEF q
<1>3. q[Len(q)] = b /\ q[1] = r[1] /\ End(q) = b.sector + b.len
  BY <1>1, <1>2 DEF End, Last
<1>4. b.sector \in Nat /\ b.len \in Nat /\ b.len >= 1 /\ r[1].sector \in Nat
  BY <1>1 DEF DiskBio
<1>5. \A i \in 1..Len(r) : r[i].sector \in Nat /\ r[i].len \in Nat
  BY <1>1 DEF DiskBio
<1>6. r[1].sector <= b.sector
  BY <1>1, <1>4, <1>5 DEF Shape
<1>7. \A i \in 1..Len(q) : q[i].op = q[1].op
  BY <1>1, <1>2 DEF Shape
<1>8. \A i \in 1..Len(q) - 1 : q[i].sector + q[i].len = q[i + 1].sector
  <2> SUFFICES ASSUME NEW i \in 1..Len(r) PROVE q[i].sector + q[i].len = q[i + 1].sector
    BY <1>1, <1>2
  <2>1. CASE i = Len(r)
    BY <2>1, <1>1, <1>2
  <2>2. CASE i # Len(r)
    BY <2>2, <1>1, <1>2 DEF Shape
  <2> QED BY <2>1, <2>2
<1>9. \A i \in 1..Len(q) : q[1].sector + q[i].len <= End(q)
  <2> SUFFICES ASSUME NEW i \in 1..Len(q) PROVE q[1].sector + q[i].len <= End(q)
    OBVIOUS
  <2>1. CASE i = Len(q)
    <3>1. q[i] = b
      BY <2>1, <1>3
    <3> QED BY <3>1, <1>3, <1>4, <1>6
  <2>2. CASE i # Len(q)
    <3>1. i \in 1..Len(r) /\ q[i] = r[i] /\ q[1] = r[1]
      BY <2>2, <1>1, <1>2
    <3>2. r[1].sector + r[i].len <= b.sector
      BY <3>1 DEF Shape
    <3> QED BY <3>1, <3>2, <1>3, <1>4, <1>5
  <2> QED BY <2>1, <2>2
<1>10. ASSUME NEW s \in Nat, q[1].sector <= s, s < End(q)
       PROVE  \E i \in 1..Len(q) : q[i].sector <= s /\ s < q[i].sector + q[i].len
  <2>1. CASE s < b.sector
    <3>1. PICK i \in 1..Len(r) : r[i].sector <= s /\ s < r[i].sector + r[i].len
      BY <2>1, <1>1, <1>2, <1>10 DEF Shape
    <3> QED BY <3>1, <1>1, <1>2
  <2>2. CASE b.sector <= s
    <3>1. Len(q) \in 1..Len(q)
      BY <1>1, <1>2
    <3> QED BY <2>2, <3>1, <1>3, <1>10
  <2> QED BY <2>1, <2>2, <1>4
<1>11. Shape(q)
  BY ClientsAssumption, <1>1, <1>2, <1>7, <1>8, <1>9, <1>10 DEF Shape
<1> QED BY <1>11 DEF q

LEMMA PrependShape ==
    ASSUME NEW r, Shape(r), NEW b \in DiskBio,
           b.sector + b.len = Start(r), Head(r).op = b.op, Len(r) < MaxSegments
    PROVE  Shape(<<b>> \o r)
<1> DEFINE q == <<b>> \o r
<1>1. /\ r \in Seq(DiskBio) /\ Len(r) \in 1..MaxSegments
      /\ Head(r) = r[1] /\ Start(r) = r[1].sector /\ End(r) = r[Len(r)].sector + r[Len(r)].len
  BY Ends DEF Shape
<1>2. /\ q \in Seq(DiskBio) /\ Len(q) = Len(r) + 1
      /\ q[1] = b /\ \A i \in 1..Len(r) : q[i + 1] = r[i]
  BY <1>1
<1> HIDE DEF q
<1>3. End(q) = End(r)
  BY <1>1, <1>2 DEF End, Last
<1>4. /\ b.sector \in Nat /\ b.len \in Nat /\ b.len >= 1
      /\ \A i \in 1..Len(r) : r[i].sector \in Nat /\ r[i].len \in Nat
  BY <1>1 DEF DiskBio
<1>5. r[1].sector <= End(r) /\ End(r) \in Nat
  BY <1>1, <1>4 DEF Shape
<1>6. \A i \in 1..Len(q) : i = 1 \/ (i - 1 \in 1..Len(r) /\ q[i] = r[i - 1])
  BY <1>1, <1>2
<1>7. \A i \in 1..Len(q) : q[i].op = q[1].op
  BY <1>1, <1>2, <1>6 DEF Shape
<1>8. \A i \in 1..Len(q) - 1 : q[i].sector + q[i].len = q[i + 1].sector
  <2> SUFFICES ASSUME NEW i \in 1..Len(r) PROVE q[i].sector + q[i].len = q[i + 1].sector
    BY <1>1, <1>2
  <2>1. CASE i = 1
    BY <2>1, <1>1, <1>2
  <2>2. CASE i # 1
    <3>1. i - 1 \in 1..Len(r) - 1 /\ q[i] = r[i - 1] /\ q[i + 1] = r[i] /\ (i - 1) + 1 = i
      BY <2>2, <1>1, <1>2, <1>6
    <3> QED BY <3>1 DEF Shape
  <2> QED BY <2>1, <2>2
<1>9. \A i \in 1..Len(q) : q[1].sector + q[i].len <= End(q)
  <2> SUFFICES ASSUME NEW i \in 1..Len(q) PROVE q[1].sector + q[i].len <= End(q)
    OBVIOUS
  <2>1. CASE i = 1
    BY <2>1, <1>1, <1>2, <1>3, <1>4, <1>5
  <2>2. CASE i # 1
    <3>1. i - 1 \in 1..Len(r) /\ q[i] = r[i - 1]
      BY <2>2, <1>6
    <3>2. r[1].sector + r[i - 1].len <= End(r)
      BY <3>1 DEF Shape
    <3>3. r[i - 1].len \in Nat /\ r[1].sector = b.sector + b.len
      BY <3>1, <1>1, <1>4
    <3> QED BY <3>1, <3>2, <3>3, <1>2, <1>3, <1>4, <1>5
  <2> QED BY <2>1, <2>2
<1>10. ASSUME NEW s \in Nat, q[1].sector <= s, s < End(q)
       PROVE  \E i \in 1..Len(q) : q[i].sector <= s /\ s < q[i].sector + q[i].len
  <2>1. CASE s < r[1].sector
    BY <2>1, <1>1, <1>2, <1>10
  <2>2. CASE r[1].sector <= s
    <3>1. PICK i \in 1..Len(r) : r[i].sector <= s /\ s < r[i].sector + r[i].len
      BY <2>2, <1>3, <1>10 DEF Shape
    <3>2. i + 1 \in 1..Len(q) /\ q[i + 1] = r[i]
      BY <1>1, <1>2
    <3> QED BY <3>1, <3>2
  <2> QED BY <2>1, <2>2, <1>1, <1>4
<1>11. Shape(q)
  BY ClientsAssumption, <1>1, <1>2, <1>7, <1>8, <1>9, <1>10 DEF Shape
<1> QED BY <1>11 DEF q

\* Whatever the block layer merges, the request has its shape and holds its bios.
LEMMA QueuedShape ==
    ASSUME RequestInv, NEW b \in DiskBio, NEW new \in Queued(b), NEW q \in new
    PROVE  /\ Shape(q)
           /\ \A i \in 1..Len(q) : q[i] = b \/ \E r \in queue : \E k \in 1..Len(r) : q[i] = r[k]
<1>1. CASE q \in queue
  BY <1>1 DEF RequestInv
<1>2. CASE q = <<b>>
  BY <1>2, SingleShape
<1>3. ASSUME NEW r \in queue, q = Append(r, b),
             End(r) = b.sector, Head(r).op = b.op, Len(r) < MaxSegments
      PROVE  /\ Shape(q)
             /\ \A i \in 1..Len(q) : q[i] = b \/ \E k \in 1..Len(r) : q[i] = r[k]
  <2>1. Shape(r) /\ r \in Seq(DiskBio)
    BY DEF RequestInv, Shape
  <2> QED BY <1>3, <2>1, AppendShape
<1>4. ASSUME NEW r \in queue, q = <<b>> \o r,
             b.sector + b.len = Start(r), Head(r).op = b.op, Len(r) < MaxSegments
      PROVE  /\ Shape(q)
             /\ \A i \in 1..Len(q) : q[i] = b \/ \E k \in 1..Len(r) : q[i] = r[k]
  <2>1. Shape(r) /\ r \in Seq(DiskBio)
    BY DEF RequestInv, Shape
  <2>2. \A i \in 1..Len(q) : i = 1 \/ (i - 1 \in 1..Len(r) /\ q[i] = r[i - 1])
    BY <1>4, <2>1
  <2> QED BY <1>4, <2>1, <2>2, PrependShape
<1> QED BY <1>1, <1>2, <1>3, <1>4 DEF Queued

-----------------------------------------------------------------------------
(* The invariant *)

\* The variables' ranges.
Places == {"unloaded", "register_blkdev", "blk_init_queue", "alloc_disk", "add_disk", "scanning",
           "live", "blk_cleanup_queue", "vfree", "unregister_blkdev", "failed", "oops"}

RangeInv ==
    /\ pc \in Places
    /\ held \subseteq {"memory", "major", "queue", "disk"}
    /\ capacity \in {0, NSECTORS}
    /\ DOMAIN dev_data = Tracked
    /\ partitions \in {{}, Partitions}
    /\ opened \in [Clients -> Devices \cup {Closed}]
    /\ DOMAIN got = Clients \cup {Scan}

FlagInv == plugged \in BOOLEAN /\ running \in BOOLEAN

\* What the module holds by the time it gets somewhere.
HeldInv ==
    /\ pc \in {"register_blkdev", "blk_init_queue", "alloc_disk", "add_disk", "scanning", "live",
               "blk_cleanup_queue", "vfree"} => "memory" \in held
    /\ pc \in {"blk_init_queue", "alloc_disk", "add_disk", "scanning", "live",
               "blk_cleanup_queue"} => "major" \in held
    /\ pc \in {"alloc_disk", "add_disk", "scanning", "live", "blk_cleanup_queue"} => "queue" \in held
    /\ pc \in {"scanning", "live"} => "disk" \in held

\* When the disk is open, and when there may be requests.
UseInv ==
    /\ \A c \in Clients : opened[c] # Closed => pc \in {"scanning", "live"}
    /\ queue # {} \/ running => pc \in {"scanning", "live", "blk_cleanup_queue"}
    /\ plugged => queue # {} /\ ~running

\* The scan finds the table unless somebody has overwritten it.
FoundInv ==
    /\ pc = "add_disk" => capacity = NSECTORS
    /\ pc = "scanning" /\ dev_data[0] = Mbr /\ ~Waiting(Scan) => got[Scan] = <<Mbr>>
    /\ PartitionsFound

DiskIInv == RangeInv /\ FlagInv /\ HeldInv /\ UseInv /\ RequestInv /\ FoundInv

LEMMA Tracks0 == 0 \in Tracked
BY DEF Tracked, SectorsOf, Extent, NSECTORS, Partitions, DefPartTable

LEMMA OpenDevices == \A d \in Devices : d # Closed
BY JobsAssumption

-----------------------------------------------------------------------------
(* Loading and unloading *)

LEMMA LoadStepInv ==
    ASSUME DiskIInv, Vmalloc \/ RegisterBlkdev \/ BlkInitQueue \/ AllocDisk
    PROVE  DiskIInv'
<1>1. UNCHANGED <<partitions, opened, queue, plugged, running, got>>
  BY DEF Vmalloc, RegisterBlkdev, BlkInitQueue, AllocDisk, queueVars
<1>2. RangeInv' /\ HeldInv'
  <2>1. CASE Vmalloc
    BY <1>1, <2>1 DEF Vmalloc, DiskIInv, RangeInv, HeldInv, Places
  <2>2. CASE RegisterBlkdev
    BY <1>1, <2>2 DEF RegisterBlkdev, DiskIInv, RangeInv, HeldInv, Places
  <2>3. CASE BlkInitQueue
    BY <1>1, <2>3 DEF BlkInitQueue, DiskIInv, RangeInv, HeldInv, Places
  <2>4. CASE AllocDisk
    BY <1>1, <2>4 DEF AllocDisk, DiskIInv, RangeInv, HeldInv, Places
  <2> QED BY <2>1, <2>2, <2>3, <2>4
<1>3. FlagInv'
  BY <1>1 DEF DiskIInv, FlagInv
<1>4. /\ pc \notin {"scanning", "live", "blk_cleanup_queue"} /\ pc' \notin {"scanning", "live"}
      /\ pc' = "add_disk" => capacity' = NSECTORS
  BY DEF Vmalloc, RegisterBlkdev, BlkInitQueue, AllocDisk
<1>5. UseInv' /\ FoundInv'
  BY <1>1, <1>4 DEF DiskIInv, UseInv, FoundInv, PartitionsFound
<1>6. RequestInv'
  BY <1>1 DEF DiskIInv, RequestInv, Owned
<1> QED BY <1>2, <1>3, <1>5, <1>6 DEF DiskIInv

LEMMA AddDiskInv == ASSUME DiskIInv, AddDisk PROVE DiskIInv'
<1> DEFINE b == [client |-> Scan, op |-> "read", sector |-> 0, len |-> 1]
<1>1. /\ pc = "add_disk" /\ capacity = NSECTORS /\ capacity # 0
      /\ queue = {} /\ ~running
  BY Extents DEF AddDisk, DiskIInv, FoundInv, UseInv
<1>2. /\ pc' = "scanning" /\ held' = held \cup {"disk"}
      /\ queue' = {<<b>>} /\ plugged' = TRUE
      /\ UNCHANGED <<running, capacity, partitions, dev_data, opened, got>>
  BY <1>1 DEF AddDisk
<1>3. RangeInv' /\ HeldInv'
  BY <1>1, <1>2 DEF DiskIInv, RangeInv, HeldInv, Places
<1>4. FlagInv' /\ UseInv'
  BY <1>1, <1>2 DEF DiskIInv, FlagInv, UseInv
<1>5. b \in DiskBio
  <2>1. b \in [client : Clients \cup {Scan}, op : {"read", "write"}, sector : Nat, len : Nat]
        /\ b.len >= 1 /\ b.sector + b.len <= NSECTORS
    BY Extents
  <2>2. TrackedBio(b)
    BY Tracks0 DEF TrackedBio
  <2> QED BY <2>1, <2>2 DEF DiskBio
<1>6. Shape(<<b>>) /\ Len(<<b>>) = 1 /\ <<b>>[1] = b
  BY <1>5, SingleShape
<1>7. RequestInv'
  <2>1. b.client = Scan /\ b.op = "read" /\ b.sector = 0 /\ b.len = 1
    OBVIOUS
  <2> HIDE DEF b
  <2> SUFFICES ASSUME NEW r \in queue'
               PROVE  Shape(r) /\ \A i \in 1..Len(r) : Owned(r[i])'
    BY DEF RequestInv
  <2>2. r = <<b>>
    BY <1>2
  <2>3. ASSUME NEW i \in 1..Len(r) PROVE r[i] = b
    BY <2>2
  <2> QED BY <1>6, <2>1, <2>2, <2>3 DEF Owned
<1>8. Waiting(Scan)'
  <2>1. <<b>> \in queue' /\ b \in Bios(<<b>>) /\ b.client = Scan
    BY <1>2 DEF Bios, Range
  <2> QED BY <2>1 DEF Waiting
<1>9. FoundInv'
  BY <1>2, <1>8 DEF FoundInv, PartitionsFound
<1> QED BY <1>3, <1>4, <1>7, <1>9 DEF DiskIInv

LEMMA ScannedInv == ASSUME DiskIInv, Scanned PROVE DiskIInv'
<1>1. /\ pc = "scanning" /\ pc' = "live"
      /\ partitions' = IF got[Scan] = <<Mbr>> THEN Partitions ELSE {}
      /\ UNCHANGED <<held, capacity, dev_data, opened, queue, plugged, running, got>>
  BY DEF Scanned, queueVars
<1>2. RangeInv' /\ HeldInv'
  BY <1>1 DEF DiskIInv, RangeInv, HeldInv, Places
<1>3. FlagInv' /\ UseInv'
  BY <1>1 DEF DiskIInv, FlagInv, UseInv
<1>4. RequestInv'
  BY <1>1 DEF DiskIInv, RequestInv, Owned
<1>5. FoundInv'
  BY <1>1 DEF Scanned, DiskIInv, FoundInv, PartitionsFound
<1> QED BY <1>2, <1>3, <1>4, <1>5 DEF DiskIInv

\* Who unloads has found nobody with the disk open.
LEMMA NobodyOpen == ASSUME ModuleRefs = 0, NEW c \in Clients PROVE opened[c] = Closed
<1> DEFINE users == {d \in Clients : opened[d] # Closed}
<1>1. IsFiniteSet(users)
  BY ClientsAssumption, FS_Subset
<1>2. users = {}
  BY <1>1, FS_EmptySet DEF ModuleRefs
<1> QED BY <1>2

LEMMA UnloadInv == ASSUME DiskIInv, Unload PROVE DiskIInv'
<1>1. UNCHANGED <<opened, queue, plugged, running, got>>
  BY DEF Unload, DelGendisk, BlkCleanupQueue, Vfree, UnregisterBlkdev, queueVars
<1>2. RangeInv' /\ HeldInv'
  <2>1. CASE DelGendisk
    BY <1>1, <2>1 DEF DelGendisk, DiskIInv, RangeInv, HeldInv, Places
  <2>2. CASE BlkCleanupQueue
    BY <1>1, <2>2 DEF BlkCleanupQueue, DiskIInv, RangeInv, HeldInv, Places
  <2>3. CASE Vfree
    BY <1>1, <2>3 DEF Vfree, DiskIInv, RangeInv, HeldInv, Places
  <2>4. CASE UnregisterBlkdev
    BY <1>1, <2>4 DEF UnregisterBlkdev, DiskIInv, RangeInv, HeldInv, Places
  <2> QED BY <2>1, <2>2, <2>3, <2>4 DEF Unload
<1>3. FlagInv'
  BY <1>1 DEF DiskIInv, FlagInv
<1>4. UseInv'
  <2>1. CASE DelGendisk
    BY <1>1, <2>1, NobodyOpen DEF DelGendisk, DiskIInv, UseInv
  <2>2. CASE BlkCleanupQueue
    BY <1>1, <2>2 DEF BlkCleanupQueue, DiskIInv, UseInv
  <2>3. CASE Vfree \/ UnregisterBlkdev
    BY <1>1, <2>3 DEF Vfree, UnregisterBlkdev, DiskIInv, UseInv
  <2> QED BY <2>1, <2>2, <2>3 DEF Unload
<1>5. pc' \notin {"add_disk", "scanning", "live"}
  BY DEF Unload, DelGendisk, BlkCleanupQueue, Vfree, UnregisterBlkdev
<1>6. FoundInv'
  BY <1>5 DEF FoundInv, PartitionsFound
<1>7. RequestInv'
  BY <1>1 DEF DiskIInv, RequestInv, Owned
<1> QED BY <1>2, <1>3, <1>4, <1>6, <1>7 DEF DiskIInv

-----------------------------------------------------------------------------
(* The clients *)

LEMMA OpenInv ==
    ASSUME DiskIInv, NEW c \in Clients, NEW part \in Devices, Open(c, part)
    PROVE  DiskIInv'
<1>1. /\ pc \in {"scanning", "live"} /\ opened[c] = Closed
      /\ opened' = [opened EXCEPT ![c] = part]
      /\ UNCHANGED <<pc, held, capacity, partitions, dev_data, queue, plugged, running, got>>
  BY DEF Open, loadVars, queueVars
<1>2. RangeInv' /\ HeldInv'
  BY <1>1 DEF DiskIInv, RangeInv, HeldInv
<1>3. FlagInv' /\ UseInv'
  BY <1>1 DEF DiskIInv, FlagInv, UseInv
<1>4. FoundInv'
  BY <1>1 DEF DiskIInv, FoundInv, PartitionsFound, Waiting
<1>5. RequestInv'
  <2> SUFFICES ASSUME NEW r \in queue, NEW i \in 1..Len(r) PROVE Owned(r[i])'
    BY <1>1 DEF DiskIInv, RequestInv
  <2>1. Owned(r[i]) /\ r[i].client \in Clients \cup {Scan}
    <3>1. Owned(r[i]) /\ r \in Seq(DiskBio)
      BY DEF DiskIInv, RequestInv, Shape
    <3> QED BY <3>1 DEF DiskBio
  <2>2. r[i].client # Scan => r[i].client # c
    BY <1>1, <2>1, OpenDevices DEF Owned
  <2>3. r[i].client # Scan => opened'[r[i].client] = opened[r[i].client]
    BY <1>1, <2>1, <2>2 DEF DiskIInv, RangeInv
  <2> QED BY <2>1, <2>3 DEF Owned
<1> QED BY <1>2, <1>3, <1>4, <1>5 DEF DiskIInv

LEMMA CloseInv == ASSUME DiskIInv, NEW c \in Clients, Close(c) PROVE DiskIInv'
<1>1. /\ opened' = [opened EXCEPT ![c] = Closed] /\ got' = [got EXCEPT ![c] = <<>>]
      /\ ~Waiting(c)
      /\ UNCHANGED <<pc, held, capacity, partitions, dev_data, queue, plugged, running>>
  BY DEF Close, loadVars, queueVars
<1>2. RangeInv' /\ HeldInv'
  BY <1>1 DEF DiskIInv, RangeInv, HeldInv
<1>3. FlagInv' /\ UseInv'
  BY <1>1 DEF DiskIInv, FlagInv, UseInv, RangeInv
<1>4. FoundInv'
  <2>1. got'[Scan] = got[Scan]
    BY <1>1, ClientsAssumption DEF DiskIInv, RangeInv
  <2> QED BY <1>1, <2>1 DEF DiskIInv, FoundInv, PartitionsFound, Waiting
<1>5. RequestInv'
  <2> SUFFICES ASSUME NEW r \in queue, NEW i \in 1..Len(r) PROVE Owned(r[i])'
    BY <1>1 DEF DiskIInv, RequestInv
  <2>1. Owned(r[i]) /\ Shape(r) /\ r \in Seq(DiskBio)
    BY DEF DiskIInv, RequestInv, Shape
  <2>2. r[i] \in Bios(r) /\ r[i].client \in Clients \cup {Scan}
    BY <2>1 DEF Bios, Range, DiskBio
  <2>3. r[i].client # Scan => r[i].client # c
    BY <1>1, <2>2 DEF Waiting
  <2>4. r[i].client # Scan => opened'[r[i].client] = opened[r[i].client]
    BY <1>1, <2>2, <2>3 DEF DiskIInv, RangeInv
  <2> QED BY <2>1, <2>4 DEF Owned
<1> QED BY <1>2, <1>3, <1>4, <1>5 DEF DiskIInv

\* The bio of a job.
BioOf(c, j) ==
    [client |-> c, op |-> j.op, sector |-> Extent(j.part).start + j.first, len |-> j.len]

LEMMA SubmittedBio ==
    ASSUME DiskIInv, NEW c \in Clients, NEW j \in Jobs, Submit(c, j)
    PROVE  /\ BioOf(c, j) \in DiskBio /\ BioOf(c, j).client = c /\ Owned(BioOf(c, j))
           /\ ~Waiting(c) /\ queue' \in Queued(BioOf(c, j))
<1> DEFINE b == [client |-> c, op |-> j.op, sector |-> Extent(j.part).start + j.first, len |-> j.len]
<1>1. /\ opened[c] = j.part /\ b.sector + b.len <= capacity
      /\ j.part \in Partitions => j.first + j.len <= Extent(j.part).length
      /\ queue' \in Queued(b) /\ ~Waiting(c)
  BY DEF Submit
<1>2. /\ j.part \in Devices /\ j.op \in {"read", "write"} /\ j.first \in Nat /\ j.len \in Nat
      /\ j.len >= 1 /\ c # Scan /\ capacity <= NSECTORS
  BY JobsAssumption, ClientsAssumption, Extents DEF DiskIInv, RangeInv
<1>3. Extent(j.part).start \in Nat /\ Extent(j.part).length \in Nat /\ NSECTORS \in Nat
  BY <1>2, Extents
<1>4. b \in DiskBio
  <2>1. b.sector \in Nat /\ b.len \in Nat /\ capacity \in Nat
    BY <1>2, <1>3 DEF DiskIInv, RangeInv
  <2>2. ASSUME NEW s \in Nat, b.sector <= s, s < b.sector + b.len
        PROVE  s \in Tracked
    <3>1. s \in SectorsOf("dof")
      <4>1. SectorsOf("dof") = 0 .. NSECTORS - 1
        <5>1. "dof" \notin Partitions
          BY DEF Partitions, DefPartTable
        <5>2. Extent("dof") = [start |-> 0, length |-> NSECTORS]
          BY <5>1 DEF Extent
        <5> QED BY <1>3, <5>2 DEF SectorsOf
      <4> QED BY <1>1, <1>2, <1>3, <2>1, <2>2, <4>1
    <3>2. s - b.sector \in 0..j.len - 1 /\ s = Extent(j.part).start + j.first + (s - b.sector)
      BY <1>2, <1>3, <2>1, <2>2
    <3>3. s \in {Extent(j.part).start + j.first + i : i \in 0..j.len - 1}
      BY <3>2
    <3> QED BY <3>1, <3>3 DEF Tracked
  <2>3. TrackedBio(b)
    BY <2>2 DEF TrackedBio
  <2> QED BY <1>1, <1>2, <1>3, <2>1, <2>3 DEF DiskBio
<1>5. Owned(b)
  <2>1. CASE j.part \in Partitions
    BY <1>1, <1>2, <1>3, <2>1 DEF Owned
  <2>2. CASE j.part \notin Partitions
    <3>1. Extent(j.part).start = 0 /\ Extent(j.part).length = NSECTORS
      BY <2>2 DEF Extent
    <3>2. b.sector + b.len <= NSECTORS
      BY <1>4 DEF DiskBio
    <3> QED BY <3>1, <3>2, <1>1, <1>2, <1>3 DEF Owned
  <2> QED BY <2>1, <2>2
<1> QED BY <1>1, <1>4, <1>5 DEF BioOf

LEMMA SubmitInv ==
    ASSUME DiskIInv, NEW c \in Clients, NEW j \in Jobs, Submit(c, j)
    PROVE  DiskIInv'
<1> DEFINE b == BioOf(c, j)
<1>1. /\ ~running /\ opened[c] = j.part /\ plugged' = TRUE
      /\ UNCHANGED <<pc, held, capacity, partitions, dev_data, opened, running, got>>
  BY DEF Submit, loadVars
<1>2. j.part \in Devices
  BY JobsAssumption
<1>3. b \in DiskBio /\ Owned(b) /\ queue' \in Queued(b)
  BY SubmittedBio
<1>4. pc \in {"scanning", "live"} /\ opened[c] # Closed
  BY <1>1, <1>2, OpenDevices DEF DiskIInv, UseInv
<1>5. RangeInv' /\ HeldInv'
  BY <1>1 DEF DiskIInv, RangeInv, HeldInv
<1>6. queue' # {}
  BY <1>3 DEF Queued
<1>7. FlagInv' /\ UseInv'
  BY <1>1, <1>4, <1>6 DEF DiskIInv, FlagInv, UseInv
<1> HIDE DEF b
<1>8. RequestInv'
  <2> SUFFICES ASSUME NEW q \in queue' PROVE Shape(q) /\ \A i \in 1..Len(q) : Owned(q[i])'
    BY DEF RequestInv
  <2>1. RequestInv
    BY DEF DiskIInv
  <2>2. /\ Shape(q)
        /\ \A i \in 1..Len(q) : q[i] = b \/ \E r \in queue : \E k \in 1..Len(r) : q[i] = r[k]
    BY <1>3, <2>1, QueuedShape
  <2>3. \A i \in 1..Len(q) : Owned(q[i])
    BY <1>3, <2>1, <2>2 DEF RequestInv
  <2> QED BY <1>1, <2>2, <2>3 DEF Owned
<1>9. Waiting(Scan) => Waiting(Scan)'
  <2> SUFFICES ASSUME NEW r \in queue, NEW d \in Bios(r), d.client = Scan
               PROVE  \E q \in queue' : d \in Bios(q)
    BY DEF Waiting
  <2>1. CASE r \in queue'
    BY <2>1
  <2>2. CASE Append(r, b) \in queue'
    <3>1. r \in Seq(DiskBio)
      BY DEF DiskIInv, RequestInv, Shape
    <3>2. PICK i \in 1..Len(r) : r[i] = d
      BY <3>1 DEF Bios, Range
    <3>3. i \in DOMAIN Append(r, b) /\ Append(r, b)[i] = d
      BY <3>1, <3>2
    <3> QED BY <2>2, <3>3 DEF Bios, Range
  <2>3. CASE (<<b>> \o r) \in queue'
    <3>1. r \in Seq(DiskBio)
      BY DEF DiskIInv, RequestInv, Shape
    <3>2. PICK i \in 1..Len(r) : r[i] = d
      BY <3>1 DEF Bios, Range
    <3>3. i + 1 \in DOMAIN (<<b>> \o r) /\ (<<b>> \o r)[i + 1] = d
      BY <3>1, <3>2
    <3> QED BY <2>3, <3>3 DEF Bios, Range
  <2> QED BY <1>3, <2>1, <2>2, <2>3 DEF Queued
<1>10. FoundInv'
  BY <1>1, <1>9 DEF DiskIInv, FoundInv, PartitionsFound
<1> QED BY <1>5, <1>7, <1>8, <1>10 DEF DiskIInv

LEMMA UnplugInv == ASSUME DiskIInv, Unplug PROVE DiskIInv'
<1>1. /\ plugged /\ ~running /\ plugged' = FALSE /\ running' = TRUE
      /\ UNCHANGED <<pc, held, capacity, partitions, dev_data, opened, queue, got>>
  BY DEF Unplug, loadVars
<1>2. RangeInv' /\ HeldInv'
  BY <1>1 DEF DiskIInv, RangeInv, HeldInv
<1>3. FlagInv' /\ UseInv'
  BY <1>1 DEF DiskIInv, FlagInv, UseInv
<1>4. FoundInv'
  BY <1>1 DEF DiskIInv, FoundInv, PartitionsFound, Waiting
<1>5. RequestInv'
  BY <1>1 DEF DiskIInv, RequestInv, Owned
<1> QED BY <1>2, <1>3, <1>4, <1>5 DEF DiskIInv

-----------------------------------------------------------------------------
(* mydisk_request *)

\* Every segment that reaches a sector reaches the first, and the last of them wins.
LEMMA FirstSector ==
    ASSUME NEW r, Shape(r), Reaching(r, 0) # {}
    PROVE  Start(r) = 0 /\ Max(Reaching(r, 0)) \in 1..Len(r)
<1>1. /\ r \in Seq(DiskBio) /\ Len(r) \in Nat /\ Len(r) >= 1 /\ DOMAIN r = 1..Len(r)
      /\ Start(r) = r[1].sector
  BY Ends DEF Shape
<1>2. \A i \in 1..Len(r) : r[i].sector \in Nat /\ r[i].len \in Nat /\ r[i].len >= 1
  BY <1>1 DEF DiskBio
<1>3. PICK i \in 1..Len(r) : 0 - Start(r) \in Sectors(r[i])
  BY <1>1 DEF Reaching
<1>4. Start(r) = 0
  BY <1>1, <1>2, <1>3 DEF Sectors
<1>5. Reaching(r, 0) = 1..Len(r)
  BY <1>1, <1>2, <1>4 DEF Reaching, Sectors
<1>6. Len(r) \in 1..Len(r) /\ \A y \in 1..Len(r) : Len(r) >= y
  BY <1>1
<1>7. Max(1..Len(r)) \in 1..Len(r)
  BY <1>6 DEF Max
<1> QED BY <1>4, <1>5, <1>7

\* Once overwritten, the boot record is not written again.
LEMMA BootRecordStays ==
    ASSUME DiskIInv, NEW r \in queue, Head(r).op = "write", Written(r)[0] = Mbr
    PROVE  dev_data[0] = Mbr
<1>1. Shape(r) /\ r \in Seq(DiskBio) /\ Head(r) = r[1] /\ \A i \in 1..Len(r) : Owned(r[i])
  BY Ends DEF DiskIInv, RequestInv, Shape
<1>2. SUFFICES ASSUME Reaching(r, 0) # {} PROVE FALSE
  BY Tracks0 DEF Written
<1> DEFINE i == Max(Reaching(r, 0))
<1>3. Start(r) = 0 /\ i \in 1..Len(r)
  BY <1>1, <1>2, FirstSector
<1>4. r[i].client # Scan /\ r[i].client \in Clients
  <2>1. r[i].op = "write" /\ r[i] \in DiskBio /\ Owned(r[i])
    BY <1>1, <1>3 DEF Shape
  <2> QED BY <2>1 DEF Owned, DiskBio
<1>5. Written(r)[0] = <<r[i].client, 0 - Start(r)>>
  BY <1>2, Tracks0 DEF Written
<1>6. r[i].client = "mbr"
  BY <1>5 DEF Mbr
<1> QED BY <1>4, <1>6, ClientsAssumption

\* The kernel gets the first sector.
LEMMA ScanRead ==
    ASSUME DiskIInv, NEW r \in queue, Head(r).op = "read",
           NEW d \in Bios(r), d.client = Scan
    PROVE  Read(r)[Scan] = <<dev_data[0]>>
<1>1. /\ Shape(r) /\ r \in Seq(DiskBio) /\ \A i \in 1..Len(r) : Owned(r[i])
      /\ Len(r) \in Nat /\ Len(r) >= 1 /\ Start(r) = r[1].sector
      /\ Bios(r) = {r[i] : i \in 1..Len(r)}
  BY Ends DEF DiskIInv, RequestInv, Shape
<1> DEFINE b == CHOOSE b \in Bios(r) : b.client = Scan
<1>2. b \in Bios(r) /\ b.client = Scan
  OBVIOUS
<1> HIDE DEF b
<1>3. PICK k \in 1..Len(r) : b = r[k]
  BY <1>1, <1>2
<1>4. b.sector = 0 /\ b.len = 1
  BY <1>1, <1>2, <1>3 DEF Owned
<1>5. k = 1
  <2> SUFFICES ASSUME k # 1 PROVE FALSE
    OBVIOUS
  <2>1. k - 1 \in 1..Len(r) - 1 /\ k - 1 \in 1..Len(r) /\ (k - 1) + 1 = k
    BY <1>1
  <2>2. r[k - 1].sector + r[k - 1].len = r[k].sector
    BY <1>1, <2>1 DEF Shape
  <2>3. r[k - 1] \in DiskBio
    BY <1>1, <2>1
  <2> QED BY <2>2, <2>3, <1>3, <1>4 DEF DiskBio
<1>6. Start(r) = 0
  BY <1>1, <1>3, <1>4, <1>5
<1>7. Read(r)[Scan] = [i \in 1..b.len |-> dev_data[Start(r) + i - 1]]
  BY DEF DiskIInv, RangeInv, Read, b
<1>8. [i \in 1..1 |-> dev_data[0 + i - 1]] = <<dev_data[0]>>
  OBVIOUS
<1> QED BY <1>4, <1>6, <1>7, <1>8

LEMMA MydiskRequestInv == ASSUME DiskIInv, MydiskRequest PROVE DiskIInv'
<1>1. PICK r \in queue : /\ MydiskTransfer(r) /\ queue' = queue \ {r}
                         /\ running' = Continues(queue')
  BY DEF MydiskRequest
<1>2. running /\ UNCHANGED <<pc, held, capacity, partitions, opened, plugged>>
  BY DEF MydiskRequest, loadVars
<1>3. DOMAIN dev_data' = Tracked /\ DOMAIN got' = DOMAIN got
  BY <1>1 DEF MydiskTransfer, Written, Read, DiskIInv, RangeInv
<1>4. RangeInv' /\ HeldInv'
  BY <1>2, <1>3 DEF DiskIInv, RangeInv, HeldInv
<1>5. FlagInv'
  BY <1>1, <1>2 DEF DiskIInv, FlagInv, Continues
<1>6. UseInv'
  BY <1>1, <1>2 DEF DiskIInv, UseInv, FlagInv
<1>7. RequestInv'
  BY <1>1, <1>2 DEF DiskIInv, RequestInv, Owned
<1>8. dev_data'[0] = Mbr => dev_data[0] = Mbr
  BY <1>1, BootRecordStays DEF MydiskTransfer
<1>9. ASSUME pc = "scanning", dev_data'[0] = Mbr, ~Waiting(Scan)'
      PROVE  got'[Scan] = <<Mbr>>
  <2>1. CASE \E d \in Bios(r) : d.client = Scan
    <3>1. PICK d \in Bios(r) : d.client = Scan
      BY <2>1
    <3>2. Head(r).op = "read"
      <4>1. Shape(r) /\ r \in Seq(DiskBio) /\ Head(r) = r[1] /\ Bios(r) = {r[i] : i \in 1..Len(r)}
        BY Ends DEF DiskIInv, RequestInv, Shape
      <4>2. PICK i \in 1..Len(r) : d = r[i]
        BY <4>1, <3>1
      <4> QED BY <4>1, <4>2, <3>1 DEF Shape, DiskIInv, RequestInv, Owned
    <3>3. got' = Read(r)
      BY <1>1, <3>2 DEF MydiskTransfer
    <3> QED BY <3>1, <3>2, <3>3, <1>8, <1>9, ScanRead
  <2>2. CASE ~\E d \in Bios(r) : d.client = Scan
    <3>1. ~Waiting(Scan)
      BY <1>1, <1>9, <2>2 DEF Waiting
    <3>2. got'[Scan] = got[Scan]
      BY <1>1, <2>2 DEF MydiskTransfer, Read, DiskIInv, RangeInv
    <3> QED BY <3>1, <3>2, <1>8, <1>9 DEF DiskIInv, FoundInv
  <2> QED BY <2>1, <2>2
<1>10. FoundInv'
  BY <1>2, <1>8, <1>9 DEF DiskIInv, FoundInv, PartitionsFound
<1> QED BY <1>4, <1>5, <1>6, <1>7, <1>10 DEF DiskIInv

-----------------------------------------------------------------------------
LEMMA DiskInitInv == Init => DiskIInv
BY Extents DEF Init, DiskIInv, RangeInv, Places, FlagInv, HeldInv, UseInv, RequestInv, FoundInv,
               PartitionsFound

LEMMA DiskNextInv == DiskIInv /\ [DiskNext]_diskVars => DiskIInv'
<1> SUFFICES ASSUME DiskIInv, [DiskNext]_diskVars PROVE DiskIInv'
  OBVIOUS
<1>1. CASE Load
  BY <1>1, LoadStepInv, AddDiskInv, ScannedInv DEF Load
<1>2. CASE Unload
  BY <1>2, UnloadInv
<1>3. CASE \E c \in Clients : \/ \E part \in Devices : Open(c, part)
                            \/ Close(c)
                            \/ \E j \in Jobs : Submit(c, j)
  BY <1>3, OpenInv, CloseInv, SubmitInv
<1>4. CASE Unplug
  BY <1>4, UnplugInv
<1>5. CASE MydiskRequest
  BY <1>5, MydiskRequestInv
<1>6. CASE UNCHANGED diskVars
  BY <1>6 DEF diskVars, loadVars, queueVars, DiskIInv, RangeInv, FlagInv, HeldInv, UseInv,
              RequestInv, Owned, FoundInv, PartitionsFound, Waiting
<1> QED BY <1>1, <1>2, <1>3, <1>4, <1>5, <1>6 DEF DiskNext

\* The invariant of driver, block layer and clients.
THEOREM DiskInvariance == DiskSpec => []DiskIInv
BY DiskInitInv, DiskNextInv, PTL DEF DiskSpec

\* The disk keeps its ranges, and its requests their shape, for any clients and jobs.
THEOREM DiskTypes == DiskSpec => []DiskTypeOK
<1>1. DiskIInv => DiskTypeOK
  <2> SUFFICES ASSUME DiskIInv PROVE DiskTypeOK
    OBVIOUS
  <2>1. ASSUME NEW r \in queue
        PROVE  /\ Len(r) \in 1..MaxSegments
               /\ \A i \in DOMAIN r : r[i].client \in Clients \cup {Scan} /\ r[i].op = Head(r).op
               /\ \A i \in 1..Len(r) - 1 : r[i].sector + r[i].len = r[i + 1].sector
    <3>1. Shape(r) /\ r \in Seq(DiskBio) /\ Len(r) >= 1
      BY DEF DiskIInv, RequestInv, Shape
    <3>2. DOMAIN r = 1..Len(r) /\ Head(r) = r[1]
      BY <3>1, Ends
    <3>3. \A i \in 1..Len(r) : r[i].client \in Clients \cup {Scan}
      BY <3>1 DEF DiskBio
    <3> QED BY <3>1, <3>2, <3>3 DEF Shape
  <2>2. \A c \in Clients : opened[c] \in Devices \cup {Closed}
    BY DEF DiskIInv, RangeInv
  <2>3. plugged \in BOOLEAN /\ running \in BOOLEAN
    BY Zenon DEF DiskIInv, FlagInv
  <2> QED BY <2>1, <2>2, <2>3 DEF DiskTypeOK, DiskIInv, RangeInv, Places
<1> QED BY <1>1, DiskInvariance, PTL

\* mydisk_transfer stays within the memory whatever the block layer merges: it checks
\* nothing itself, and the capacity it was given is enough (main.c:203, 297).
THEOREM TransfersStayWithin == DiskSpec => []WithinDisk
<1>1. DiskIInv => WithinDisk
  <2> SUFFICES ASSUME DiskIInv, NEW r \in queue PROVE Start(r) >= 0 /\ End(r) <= NSECTORS
    BY DEF WithinDisk
  <2>1. r \in Seq(DiskBio) /\ Len(r) >= 1
    BY DEF DiskIInv, RequestInv, Shape
  <2>2. r[1] \in DiskBio /\ r[Len(r)] \in DiskBio
    BY <2>1
  <2>3. Start(r) = r[1].sector /\ End(r) = r[Len(r)].sector + r[Len(r)].len
    BY <2>1, Ends
  <2> QED BY <2>2, <2>3 DEF DiskBio
<1> QED BY <1>1, DiskInvariance, PTL

\* Memory, major number, queue and gendisk outlive every client and every request, on
\* each path through mydisk_init and mydisk_exit (main.c:246-317).
THEOREM NothingFreed == DiskSpec => []NothingFreedInUse
<1>1. DiskIInv => NothingFreedInUse
  BY DEF DiskIInv, UseInv, HeldInv, NothingFreedInUse
<1> QED BY <1>1, DiskInvariance, PTL

\* Both partitions are there once loading is over, unless somebody who opened the whole
\* disk has overwritten the table (main.c:246-299).
THEOREM PartitionsAreFound == DiskSpec => []PartitionsFound
<1>1. DiskIInv => PartitionsFound
  BY DEF DiskIInv, FoundInv
<1> QED BY <1>1, DiskInvariance, PTL

-----------------------------------------------------------------------------
(* The partitions *)

Less == {p \in Nat \X Nat : p[1] < p[2]}

LEMMA LessIsWellFounded == IsWellFoundedOn(Less, Nat)
<1>1. Less = OpToRel(<, Nat)
  BY DEF Less, OpToRel
<1> QED BY <1>1, NatLessThanWellFounded

\* Among the segments that reach a sector there is a last.
LEMMA LastOne ==
    ASSUME NEW n \in Nat, NEW S, S \subseteq 1..n, S # {}
    PROVE  Max(S) \in S
<1> DEFINE T == {n - x : x \in S}
<1>1. T \subseteq Nat
  <2>1. ASSUME NEW x \in S PROVE n - x \in Nat
    <3>1. x \in 1..n
      OBVIOUS
    <3> QED BY <3>1
  <2> QED BY <2>1
<1>2. T # {}
  OBVIOUS
<1> HIDE DEF T
<1>3. PICK m \in T : \A k \in T : <<k, m>> \notin Less
  BY <1>1, <1>2, LessIsWellFounded, WFMin
<1>4. PICK x \in S : m = n - x
  BY DEF T
<1>5. ASSUME NEW y \in S PROVE x >= y
  <2>1. n - y \in T
    BY DEF T
  <2>2. n - y \in Nat /\ m \in Nat /\ <<n - y, m>> \notin Less
    BY <1>1, <1>3, <2>1
  <2>3. ~(n - y < m)
    BY <2>2 DEF Less
  <2>4. x \in Int /\ y \in Int
    OBVIOUS
  <2> QED BY <1>4, <2>3, <2>4
<1> QED BY <1>5 DEF Max

\* The table lets no two partitions share a sector (main.c:57-85).
LEMMA OwnSectors == \A p \in Devices : Own(p) = SectorsOf(p)
<1> SUFFICES ASSUME NEW p \in Partitions PROVE Own(p) = SectorsOf(p)
  BY DEF Own
<1>1. \A q \in Partitions \ {p} : SectorsOf(p) \cap SectorsOf(q) = {}
  BY Extents
<1>2. SectorsOf(p) \cap UNION {SectorsOf(q) : q \in Partitions \ {p}} = {}
  BY <1>1, Zenon
<1> QED BY <1>2 DEF Own

\* A request reaches no sector that some segment of it does not name, in what the
\* segment's client has open.
LEMMA NamedSector ==
    ASSUME DiskIInv, NEW r \in queue, NEW s \in Nat, Start(r) <= s, s < End(r)
    PROVE  /\ s \in Tracked
           /\ \E b \in Bios(r) :
                 /\ s \in b.sector .. b.sector + b.len - 1
                 /\ b.op = Head(r).op
                 /\ b.client # Scan => /\ opened[b.client] \in Devices
                                       /\ s \in Own(opened[b.client])
<1>1. Shape(r) /\ r \in Seq(DiskBio) /\ Len(r) \in Nat /\ Len(r) >= 1 /\ \A i \in 1..Len(r) : Owned(r[i])
  BY DEF DiskIInv, RequestInv, Shape
<1>2. Head(r) = r[1] /\ Start(r) = r[1].sector /\ Bios(r) = {r[i] : i \in 1..Len(r)}
  BY <1>1, Ends
<1>3. PICK k \in 1..Len(r) : r[k].sector <= s /\ s < r[k].sector + r[k].len
  BY <1>1, <1>2 DEF Shape
<1> DEFINE b == r[k]
<1>4. b \in DiskBio /\ b \in Bios(r) /\ b.op = Head(r).op /\ Owned(b)
  BY <1>1, <1>2 DEF Shape
<1>5. b.sector <= s /\ s < b.sector + b.len
  BY <1>3
<1> HIDE DEF b
<1>6. b.sector \in Nat /\ b.len \in Nat /\ TrackedBio(b)
  BY <1>4 DEF DiskBio
<1>7. s \in Tracked
  BY <1>5, <1>6 DEF TrackedBio
<1>8. s \in b.sector .. b.sector + b.len - 1
  BY <1>5, <1>6
<1>9. ASSUME b.client # Scan
      PROVE  opened[b.client] \in Devices /\ s \in Own(opened[b.client])
  <2>1. /\ opened[b.client] \in Devices
        /\ Extent(opened[b.client]).start <= b.sector
        /\ b.sector + b.len <= Extent(opened[b.client]).start + Extent(opened[b.client]).length
    BY <1>4, <1>9 DEF Owned
  <2>2. s \in SectorsOf(opened[b.client])
    BY <1>5, <1>6, <2>1, Extents
  <2> QED BY <2>1, <2>2, OwnSectors
<1> QED BY <1>4, <1>7, <1>8, <1>9

\* If all have the same device open, each of them has every sector of the request open.
LEMMA SharedSector ==
    ASSUME DiskIInv, NEW r \in queue, OneDevice(r), NEW s \in Nat, Start(r) <= s, s < End(r),
           NEW b \in Bios(r)
    PROVE  s \in Own(opened[b.client])
<1>1. PICK d \in Devices : \A a \in Bios(r) : a.client \in Clients /\ opened[a.client] = d
  BY DEF OneDevice
<1>2. PICK a \in Bios(r) : a.client # Scan => s \in Own(opened[a.client])
  BY NamedSector, Zenon
<1>3. a.client # Scan
  BY <1>1, ClientsAssumption
<1> QED BY <1>1, <1>2, <1>3

LEMMA WritesStayApart ==
    ASSUME DiskIInv, NEW r \in queue, Head(r).op = "write", dev_data' = Written(r),
           NEW s \in Tracked, dev_data'[s] # dev_data[s]
    PROVE  /\ \E b \in Bios(r) : MayWrite(b, s)
           /\ OneDevice(r) => s \in Own(opened[dev_data'[s][1]])
<1>1. /\ Shape(r) /\ r \in Seq(DiskBio) /\ Len(r) \in Nat /\ Len(r) >= 1 /\ DOMAIN r = 1..Len(r)
      /\ Head(r) = r[1] /\ Start(r) = r[1].sector /\ Bios(r) = {r[i] : i \in 1..Len(r)}
      /\ \A i \in 1..Len(r) : Owned(r[i])
  <2>1. Shape(r) /\ r \in Seq(DiskBio) /\ Len(r) \in Nat /\ Len(r) >= 1 /\ \A i \in 1..Len(r) : Owned(r[i])
    BY DEF DiskIInv, RequestInv, Shape
  <2> QED BY <2>1, Ends
<1>2. s \in Nat
  BY Extents DEF Tracked, SectorsOf, Extent, NSECTORS, Partitions, DefPartTable
<1> DEFINE m == Max(Reaching(r, s))
<1>3. Reaching(r, s) # {} /\ dev_data'[s] = <<r[m].client, s - Start(r)>>
  BY DEF Written
<1>4. m \in Reaching(r, s)
  BY <1>1, <1>3, LastOne DEF Reaching
<1> HIDE DEF m
<1>5. m \in 1..Len(r) /\ s - Start(r) \in Sectors(r[m]) /\ r[m] \in DiskBio /\ r[1] \in DiskBio
  BY <1>1, <1>4 DEF Reaching
<1>6. Start(r) <= s /\ s < End(r)
  <2>1. Start(r) \in Nat /\ r[m].len \in Nat /\ End(r) \in Int
    <3>1. r[Len(r)] \in DiskBio
      BY <1>1
    <3>2. End(r) = r[Len(r)].sector + r[Len(r)].len
      BY <1>1, Ends
    <3>3. r[1].sector \in Nat /\ r[m].len \in Nat
      BY <1>5 DEF DiskBio
    <3>4. r[Len(r)].sector \in Nat /\ r[Len(r)].len \in Nat
      BY <3>1 DEF DiskBio
    <3> QED BY <1>1, <3>2, <3>3, <3>4
  <2>2. Start(r) + r[m].len <= End(r)
    BY <1>1, <1>5 DEF Shape
  <2> QED BY <1>2, <1>5, <2>1, <2>2 DEF Sectors
<1>7. \E b \in Bios(r) : MayWrite(b, s)
  <2>1. PICK b \in Bios(r) : /\ s \in b.sector .. b.sector + b.len - 1
                             /\ b.op = Head(r).op
                             /\ b.client # Scan => s \in Own(opened[b.client])
    BY <1>2, <1>6, NamedSector, Zenon
  <2>2. b.client # Scan
    BY <1>1, <2>1 DEF Owned
  <2> QED BY <2>1, <2>2 DEF MayWrite
<1>8. ASSUME OneDevice(r) PROVE s \in Own(opened[dev_data'[s][1]])
  <2>1. r[m] \in Bios(r)
    BY <1>1, <1>5
  <2>2. s \in Own(opened[r[m].client])
    BY <1>2, <1>6, <1>8, <2>1, SharedSector
  <2> QED BY <1>3, <2>2
<1> QED BY <1>7, <1>8

LEMMA ReadsStayApart ==
    ASSUME DiskIInv, NEW r \in queue, got' = Read(r), OneDevice(r),
           NEW c \in Clients, got'[c] # got[c]
    PROVE  Range(got'[c]) \subseteq {dev_data[s] : s \in Own(opened[c]) \cap Tracked}
<1>1. /\ Shape(r) /\ r \in Seq(DiskBio) /\ Len(r) \in Nat /\ Len(r) >= 1
      /\ Start(r) = r[1].sector /\ Bios(r) = {r[i] : i \in 1..Len(r)}
  <2>1. Shape(r) /\ r \in Seq(DiskBio) /\ Len(r) \in Nat /\ Len(r) >= 1
    BY DEF DiskIInv, RequestInv, Shape
  <2> QED BY <2>1, Ends
<1> DEFINE b == CHOOSE b \in Bios(r) : b.client = c
<1>2. c \in DOMAIN got
  BY DEF DiskIInv, RangeInv
<1>3. \E a \in Bios(r) : a.client = c
  BY <1>2 DEF Read
<1>4. b \in Bios(r) /\ b.client = c
  BY <1>3
<1>5. got'[c] = [i \in 1..b.len |-> dev_data[Start(r) + i - 1]]
  BY <1>2, <1>3 DEF Read
<1> HIDE DEF b
<1>6. ASSUME NEW i \in 1..b.len
      PROVE  Start(r) + i - 1 \in Own(opened[c]) \cap Tracked
  <2> DEFINE s == Start(r) + i - 1
  <2>1. b \in DiskBio /\ r[1] \in DiskBio /\ r[Len(r)] \in DiskBio
    BY <1>1, <1>4
  <2>2. Start(r) \in Nat /\ b.len \in Nat /\ End(r) \in Int
    BY <1>1, <2>1, Ends DEF DiskBio
  <2>3. Start(r) + b.len <= End(r)
    BY <1>1, <1>4 DEF Shape
  <2>4. s \in Nat /\ Start(r) <= s /\ s < End(r)
    BY <2>2, <2>3
  <2> HIDE DEF s
  <2>5. s \in Tracked
    BY <2>4, NamedSector
  <2>6. s \in Own(opened[c])
    BY <1>4, <2>4, SharedSector
  <2> QED BY <2>5, <2>6 DEF s
<1> QED BY <1>5, <1>6 DEF Range

\* For every number of clients, any jobs and any requests made of them: a sector changes only
\* if a write of somebody who has it open names it, and if a request's bios are all of one
\* device, data come to lie only where their client has a right to, and a client reads only
\* what it has open, although all segments go to the first sector (main.c:57-85, 177-206).
THEOREM PartitionsStayApart == DiskSpec => PartitionsIsolated
<1> DEFINE Isolated ==
        pc = pc' =>
          /\ \A s \in Tracked : dev_data'[s] # dev_data[s] =>
                \E r \in queue \ queue' :
                    /\ \E b \in Bios(r) : MayWrite(b, s)
                    /\ OneDevice(r) => s \in Own(opened[dev_data'[s][1]])
          /\ \A c \in Clients : got'[c] \notin {got[c], <<>>} =>
                \E r \in queue \ queue' :
                    OneDevice(r) =>
                        Range(got'[c]) \subseteq {dev_data[s] : s \in Own(opened[c]) \cap Tracked}
<1>1. ASSUME DiskIInv, MydiskRequest PROVE Isolated
  <2>1. PICK r \in queue : MydiskTransfer(r) /\ queue' = queue \ {r}
    BY <1>1 DEF MydiskRequest
  <2>2. r \in queue \ queue'
    BY <2>1
  <2>3. CASE Head(r).op = "write" /\ dev_data' = Written(r) /\ UNCHANGED got
    BY <1>1, <2>2, <2>3, WritesStayApart
  <2>4. CASE got' = Read(r) /\ UNCHANGED dev_data
    BY <1>1, <2>2, <2>4, ReadsStayApart
  <2> QED BY <2>1, <2>3, <2>4 DEF MydiskTransfer
<1>2. ASSUME DiskIInv, NEW d \in Clients, Close(d) PROVE Isolated
  <2>1. UNCHANGED dev_data /\ got' = [got EXCEPT ![d] = <<>>] /\ DOMAIN got = Clients \cup {Scan}
    BY <1>2 DEF Close, DiskIInv, RangeInv
  <2>2. \A c \in Clients : got'[c] \in {got[c], <<>>}
    BY <2>1
  <2> QED BY <2>1, <2>2
<1>3. DiskIInv /\ [DiskNext]_diskVars => [Isolated]_diskVars
  <2> SUFFICES ASSUME DiskIInv, DiskNext PROVE Isolated
    OBVIOUS
  <2>1. CASE MydiskRequest
    BY <1>1, <2>1
  <2>2. CASE \E c \in Clients : Close(c)
    BY <1>2, <2>2
  <2>3. CASE ~MydiskRequest /\ ~\E c \in Clients : Close(c)
    <3>1. UNCHANGED <<dev_data, got>> \/ pc' # pc
      BY <2>3 DEF DiskNext, Load, Unload, Vmalloc, RegisterBlkdev, BlkInitQueue, AllocDisk, AddDisk,
                  Scanned, DelGendisk, BlkCleanupQueue, Vfree, UnregisterBlkdev, Open,
                  Submit, Unplug
    <3> QED BY <3>1
  <2> QED BY <2>1, <2>2, <2>3
<1> QED BY <1>3, DiskInvariance, PTL DEF DiskSpec, PartitionsIsolated

-----------------------------------------------------------------------------
(* The RAM disk keeps the promise of SectorStore *)

Calls == UNION {Bios(r) : r \in queue}

\* Nobody has two bios in the queue.
OneEach ==
    \A r, q \in queue : \A i \in 1..Len(r), k \in 1..Len(q) :
        r[i].client = q[k].client => r = q /\ i = k

\* What holds besides DiskIInv: when there is a medium, and that contents are functions.
MediumInv ==
    /\ "queue" \in held => pc \in {"alloc_disk", "add_disk", "scanning", "live", "blk_cleanup_queue", "oops"}
    /\ dev_data = [s \in Tracked |-> dev_data[s]]
    /\ got = [c \in Clients \cup {Scan} |-> got[c]]

StoreIInv == DiskIInv /\ OneEach /\ MediumInv

LEMMA Requests ==
    ASSUME DiskIInv, NEW r \in queue
    PROVE  /\ Shape(r) /\ r \in Seq(DiskBio) /\ Len(r) \in Nat /\ Len(r) >= 1 /\ DOMAIN r = 1..Len(r)
           /\ Head(r) = r[1] /\ Start(r) = r[1].sector /\ Bios(r) = {r[i] : i \in 1..Len(r)}
           /\ End(r) = r[Len(r)].sector + r[Len(r)].len
<1>1. Shape(r)
  BY DEF DiskIInv, RequestInv
<1>2. r \in Seq(DiskBio) /\ Len(r) \in Nat /\ Len(r) >= 1
  BY <1>1 DEF Shape
<1> QED BY <1>1, <1>2, Ends

LEMMA WaitingCalls ==
    ASSUME NEW c
    PROVE  Waiting(c) <=> \E b \in Calls : b.client = c
BY DEF Waiting, Calls

-----------------------------------------------------------------------------
(* A new bio *)

\* Wherever the block layer puts it, it is one more call.
LEMMA QueuedCalls ==
    ASSUME DiskIInv, NEW b \in DiskBio, queue' \in Queued(b)
    PROVE  Calls' = Calls \cup {b}
<1>1. Bios(<<b>>) = {b}
  <2> DEFINE q == <<b>>
  <2>1. DOMAIN q = 1..1 /\ q[1] = b
    OBVIOUS
  <2> HIDE DEF q
  <2>2. Bios(q) = {q[i] : i \in 1..1}
    BY <2>1 DEF Bios, Range
  <2>3. Bios(q) = {b}
    BY <2>1, <2>2
  <2> QED BY <2>3 DEF q
<1>2. ASSUME NEW r \in queue
      PROVE  Bios(Append(r, b)) = Bios(r) \cup {b} /\ Bios(<<b>> \o r) = Bios(r) \cup {b}
  <2>1. r \in Seq(DiskBio) /\ Bios(r) = {r[i] : i \in 1..Len(r)} /\ Len(r) \in Nat
    BY Requests
  <2>2. Bios(Append(r, b)) = Bios(r) \cup {b}
    <3> DEFINE q == Append(r, b)
    <3>1. /\ q \in Seq(DiskBio) /\ Len(q) = Len(r) + 1 /\ q[Len(r) + 1] = b
          /\ \A i \in 1..Len(r) : q[i] = r[i]
      BY <2>1
    <3> HIDE DEF q
    <3>2. Bios(q) = {q[i] : i \in 1..Len(q)}
      BY <2>1, <3>1, Ends
    <3>3. 1..Len(q) = (1..Len(r)) \cup {Len(r) + 1}
      BY <2>1, <3>1
    <3>4. Bios(q) = Bios(r) \cup {b}
      BY <2>1, <3>1, <3>2, <3>3
    <3> QED BY <3>4 DEF q
  <2>3. Bios(<<b>> \o r) = Bios(r) \cup {b}
    <3> DEFINE q == <<b>> \o r
    <3>1. /\ q \in Seq(DiskBio) /\ Len(q) = Len(r) + 1 /\ q[1] = b
          /\ \A i \in 1..Len(r) : q[i + 1] = r[i] /\ i + 1 \in 1..Len(q)
          /\ \A i \in 1..Len(q) : i = 1 \/ (i - 1 \in 1..Len(r) /\ q[i] = r[i - 1])
      BY <2>1
    <3> HIDE DEF q
    <3>2. Bios(q) = {q[i] : i \in 1..Len(q)} /\ 1 \in 1..Len(q)
      BY <2>1, <3>1, Ends
    <3>3. Bios(q) \subseteq Bios(r) \cup {b}
      BY <2>1, <3>1, <3>2
    <3>4. b \in Bios(q)
      BY <3>1, <3>2
    <3>5. \A i \in 1..Len(r) : r[i] \in Bios(q)
      <4> SUFFICES ASSUME NEW i \in 1..Len(r) PROVE r[i] \in Bios(q)
        OBVIOUS
      <4>1. i + 1 \in 1..Len(q) /\ q[i + 1] = r[i]
        BY <3>1
      <4> QED BY <4>1, <3>2
    <3>6. Bios(q) = Bios(r) \cup {b}
      BY <2>1, <3>3, <3>4, <3>5
    <3> QED BY <3>6 DEF q
  <2> QED BY <2>2, <2>3
<1>3. CASE queue' = queue \cup {<<b>>}
  BY <1>1, <1>3 DEF Calls
<1>4. ASSUME NEW r \in queue, queue' = (queue \ {r}) \cup {Append(r, b)}
      PROVE  Calls' = Calls \cup {b}
  <2> DEFINE q == Append(r, b)
  <2>1. Bios(q) = Bios(r) \cup {b} /\ queue' = (queue \ {r}) \cup {q}
    BY <1>2, <1>4
  <2> HIDE DEF q
  <2> QED BY <2>1 DEF Calls
<1>5. ASSUME NEW r \in queue, queue' = (queue \ {r}) \cup {<<b>> \o r}
      PROVE  Calls' = Calls \cup {b}
  <2> DEFINE q == <<b>> \o r
  <2>1. Bios(q) = Bios(r) \cup {b} /\ queue' = (queue \ {r}) \cup {q}
    BY <1>2, <1>5
  <2> HIDE DEF q
  <2> QED BY <2>1 DEF Calls
<1> QED BY <1>3, <1>4, <1>5 DEF Queued

\* It is the only one of its client.
LEMMA QueuedOneEach ==
    ASSUME DiskIInv, OneEach, NEW b \in DiskBio, ~Waiting(b.client), queue' \in Queued(b)
    PROVE  OneEach'
<1>1. ASSUME NEW r \in queue, NEW i \in 1..Len(r) PROVE r[i].client # b.client
  <2>1. r[i] \in Bios(r)
    BY Requests
  <2> QED BY <2>1 DEF Waiting
<1>2. ASSUME NEW r \in queue PROVE r \in Seq(DiskBio) /\ Len(r) \in Nat
  BY Requests
<1>3. CASE queue' = queue \cup {<<b>>}
  <2>1. Len(<<b>>) = 1 /\ \A i \in 1..1 : i = 1 /\ <<b>>[i] = b
    OBVIOUS
  <2> DEFINE q == <<b>>
  <2>2. queue' = queue \cup {q} /\ Len(q) = 1 /\ \A i \in 1..1 : i = 1 /\ q[i] = b
    BY <1>3, <2>1
  <2> HIDE DEF q
  <2> QED BY <1>1, <2>2 DEF OneEach
<1>4. ASSUME NEW r \in queue, queue' = (queue \ {r}) \cup {Append(r, b)}
      PROVE  OneEach'
  <2> DEFINE q == Append(r, b)
  <2>1. /\ queue' = (queue \ {r}) \cup {q}
        /\ Len(q) = Len(r) + 1 /\ Len(r) \in Nat
        /\ \A i \in 1..Len(q) : (i \in 1..Len(r) /\ q[i] = r[i]) \/ (i = Len(q) /\ q[i] = b)
    BY <1>2, <1>4
  <2> HIDE DEF q
  <2> QED BY <1>1, <2>1 DEF OneEach
<1>5. ASSUME NEW r \in queue, queue' = (queue \ {r}) \cup {<<b>> \o r}
      PROVE  OneEach'
  <2> DEFINE q == <<b>> \o r
  <2>1. /\ queue' = (queue \ {r}) \cup {q}
        /\ Len(q) = Len(r) + 1 /\ Len(r) \in Nat
        /\ \A i \in 1..Len(q) : (i = 1 /\ q[i] = b) \/ (i - 1 \in 1..Len(r) /\ q[i] = r[i - 1])
    BY <1>2, <1>5
  <2> HIDE DEF q
  <2>2. SUFFICES ASSUME NEW r1 \in queue', NEW r2 \in queue',
                        NEW i \in 1..Len(r1), NEW k \in 1..Len(r2), r1[i].client = r2[k].client
                 PROVE  r1 = r2 /\ i = k
    BY DEF OneEach
  <2>3. r \in queue /\ \A x, y \in queue : \A m \in 1..Len(x), n \in 1..Len(y) :
                         x[m].client = y[n].client => x = y /\ m = n
    BY DEF OneEach
  <2>4. ASSUME NEW x \in queue', NEW m \in 1..Len(x), x = q
        PROVE  (m = 1 /\ x[m].client = b.client)
               \/ (m - 1 \in 1..Len(r) /\ x[m].client = r[m - 1].client /\ x[m].client # b.client)
    BY <1>1, <2>1, <2>4
  <2>5. ASSUME NEW x \in queue', x # q PROVE x \in queue /\ x # r
    BY <2>1, <2>5
  <2>6. CASE r1 = q /\ r2 = q
    <3>1. CASE i = 1 \/ k = 1
      BY <2>2, <2>4, <2>6, <3>1
    <3>2. CASE i # 1 /\ k # 1
      <4>1. i - 1 \in 1..Len(r) /\ k - 1 \in 1..Len(r) /\ r[i - 1].client = r[k - 1].client
        BY <2>2, <2>4, <2>6, <3>2
      <4>2. i - 1 = k - 1
        BY <2>3, <4>1
      <4> QED BY <2>6, <4>2
    <3> QED BY <3>1, <3>2
  <2>7. CASE r1 = q /\ r2 # q
    <3>1. r2 \in queue /\ r2 # r /\ r2[k].client # b.client
      BY <1>1, <2>5, <2>7
    <3> QED BY <2>2, <2>3, <2>4, <2>7, <3>1
  <2>8. CASE r1 # q /\ r2 = q
    <3>1. r1 \in queue /\ r1 # r /\ r1[i].client # b.client
      BY <1>1, <2>5, <2>8
    <3> QED BY <2>2, <2>3, <2>4, <2>8, <3>1
  <2>9. CASE r1 # q /\ r2 # q
    BY <2>2, <2>3, <2>5, <2>9
  <2> QED BY <2>6, <2>7, <2>8, <2>9
<1> QED BY <1>3, <1>4, <1>5 DEF Queued

-----------------------------------------------------------------------------
(* The invariant *)

LEMMA StoreInitInv == Init => StoreIInv
BY DiskInitInv DEF Init, StoreIInv, OneEach, MediumInv

LEMMA OneEachInv == ASSUME StoreIInv, DiskNext PROVE OneEach'
<1>1. CASE AddDisk
  <2> DEFINE b == [client |-> Scan, op |-> "read", sector |-> 0, len |-> 1]
  <2>1. queue = {} /\ (queue' = {} \/ queue' = {<<b>>})
    BY <1>1 DEF AddDisk, queueVars, StoreIInv, DiskIInv, UseInv
  <2>2. Len(<<b>>) = 1
    OBVIOUS
  <2> DEFINE q == <<b>>
  <2>3. Len(q) = 1 /\ (queue' = {} \/ queue' = {q})
    BY <2>1
  <2> HIDE DEF q
  <2> QED BY <2>3 DEF OneEach
<1>2. ASSUME NEW c \in Clients, NEW j \in Jobs, Submit(c, j) PROVE OneEach'
  <2> DEFINE b == BioOf(c, j)
  <2>1. b \in DiskBio /\ ~Waiting(b.client) /\ queue' \in Queued(b)
    BY <1>2, SubmittedBio DEF StoreIInv
  <2> HIDE DEF b
  <2> QED BY <2>1, QueuedOneEach DEF StoreIInv
<1>3. CASE MydiskRequest
  BY <1>3 DEF MydiskRequest, StoreIInv, OneEach
<1>4. CASE UNCHANGED queue
  BY <1>4 DEF StoreIInv, OneEach
<1>5. (Load /\ ~AddDisk) \/ Unload \/ Unplug => UNCHANGED queue
  BY DEF Load, Unload, Vmalloc, RegisterBlkdev, BlkInitQueue, AllocDisk, Scanned, DelGendisk,
         BlkCleanupQueue, Vfree, UnregisterBlkdev, Unplug, queueVars
<1>6. ASSUME NEW c \in Clients, (\E part \in Devices : Open(c, part)) \/ Close(c)
      PROVE  UNCHANGED queue
  BY <1>6 DEF Open, Close, queueVars
<1>7. CASE Load \/ Unload \/ Unplug
  BY <1>1, <1>4, <1>5, <1>7
<1>8. CASE \E c \in Clients : \/ \E part \in Devices : Open(c, part)
                            \/ Close(c)
                            \/ \E j \in Jobs : Submit(c, j)
  BY <1>2, <1>4, <1>6, <1>8
<1> QED BY <1>3, <1>7, <1>8 DEF DiskNext

LEMMA MediumNextInv == ASSUME StoreIInv, DiskNext PROVE MediumInv'
<1>1. CASE Load
  <2>1. ("queue" \in held => pc \in {"alloc_disk", "add_disk", "scanning", "live", "blk_cleanup_queue", "oops"})'
    BY <1>1 DEF Load, Vmalloc, RegisterBlkdev, BlkInitQueue, AllocDisk, AddDisk, Scanned,
                StoreIInv, MediumInv
  <2>2. UNCHANGED got /\ (UNCHANGED dev_data \/ dev_data' = [s \in Tracked |-> dev_data'[s]])
    BY <1>1 DEF Load, Vmalloc, RegisterBlkdev, BlkInitQueue, AllocDisk, AddDisk, Scanned
  <2> QED BY <2>1, <2>2 DEF StoreIInv, MediumInv
<1>2. CASE Unload
  BY <1>2 DEF Unload, DelGendisk, BlkCleanupQueue, Vfree, UnregisterBlkdev, StoreIInv, MediumInv
<1>3. ASSUME NEW c \in Clients, (\E part \in Devices : Open(c, part)) \/ Close(c) \/ \E j \in Jobs : Submit(c, j)
      PROVE  MediumInv'
  BY <1>3 DEF Open, Close, Submit, loadVars, StoreIInv, MediumInv
<1>4. CASE Unplug
  BY <1>4 DEF Unplug, loadVars, StoreIInv, MediumInv
<1>5. CASE MydiskRequest
  <2>1. UNCHANGED <<pc, held>>
    BY <1>5 DEF MydiskRequest, loadVars
  <2>2. PICK r \in queue : MydiskTransfer(r)
    BY <1>5 DEF MydiskRequest
  <2>3. DOMAIN got = Clients \cup {Scan}
    BY DEF StoreIInv, DiskIInv, RangeInv
  <2>4. UNCHANGED dev_data \/ dev_data' = [s \in Tracked |-> dev_data'[s]]
    BY <2>2 DEF MydiskTransfer, Written
  <2>5. UNCHANGED got \/ got' = [c \in Clients \cup {Scan} |-> got'[c]]
    BY <2>2, <2>3 DEF MydiskTransfer, Read
  <2> QED BY <2>1, <2>4, <2>5 DEF StoreIInv, MediumInv
<1> QED BY <1>1, <1>2, <1>3, <1>4, <1>5 DEF DiskNext

LEMMA StoreNextInv == StoreIInv /\ [DiskNext]_diskVars => StoreIInv'
<1> SUFFICES ASSUME StoreIInv, [DiskNext]_diskVars PROVE StoreIInv'
  OBVIOUS
<1>1. DiskIInv'
  BY DiskNextInv DEF StoreIInv
<1>2. CASE DiskNext
  BY <1>1, <1>2, OneEachInv, MediumNextInv DEF StoreIInv
<1>3. CASE UNCHANGED diskVars
  BY <1>1, <1>3 DEF diskVars, loadVars, queueVars, StoreIInv, OneEach, MediumInv
<1> QED BY <1>2, <1>3

-----------------------------------------------------------------------------
(* The refinement *)

LEMMA Medium ==
    /\ (Promise!Prepare <=> /\ "queue" \notin held
                            /\ UNCHANGED <<"queue" \in held, Calls, got>>)
    /\ (Promise!Insert <=> /\ ("queue" \in held)' # ("queue" \in held)
                           /\ Calls = {} /\ Calls' = {}
                           /\ UNCHANGED <<dev_data, got>>)
BY DEF Promise!Prepare, Promise!Insert, Calls

LEMMA LoadingImplements == ASSUME StoreIInv, Load PROVE [Promise!StoreNext]_Promise!storeVars
<1>1. CASE Vmalloc
  <2>1. "queue" \notin held /\ ("queue" \in held)' = ("queue" \in held) /\ UNCHANGED <<queue, got>>
    BY <1>1 DEF Vmalloc, queueVars, StoreIInv, MediumInv
  <2>2. Promise!Prepare
    BY <2>1, Medium DEF Calls
  <2> QED BY <2>2 DEF Promise!StoreNext
<1>2. CASE BlkInitQueue /\ held' # held
  <2>1. /\ "queue" \notin held /\ "queue" \in held' /\ queue = {}
        /\ UNCHANGED <<queue, dev_data, got>>
    BY <1>2 DEF BlkInitQueue, queueVars, StoreIInv, MediumInv, DiskIInv, UseInv
  <2>2. Promise!Insert
    BY <2>1, Medium DEF Calls
  <2> QED BY <2>2 DEF Promise!StoreNext
<1>3. CASE RegisterBlkdev \/ AllocDisk \/ Scanned \/ (BlkInitQueue /\ held' = held)
  <2>1. /\ ("queue" \in held)' = ("queue" \in held)
        /\ UNCHANGED <<queue, dev_data, got>>
    BY <1>3 DEF RegisterBlkdev, BlkInitQueue, AllocDisk, Scanned, queueVars
  <2> QED BY <2>1 DEF Promise!storeVars
<1>4. CASE AddDisk
  <2> DEFINE b == [client |-> Scan, op |-> "read", sector |-> 0, len |-> 1]
             q == <<b>>
  <2>1. /\ queue = {} /\ queue' = {q} /\ "queue" \in held /\ "queue" \in held'
        /\ UNCHANGED <<dev_data, got>>
    BY <1>4, Extents DEF AddDisk, StoreIInv, DiskIInv, UseInv, FoundInv, HeldInv
  <2>2. DOMAIN q = 1..1 /\ q[1] = b /\ b.client = Scan
    OBVIOUS
  <2> HIDE DEF q, b
  <2>3. Bios(q) = {q[i] : i \in 1..1}
    BY <2>2 DEF Bios, Range
  <2>4. Calls = {} /\ Calls' = {b}
    BY <2>1, <2>2, <2>3 DEF Calls
  <2>5. Promise!Call(b) /\ b \in Calls' \ Calls
    BY <2>1, <2>2, <2>4 DEF Promise!Call, Calls
  <2> QED BY <2>5 DEF Promise!StoreNext, Calls
<1> QED BY <1>1, <1>2, <1>3, <1>4 DEF Load

LEMMA UnloadingImplements == ASSUME StoreIInv, Unload PROVE [Promise!StoreNext]_Promise!storeVars
<1>1. CASE BlkCleanupQueue
  <2>1. /\ "queue" \in held /\ "queue" \notin held' /\ queue = {}
        /\ UNCHANGED <<queue, dev_data, got>>
    BY <1>1 DEF BlkCleanupQueue, queueVars, StoreIInv, DiskIInv, HeldInv
  <2>2. Promise!Insert
    BY <2>1, Medium DEF Calls
  <2> QED BY <2>2 DEF Promise!StoreNext
<1>2. CASE Vfree
  <2>1. "queue" \notin held /\ ("queue" \in held)' = ("queue" \in held) /\ UNCHANGED <<queue, got>>
    BY <1>2 DEF Vfree, queueVars, StoreIInv, MediumInv
  <2>2. Promise!Prepare
    BY <2>1, Medium DEF Calls
  <2> QED BY <2>2 DEF Promise!StoreNext
<1>3. CASE DelGendisk \/ UnregisterBlkdev
  <2>1. /\ ("queue" \in held)' = ("queue" \in held)
        /\ UNCHANGED <<queue, dev_data, got>>
    BY <1>3 DEF DelGendisk, UnregisterBlkdev, queueVars
  <2> QED BY <2>1 DEF Promise!storeVars
<1> QED BY <1>1, <1>2, <1>3 DEF Unload

LEMMA ClientsImplement ==
    ASSUME StoreIInv, NEW c \in Clients,
           (\E part \in Devices : Open(c, part)) \/ Close(c) \/ \E j \in Jobs : Submit(c, j)
    PROVE  [Promise!StoreNext]_Promise!storeVars
<1>1. CASE \E part \in Devices : Open(c, part)
  BY <1>1 DEF Open, loadVars, queueVars, Promise!storeVars
<1>2. CASE Close(c)
  <2>1. /\ ~Waiting(c) /\ got' = [got EXCEPT ![c] = <<>>]
        /\ UNCHANGED <<held, dev_data, queue>>
    BY <1>2 DEF Close, loadVars, queueVars
  <2>2. \A b \in Calls : b.client # c
    BY <2>1, WaitingCalls
  <2>3. Promise!Forget(c)
    BY <2>1, <2>2 DEF Promise!Forget, Calls
  <2> QED BY <2>3 DEF Promise!StoreNext
<1>3. ASSUME NEW j \in Jobs, Submit(c, j) PROVE Promise!StoreNext
  <2> DEFINE b == BioOf(c, j)
  <2>1. b \in DiskBio /\ b.client = c /\ ~Waiting(c) /\ queue' \in Queued(b)
    BY <1>3, SubmittedBio DEF StoreIInv
  <2>2. "queue" \in held /\ UNCHANGED <<held, dev_data, got>>
    BY <1>3 DEF Submit, loadVars
  <2> HIDE DEF b
  <2>3. Calls' = Calls \cup {b}
    BY <2>1, QueuedCalls DEF StoreIInv
  <2>4. \A d \in Calls : d.client # b.client
    BY <2>1, WaitingCalls
  <2>5. Promise!Call(b) /\ b \in Calls' \ Calls
    BY <2>1, <2>2, <2>3, <2>4 DEF Promise!Call, Calls
  <2> QED BY <2>5 DEF Promise!StoreNext, Calls
<1> QED BY <1>1, <1>2, <1>3

\* What a round of mydisk_request takes from the queue.
LEMMA ServedCalls ==
    ASSUME StoreIInv, NEW r \in queue, queue' = queue \ {r}
    PROVE  /\ Calls' = Calls \ Bios(r)
           /\ Calls \ Calls' = Bios(r)
<1>1. ASSUME NEW q \in queue, NEW d \in Bios(q), d \in Bios(r) PROVE q = r
  <2>1. PICK i \in 1..Len(q) : d = q[i]
    BY Requests DEF StoreIInv
  <2>2. PICK k \in 1..Len(r) : d = r[k]
    BY <1>1, Requests DEF StoreIInv
  <2> QED BY <2>1, <2>2 DEF StoreIInv, OneEach
<1>2. Calls' = UNION {Bios(q) : q \in queue \ {r}}
  BY DEF Calls
<1>3. Calls' = Calls \ Bios(r)
  BY <1>1, <1>2 DEF Calls
<1> QED BY <1>3 DEF Calls

LEMMA TrackedNat == \A s \in Tracked : s \in Nat
BY DEF Tracked, SectorsOf, Extent, NSECTORS, Partitions, DefPartTable

\* A request of one bio does what a disk does.
LEMMA AloneExactly ==
    ASSUME StoreIInv, NEW r \in queue, MydiskTransfer(r), Len(r) = 1
    PROVE  Promise!Exactly(Bios(r))
<1> DEFINE b == r[1]
<1>1. /\ Shape(r) /\ r \in Seq(DiskBio) /\ DOMAIN r = 1..1 /\ Head(r) = b /\ Start(r) = b.sector
      /\ Bios(r) = {r[i] : i \in 1..1}
  BY Requests DEF StoreIInv
<1>2. Bios(r) = {b} /\ b \in DiskBio
  <2>1. \A i \in 1..1 : i = 1 /\ r[i] = b
    OBVIOUS
  <2>2. Bios(r) = {b}
    BY <1>1, <2>1
  <2>3. b \in DiskBio
    BY <1>1
  <2> QED BY <2>2, <2>3
<1>3. b.sector \in Nat /\ b.len \in Nat /\ b.op \in {"read", "write"}
  BY <1>2 DEF DiskBio
<1>4. dev_data = [s \in Tracked |-> dev_data[s]] /\ got = [c \in Clients \cup {Scan} |-> got[c]]
  BY DEF StoreIInv, MediumInv
<1>5. DOMAIN got = Clients \cup {Scan}
  BY DEF StoreIInv, DiskIInv, RangeInv
<1> HIDE DEF b
<1>6. CASE b.op = "write"
  <2>1. dev_data' = Written(r) /\ UNCHANGED got
    BY <1>1, <1>6 DEF MydiskTransfer
  <2>2. ASSUME NEW s \in Tracked
        PROVE  Written(r)[s] = IF \E d \in {b} : d.op = "write" /\ s \in Promise!Reach(d)
                               THEN LET d == CHOOSE d \in {b} : s \in Promise!Reach(d)
                                    IN  <<d.client, s - d.sector>>
                               ELSE dev_data[s]
    <3>1. s \in Promise!Reach(b) <=> s - b.sector \in Sectors(b)
      BY <1>3, TrackedNat DEF Promise!Reach, Sectors
    <3>2. Reaching(r, s) = IF s \in Promise!Reach(b) THEN {1} ELSE {}
      BY <1>1, <3>1 DEF Reaching, b
    <3>3. CASE s \in Promise!Reach(b)
      <4>1. Max(Reaching(r, s)) = 1 /\ Reaching(r, s) # {}
        <5>1. \A x \in {1} : x = 1 /\ \A y \in {1} : x >= y
          OBVIOUS
        <5> QED BY <3>2, <3>3, <5>1 DEF Max
      <4>2. Written(r)[s] = <<b.client, s - b.sector>>
        BY <1>1, <4>1 DEF Written, b
      <4>3. (CHOOSE d \in {b} : s \in Promise!Reach(d)) = b
        BY <3>3
      <4> QED BY <1>6, <3>3, <4>2, <4>3
    <3>4. CASE s \notin Promise!Reach(b)
      BY <3>2, <3>4 DEF Written
    <3> QED BY <3>3, <3>4
  <2>3. dev_data' = [s \in Tracked |-> Written(r)[s]]
    BY <2>1 DEF Written
  <2> QED BY <1>2, <1>4, <1>6, <2>1, <2>2, <2>3 DEF Promise!Exactly
<1>7. CASE b.op = "read"
  <2>1. got' = Read(r) /\ UNCHANGED dev_data
    BY <1>1, <1>7 DEF MydiskTransfer
  <2> DEFINE Of(c) == CHOOSE d \in {b} : d.client = c
             Memory(start, d) == [i \in 1..d.len |-> dev_data[start + i - 1]]
             Promised(c) == IF \E d \in {b} : d.op = "read" /\ d.client = c
                            THEN Memory(Of(c).sector, Of(c)) ELSE got[c]
  <2>2. Read(r) = [c \in Clients \cup {Scan} |->
                      IF \E d \in {b} : d.client = c THEN Memory(b.sector, Of(c)) ELSE got[c]]
    BY <1>1, <1>2, <1>5 DEF Read
  <2>3. \A c : b.client = c => Of(c) = b
    OBVIOUS
  <2>4. ~\E d \in {b} : d.op = "write"
    BY <1>7
  <2>5. dev_data' = [s \in Tracked |->
                        IF \E d \in {b} : d.op = "write" /\ s \in Promise!Reach(d)
                        THEN LET d == CHOOSE d \in {b} : s \in Promise!Reach(d)
                             IN  <<d.client, s - d.sector>>
                        ELSE dev_data[s]]
    BY <1>4, <2>1, <2>4
  <2> HIDE DEF Of, Memory
  <2>6. ASSUME NEW c \in Clients \cup {Scan}
        PROVE  Promised(c) = IF \E d \in {b} : d.client = c THEN Memory(b.sector, Of(c)) ELSE got[c]
    BY <1>7, <2>3
  <2>7. got' = [c \in Clients \cup {Scan} |-> Promised(c)]
    BY <2>1, <2>2, <2>6
  <2>8. Promise!Exactly({b})
    BY <2>5, <2>7, Zenon DEF Promise!Exactly, Of, Memory
  <2> QED BY <1>2, <2>8
<1> QED BY <1>3, <1>6, <1>7

\* A request of several leaves alone what none of them asked for: all segments go to
\* where it begins, which takes them no further than its end.
LEMMA MergedTogether ==
    ASSUME StoreIInv, NEW r \in queue, MydiskTransfer(r)
    PROVE  Promise!Together(Bios(r))
<1>1. /\ Shape(r) /\ r \in Seq(DiskBio) /\ Len(r) \in Nat /\ Len(r) >= 1 /\ DOMAIN r = 1..Len(r)
      /\ Head(r) = r[1] /\ Start(r) = r[1].sector /\ Bios(r) = {r[i] : i \in 1..Len(r)}
      /\ End(r) = r[Len(r)].sector + r[Len(r)].len
  BY Requests DEF StoreIInv
<1>2. ASSUME NEW s \in Tracked, dev_data'[s] # dev_data[s]
      PROVE  \E b \in Bios(r) : b.op = "write" /\ s \in Promise!Reach(b)
  <2>1. Head(r).op = "write" /\ dev_data' = Written(r)
    BY <1>2 DEF MydiskTransfer
  <2>2. PICK i \in 1..Len(r) : s - Start(r) \in Sectors(r[i])
    BY <1>1, <1>2, <2>1 DEF Written, Reaching
  <2>3. s \in Nat /\ r[1].sector \in Nat /\ r[i].len \in Nat /\ End(r) \in Nat
    <3>1. r[1] \in DiskBio /\ r[i] \in DiskBio /\ r[Len(r)] \in DiskBio
      BY <1>1
    <3> QED BY <1>1, <3>1, TrackedNat DEF DiskBio
  <2>4. r[1].sector <= s /\ s < End(r)
    BY <1>1, <2>2, <2>3 DEF Sectors, Shape
  <2>5. PICK k \in 1..Len(r) : r[k].sector <= s /\ s < r[k].sector + r[k].len
    BY <1>1, <2>3, <2>4 DEF Shape
  <2>6. r[k] \in DiskBio /\ r[k] \in Bios(r) /\ r[k].op = "write"
    BY <1>1, <2>1 DEF Shape
  <2>7. s \in Promise!Reach(r[k])
    BY <2>3, <2>5, <2>6 DEF Promise!Reach, DiskBio
  <2> QED BY <2>6, <2>7
<1>3. ASSUME NEW u \in Clients \cup {Scan}, got'[u] # got[u]
      PROVE  \E b \in Bios(r) : b.op = "read" /\ u = b.client
  <2>1. Head(r).op = "read" /\ got' = Read(r)
    BY <1>3 DEF MydiskTransfer
  <2>2. PICK b \in Bios(r) : b.client = u
    BY <1>3, <2>1 DEF Read, StoreIInv, DiskIInv, RangeInv
  <2>3. b.op = "read"
    BY <1>1, <2>1, <2>2 DEF Shape
  <2> QED BY <2>2, <2>3
<1> QED BY <1>2, <1>3 DEF Promise!Together

LEMMA MydiskRequestImplements ==
    ASSUME StoreIInv, MydiskRequest
    PROVE  Promise!StoreNext
<1>1. PICK r \in queue : MydiskTransfer(r) /\ queue' = queue \ {r}
  BY DEF MydiskRequest
<1>2. running /\ UNCHANGED held
  BY DEF MydiskRequest, loadVars
<1>3. "queue" \in held
  BY <1>2 DEF StoreIInv, DiskIInv, UseInv, HeldInv
<1>4. Calls' = Calls \ Bios(r) /\ Calls \ Calls' = Bios(r)
  BY <1>1, ServedCalls
<1>5. Bios(r) = {r[i] : i \in 1..Len(r)}
  BY Requests DEF StoreIInv
<1> DEFINE n == Len(r)
<1>6. n \in Nat /\ n >= 1
  BY Requests DEF StoreIInv
<1> HIDE DEF n
<1>7. Bios(r) # {}
  <2>1. 1 \in 1..Len(r)
    BY <1>6 DEF n
  <2> QED BY <1>5, <2>1
<1>8. Promise!Serve(Bios(r))
  BY <1>2, <1>3, <1>4, <1>7 DEF Promise!Serve, Calls
<1>9. Promise!Exactly(Bios(r)) \/ ((\A b \in Bios(r) : Bios(r) # {b}) /\ Promise!Together(Bios(r)))
  <2>1. CASE n = 1
    BY <1>1, <2>1, AloneExactly DEF n
  <2>2. CASE n # 1
    <3>1. 1 \in 1..Len(r) /\ 2 \in 1..Len(r)
      <4>1. 1 \in 1..n /\ 2 \in 1..n
        BY <1>6, <2>2
      <4> QED BY <4>1 DEF n
    <3>2. r[1].client # r[2].client
      <4>1. r[1].client = r[2].client => 1 = 2
        BY <3>1 DEF StoreIInv, OneEach
      <4> QED BY <4>1
    <3>3. \A b \in Bios(r) : Bios(r) # {b}
      BY <1>5, <3>1, <3>2
    <3> QED BY <1>1, <3>3, MergedTogether
  <2> QED BY <2>1, <2>2
<1> QED BY <1>4, <1>8, <1>9 DEF Promise!StoreNext, Calls

LEMMA StoreSteps ==
    StoreIInv /\ [DiskNext]_diskVars => [Promise!StoreNext]_Promise!storeVars
<1> SUFFICES ASSUME StoreIInv, [DiskNext]_diskVars
             PROVE  [Promise!StoreNext]_Promise!storeVars
  OBVIOUS
<1>1. CASE Load
  BY <1>1, LoadingImplements
<1>2. CASE Unload
  BY <1>2, UnloadingImplements
<1>3. CASE \E c \in Clients : \/ \E part \in Devices : Open(c, part)
                            \/ Close(c)
                            \/ \E j \in Jobs : Submit(c, j)
  BY <1>3, ClientsImplement
<1>4. CASE Unplug
  BY <1>4 DEF Unplug, loadVars, Promise!storeVars
<1>5. CASE MydiskRequest
  BY <1>5, MydiskRequestImplements
<1>7. CASE UNCHANGED diskVars
  BY <1>7 DEF diskVars, loadVars, queueVars, Promise!storeVars
<1> QED BY <1>1, <1>2, <1>3, <1>4, <1>5, <1>7 DEF DiskNext

\* Nobody has two bios under way, and contents stay functions of sectors and clients.
THEOREM StoreInvariance == DiskSpec => []StoreIInv
BY StoreInitInv, StoreNextInv, PTL DEF DiskSpec

\* Whatever clients ask and the block layer merges, a bio alone in its request is read or
\* written exactly and at once, and merged ones harm no others (main.c:173-232).
THEOREM DiskImplementsStore == DiskSpec => ImplementsStore
<1>1. Init => Promise!StoreInit
  BY DEF Init, Promise!StoreInit
<1> QED BY <1>1, StoreInitInv, StoreNextInv, StoreSteps, PTL
        DEF DiskSpec, ImplementsStore, Promise!StoreSpec
=============================================================================
