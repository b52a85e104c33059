--------------------------------- MODULE Adxl ---------------------------------
(***************************************************************************)
(* The accelerometer driver (Assignment-1_ADXL/adxl.c), loaded and unloaded  *)
(* while users run useradxl.c: three nodes, one global i for all readers.    *)
(*                                                                          *)
(* The kernel's functions return errors as pointers and as -ENOMEM; the     *)
(* comparisons with NULL and -1 never see them, so failures go unnoticed.   *)
(* All modules loaded get the same major number.                            *)
(***************************************************************************)
EXTENDS Integers, FiniteSets

CONSTANTS
    Users,          \* processes that run useradxl
    Random,         \* what get_random_bytes may store in two bytes
    MaxLoads,       \* bound: times the module is loaded
    MaxFiles        \* files a process may have open

Word == 0..256 * 256 - 1    \* two bytes

ASSUME AdxlAssumption ==
    /\ Random \subseteq Word
    /\ MaxLoads \in Nat /\ MaxFiles \in Nat

VARIABLES
    step,           \* of mychar_init or mychar_exit: the call that is next
    loads,          \* times the module was loaded
    nodes,          \* minors that have a file in /dev
    mapped,         \* ranges in the kernel's cdev_map: base, and the load that added it
    failed,         \* history: a cdev_add of this load has failed
    i,              \* the driver's global: random number value, reply
    pc, register, files

moduleVars == <<step, loads, nodes, mapped, failed>>
userVars   == <<i, pc, register, files>>
adxlVars   == <<moduleVars, userVars>>

Init ==
    /\ step = "out" /\ loads = 0 /\ nodes = {} /\ mapped = {} /\ failed = FALSE
    /\ i = 0
    /\ pc = [u \in Users |-> "menu"]
    /\ register = [u \in Users |-> 0]
    /\ files = [u \in Users |-> 0]

-----------------------------------------------------------------------------
(* mychar_init *)

\* A failure is noticed; nothing has been done yet.
AllocChrdevRegion ==
    /\ step = "out" /\ loads < MaxLoads
    /\ loads' = loads + 1
    /\ step' \in {"out", "class_create"}
    /\ failed' = FALSE /\ i' = 0
    /\ UNCHANGED <<nodes, mapped, pc, register, files>>

\* The error pointer is dereferenced in line 85, and the module stays half loaded.
ClassCreate ==
    /\ step = "class_create"
    /\ step' \in {"device_create", "oops"}
    /\ UNCHANGED <<loads, nodes, mapped, failed, userVars>>

\* The three device_create, each of which may fail.
DeviceCreate ==
    /\ step = "device_create"
    /\ nodes' \in SUBSET (0..2)
    /\ step' = "cdev_add_0"
    /\ UNCHANGED <<loads, mapped, failed, userVars>>

Base(k) == k

\* cdev_add of three minors: x at 0, y at 1, and x again at 2.
CdevAdd(at, k, next) ==
    /\ step = at
    /\ step' = next
    /\ \/ mapped' = mapped \cup {[base |-> Base(k), load |-> loads]} /\ UNCHANGED failed
       \/ failed' = TRUE /\ UNCHANGED mapped
    /\ UNCHANGED <<loads, nodes, userVars>>

MycharInit ==
    \/ AllocChrdevRegion \/ ClassCreate \/ DeviceCreate
    \/ CdevAdd("cdev_add_0", 0, "cdev_add_1")
    \/ CdevAdd("cdev_add_1", 1, "cdev_add_2")
    \/ CdevAdd("cdev_add_2", 2, "in")

-----------------------------------------------------------------------------
(* mychar_exit *)

\* Mutant: no owner in fops.
ModuleRefs_NoOwner(u) == 0
ModuleRefs(u) == files[u]

\* c_dev_x was added last at 2, so that is the range it is taken from; the one at 0 stays.
\* c_dev_z was never added.
CdevDel ==
    /\ step = "in" /\ \A u \in Users : ModuleRefs(u) = 0
    /\ mapped' = {r \in mapped : ~(r.load = loads /\ r.base \in {1, 2})}
    /\ step' = "device_destroy"
    /\ UNCHANGED <<loads, nodes, failed, userVars>>

DeviceDestroy ==
    /\ step = "device_destroy"
    /\ nodes' = {} /\ step' = "out"
    /\ UNCHANGED <<loads, mapped, failed, userVars>>

MycharExit == CdevDel \/ DeviceDestroy

-----------------------------------------------------------------------------
(* Users *)

\* kobj_lookup takes, of ranges of the same size, the one added last: this load's, if it has
\* added one that covers the minor, or else what an earlier load has left.
Covers(r, minor) == minor \in r.base..(r.base + 2)
Leads(minor) == \E r \in mapped : Covers(r, minor) /\ r.load = loads
Stale(minor) == ~Leads(minor) /\ \E r \in mapped : Covers(r, minor)

To(u, label) == pc' = [pc EXCEPT ![u] = label]

\* A file that is open counts as long as the process lives: only the last is ever closed.
Opens(u) ==
    /\ files[u] < MaxFiles
    /\ files' = [files EXCEPT ![u] = @ + 1]
    /\ To(u, "random")

\* "Cannot open device file", or key e: the end of the program, which closes its files.
Ends(u) == To(u, "done") /\ files' = [files EXCEPT ![u] = 0]

Open(u, minor) ==
    /\ pc[u] = "menu" /\ minor \in nodes
    /\ Leads(minor) /\ step # "device_destroy"
    /\ Opens(u)
    /\ UNCHANGED <<moduleVars, i, register>>

OpenFails(u, minor) ==
    /\ pc[u] = "menu"
    /\ minor \notin nodes \/ ~(Leads(minor) \/ Stale(minor)) \/ step = "device_destroy" \/ files[u] = MaxFiles
    /\ Ends(u)
    /\ UNCHANGED <<moduleVars, i, register>>

\* A range that an earlier load has left points into memory that was freed: the open
\* fails, the process is killed, or the driver that was loaded there again answers.
OpenStale(u, minor) ==
    /\ pc[u] = "menu" /\ minor \in nodes
    /\ Stale(minor) /\ step # "device_destroy"
    /\ Opens(u) \/ Ends(u)
    /\ UNCHANGED <<moduleVars, i, register>>

\* scull_read: get_random_bytes(&i, 2).  Mutant: the whole of i.
Drawn_All(r) == r * 65537
Drawn(r) == r

GetRandom(u) ==
    /\ pc[u] = "random"
    /\ \E r \in Random : i' = Drawn(r)
    /\ To(u, "load")
    /\ UNCHANGED <<moduleVars, register, files>>

\* Mutant: one value too many.
Modulo_Inclusive(n) == n % 1025
Modulo(n) == n % 1024

LoadI(u) ==
    /\ pc[u] = "load"
    /\ register' = [register EXCEPT ![u] = i]
    /\ To(u, "store")
    /\ UNCHANGED <<moduleVars, i, files>>

StoreI(u) ==
    /\ pc[u] = "store"
    /\ i' = Modulo(register[u])
    /\ register' = [register EXCEPT ![u] = 0]
    /\ To(u, "copy")
    /\ UNCHANGED <<moduleVars, files>>

\* copy_to_user of four bytes; read returns 0, and the program prints what has come.
CopyToUser(u) ==
    /\ pc[u] = "copy"
    /\ To(u, "menu")
    /\ UNCHANGED <<moduleVars, i, register, files>>

\* Key e.
Exit(u) ==
    /\ pc[u] = "menu"
    /\ Ends(u)
    /\ UNCHANGED <<moduleVars, i, register>>

User(u) ==
    \/ \E minor \in 0..2 : Open(u, minor) \/ OpenFails(u, minor) \/ OpenStale(u, minor)
    \/ GetRandom(u) \/ LoadI(u) \/ StoreI(u) \/ CopyToUser(u) \/ Exit(u)

Next == MycharInit \/ MycharExit \/ \E u \in Users : User(u)
Spec == Init /\ [][Next]_adxlVars

-----------------------------------------------------------------------------
ModuleTypeOK ==
    /\ step \in {"out", "class_create", "oops", "device_create", "cdev_add_0", "cdev_add_1", "cdev_add_2",
                 "in", "device_destroy"}
    /\ loads \in 0..MaxLoads /\ nodes \subseteq 0..2
    /\ mapped \subseteq [base : 0..2, load : 1..MaxLoads]

UserTypeOK ==
    /\ i \in Word
    /\ pc \in [Users -> {"menu", "random", "load", "store", "copy", "done"}]
    /\ register \in [Users -> Word]
    /\ files \in [Users -> 0..MaxFiles]

\* Driver and users keep their ranges; in particular i never exceeds two bytes.
AdxlTypeOK == ModuleTypeOK /\ UserTypeOK /\ failed \in BOOLEAN

\* What a read delivers is an axis value of ten bits, unless at that moment another read
\* is between its random number and its modulo (all share i).
TenBits ==
    \A u \in Users :
        pc[u] = "copy" /\ i >= 1024 => \E v \in Users \ {u} : pc[v] \in {"load", "store"}

\* Once it is loaded without an error every node leads to this driver, whatever earlier
\* loads have left in the kernel's map; and no file is open when it is gone.
NodesLead ==
    /\ step = "in" /\ ~failed => \A minor \in nodes : Leads(minor)
    /\ \A u \in Users : files[u] > 0 => step \in {"cdev_add_0", "cdev_add_1", "cdev_add_2", "in"}
=============================================================================
