------------------------------ MODULE AdxlProofs ------------------------------
(***************************************************************************)
(* The invariants of Adxl for any number of users, loads and files.         *)
(***************************************************************************)
EXTENDS Adxl, TLAPS

Initialising == {"cdev_add_0", "cdev_add_1", "cdev_add_2"}

\* The global holds an axis value unless somebody is between random number and modulo.
AxisOrBusy == i < 1024 \/ \E v \in Users : pc[v] \in {"load", "store"}

\* Every load has its number, and nodes only exist between mychar_init and mychar_exit.
LoadCounted == step # "out" => loads >= 1
NodesWhileLoaded == nodes # {} => step \in Initialising \cup {"in", "device_destroy"}

\* The range of all three minors is there from the first cdev_add on, if none has failed.
FirstRange ==
    step \in {"cdev_add_1", "cdev_add_2", "in"} /\ ~failed
        => \E r \in mapped : r.base = 0 /\ r.load = loads

FilesKeepModule == \A u \in Users : files[u] > 0 => step \in Initialising \cup {"in"}

IInv ==
    AdxlTypeOK /\ AxisOrBusy /\ LoadCounted /\ NodesWhileLoaded /\ FirstRange /\ FilesKeepModule

-----------------------------------------------------------------------------
LEMMA Words ==
    /\ Word \subseteq Nat
    /\ \A n \in Nat : n < 1024 => n \in Word
    /\ \A n \in Word : Modulo(n) \in Nat /\ Modulo(n) < 1024
<1>1. \A n : n \in Word <=> n \in Nat /\ n <= 256 * 256 - 1
  <2>1. \A top \in Int : \A n : n \in 0..top <=> n \in Nat /\ n <= top
    OBVIOUS
  <2>2. 256 * 256 - 1 \in Int
    OBVIOUS
  <2> QED BY <2>1, <2>2, Zenon DEF Word
<1>2. Word \subseteq Nat
  BY <1>1
<1>3. \A n \in Nat : n < 1024 => n \in Word
  BY <1>1
<1>4. \A n \in Nat : n % 1024 \in Nat /\ n % 1024 < 1024
  OBVIOUS
<1> QED BY <1>2, <1>3, <1>4 DEF Modulo

LEMMA InitInv == Init => IInv
<1> SUFFICES ASSUME Init PROVE IInv
  OBVIOUS
<1>1. ModuleTypeOK /\ UserTypeOK
  BY AdxlAssumption, Words DEF Init, ModuleTypeOK, UserTypeOK
<1>2. failed \in BOOLEAN
  BY Zenon DEF Init
<1>3. AxisOrBusy /\ LoadCounted /\ NodesWhileLoaded /\ FirstRange /\ FilesKeepModule
  BY DEF Init, AxisOrBusy, LoadCounted, NodesWhileLoaded, FirstRange, FilesKeepModule
<1> QED BY <1>1, <1>2, <1>3 DEF IInv, AdxlTypeOK

\* mychar_init does not touch the readers; it is over before anything can be removed.
LEMMA InitStep == ASSUME IInv, MycharInit PROVE IInv'
<1> USE DEF userVars
<1> ModuleTypeOK /\ UserTypeOK /\ failed \in BOOLEAN
  BY DEF IInv, AdxlTypeOK
<1>1. CASE AllocChrdevRegion
  <2>1. ModuleTypeOK'
    BY <1>1, AdxlAssumption DEF ModuleTypeOK, AllocChrdevRegion
  <2>2. UserTypeOK'
    BY <1>1, Words DEF UserTypeOK, AllocChrdevRegion
  <2>3. failed' \in BOOLEAN
    BY <1>1, Zenon DEF AllocChrdevRegion
  <2>4. FilesKeepModule'
    BY <1>1 DEF IInv, FilesKeepModule, AllocChrdevRegion, Initialising
  <2>5. (LoadCounted /\ NodesWhileLoaded /\ FirstRange)'
    BY <1>1, AdxlAssumption
    DEF IInv, ModuleTypeOK, LoadCounted, NodesWhileLoaded, FirstRange, AllocChrdevRegion, Initialising
  <2>6. AxisOrBusy'
    BY <1>1 DEF AxisOrBusy, AllocChrdevRegion
  <2> QED BY <2>1, <2>2, <2>3, <2>4, <2>5, <2>6 DEF IInv, AdxlTypeOK
<1>2. CASE ClassCreate
  <2>1. (ModuleTypeOK /\ UserTypeOK)'
    BY <1>2 DEF ModuleTypeOK, UserTypeOK, ClassCreate
  <2>2. failed' \in BOOLEAN
    BY <1>2, Zenon DEF ClassCreate
  <2>3. (AxisOrBusy /\ LoadCounted /\ NodesWhileLoaded /\ FirstRange /\ FilesKeepModule)'
    BY <1>2 DEF IInv, AxisOrBusy, LoadCounted, NodesWhileLoaded, FirstRange, FilesKeepModule, ClassCreate, Initialising
  <2> QED BY <2>1, <2>2, <2>3 DEF IInv, AdxlTypeOK
<1>3. CASE DeviceCreate
  <2>1. (ModuleTypeOK /\ UserTypeOK)'
    BY <1>3 DEF ModuleTypeOK, UserTypeOK, DeviceCreate
  <2>2. failed' \in BOOLEAN
    BY <1>3, Zenon DEF DeviceCreate
  <2>3. (AxisOrBusy /\ LoadCounted /\ NodesWhileLoaded /\ FirstRange /\ FilesKeepModule)'
    BY <1>3 DEF IInv, AxisOrBusy, LoadCounted, NodesWhileLoaded, FirstRange, FilesKeepModule, DeviceCreate, Initialising
  <2> QED BY <2>1, <2>2, <2>3 DEF IInv, AdxlTypeOK
<1>4. ASSUME NEW at \in Initialising, NEW k \in 0..2, NEW next \in {"cdev_add_1", "cdev_add_2", "in"},
             CdevAdd(at, k, next), next = "cdev_add_1" => k = 0,
             at = "cdev_add_0" <=> next = "cdev_add_1"
      PROVE  IInv'
  <2>1. loads \in 1..MaxLoads
    BY <1>4, AdxlAssumption DEF IInv, ModuleTypeOK, LoadCounted, CdevAdd, Initialising
  <2>2. [base |-> k, load |-> loads] \in [base : 0..2, load : 1..MaxLoads]
    BY <1>4, <2>1
  <2>3. ModuleTypeOK'
    BY <1>4, <2>2 DEF ModuleTypeOK, CdevAdd, Base
  <2>4. UserTypeOK'
    BY <1>4 DEF UserTypeOK, CdevAdd
  <2>5. failed' \in BOOLEAN
    BY <1>4, Zenon DEF CdevAdd
  <2>6. FirstRange'
    <3>1. CASE failed' = TRUE
      BY <3>1, Zenon DEF FirstRange
    <3>2. CASE mapped' = mapped \cup {[base |-> Base(k), load |-> loads]} /\ UNCHANGED failed
      <4>1. loads' = loads /\ step = at /\ step' = next
        BY <1>4 DEF CdevAdd
      <4>2. CASE next = "cdev_add_1"
        <5>1. [base |-> 0, load |-> loads] \in mapped'
          BY <1>4, <3>2, <4>2 DEF Base
        <5>2. \E r \in mapped' : r.base = 0 /\ r.load = loads'
          BY <4>1, <5>1
        <5> QED BY <5>2 DEF FirstRange
      <4>3. CASE next # "cdev_add_1"
        BY <1>4, <3>2, <4>1, <4>3 DEF IInv, FirstRange, Initialising
      <4> QED BY <4>2, <4>3
    <3> QED BY <1>4, <3>1, <3>2, Zenon DEF CdevAdd
  <2>7. (AxisOrBusy /\ LoadCounted /\ NodesWhileLoaded /\ FilesKeepModule)'
    BY <1>4, <2>1 DEF IInv, AxisOrBusy, LoadCounted, NodesWhileLoaded, FilesKeepModule, CdevAdd, Initialising
  <2> QED BY <2>3, <2>4, <2>5, <2>6, <2>7 DEF IInv, AdxlTypeOK
<1>5. CASE CdevAdd("cdev_add_0", 0, "cdev_add_1")
  BY <1>4, <1>5 DEF Initialising
<1>6. CASE CdevAdd("cdev_add_1", 1, "cdev_add_2")
  BY <1>4, <1>6 DEF Initialising
<1>7. CASE CdevAdd("cdev_add_2", 2, "in")
  BY <1>4, <1>7 DEF Initialising
<1> QED BY <1>1, <1>2, <1>3, <1>5, <1>6, <1>7 DEF MycharInit

\* mychar_exit runs when no file is open; what it leaves in the map is of a load that is over.
LEMMA ExitStep == ASSUME IInv, MycharExit PROVE IInv'
<1> USE DEF userVars
<1>1. CASE CdevDel
  <2>1. AdxlTypeOK'
    BY <1>1 DEF IInv, AdxlTypeOK, ModuleTypeOK, UserTypeOK, CdevDel
  <2>2. FilesKeepModule'
    BY <1>1 DEF IInv, AdxlTypeOK, UserTypeOK, FilesKeepModule, CdevDel, ModuleRefs
  <2>3. (AxisOrBusy /\ LoadCounted /\ NodesWhileLoaded /\ FirstRange)'
    BY <1>1 DEF IInv, AxisOrBusy, LoadCounted, NodesWhileLoaded, FirstRange, CdevDel, Initialising
  <2> QED BY <2>1, <2>2, <2>3 DEF IInv
<1>2. CASE DeviceDestroy
  <2>1. AdxlTypeOK'
    BY <1>2 DEF IInv, AdxlTypeOK, ModuleTypeOK, UserTypeOK, DeviceDestroy
  <2>2. (AxisOrBusy /\ LoadCounted /\ NodesWhileLoaded /\ FirstRange /\ FilesKeepModule)'
    BY <1>2 DEF IInv, AxisOrBusy, LoadCounted, NodesWhileLoaded, FirstRange, FilesKeepModule, DeviceDestroy, Initialising
  <2> QED BY <2>1, <2>2 DEF IInv
<1> QED BY <1>1, <1>2 DEF MycharExit

\* A user who opens has found a node of a module that is there.
LEMMA OpenStep ==
    ASSUME IInv, NEW u \in Users, NEW minor \in 0..2,
           Open(u, minor) \/ OpenFails(u, minor) \/ OpenStale(u, minor) \/ Exit(u)
    PROVE  IInv'
<1> USE DEF moduleVars
<1>1. /\ pc[u] = "menu" /\ UNCHANGED <<moduleVars, i, register>>
      /\ \/ minor \in nodes /\ step # "device_destroy" /\ Opens(u)
         \/ Ends(u)
  BY DEF Open, OpenFails, OpenStale, Exit
<1>2. AdxlTypeOK'
  BY <1>1, AdxlAssumption DEF IInv, AdxlTypeOK, ModuleTypeOK, UserTypeOK, Opens, Ends, To
<1>3. AxisOrBusy'
  BY <1>1 DEF IInv, AdxlTypeOK, ModuleTypeOK, UserTypeOK, AxisOrBusy, Opens, Ends, To
<1>4. FilesKeepModule'
  BY <1>1 DEF IInv, AdxlTypeOK, ModuleTypeOK, UserTypeOK, FilesKeepModule, NodesWhileLoaded, Opens, Ends, To
<1>5. (LoadCounted /\ NodesWhileLoaded /\ FirstRange)'
  BY <1>1 DEF IInv, LoadCounted, NodesWhileLoaded, FirstRange
<1> QED BY <1>2, <1>3, <1>4, <1>5 DEF IInv

\* scull_read.
LEMMA ReadStep ==
    ASSUME IInv, NEW u \in Users, GetRandom(u) \/ LoadI(u) \/ StoreI(u) \/ CopyToUser(u)
    PROVE  IInv'
<1> USE DEF moduleVars, To
<1>1. UNCHANGED <<moduleVars, files>>
  BY DEF GetRandom, LoadI, StoreI, CopyToUser
<1>2. AdxlTypeOK'
  <2>1. CASE GetRandom(u)
    BY <2>1, <1>1, AdxlAssumption DEF IInv, AdxlTypeOK, ModuleTypeOK, UserTypeOK, GetRandom, Drawn
  <2>2. CASE LoadI(u)
    BY <2>2, <1>1 DEF IInv, AdxlTypeOK, ModuleTypeOK, UserTypeOK, LoadI
  <2>3. CASE StoreI(u)
    <3>1. Modulo(register[u]) \in Word /\ 0 \in Word
      <4>1. register[u] \in Word
        BY DEF IInv, AdxlTypeOK, UserTypeOK
      <4>2. 0 \in Nat /\ 0 < 1024
        OBVIOUS
      <4>3. Modulo(register[u]) \in Nat /\ Modulo(register[u]) < 1024
        BY <4>1, Words, Zenon
      <4>4. \A n \in Nat : n < 1024 => n \in Word
        BY Words, Zenon
      <4> QED BY <4>2, <4>3, <4>4, Zenon
    <3> QED BY <2>3, <1>1, <3>1 DEF IInv, AdxlTypeOK, ModuleTypeOK, UserTypeOK, StoreI
  <2>4. CASE CopyToUser(u)
    BY <2>4, <1>1 DEF IInv, AdxlTypeOK, ModuleTypeOK, UserTypeOK, CopyToUser
  <2> QED BY <2>1, <2>2, <2>3, <2>4
<1>3. AxisOrBusy'
  <2>1. CASE GetRandom(u)
    BY <2>1 DEF IInv, AdxlTypeOK, ModuleTypeOK, UserTypeOK, AxisOrBusy, GetRandom
  <2>2. CASE LoadI(u)
    BY <2>2 DEF IInv, AdxlTypeOK, ModuleTypeOK, UserTypeOK, AxisOrBusy, LoadI
  <2>3. CASE StoreI(u)
    BY <2>3, Words DEF IInv, AdxlTypeOK, ModuleTypeOK, UserTypeOK, AxisOrBusy, StoreI
  <2>4. CASE CopyToUser(u)
    BY <2>4 DEF IInv, AdxlTypeOK, ModuleTypeOK, UserTypeOK, AxisOrBusy, CopyToUser
  <2> QED BY <2>1, <2>2, <2>3, <2>4
<1>4. (LoadCounted /\ NodesWhileLoaded /\ FirstRange /\ FilesKeepModule)'
  BY <1>1 DEF IInv, LoadCounted, NodesWhileLoaded, FirstRange, FilesKeepModule
<1> QED BY <1>2, <1>3, <1>4 DEF IInv

LEMMA NextInv == IInv /\ [Next]_adxlVars => IInv'
<1> SUFFICES ASSUME IInv, [Next]_adxlVars PROVE IInv'
  OBVIOUS
<1>1. CASE MycharInit
  BY <1>1, InitStep
<1>2. CASE MycharExit
  BY <1>2, ExitStep
<1>3. ASSUME NEW u \in Users, User(u) PROVE IInv'
  <2>1. 0 \in 0..2
    OBVIOUS
  <2> QED BY <1>3, <2>1, OpenStep, ReadStep DEF User
<1>4. CASE UNCHANGED adxlVars
  BY <1>4 DEF adxlVars, moduleVars, userVars, IInv, AdxlTypeOK, ModuleTypeOK, UserTypeOK, AxisOrBusy, LoadCounted, NodesWhileLoaded,
              FirstRange, FilesKeepModule
<1> QED BY <1>1, <1>2, <1>3, <1>4 DEF Next

LEMMA Invariance == Spec => []IInv
BY InitInv, NextInv, PTL DEF Spec

-----------------------------------------------------------------------------
\* Driver and users keep their ranges; in particular i never exceeds two bytes.
THEOREM AdxlTypes == Spec => []AdxlTypeOK
<1>1. IInv => AdxlTypeOK
  BY DEF IInv
<1> QED BY <1>1, Invariance, PTL

\* scull_read delivers ten bits unless it meets another read, for any number of readers.
THEOREM ReadsTenBits == Spec => []TenBits
<1>1. IInv => TenBits
  BY Words DEF IInv, AdxlTypeOK, ModuleTypeOK, UserTypeOK, AxisOrBusy, TenBits
<1> QED BY <1>1, Invariance, PTL

\* However often the module is loaded, its nodes lead to it and open files keep it.
THEOREM NodesLeadToDriver == Spec => []NodesLead
<1>1. IInv => NodesLead
  BY DEF IInv, AdxlTypeOK, ModuleTypeOK, UserTypeOK, FirstRange, FilesKeepModule, NodesLead, Leads, Covers, Initialising
<1> QED BY <1>1, Invariance, PTL
=============================================================================
