-------------------------- MODULE ServoClientsProofs --------------------------
(***************************************************************************)
(* Proofs about the libusb programs, for any devices on the bus and any      *)
(* order in which libusb lists them, any command lines and positions.        *)
(***************************************************************************)
EXTENDS ServoClients, TLAPS

-----------------------------------------------------------------------------
(* The invariant *)

Labels == {"start", "search", "vendor", "product", "opened", "aiming", "done"}

\* A client: what it has open and why, and that the servo is still ahead of who searches.
OneInv(c) ==
    /\ pc[c] \in Labels /\ rest[c] \subseteq Matching
    /\ errorCode[c] \in 0..USB_ERROR_IO /\ exit[c] \in -1..1
    /\ exit[c] = -1 <=> pc[c] # "done"
    /\ open[c] = IF handle[c] = None THEN {} ELSE {handle[c]}
    /\ pc[c] \in {"start", "search", "done"} => handle[c] = None
    /\ pc[c] \in {"vendor", "product"} => handle[c] \in Matching \cap Accessible
    /\ pc[c] = "product" /\ handle[c] # Servo => Ascii(Strings[handle[c]][1]) = vendorName
    /\ pc[c] \in {"opened", "aiming"} => handle[c] = Servo /\ errorCode[c] = 0
    /\ errorCode[c] = 0 => pc[c] \in {"opened", "aiming", "done"}
    /\ pc[c] \in {"search", "vendor", "product"} /\ Servo \in plugged \cap Accessible /\ c \notin misled
          => Servo \in rest[c]

SharedInv ==
    /\ plugged \subseteq Devices /\ angle \in 0..255
    /\ setter \in Clients \cup {None} /\ misled \subseteq Clients
    /\ DOMAIN pc = Clients /\ DOMAIN rest = Clients /\ DOMAIN handle = Clients
    /\ DOMAIN open = Clients /\ DOMAIN errorCode = Clients /\ DOMAIN exit = Clients

FlagInv == leftover \in BOOLEAN

\* A test that goes on has iterations left.
ToolInv ==
    /\ DOMAIN iteration = Tools /\ DOMAIN printed = Tools
    /\ \A c \in Tools :
        /\ iteration[c] \in 0..Iterations /\ printed[c] \in Unknown..255
        /\ pc[c] # "done" => iteration[c] < Iterations

\* Who aims has a position to aim at.
PointerInv ==
    /\ mouse \in Positions /\ DOMAIN abs = Pointers
    /\ \A c \in Clients : pc[c] = "aiming" => c \in Pointers /\ abs[c] \in Positions

ClientsIInv ==
    (\A c \in Clients : OneInv(c)) /\ SharedInv /\ FlagInv /\ ToolInv /\ PointerInv

\* A step of c, as the others see it.
Untouched(d) ==
    /\ pc'[d] = pc[d] /\ rest'[d] = rest[d] /\ handle'[d] = handle[d]
    /\ open'[d] = open[d] /\ errorCode'[d] = errorCode[d] /\ exit'[d] = exit[d]

Kept(c) ==
    /\ OneInv(c)' /\ SharedInv'
    /\ \A d \in Clients \ {c} : Untouched(d)
    /\ plugged' \subseteq plugged /\ misled \subseteq misled'

LEMMA OthersKeep ==
    ASSUME NEW d \in Clients, OneInv(d), Untouched(d),
           plugged' \subseteq plugged, misled \subseteq misled'
    PROVE  OneInv(d)'
BY DEF OneInv, Untouched

LEMMA AllKeep ==
    ASSUME \A d \in Clients : OneInv(d), NEW c \in Clients, Kept(c)
    PROVE  \A d \in Clients : OneInv(d)'
<1> SUFFICES ASSUME NEW d \in Clients, d # c PROVE OneInv(d)'
  BY DEF Kept
<1> QED BY OthersKeep DEF Kept

LEMMA Known == None \notin Matching /\ Servo \in Matching /\ Servo # None
BY BusAssumption

-----------------------------------------------------------------------------
(* The search *)

LEMMA FindDevicesKeeps ==
    ASSUME ClientsIInv, NEW c \in Clients, FindDevices(c)
    PROVE  Kept(c) /\ FlagInv' /\ pc'[c] = "search"
<1>1. OneInv(c) /\ SharedInv /\ FlagInv
  BY DEF ClientsIInv
<1>2. UNCHANGED <<plugged, angle, leftover, setter, misled, handle, open, errorCode, exit>>
  BY DEF FindDevices, deviceVars
<1>3. rest' = [rest EXCEPT ![c] = {d \in plugged : d \in Matching}]
      /\ pc[c] = "start" /\ pc' = [pc EXCEPT ![c] = "search"]
  BY DEF FindDevices, HasIds
<1>4. OneInv(c)'
  BY <1>1, <1>2, <1>3, Known DEF OneInv, SharedInv, Labels
<1>5. SharedInv' /\ FlagInv'
  BY <1>1, <1>2, <1>3 DEF SharedInv, FlagInv
<1>6. \A d \in Clients \ {c} : Untouched(d)
  BY <1>1, <1>2, <1>3 DEF SharedInv, Untouched
<1> QED BY <1>1, <1>2, <1>3, <1>4, <1>5, <1>6 DEF Kept, SharedInv

LEMMA NotFoundKeeps ==
    ASSUME ClientsIInv, NEW c \in Clients, NotFound(c)
    PROVE  Kept(c) /\ FlagInv' /\ pc'[c] = "done" /\ exit'[c] = 1
<1>1. OneInv(c) /\ SharedInv /\ FlagInv
  BY DEF ClientsIInv
<1>2. UNCHANGED <<plugged, angle, leftover, setter, misled, handle, open, errorCode, rest>>
  BY DEF NotFound, deviceVars, searchVars
<1>3. /\ pc[c] = "search" /\ pc' = [pc EXCEPT ![c] = "done"]
      /\ exit' = [exit EXCEPT ![c] = 1]
  BY DEF NotFound
<1>4. OneInv(c)'
  BY <1>1, <1>2, <1>3 DEF OneInv, SharedInv, Labels
<1>5. SharedInv' /\ FlagInv'
  BY <1>1, <1>2, <1>3 DEF SharedInv, FlagInv
<1>6. \A d \in Clients \ {c} : Untouched(d)
  BY <1>1, <1>2, <1>3 DEF SharedInv, Untouched
<1> QED BY <1>1, <1>2, <1>3, <1>4, <1>5, <1>6 DEF Kept, SharedInv

LEMMA CannotOpenKeeps ==
    ASSUME ClientsIInv, NEW c \in Clients, CannotOpen(c)
    PROVE  Kept(c) /\ FlagInv' /\ pc'[c] = "search"
<1>1. OneInv(c) /\ SharedInv /\ FlagInv
  BY DEF ClientsIInv
<1>2. UNCHANGED <<plugged, angle, leftover, setter, misled, pc, handle, open, exit>>
  BY DEF CannotOpen, deviceVars
<1>3. PICK d \in rest[c] : d \notin Accessible \cap plugged /\ rest' = [rest EXCEPT ![c] = @ \ {d}]
  BY DEF CannotOpen, Foremost
<1>4. pc[c] = "search" /\ errorCode' = [errorCode EXCEPT ![c] = 2]
  BY DEF CannotOpen, USB_ERROR_ACCESS
<1>5. OneInv(c)'
  BY <1>1, <1>2, <1>3, <1>4 DEF OneInv, SharedInv, Labels, USB_ERROR_IO
<1>6. SharedInv' /\ FlagInv'
  BY <1>1, <1>2, <1>3, <1>4 DEF SharedInv, FlagInv
<1>7. \A e \in Clients \ {c} : Untouched(e)
  BY <1>1, <1>2, <1>3, <1>4 DEF SharedInv, Untouched
<1> QED BY <1>1, <1>2, <1>4, <1>5, <1>6, <1>7 DEF Kept, SharedInv

LEMMA UsbOpenKeeps ==
    ASSUME ClientsIInv, NEW c \in Clients, UsbOpen(c)
    PROVE  Kept(c) /\ FlagInv' /\ pc'[c] = "vendor"
<1>1. OneInv(c) /\ SharedInv /\ FlagInv
  BY DEF ClientsIInv
<1>2. UNCHANGED <<plugged, angle, leftover, setter, misled, rest, errorCode, exit>>
  BY DEF UsbOpen, deviceVars
<1>3. PICK d \in rest[c] : /\ d \in Accessible
                           /\ handle' = [handle EXCEPT ![c] = d]
                           /\ open' = [open EXCEPT ![c] = @ \cup {d}]
  BY DEF UsbOpen, Foremost
<1>4. pc[c] = "search" /\ pc' = [pc EXCEPT ![c] = "vendor"]
  BY DEF UsbOpen
<1>5. OneInv(c)'
  BY <1>1, <1>2, <1>3, <1>4, Known DEF OneInv, SharedInv, Labels
<1>6. SharedInv' /\ FlagInv'
  BY <1>1, <1>2, <1>3, <1>4 DEF SharedInv, FlagInv
<1>7. \A e \in Clients \ {c} : Untouched(e)
  BY <1>1, <1>2, <1>3, <1>4 DEF SharedInv, Untouched
<1> QED BY <1>1, <1>2, <1>4, <1>5, <1>6, <1>7 DEF Kept, SharedInv

\* The next device, if the servo is not the one given up.
LEMMA RejectsKeeps ==
    ASSUME ClientsIInv, NEW c \in Clients, pc[c] \in {"vendor", "product"},
           NEW error \in {1, 3}, Rejects(c, error), UNCHANGED <<plugged, angle, setter, exit>>,
           misled \subseteq misled', misled' \subseteq Clients,
           handle[c] = Servo => Servo \notin plugged \/ c \in misled'
    PROVE  Kept(c) /\ pc'[c] = "search"
<1>1. OneInv(c) /\ SharedInv
  BY DEF ClientsIInv
<1>2. /\ open' = [open EXCEPT ![c] = @ \ {handle[c]}]
      /\ handle' = [handle EXCEPT ![c] = None]
      /\ errorCode' = [errorCode EXCEPT ![c] = error]
      /\ rest' = [rest EXCEPT ![c] = @ \ {handle[c]}]
      /\ pc' = [pc EXCEPT ![c] = "search"]
  BY DEF Rejects
<1>3. OneInv(c)'
  BY <1>1, <1>2, Known DEF OneInv, SharedInv, Labels, USB_ERROR_IO
<1>4. SharedInv'
  BY <1>1, <1>2 DEF SharedInv
<1>5. \A d \in Clients \ {c} : Untouched(d)
  BY <1>1, <1>2 DEF SharedInv, Untouched
<1> QED BY <1>1, <1>2, <1>3, <1>4, <1>5 DEF Kept, SharedInv

LEMMA QueryFailsKeeps ==
    ASSUME ClientsIInv, NEW c \in Clients, QueryFails(c)
    PROVE  Kept(c) /\ FlagInv' /\ pc'[c] = "search"
<1>1. /\ pc[c] \in {"vendor", "product"} /\ Rejects(c, 3)
      /\ handle[c] = Servo => Servo \notin plugged
      /\ UNCHANGED <<plugged, angle, leftover, setter, misled, exit>>
  BY DEF QueryFails, Unreadable, deviceVars, USB_ERROR_IO
<1>2. misled \subseteq Clients /\ FlagInv
  BY DEF ClientsIInv, SharedInv
<1>3. Kept(c) /\ pc'[c] = "search"
  BY <1>1, <1>2, RejectsKeeps
<1>4. FlagInv'
  BY <1>1, <1>2 DEF FlagInv
<1> QED BY <1>3, <1>4

\* What a device other than the servo sends is what the client reads; so is the servo's
\* answer, unless the client is misled.
LEMMA StringsRead ==
    ASSUME NEW d \in Matching, NEW n \in {1, 2}, NEW before
    PROVE  StringAfter(Strings[d][n], before) = {Ascii(Strings[d][n])}
<1>1. Len(Strings[d][n]) >= 2 /\ Strings[d][n][2] = USBDESCR_STRING
  BY NamesAssumption
<1> DEFINE answer == Strings[d][n]
<1>2. Len(answer) \in Int => ~(Len(answer) < 2)
  BY <1>1
<1> QED BY <1>1, <1>2 DEF StringAfter

\* A string that has been read: a match, which only devices with that name give, or a
\* mismatch, which the servo gives only to a client it misleads.
LEMMA ComparesTo ==
    ASSUME ClientsIInv, NEW c \in Clients, pc[c] \in {"vendor", "product"},
           NEW n \in {1, 2}, NEW name, NEW next \in {"product", "opened"},
           Compares(c, n, name, next), Ascii(Strings[Servo][n]) = name
    PROVE  /\ UNCHANGED <<plugged, angle, setter, exit>>
           /\ leftover' \in BOOLEAN
           /\ misled \subseteq misled' /\ misled' \subseteq Clients
           /\ \/ /\ handle[c] # Servo => Ascii(Strings[handle[c]][n]) = name
                 /\ pc' = [pc EXCEPT ![c] = next]
                 /\ errorCode' = [errorCode EXCEPT ![c] = IF next = "opened" THEN 0 ELSE 1]
                 /\ UNCHANGED <<rest, open, handle>>
              \/ /\ Rejects(c, 1)
                 /\ handle[c] = Servo => c \in misled'
<1>1. OneInv(c) /\ SharedInv /\ FlagInv /\ handle[c] \in Matching
  BY DEF ClientsIInv, OneInv
<1> DEFINE answer == Strings[handle[c]][n]
<1> DEFINE Outcome(s) ==
      \/ /\ s = name
         /\ pc' = [pc EXCEPT ![c] = next]
         /\ errorCode' = [errorCode EXCEPT ![c] = IF next = "opened" THEN 0 ELSE 1]
         /\ UNCHANGED <<rest, open, handle>>
      \/ s # name /\ Rejects(c, 1)
<1>a. PICK reply \in {answer, <<>>, SubSeq(answer, 9, Len(answer))} :
         /\ Reads(c, handle[c], answer, reply)
         /\ \E s \in StringAfter(reply, string[c]) : Outcome(s)
  BY DEF Compares, USB_ERROR_NOTFOUND
<1>2. PICK s \in StringAfter(reply, string[c]) : Outcome(s)
  BY <1>a
<1>3. UNCHANGED exit
  BY DEF Compares
<1>4. StringAfter(answer, string[c]) = {Ascii(answer)}
  BY <1>1, StringsRead
<1> HIDE DEF answer
<1>5. /\ UNCHANGED <<plugged, angle, setter>>
      /\ \/ reply = answer /\ UNCHANGED misled
         \/ handle[c] = Servo /\ misled' = misled \cup {c}
  BY <1>a DEF Reads
<1>6. leftover' \in BOOLEAN
  <2>1. leftover' = (leftover /\ handle[c] # Servo) \/ leftover' = leftover
    BY <1>a, Zenon DEF Reads
  <2>2. leftover \in BOOLEAN
    BY <1>1 DEF FlagInv
  <2> QED BY <2>1, <2>2
<1>7. reply = answer => s = Ascii(Strings[handle[c]][n])
  BY <1>2, <1>4 DEF answer
<1>8. misled \subseteq misled' /\ misled' \subseteq Clients
  BY <1>1, <1>5 DEF SharedInv
<1>9. s = name => (handle[c] # Servo => Ascii(Strings[handle[c]][n]) = name)
  BY <1>5, <1>7
<1>10. s # name => (handle[c] = Servo => c \in misled')
  BY <1>5, <1>7
<1> QED BY <1>2, <1>3, <1>5, <1>6, <1>8, <1>9, <1>10

LEMMA ServoStrings ==
    Ascii(Strings[Servo][1]) = vendorName /\ Ascii(Strings[Servo][2]) = productName
BY BusAssumption, NamesArrive

LEMMA QueryManufacturerKeeps ==
    ASSUME ClientsIInv, NEW c \in Clients, QueryManufacturer(c)
    PROVE  Kept(c) /\ FlagInv' /\ pc'[c] \in {"search", "product"}
<1>1. OneInv(c) /\ SharedInv /\ pc[c] = "vendor"
  BY DEF ClientsIInv, QueryManufacturer
<1>2. /\ UNCHANGED <<plugged, angle, setter, exit>>
      /\ leftover' \in BOOLEAN
      /\ misled \subseteq misled' /\ misled' \subseteq Clients
      /\ \/ /\ handle[c] # Servo => Ascii(Strings[handle[c]][1]) = vendorName
            /\ pc' = [pc EXCEPT ![c] = "product"]
            /\ errorCode' = [errorCode EXCEPT ![c] = 1]
            /\ UNCHANGED <<rest, open, handle>>
         \/ /\ Rejects(c, 1)
            /\ handle[c] = Servo => c \in misled'
  <2>1. Compares(c, 1, vendorName, "product")
    BY DEF QueryManufacturer
  <2> HIDE DEF vendorName
  <2> QED BY <1>1, <2>1, ServoStrings, ComparesTo
<1>3. CASE Rejects(c, 1) /\ (handle[c] = Servo => c \in misled')
  BY <1>1, <1>2, <1>3, RejectsKeeps DEF FlagInv
<1>4. CASE /\ handle[c] # Servo => Ascii(Strings[handle[c]][1]) = vendorName
           /\ pc' = [pc EXCEPT ![c] = "product"]
           /\ errorCode' = [errorCode EXCEPT ![c] = 1]
           /\ UNCHANGED <<rest, open, handle>>
  <2>1. OneInv(c)'
    BY <1>1, <1>2, <1>4 DEF OneInv, SharedInv, Labels, USB_ERROR_IO
  <2>2. SharedInv' /\ \A d \in Clients \ {c} : Untouched(d)
    BY <1>1, <1>2, <1>4 DEF SharedInv, Untouched
  <2>3. pc'[c] = "product"
    BY <1>1, <1>4 DEF SharedInv
  <2> QED BY <1>2, <2>1, <2>2, <2>3 DEF Kept, FlagInv
<1> QED BY <1>2, <1>3, <1>4

LEMMA QueryProductKeeps ==
    ASSUME ClientsIInv, NEW c \in Clients, QueryProduct(c)
    PROVE  Kept(c) /\ FlagInv' /\ pc'[c] \in {"search", "opened"}
<1>1. OneInv(c) /\ SharedInv /\ pc[c] = "product" /\ handle[c] \in Matching \cap Accessible
  BY DEF ClientsIInv, QueryProduct, OneInv
<1>2. /\ UNCHANGED <<plugged, angle, setter, exit>>
      /\ leftover' \in BOOLEAN
      /\ misled \subseteq misled' /\ misled' \subseteq Clients
      /\ \/ /\ handle[c] # Servo => Ascii(Strings[handle[c]][2]) = productName
            /\ pc' = [pc EXCEPT ![c] = "opened"]
            /\ errorCode' = [errorCode EXCEPT ![c] = 0]
            /\ UNCHANGED <<rest, open, handle>>
         \/ /\ Rejects(c, 1)
            /\ handle[c] = Servo => c \in misled'
  <2>1. Compares(c, 2, productName, "opened")
    BY DEF QueryProduct
  <2> HIDE DEF productName
  <2> QED BY <1>1, <2>1, ServoStrings, ComparesTo
<1>3. CASE Rejects(c, 1) /\ (handle[c] = Servo => c \in misled')
  BY <1>1, <1>2, <1>3, RejectsKeeps DEF FlagInv
<1>4. CASE /\ handle[c] # Servo => Ascii(Strings[handle[c]][2]) = productName
           /\ pc' = [pc EXCEPT ![c] = "opened"]
           /\ errorCode' = [errorCode EXCEPT ![c] = 0]
           /\ UNCHANGED <<rest, open, handle>>
  <2>1. handle[c] = Servo
    BY <1>1, <1>4, NamesAssumption DEF OneInv
  <2>2. OneInv(c)'
    BY <1>1, <1>2, <1>4, <2>1 DEF OneInv, SharedInv, Labels, USB_ERROR_IO
  <2>3. SharedInv' /\ \A d \in Clients \ {c} : Untouched(d)
    BY <1>1, <1>2, <1>4 DEF SharedInv, Untouched
  <2>4. pc'[c] = "opened"
    BY <1>1, <1>4 DEF SharedInv
  <2> QED BY <1>2, <2>2, <2>3, <2>4 DEF Kept, FlagInv
<1> QED BY <1>2, <1>3, <1>4

LEMMA UsbOpenDeviceKeeps ==
    ASSUME ClientsIInv, NEW c \in Clients, UsbOpenDevice(c)
    PROVE  Kept(c) /\ FlagInv' /\ pc'[c] # "aiming" /\ pc[c] # "done" /\ exit'[c] # 0
<1>1. OneInv(c) /\ SharedInv
  BY DEF ClientsIInv
<1>2. Kept(c) /\ FlagInv' /\ pc'[c] \in Labels \ {"aiming"}
  BY NotFoundKeeps, CannotOpenKeeps, UsbOpenKeeps, QueryFailsKeeps, QueryManufacturerKeeps, QueryProductKeeps
     DEF UsbOpenDevice, Labels
<1>3. pc[c] \in {"search", "vendor", "product"}
  BY DEF UsbOpenDevice, NotFound, CannotOpen, UsbOpen, QueryFails, QueryManufacturer, QueryProduct
<1>4. exit'[c] = 1 \/ exit'[c] = exit[c]
  BY NotFoundKeeps DEF UsbOpenDevice, CannotOpen, UsbOpen, QueryFails, QueryManufacturer, QueryProduct, Compares
<1> QED BY <1>1, <1>2, <1>3, <1>4 DEF OneInv

\* A program that ends has nothing open.
LEMMA ExitsKeeps ==
    ASSUME ClientsIInv, NEW c \in Clients, pc[c] # "done", NEW code \in {0, 1}, Exits(c, code),
           plugged' = plugged, misled \subseteq misled', misled' \subseteq Clients,
           angle' \in 0..255, setter' \in Clients \cup {None}
    PROVE  Kept(c) /\ pc'[c] = "done" /\ exit'[c] = code
<1>1. OneInv(c) /\ SharedInv
  BY DEF ClientsIInv
<1>2. /\ pc' = [pc EXCEPT ![c] = "done"]
      /\ exit' = [exit EXCEPT ![c] = code]
      /\ handle' = [handle EXCEPT ![c] = None]
      /\ open' = [open EXCEPT ![c] = {}]
      /\ UNCHANGED <<rest, errorCode>>
  BY DEF Exits
<1>3. OneInv(c)'
  BY <1>1, <1>2 DEF OneInv, SharedInv, Labels
<1>4. SharedInv' /\ \A d \in Clients \ {c} : Untouched(d)
  BY <1>1, <1>2 DEF SharedInv, Untouched
<1>5. pc'[c] = "done" /\ exit'[c] = code
  BY <1>1, <1>2 DEF SharedInv
<1> QED BY <1>3, <1>4, <1>5 DEF Kept

LEMMA ReadsKeeps ==
    ASSUME ClientsIInv, NEW c \in Clients, NEW d, NEW answer, NEW reply, Reads(c, d, answer, reply)
    PROVE  /\ UNCHANGED <<plugged, angle, setter>> /\ FlagInv'
           /\ misled \subseteq misled' /\ misled' \subseteq Clients
<1>1. UNCHANGED <<plugged, angle, setter>> /\ (misled' = misled \/ misled' = misled \cup {c})
  BY DEF Reads
<1>2. leftover' = (leftover /\ d # Servo) \/ leftover' = leftover
  BY Zenon DEF Reads
<1>3. leftover \in BOOLEAN /\ misled \subseteq Clients
  BY DEF ClientsIInv, FlagInv, SharedInv
<1>4. leftover' \in BOOLEAN
  BY <1>2, <1>3
<1> QED BY <1>1, <1>3, <1>4 DEF FlagInv

LEMMA SetsKeeps ==
    ASSUME ClientsIInv, NEW c \in Clients, NEW wValue \in 0..255, Sets(c, wValue),
           handle[c] = Servo
    PROVE  angle' = wValue /\ setter' = c /\ plugged' = plugged /\ FlagInv'
BY DEF Sets, Lo, FlagInv

-----------------------------------------------------------------------------
(* The command line tool *)

\* Steps that leave the variables of the one program or of the other alone.
LEMMA ToolVarsKeep ==
    ASSUME ClientsIInv, NEW c \in Clients, Kept(c), UNCHANGED toolVars,
           pc[c] = "done" => pc'[c] = "done"
    PROVE  ToolInv'
BY ToolsAssumption DEF ClientsIInv, ToolInv, Kept, Untouched, toolVars

LEMMA PointerVarsKeep ==
    ASSUME ClientsIInv, NEW c \in Clients, Kept(c), UNCHANGED pointerVars, pc'[c] # "aiming"
    PROVE  PointerInv'
BY DEF ClientsIInv, PointerInv, Kept, Untouched, pointerVars

LEMMA ToolStartKeeps ==
    ASSUME ClientsIInv, NEW c \in Tools, ToolStart(c)
    PROVE  Kept(c) /\ FlagInv' /\ ToolInv' /\ pc'[c] # "aiming" /\ exit'[c] # 0
<1>1. c \in Clients /\ OneInv(c) /\ SharedInv /\ FlagInv /\ pc[c] = "start" /\ UNCHANGED toolVars
  BY ToolsAssumption DEF ClientsIInv, ToolStart, FindDevices
<1>2. CASE FindDevices(c)
  <2>1. Kept(c) /\ FlagInv' /\ pc'[c] = "search"
    BY <1>1, <1>2, FindDevicesKeeps
  <2>2. exit' = exit
    BY <1>2 DEF FindDevices
  <2> QED BY <1>1, <2>1, <2>2, ToolVarsKeep DEF OneInv
<1>3. CASE Exits(c, 1) /\ UNCHANGED <<deviceVars, misled>>
  <2>1. UNCHANGED <<plugged, angle, leftover, setter, misled>>
    BY <1>3 DEF deviceVars
  <2>2. Kept(c) /\ pc'[c] = "done" /\ exit'[c] = 1
    BY <1>1, <1>3, <2>1, ExitsKeeps DEF SharedInv
  <2> QED BY <1>1, <2>1, <2>2, ToolVarsKeep DEF FlagInv
<1> QED BY <1>2, <1>3 DEF ToolStart

\* What ends the tool without a message: usage, a servo that is gone, a bad angle.
LEMMA GivesUpKeeps ==
    ASSUME ClientsIInv, NEW c \in Clients, pc[c] = "opened", NEW code \in {0, 1}, Exits(c, code),
           UNCHANGED <<deviceVars, misled, toolVars>>
    PROVE  Kept(c) /\ FlagInv' /\ ToolInv' /\ pc'[c] = "done" /\ exit'[c] = code
<1>1. OneInv(c) /\ SharedInv /\ FlagInv /\ UNCHANGED <<plugged, angle, leftover, setter, misled>>
  BY DEF ClientsIInv, deviceVars
<1>2. Kept(c) /\ pc'[c] = "done" /\ exit'[c] = code
  BY <1>1, ExitsKeeps DEF SharedInv
<1> QED BY <1>1, <1>2, ToolVarsKeep DEF FlagInv

LEMMA UsageKeeps ==
    ASSUME ClientsIInv, NEW c \in Tools, Usage(c)
    PROVE  /\ Kept(c) /\ FlagInv' /\ ToolInv' /\ pc'[c] # "aiming"
           /\ exit'[c] = 0 => ~(command[c].cmd = "set" /\ argc(c) = 3)
<1>1. c \in Clients /\ pc[c] = "opened" /\ UNCHANGED <<deviceVars, misled, toolVars>>
  BY ToolsAssumption DEF Usage
<1>2. CASE Exits(c, 1)
  BY <1>1, <1>2, GivesUpKeeps
<1>3. CASE Exits(c, 0) /\ ~(command[c].cmd = "set" /\ argc(c) = 3)
  BY <1>1, <1>3, GivesUpKeeps
<1> QED BY <1>2, <1>3 DEF Usage

LEMMA DevTestKeeps ==
    ASSUME ClientsIInv, NEW c \in Tools, DevTest(c)
    PROVE  /\ Kept(c) /\ FlagInv' /\ ToolInv' /\ pc'[c] # "aiming"
           /\ command[c].cmd # "set"
<1>1. c \in Clients /\ OneInv(c) /\ SharedInv /\ pc[c] = "opened" /\ command[c].cmd = "test"
  BY ToolsAssumption DEF DevTest, ClientsIInv
<1>2. CASE MessageFails(c)
  BY <1>1, <1>2, GivesUpKeeps DEF MessageFails
<1>3. ASSUME NEW reply, Reads(c, handle[c], <<1, 2>>, reply), UNCHANGED <<command, printed>>,
             \/ Exits(c, 1) /\ UNCHANGED iteration
             \/ /\ iteration' = [iteration EXCEPT ![c] = @ + 1]
                /\ IF iteration[c] + 1 = Iterations
                   THEN Exits(c, 0)
                   ELSE UNCHANGED <<pc, exit, handle, open, rest, string, errorCode>>
      PROVE  Kept(c) /\ FlagInv' /\ ToolInv' /\ pc'[c] # "aiming"
  <2>1. /\ UNCHANGED <<plugged, angle, setter>> /\ FlagInv'
        /\ misled \subseteq misled' /\ misled' \subseteq Clients
    BY <1>1, <1>3, ReadsKeeps
  <2>2. ToolInv
    BY DEF ClientsIInv
  <2>3. CASE Exits(c, 1) /\ UNCHANGED iteration
    <3>1. Kept(c) /\ pc'[c] = "done"
      BY <1>1, <2>1, <2>3, ExitsKeeps DEF SharedInv
    <3> QED BY <1>1, <1>3, <2>1, <2>3, <3>1, ToolVarsKeep DEF toolVars
  <2>4. CASE iteration' = [iteration EXCEPT ![c] = @ + 1] /\ Exits(c, 0)
             /\ iteration[c] + 1 = Iterations
    <3>1. Kept(c) /\ pc'[c] = "done"
      BY <1>1, <2>1, <2>4, ExitsKeeps DEF SharedInv
    <3>2. ToolInv'
      BY <1>1, <1>3, <2>2, <2>4, <3>1, ToolsAssumption DEF ToolInv, Kept, Untouched
    <3> QED BY <2>1, <3>1, <3>2
  <2>5. CASE /\ iteration' = [iteration EXCEPT ![c] = @ + 1] /\ iteration[c] + 1 # Iterations
             /\ UNCHANGED <<pc, exit, handle, open, rest, string, errorCode>>
    <3>1. Kept(c)
      BY <1>1, <2>1, <2>5 DEF Kept, OneInv, SharedInv, Untouched
    <3>2. DOMAIN iteration' = Tools /\ DOMAIN printed' = Tools
      BY <1>3, <2>2, <2>5 DEF ToolInv
    <3>3. iteration[c] + 1 \in 0..Iterations /\ iteration[c] + 1 < Iterations
      BY <1>1, <2>2, <2>5, ToolsAssumption DEF ToolInv
    <3>4. iteration'[c] = iteration[c] + 1 /\ \A d \in Tools \ {c} : iteration'[d] = iteration[d]
      BY <2>2, <2>5 DEF ToolInv
    <3>5. printed' = printed /\ pc' = pc
      BY <1>3, <2>5
    <3>6. ToolInv'
      BY <2>2, <3>2, <3>3, <3>4, <3>5, ToolsAssumption DEF ToolInv
    <3> QED BY <1>1, <2>1, <2>5, <3>1, <3>6
  <2> QED BY <1>3, <2>3, <2>4, <2>5
<1> QED BY <1>1, <1>2, <1>3 DEF DevTest

LEMMA DevSetKeeps ==
    ASSUME ClientsIInv, NEW c \in Tools, DevSet(c)
    PROVE  /\ Kept(c) /\ FlagInv' /\ ToolInv' /\ pc'[c] # "aiming"
           /\ exit'[c] = 0 => angle' = command[c].arg /\ setter' = c
<1>1. /\ c \in Clients /\ OneInv(c) /\ SharedInv /\ pc[c] = "opened" /\ handle[c] = Servo
      /\ UNCHANGED <<misled, toolVars>>
  BY ToolsAssumption DEF DevSet, ClientsIInv, OneInv
<1>2. CASE Exits(c, 1) /\ UNCHANGED deviceVars
  BY <1>1, <1>2, GivesUpKeeps
<1>3. CASE command[c].arg \in 0..255 /\ Sets(c, command[c].arg) /\ Exits(c, 0)
  <2>1. angle' = command[c].arg /\ setter' = c /\ plugged' = plugged /\ FlagInv'
    BY <1>1, <1>3, SetsKeeps
  <2>2. Kept(c) /\ pc'[c] = "done"
    BY <1>1, <1>3, <2>1, ExitsKeeps DEF SharedInv
  <2> QED BY <1>1, <2>1, <2>2, ToolVarsKeep
<1> QED BY <1>2, <1>3 DEF DevSet, MessageFails, InRange

LEMMA DevStatusKeeps ==
    ASSUME ClientsIInv, NEW c \in Tools, DevStatus(c)
    PROVE  /\ Kept(c) /\ FlagInv' /\ ToolInv' /\ pc'[c] # "aiming"
           /\ command[c].cmd # "set"
<1>1. c \in Clients /\ OneInv(c) /\ SharedInv /\ pc[c] = "opened" /\ command[c].cmd = "status"
  BY ToolsAssumption DEF DevStatus, ClientsIInv
<1>2. CASE MessageFails(c)
  BY <1>1, <1>2, GivesUpKeeps DEF MessageFails
<1>3. ASSUME NEW reply \in {<<angle>>, <<>>}, Reads(c, handle[c], <<angle>>, reply),
             UNCHANGED <<command, iteration>>,
             IF reply = <<>>
             THEN Exits(c, 1) /\ UNCHANGED printed
             ELSE Exits(c, 0) /\ printed' = [printed EXCEPT ![c] = reply[1]]
      PROVE  Kept(c) /\ FlagInv' /\ ToolInv' /\ pc'[c] # "aiming"
  <2>1. /\ UNCHANGED <<plugged, angle, setter>> /\ FlagInv'
        /\ misled \subseteq misled' /\ misled' \subseteq Clients
    BY <1>1, <1>3, ReadsKeeps
  <2>2. PICK code \in {0, 1} : Exits(c, code)
    BY <1>3
  <2>3. Kept(c) /\ pc'[c] = "done"
    BY <1>1, <2>1, <2>2, ExitsKeeps DEF SharedInv
  <2>4. printed' = printed \/ printed' = [printed EXCEPT ![c] = angle]
    BY <1>3
  <2>a. ToolInv /\ angle \in Unknown..255 /\ iteration' = iteration
    BY <1>1, <1>3 DEF ClientsIInv, SharedInv, Unknown
  <2>b. DOMAIN printed' = Tools /\ \A d \in Tools : printed'[d] \in Unknown..255
    BY <2>4, <2>a DEF ToolInv
  <2>c. \A d \in Tools : pc'[d] # "done" => pc[d] # "done"
    BY <1>1, <2>3, ToolsAssumption DEF Kept, Untouched
  <2>5. ToolInv'
    BY <2>a, <2>b, <2>c DEF ToolInv
  <2> QED BY <2>1, <2>3, <2>5
<1> QED BY <1>1, <1>2, <1>3 DEF DevStatus

LEMMA ToolKeeps ==
    ASSUME ClientsIInv, NEW c \in Tools, Tool(c)
    PROVE  /\ Kept(c) /\ FlagInv' /\ ToolInv' /\ pc'[c] # "aiming"
           /\ exit[c] = -1 /\ exit'[c] = 0 /\ command[c].cmd = "set" /\ argc(c) = 3
                 => angle' = command[c].arg /\ setter' = c
<1>1. CASE ToolStart(c)
  BY <1>1, ToolStartKeeps
<1>2. CASE UsbOpenDevice(c) /\ UNCHANGED toolVars
  BY <1>2, UsbOpenDeviceKeeps, ToolVarsKeep, ToolsAssumption
<1>3. CASE Usage(c)
  BY <1>3, UsageKeeps
<1>4. CASE DevTest(c)
  BY <1>4, DevTestKeeps
<1>5. CASE DevSet(c)
  BY <1>5, DevSetKeeps
<1>6. CASE DevStatus(c)
  BY <1>6, DevStatusKeeps
<1> QED BY <1>1, <1>2, <1>3, <1>4, <1>5, <1>6 DEF Tool

-----------------------------------------------------------------------------
(* The X pointer client *)

LEMMA QueryPointerKeeps ==
    ASSUME ClientsIInv, NEW c \in Pointers, QueryPointer(c)
    PROVE  Kept(c) /\ FlagInv' /\ PointerInv' /\ pc[c] # "done" /\ exit'[c] # 0
<1>1. /\ c \in Clients /\ OneInv(c) /\ SharedInv /\ FlagInv /\ PointerInv
      /\ pc[c] = "opened" /\ exit[c] = -1
  BY AimAssumption DEF QueryPointer, ClientsIInv, OneInv
<1>2. /\ UNCHANGED <<plugged, angle, leftover, setter, misled, rest, open, errorCode, handle, exit>>
      /\ mouse' = mouse /\ abs' = [abs EXCEPT ![c] = mouse]
  BY DEF QueryPointer, deviceVars, searchVars
<1>3. PICK label \in {"aiming", "opened"} : pc' = [pc EXCEPT ![c] = label]
  BY DEF QueryPointer
<1>4. OneInv(c)'
  BY <1>1, <1>2, <1>3 DEF OneInv, SharedInv, Labels
<1>5. SharedInv' /\ FlagInv' /\ \A d \in Clients \ {c} : Untouched(d)
  BY <1>1, <1>2, <1>3 DEF SharedInv, FlagInv, Untouched
<1>6. PointerInv'
  BY <1>1, <1>2, <1>3, <1>5 DEF PointerInv, Untouched
<1> QED BY <1>1, <1>2, <1>4, <1>5, <1>6 DEF Kept

LEMMA UpdateServoKeeps ==
    ASSUME ClientsIInv, NEW c \in Pointers, UpdateServo(c)
    PROVE  Kept(c) /\ FlagInv' /\ PointerInv' /\ pc[c] # "done" /\ exit'[c] # 0
<1>1. /\ c \in Clients /\ OneInv(c) /\ SharedInv /\ PointerInv
      /\ pc[c] = "aiming" /\ exit[c] = -1 /\ handle[c] = Servo
  BY AimAssumption DEF UpdateServo, ClientsIInv, OneInv
<1>2. /\ UNCHANGED <<misled, rest, open, errorCode, handle, exit, mouse, abs>>
      /\ pc' = [pc EXCEPT ![c] = "opened"]
  BY DEF UpdateServo, searchVars
<1>3. Aim[abs[c]] \in 0..255
  BY <1>1, AimAssumption DEF PointerInv
<1>4. angle' \in 0..255 /\ setter' = c /\ plugged' = plugged /\ FlagInv'
  BY <1>1, <1>3, SetsKeeps DEF UpdateServo
<1>5. OneInv(c)'
  BY <1>1, <1>2, <1>4 DEF OneInv, SharedInv, Labels
<1>6. SharedInv' /\ \A d \in Clients \ {c} : Untouched(d)
  BY <1>1, <1>2, <1>4 DEF SharedInv, Untouched
<1>7. PointerInv'
  BY <1>1, <1>2, <1>6 DEF PointerInv, Untouched, SharedInv
<1> QED BY <1>1, <1>2, <1>4, <1>5, <1>6, <1>7 DEF Kept

LEMMA UpdateFailsKeeps ==
    ASSUME ClientsIInv, NEW c \in Pointers, UpdateFails(c)
    PROVE  Kept(c) /\ FlagInv' /\ PointerInv' /\ pc[c] # "done" /\ exit'[c] # 0
<1>1. /\ c \in Clients /\ SharedInv /\ FlagInv /\ pc[c] = "aiming" /\ Exits(c, 1)
      /\ UNCHANGED <<plugged, angle, leftover, setter, misled, pointerVars>>
  BY AimAssumption DEF UpdateFails, ClientsIInv, deviceVars
<1>2. Kept(c) /\ pc'[c] = "done" /\ exit'[c] = 1
  BY <1>1, ExitsKeeps DEF SharedInv
<1> QED BY <1>1, <1>2, PointerVarsKeep DEF FlagInv

LEMMA PointerKeeps ==
    ASSUME ClientsIInv, NEW c \in Pointers, Pointer(c)
    PROVE  Kept(c) /\ FlagInv' /\ PointerInv' /\ pc[c] # "done"
<1>0. c \in Clients
  BY AimAssumption
<1>1. CASE FindDevices(c) /\ UNCHANGED pointerVars
  <2>1. pc[c] = "start"
    BY <1>1 DEF FindDevices
  <2> QED BY <1>0, <1>1, <2>1, FindDevicesKeeps, PointerVarsKeep
<1>2. CASE UsbOpenDevice(c) /\ UNCHANGED pointerVars
  BY <1>0, <1>2, UsbOpenDeviceKeeps, PointerVarsKeep
<1> QED BY <1>1, <1>2, QueryPointerKeeps, UpdateServoKeeps, UpdateFailsKeeps DEF Pointer

-----------------------------------------------------------------------------
(* The programs together *)

LEMMA InitHolds == ASSUME ClientsInit PROVE ClientsIInv
<1>1. \A c \in Clients : OneInv(c)
  BY DEF ClientsInit, ClientInit, OneInv, Labels, USB_ERROR_IO, USB_ERROR_NOTFOUND
<1>2. leftover = FALSE /\ SharedInv
  BY DEF ClientsInit, ClientInit, SharedInv
<1>5. FlagInv
  BY <1>2 DEF FlagInv
<1>3. ToolInv
  BY ToolsAssumption DEF ClientsInit, ToolInit, ToolInv, Unknown
<1>4. PointerInv
  BY DEF ClientsInit, ClientInit, PointerInit, PointerInv
<1> QED BY <1>1, <1>2, <1>3, <1>4, <1>5 DEF ClientsIInv

LEMMA UnplugKeeps ==
    ASSUME ClientsIInv, NEW d, Unplug(d), UNCHANGED <<toolVars, pointerVars>>
    PROVE  ClientsIInv' /\ UNCHANGED exit
<1>1. /\ UNCHANGED <<angle, leftover, setter, misled, pc, handle, exit, rest, open, errorCode>>
      /\ plugged' \subseteq plugged
  BY DEF Unplug, clientVars, searchVars
<1>2. \A c \in Clients : OneInv(c)'
  BY <1>1, OthersKeep DEF ClientsIInv, Untouched
<1>3. SharedInv' /\ FlagInv'
  BY <1>1 DEF ClientsIInv, SharedInv, FlagInv
<1>4. ToolInv' /\ PointerInv'
  BY <1>1 DEF ClientsIInv, ToolInv, PointerInv, toolVars, pointerVars
<1> QED BY <1>1, <1>2, <1>3, <1>4 DEF ClientsIInv

LEMMA MoveMouseKeeps ==
    ASSUME ClientsIInv, MoveMouse, UNCHANGED toolVars
    PROVE  ClientsIInv' /\ UNCHANGED exit
<1>1. /\ UNCHANGED <<plugged, angle, leftover, setter, misled, pc, handle, exit, rest, open, errorCode>>
      /\ mouse' \in Positions /\ abs' = abs
  BY DEF MoveMouse, deviceVars, clientVars, searchVars
<1>2. \A c \in Clients : OneInv(c)'
  BY <1>1, OthersKeep DEF ClientsIInv, Untouched
<1>3. SharedInv' /\ FlagInv'
  BY <1>1 DEF ClientsIInv, SharedInv, FlagInv
<1>4. ToolInv' /\ PointerInv'
  BY <1>1 DEF ClientsIInv, ToolInv, PointerInv, toolVars
<1> QED BY <1>1, <1>2, <1>3, <1>4 DEF ClientsIInv

\* What a tool is told when it succeeds, as a statement about one step.
AsAsked ==
    \A c \in Tools :
        exit[c] = -1 /\ exit'[c] = 0 /\ command[c].cmd = "set" /\ argc(c) = 3
            => angle' = command[c].arg /\ setter' = c

LEMMA StepHolds == ASSUME ClientsIInv, [ClientsNext]_clientsVars PROVE ClientsIInv' /\ AsAsked
<1>0. Tools \subseteq Clients /\ Pointers \subseteq Clients
  BY ToolsAssumption, AimAssumption
<1>1. ASSUME NEW c \in Tools, Tool(c), UNCHANGED pointerVars
      PROVE  ClientsIInv' /\ AsAsked
  <2>1. Kept(c) /\ FlagInv' /\ ToolInv' /\ pc'[c] # "aiming"
    BY <1>1, ToolKeeps
  <2>2. PointerInv' /\ \A d \in Clients : OneInv(d)'
    BY <1>0, <1>1, <2>1, PointerVarsKeep, AllKeep DEF ClientsIInv
  <2>3. ClientsIInv'
    BY <2>1, <2>2 DEF ClientsIInv, Kept
  <2>4. \A d \in Tools \ {c} : exit'[d] = exit[d]
    BY <1>0, <2>1 DEF Kept, Untouched
  <2>5. AsAsked
    BY <1>1, <2>4, ToolKeeps DEF AsAsked
  <2> QED BY <2>3, <2>5
<1>2. ASSUME NEW c \in Pointers, Pointer(c), UNCHANGED toolVars
      PROVE  ClientsIInv' /\ AsAsked
  <2>1. Kept(c) /\ FlagInv' /\ PointerInv' /\ pc[c] # "done"
    BY <1>2, PointerKeeps
  <2>2. ToolInv' /\ \A d \in Clients : OneInv(d)'
    BY <1>0, <1>2, <2>1, ToolVarsKeep, AllKeep DEF ClientsIInv
  <2>3. ClientsIInv'
    BY <2>1, <2>2 DEF ClientsIInv, Kept
  <2>4. \A d \in Tools : exit'[d] = exit[d]
    BY <1>0, <2>1, ProgramsAssumption DEF Kept, Untouched
  <2>5. AsAsked
    BY <2>4 DEF AsAsked
  <2> QED BY <2>3, <2>5
<1>3. CASE MoveMouse /\ UNCHANGED toolVars
  BY <1>3, MoveMouseKeeps DEF AsAsked
<1>4. ASSUME NEW d \in Devices, Unplug(d), UNCHANGED <<toolVars, pointerVars>>
      PROVE  ClientsIInv' /\ AsAsked
  BY <1>4, UnplugKeeps DEF AsAsked
<1>5. CASE UNCHANGED clientsVars
  <2>1. /\ UNCHANGED <<plugged, angle, leftover, setter, misled, pc, handle, exit, rest, open, errorCode>>
        /\ UNCHANGED <<toolVars, pointerVars>>
    BY <1>5 DEF clientsVars, deviceVars, clientVars, searchVars
  <2>2. \A c \in Clients : OneInv(c)'
    BY <2>1, OthersKeep DEF ClientsIInv, Untouched
  <2>3. SharedInv' /\ FlagInv'
    BY <2>1 DEF ClientsIInv, SharedInv, FlagInv
  <2>4. ToolInv' /\ PointerInv'
    BY <2>1 DEF ClientsIInv, ToolInv, PointerInv, toolVars, pointerVars
  <2> QED BY <2>1, <2>2, <2>3, <2>4 DEF ClientsIInv, AsAsked
<1> QED BY <1>1, <1>2, <1>3, <1>4, <1>5 DEF ClientsNext

\* ClientsIInv is inductive: every step of every program, of the mouse and of whoever pulls
\* plugs keeps it.
THEOREM ClientsInductive == ClientsSpec => []ClientsIInv
<1>1. ClientsInit => ClientsIInv
  BY InitHolds
<1>2. ClientsIInv /\ [ClientsNext]_clientsVars => ClientsIInv'
  BY StepHolds
<1> QED BY <1>1, <1>2, PTL DEF ClientsSpec

-----------------------------------------------------------------------------
(* The properties *)

\* Everything keeps its range, whatever is on the bus: a program opens devices with the
\* servo's IDs only, and has an exit code exactly when it has ended.
THEOREM ClientsTypes == ClientsSpec => []ClientsTypeOK
<1>1. ClientsIInv => ClientsTypeOK
  <2> SUFFICES ASSUME ClientsIInv PROVE ClientsTypeOK
    OBVIOUS
  <2>1. \A c \in Clients :
          /\ pc[c] \in {"start", "search", "vendor", "product", "opened", "aiming", "done"}
          /\ handle[c] \in Matching \cup {None} /\ open[c] \subseteq Matching
          /\ errorCode[c] \in 0..USB_ERROR_IO /\ exit[c] \in -1..1
          /\ (exit[c] = -1) = (pc[c] # "done")
    BY Known DEF ClientsIInv, OneInv, Labels
  <2>2. leftover \in BOOLEAN
    BY DEF ClientsIInv, FlagInv
  <2>3. /\ plugged \subseteq Devices /\ angle \in 0..255
        /\ setter \in Clients \cup {None} /\ misled \subseteq Clients
    BY DEF ClientsIInv, SharedInv
  <2>4. \A c \in Tools : iteration[c] \in 0..Iterations /\ printed[c] \in Unknown..255
    BY DEF ClientsIInv, ToolInv
  <2> QED BY <2>1, <2>2, <2>3, <2>4 DEF ClientsTypeOK
<1> QED BY <1>1, ClientsInductive, PTL

\* However many devices share the servo's IDs, in whatever order they are listed and whatever
\* they send, usbOpenDevice gives the programs the servo and leaves nothing else open.
THEOREM OpensTheServo == ClientsSpec => []OpensCounterpart
<1>1. ClientsIInv => OpensCounterpart
  BY DEF ClientsIInv, OneInv, OpensCounterpart
<1> QED BY <1>1, ClientsInductive, PTL

\* The search of usbOpenDevice does not come to its end past a servo that is there and may
\* be opened, unless the servo has answered with something old.
THEOREM FindsTheServo == ClientsSpec => []FindsServo
<1>1. ClientsIInv => FindsServo
  BY DEF ClientsIInv, OneInv, FindsServo
<1> QED BY <1>1, ClientsInductive, PTL

\* A set command that reports success has set the servo, whatever the other programs do.
THEOREM SetsTheAngle == ClientsSpec => SetsWhatWasAsked
<1>1. ClientsIInv /\ [ClientsNext]_clientsVars => AsAsked
  BY StepHolds
<1>2. [AsAsked]_clientsVars <=>
      [\A c \in Tools :
        exit[c] = -1 /\ exit'[c] = 0 /\ command[c].cmd = "set" /\ argc(c) = 3
            => angle' = command[c].arg /\ setter' = c]_clientsVars
  BY DEF AsAsked
<1> QED BY <1>1, <1>2, ClientsInductive, PTL DEF ClientsSpec, SetsWhatWasAsked
=============================================================================
