---------------------------- MODULE XServoPointer ----------------------------
(***************************************************************************)
(* xservopointer.c: every 100 ms the position of the mouse pointer is        *)
(* queried, and if it has changed the servo is turned towards it.            *)
(***************************************************************************)
EXTENDS UsbClient

CONSTANTS
    Pointers,       \* the clients that run this program
    Positions,      \* of the mouse pointer, <<x, y>>
    Aim,            \* 128 - (int)(atan((x - servoposx) / (y - servoposy)) * 255 / pi)
    MaxMoves        \* bound: movements of the mouse

\* The arc tangent lies between -pi/2 and pi/2, and servoposy is above the screen.
ASSUME AimAssumption ==
    /\ Pointers \subseteq Clients
    /\ Aim \in [Positions -> 1..255]
    /\ MaxMoves \in Nat

\* oldabsx and oldabsy before the first update.
Nowhere == <<-1000, -1000>>

VARIABLES mouse, moves, abs, oldabs
pointerVars == <<mouse, moves, abs, oldabs>>

PointerInit ==
    /\ mouse \in Positions /\ moves = 0
    /\ abs = [c \in Pointers |-> Nowhere]
    /\ oldabs = [c \in Pointers |-> Nowhere]

MoveMouse ==
    /\ moves < MaxMoves
    /\ moves' = moves + 1
    /\ mouse' \in Positions \ {mouse}
    /\ UNCHANGED <<deviceVars, clientVars, abs, oldabs>>

\* Mutant: only sideways movements count.
Moved_X(c) == abs'[c][1] # oldabs[c][1]
Moved(c) == abs'[c] # oldabs[c]

\* The first half of update: XQueryPointer.
QueryPointer(c) ==
    /\ pc[c] = "opened"
    /\ abs' = [abs EXCEPT ![c] = mouse]
    /\ pc' = [pc EXCEPT ![c] = IF Moved(c) THEN "aiming" ELSE "opened"]
    /\ UNCHANGED <<deviceVars, searchVars, handle, exit, mouse, moves, oldabs>>

\* The second half: the message to the servo, then the sleep.
UpdateServo(c) ==
    /\ pc[c] = "aiming"
    /\ Sets(c, Aim[abs[c]])
    /\ oldabs' = [oldabs EXCEPT ![c] = abs[c]]
    /\ pc' = [pc EXCEPT ![c] = "opened"]
    /\ UNCHANGED <<searchVars, handle, exit, mouse, moves, abs>>

UpdateFails(c) ==
    /\ pc[c] = "aiming"
    /\ handle[c] \notin plugged
    /\ Exits(c, 1)
    /\ UNCHANGED <<deviceVars, misled, pointerVars>>

Pointer(c) ==
    \/ (FindDevices(c) \/ UsbOpenDevice(c)) /\ UNCHANGED pointerVars
    \/ QueryPointer(c) \/ UpdateServo(c) \/ UpdateFails(c)
=============================================================================
