---------------------------- MODULE ServoClients ----------------------------
(***************************************************************************)
(* The command line tool and the X pointer client at the same servo.         *)
(***************************************************************************)
EXTENDS UsbServoTool, XServoPointer

ASSUME ProgramsAssumption == Clients = Tools \cup Pointers /\ Tools \cap Pointers = {}

clientsVars == <<deviceVars, clientVars, toolVars, pointerVars>>

ClientsInit == ClientInit /\ ToolInit /\ PointerInit

ClientsNext ==
    \/ \E c \in Tools : Tool(c) /\ UNCHANGED pointerVars
    \/ \E c \in Pointers : Pointer(c) /\ UNCHANGED toolVars
    \/ MoveMouse /\ UNCHANGED toolVars
    \/ \E d \in Devices : Unplug(d) /\ UNCHANGED <<toolVars, pointerVars>>

\* Programs go on running; the system schedules both.
ClientsSpec ==
    /\ ClientsInit /\ [][ClientsNext]_clientsVars
    /\ \A c \in Tools : WF_clientsVars(Tool(c) /\ UNCHANGED pointerVars)
    /\ \A c \in Pointers : WF_clientsVars(Pointer(c) /\ UNCHANGED toolVars)

-----------------------------------------------------------------------------
\* Everything keeps its range, devices that are not the servo's kind are never opened, and a
\* program that has ended has an exit code (exit and return of main).
ClientsTypeOK ==
    /\ plugged \subseteq Devices /\ angle \in 0..255
    /\ leftover \in BOOLEAN /\ setter \in Clients \cup {None} /\ misled \subseteq Clients
    /\ \A c \in Clients :
        /\ pc[c] \in {"start", "search", "vendor", "product", "opened", "aiming", "done"}
        /\ handle[c] \in Matching \cup {None}
        /\ open[c] \subseteq Matching
        /\ errorCode[c] \in 0..USB_ERROR_IO /\ exit[c] \in -1..1
        /\ (exit[c] = -1) = (pc[c] # "done")
    /\ \A c \in Tools : iteration[c] \in 0..Iterations /\ printed[c] \in Unknown..255

\* When a set command reports success the servo was turned to exactly the angle asked
\* for, whatever the others do (dev_set's range check, and one byte in the servo).
SetsWhatWasAsked ==
    [][\A c \in Tools :
        exit[c] = -1 /\ exit'[c] = 0 /\ command[c].cmd = "set" /\ argc(c) = 3
            => angle' = command[c].arg /\ setter' = c]_clientsVars

\* When the mouse rests the servo comes to point at it, unless the program has ended or
\* somebody else has set the servo last (update compares with the last position only).
PointsAtPointer ==
    \A c \in Pointers :
        <>[](pc[c] = "done" \/ setter \in Tools \/ angle = Aim[mouse])
=============================================================================
