---------------------------- MODULE UsbServoTool ----------------------------
(***************************************************************************)
(* The command line tool (usb-servo.c, and dev_test, dev_set and dev_status  *)
(* of commandline-libusb/usbdrv.c).                                          *)
(***************************************************************************)
EXTENDS UsbClient

CONSTANTS
    Tools,          \* the clients that run this program
    CommandLines,   \* records: argc, cmd (argv[1]), arg (what atoi makes of argv[2])
    Iterations      \* of dev_test: 1000

ASSUME ToolsAssumption == Tools \subseteq Clients /\ Iterations \in Nat \ {0}

VARIABLES command, iteration, printed
toolVars == <<command, iteration, printed>>

Unknown == -1

ToolInit ==
    /\ command \in [Tools -> CommandLines]
    /\ iteration = [c \in Tools |-> 0]
    /\ printed = [c \in Tools |-> Unknown]

argc(c) == command[c].argc

\* argc < 2: usage before the search for the servo.
ToolStart(c) ==
    /\ IF argc(c) < 2
       THEN pc[c] = "start" /\ Exits(c, 1) /\ UNCHANGED <<deviceVars, misled>>
       ELSE FindDevices(c)
    /\ UNCHANGED toolVars

\* usage and exit for an unknown command, usage and success for a wrong number of arguments.
Usage(c) ==
    /\ pc[c] = "opened"
    /\ \/ command[c].cmd \notin {"test", "set", "status"} /\ Exits(c, 1)
       \/ command[c].cmd \in {"test", "status"} /\ argc(c) # 2 /\ Exits(c, 0)
       \/ command[c].cmd = "set" /\ argc(c) # 3 /\ Exits(c, 0)
    /\ UNCHANGED <<deviceVars, misled, toolVars>>

\* A control message to a servo that is gone.
MessageFails(c) ==
    /\ handle[c] \notin plugged
    /\ Exits(c, 1)
    /\ UNCHANGED <<deviceVars, misled, toolVars>>

\* Each echo is compared with the random number that was sent; any other reply ends the test.
DevTest(c) ==
    /\ pc[c] = "opened" /\ command[c].cmd = "test" /\ argc(c) = 2
    /\ \/ MessageFails(c)
       \/ \E reply \in {<<1, 2>>, <<>>} :
            /\ Reads(c, handle[c], <<1, 2>>, reply)
            /\ IF reply # <<1, 2>>
               THEN Exits(c, 1) /\ UNCHANGED iteration
               ELSE /\ iteration' = [iteration EXCEPT ![c] = @ + 1]
                    /\ IF iteration[c] + 1 = Iterations
                       THEN Exits(c, 0)
                       ELSE UNCHANGED <<pc, exit, handle, open, rest, string, errorCode>>
            /\ UNCHANGED <<command, printed>>

\* Mutant: 256 is let through.
InRange_OffByOne(angleAsked) == angleAsked \in 0..256
InRange(angleAsked) == angleAsked \in 0..255

DevSet(c) ==
    /\ pc[c] = "opened" /\ command[c].cmd = "set" /\ argc(c) = 3
    /\ \/ MessageFails(c)
       \/ ~InRange(command[c].arg) /\ Exits(c, 1) /\ UNCHANGED deviceVars
       \/ InRange(command[c].arg) /\ Sets(c, command[c].arg) /\ Exits(c, 0)
    /\ UNCHANGED <<misled, toolVars>>

\* At least one byte is needed; the first is printed.
DevStatus(c) ==
    /\ pc[c] = "opened" /\ command[c].cmd = "status" /\ argc(c) = 2
    /\ \/ MessageFails(c)
       \/ \E reply \in {<<angle>>, <<>>} :
            /\ Reads(c, handle[c], <<angle>>, reply)
            /\ IF reply = <<>>
               THEN Exits(c, 1) /\ UNCHANGED printed
               ELSE Exits(c, 0) /\ printed' = [printed EXCEPT ![c] = reply[1]]
            /\ UNCHANGED <<command, iteration>>

Tool(c) ==
    \/ ToolStart(c)
    \/ UsbOpenDevice(c) /\ UNCHANGED toolVars
    \/ Usage(c) \/ DevTest(c) \/ DevSet(c) \/ DevStatus(c)
=============================================================================
