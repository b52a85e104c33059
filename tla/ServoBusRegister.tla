-------------------------- MODULE ServoBusRegister --------------------------
(* ServoBus seen as a ServoRegister. *)
EXTENDS ServoBus

MaxValue == 65535       \* the host makes a number of two bytes
NoOp == [kind |-> "other", value |-> 0]

Operation(r) ==
    LET kind == IF r.type = "standard" THEN "other"
                ELSE CASE r.request = CMD_SET  -> "set"
                       [] r.request = CMD_GET  -> "get"
                       [] r.request = CMD_ECHO -> "echo"
                       [] OTHER -> "other"
    IN  [kind |-> kind, value |-> IF kind = "set" THEN Lo(r.wValue) ELSE r.wValue]

\* A call is served when usbProcessRx has executed its request.
Served == hStage # "idle" /\ msgFor = hXfer

CurrentOp == IF hXfer = Junk THEN NoOp ELSE Operation(hXfer)
CallState == IF hStage = "idle" THEN "idle" ELSE IF Served THEN "served" ELSE "called"
Promised  == IF ~Served THEN 0
             ELSE CASE CurrentOp.kind = "get"  -> angle
                    [] CurrentOp.kind = "echo" -> CurrentOp.value
                    [] OTHER -> 0
Returned  == IF hStage = "idle" THEN hVal ELSE 0

Register == INSTANCE ServoRegister WITH
    Operations <- {Operation(r) : r \in Requests},
    Values     <- 0..MaxValue,
    reg        <- angle,
    op         <- CurrentOp,
    state      <- CallState,
    promise    <- Promised,
    out        <- Returned

\* A call that returns something has room for all of it.
AsksEnough(r) == Operation(r).kind \in {"get", "echo"} => r.wLength >= FullLength(r)

\* To a client the device is the register: a call that returns was served once,
\* in between, and read the angle of that instant, and every call returns.
ImplementsRegister == Register!RegisterSpec
=============================================================================
