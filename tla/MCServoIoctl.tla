---------------------------- MODULE MCServoIoctl ----------------------------
(***************************************************************************)
(* ServoIoctl with a servo and a foreign device with the same IDs that does *)
(* not answer; one process runs userapp, the other calls as it likes.        *)
(***************************************************************************)
EXTENDS ServoIoctl

MCCommands ==
    {[argc |-> 1, word |-> "none", arg |-> 0], [argc |-> 2, word |-> "set", arg |-> 0],
     [argc |-> 3, word |-> "set", arg |-> 300], [argc |-> 3, word |-> "set", arg |-> -1],
     [argc |-> 2, word |-> "status", arg |-> 0]}
=============================================================================
