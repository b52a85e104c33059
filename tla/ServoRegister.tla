---------------------------- MODULE ServoRegister ----------------------------
(***************************************************************************)
(* What the servo promises to one client that makes one call at a time: it  *)
(* is a register for the angle.  A call takes effect at one instant between *)
(* its start and its return, and returns what that instant determines.      *)
(* ServoBus implements this when the traffic leaves no packet behind.       *)
(***************************************************************************)
EXTENDS Integers

CONSTANTS Operations,   \* [kind, value] records; kind is "set", "get", "echo" or "other"
          Values        \* what a call may return

VARIABLES reg,      \* the angle
          op,       \* the operation in progress, or the last one
          state,    \* "idle", "called" or "served"
          promise,  \* what a served call is going to return
          out       \* what the last call returned

registerVars == <<reg, op, state, promise, out>>

NoOp == [kind |-> "other", value |-> 0]

RegisterInit ==
    /\ reg = 0
    /\ op = NoOp
    /\ state = "idle"
    /\ promise = 0
    /\ out = 0

Call(o) ==
    /\ state = "idle"
    /\ state' = "called"
    /\ op' = o
    /\ out' = 0
    /\ UNCHANGED <<reg, promise>>

Serve ==
    /\ state = "called"
    /\ state' = "served"
    /\ reg' = IF op.kind = "set" THEN op.value ELSE reg
    /\ promise' = CASE op.kind = "get"  -> reg
                    [] op.kind = "echo" -> op.value
                    [] OTHER -> 0
    /\ UNCHANGED <<op, out>>

\* Requests of no concern to the register return whatever they return.
Return ==
    /\ state = "served"
    /\ state' = "idle"
    /\ promise' = 0
    /\ IF op.kind = "other" THEN out' \in Values ELSE out' = promise
    /\ UNCHANGED <<reg, op>>

RegisterNext == (\E o \in Operations : Call(o)) \/ Serve \/ Return

\* Without the promise that calls are served and return.
RegisterSafety == RegisterInit /\ [][RegisterNext]_registerVars

RegisterSpec ==
    /\ RegisterSafety
    /\ WF_registerVars(Serve)
    /\ WF_registerVars(Return)
=============================================================================
