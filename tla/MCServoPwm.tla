----------------------------- MODULE MCServoPwm -----------------------------
(* ServoPwm with the longest and the shortest pulse. *)
EXTENDS ServoPwm

MCDelayTimes == {1429, 1500}     \* 100 ms, and 5 ms of interrupts
MCPollTimes == {9, 18}
MCStolen    == {0, 36}
MCAngles    == {131, 255}
\* 50, 100 and 126 ms: begun in the last delay the first ends in it, the second
\* in it or in the first usbPoll, the third after that.
MCResetTimes == {714, 1440, 1800}
=============================================================================
