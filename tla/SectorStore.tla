----------------------------- MODULE SectorStore -----------------------------
(***************************************************************************)
(* What the RAM disk promises: a call that is served alone reads or writes  *)
(* exactly its sectors, at one instant between its start and its end.  Of   *)
(* calls that are served together it promises only to leave the sectors of  *)
(* others alone, where a disk would serve each of them exactly.             *)
(***************************************************************************)
EXTENDS Integers

CONSTANTS Users, Area

VARIABLES
    present,        \* the medium is there
    store,          \* what each sector contains
    calls,          \* under way: [client, op, sector, len], one a client at most
    result          \* what each client read last

storeVars == <<present, store, calls, result>>

Reach(b) == b.sector .. b.sector + b.len - 1

\* Without a medium contents mean nothing.
Prepare ==
    /\ ~present
    /\ UNCHANGED <<present, calls, result>>

Insert ==
    /\ present' # present
    /\ calls = {} /\ calls' = {}
    /\ UNCHANGED <<store, result>>

Call(b) ==
    /\ present
    /\ b.client \in Users /\ \A d \in calls : d.client # b.client
    /\ calls' = calls \cup {b}
    /\ UNCHANGED <<present, store, result>>

Forget(u) ==
    /\ \A b \in calls : b.client # u
    /\ result' = [result EXCEPT ![u] = <<>>]
    /\ UNCHANGED <<present, store, calls>>

Exactly(served) ==
    /\ store' = [s \in Area |->
          IF \E b \in served : b.op = "write" /\ s \in Reach(b)
          THEN LET b == CHOOSE b \in served : s \in Reach(b) IN <<b.client, s - b.sector>>
          ELSE store[s]]
    /\ result' = [u \in Users |->
          IF \E b \in served : b.op = "read" /\ b.client = u
          THEN LET b == CHOOSE b \in served : b.client = u
               IN  [i \in 1..b.len |-> store[b.sector + i - 1]]
          ELSE result[u]]

Together(served) ==
    /\ \A s \in Area :
          store'[s] # store[s] => \E b \in served : b.op = "write" /\ s \in Reach(b)
    /\ \A u \in Users :
          result'[u] # result[u] => \E b \in served : b.op = "read" /\ u = b.client

Serve(served) ==
    /\ present /\ UNCHANGED present
    /\ served # {}
    /\ calls' = calls \ served

StoreNext ==
    \/ Prepare
    \/ Insert
    \/ \E b \in calls' \ calls : Call(b)
    \/ \E u \in Users : Forget(u)
    \/ \E served \in {calls \ calls'} :
          /\ Serve(served)
          /\ \/ Exactly(served)
             \/ (\A b \in served : served # {b}) /\ Together(served)

StoreInit == ~present /\ calls = {} /\ result = [u \in Users |-> <<>>]

StoreSpec == StoreInit /\ [][StoreNext]_storeVars

\* A disk.
ExactNext ==
    \/ Prepare
    \/ Insert
    \/ \E b \in calls' \ calls : Call(b)
    \/ \E u \in Users : Forget(u)
    \/ Serve(calls \ calls') /\ Exactly(calls \ calls')

ExactSpec == StoreInit /\ [][ExactNext]_storeVars
=============================================================================
