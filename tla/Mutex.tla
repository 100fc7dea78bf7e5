------------------------------- MODULE Mutex -------------------------------
(***************************************************************************)
(* What the applications expect of the semaphore they share: a process may *)
(* be inside only when no other process is.  There is one lock per         *)
(* semaphore set that was ever created, because a removed set that is      *)
(* created again is another lock.  InitSem.tla implements it.              *)
(***************************************************************************)
CONSTANTS Procs, Locks

VARIABLE holder     \* holder[g]: the processes inside lock g

Init == holder = [g \in Locks |-> {}]

Enter(p, g) == /\ holder[g] = {}
               /\ holder' = [holder EXCEPT ![g] = {p}]

\* Leaving is a release, or the end of the process that was inside.
Leave(p, g) == /\ holder[g] = {p}
               /\ holder' = [holder EXCEPT ![g] = {}]

Next == \E p \in Procs, g \in Locks : Enter(p, g) \/ Leave(p, g)

Spec == Init /\ [][Next]_holder
=============================================================================
