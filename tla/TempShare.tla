----------------------------- MODULE TempShare -----------------------------
(***************************************************************************)
(* The two programs of src/src: CPUtemp, the producer, and                 *)
(* CloudCommunicationApp, the consumer that talks to the cloud server.     *)
(* They share a segment of memory and the semaphore set of InitSem.tla;    *)
(* each start of a program goes through main() from the top, and any       *)
(* number of them may be started at any time.                              *)
(*                                                                         *)
(* A segment is external (the kernel): shmget finds it under its key until *)
(* IPC_RMID, and it exists as long as it has its key or is attached.  The  *)
(* cloud server is external too: it accepts, answers and closes.           *)
(***************************************************************************)
EXTENDS Naturals, FiniteSets

CONSTANTS
  Producers, Consumers,
  MaxSegs,                          \* bound: segments created in a behaviour
  MaxRunning,                       \* bound: programs that run at the same time
  MaxRetries, MaxSets, SembufFlags  \* see InitSem.tla

Procs == Producers \cup Consumers

ASSUME AppsAssumption ==
  /\ Producers \cap Consumers = {}
  /\ MaxSegs \in Nat /\ MaxRunning \in Nat /\ MaxSets \in Nat /\ MaxRetries \in Nat
  /\ SembufFlags \subseteq [undo : BOOLEAN, nowait : BOOLEAN, num0 : BOOLEAN]

VARIABLES
  keyed, sets, val, otime, pc, semid, tries, sb,  \* see InitSem.tla
  at,         \* where each program is in main(), see Stages
  segKey,     \* kernel: the segment shmget finds under the key, 0 for none
  segs,       \* kernel: segments created so far
  small,      \* kernel: the segments created by shmget(key, 200)
  written,    \* the segments that hold a temperature
  shmid,      \* local: the segment the program got from shmget, 0 for none
  attached,   \* local: buffer points to the segment
  f_close,    \* the flag of the SIGUSR1 handler
  conn,       \* the connection to the cloud server: "none", "up", "closed"
  abandoned   \* history: segments whose user ended without IPC_RMID

semVars == <<keyed, sets, val, otime, pc, semid, tries, sb>>
shmVars == <<segKey, segs, small, written, shmid, attached, abandoned>>
vars == <<semVars, shmVars, at, f_close, conn>>

\* The consumers remove the set when they exit and handle SIGUSR1; everybody may
\* be killed.
Sem == INSTANCE InitSem WITH Removers <- Consumers, Signalled <- Consumers,
                             Killable <- Procs, Operator <- FALSE

Stages == {"off",      \* not running; fopen, ftok and shmget leave nothing behind
           "attach",   \* shmget done, shmat to come
           "semfile",  \* open and ftok of SemFile
           "initsem",
           "sensor",   \* producer: fscanf of the sensor
           "signals",  \* consumer: sigaction
           "connect",  \* consumer: socket and connect
           "loop",     \* the test of while (f_close == 1)
           "lock", "shm", "unlock",
           "send", "recv",
           "cleanup",  \* shmdt and IPC_RMID of the segment
           "exit"}     \* closes, IPC_RMID of the set by a consumer, exit

SegIds == 1..MaxSegs

TypeOK ==
  /\ at \in [Procs -> Stages]
  /\ segKey \in 0..MaxSegs /\ segs \in 0..MaxSegs
  /\ small \subseteq SegIds /\ written \subseteq SegIds /\ abandoned \subseteq SegIds
  /\ shmid \in [Procs -> 0..MaxSegs]
  /\ attached \in [Procs -> BOOLEAN]
  /\ f_close \in [Procs -> BOOLEAN]
  /\ conn \in [Procs -> {"none", "up", "closed"}]

Init ==
  /\ Sem!Init
  /\ at = [p \in Procs |-> "off"]
  /\ segKey = 0 /\ segs = 0
  /\ small = {} /\ written = {} /\ abandoned = {}
  /\ shmid = [p \in Procs |-> 0]
  /\ attached = [p \in Procs |-> FALSE]
  /\ f_close = [p \in Procs |-> FALSE]
  /\ conn = [p \in Procs |-> "none"]

Goto(p, stage) == at' = [at EXCEPT ![p] = stage]

\* The segment still exists: under its key, or kept by whoever is attached to it.
Exists(s) == s = segKey \/ \E q \in Procs : shmid[q] = s /\ attached[q]

-----------------------------------------------------------------------------
(* Initialisation *)

\* main() of p begins.
Starts(p) == at[p] = "off" /\ Cardinality({q \in Procs : at[q] # "off"}) < MaxRunning

\* Mutated form of ShmgetCreates: no end to the segments.
ShmgetCreates_NoLimit(p) ==
  /\ Starts(p)
  /\ segKey = 0
  /\ segs' = segs + 1
  /\ segKey' = segs + 1
  /\ shmid' = [shmid EXCEPT ![p] = segs + 1]
  /\ Goto(p, "attach")
  /\ UNCHANGED <<semVars, small, written, attached, abandoned, f_close, conn>>

\* shmget(key, SHM_SIZE, IPC_CREAT) creates the segment, with the SHM_SIZE of the
\* program that came first: 200 for the producer, 1024 for the consumer.
ShmgetCreates(p) ==
  /\ Starts(p)
  /\ segKey = 0
  /\ segs < MaxSegs
  /\ segs' = segs + 1
  /\ segKey' = segs + 1
  /\ small' = IF p \in Producers THEN small \cup {segs + 1} ELSE small
  /\ shmid' = [shmid EXCEPT ![p] = segs + 1]
  /\ Goto(p, "attach")
  /\ UNCHANGED <<semVars, written, attached, abandoned, f_close, conn>>

\* ... or finds it, unless it is smaller than the SHM_SIZE asked for.
ShmgetFinds(p) ==
  /\ Starts(p)
  /\ segKey # 0
  /\ p \in Consumers => segKey \notin small
  /\ shmid' = [shmid EXCEPT ![p] = segKey]
  /\ Goto(p, "attach")
  /\ UNCHANGED <<semVars, segKey, segs, small, written, attached, abandoned, f_close, conn>>

\* exit(1) with nothing done: EINVAL to a consumer that finds the segment of 200
\* bytes of a producer, or no room for a segment.
ShmgetFails(p) ==
  /\ Starts(p)
  /\ \/ segKey \in small /\ p \in Consumers
     \/ segKey = 0 /\ segs = MaxSegs
  /\ UNCHANGED vars

\* shmat fails when the segment was destroyed since.  The test of its result,
\* buffer < 0, is false for (void *) -1 as well, so both outcomes go on.
Shmat(p) ==
  /\ at[p] = "attach"
  /\ attached' = [attached EXCEPT ![p] = Exists(shmid[p])]
  /\ Goto(p, "semfile")
  /\ UNCHANGED <<semVars, segKey, segs, small, written, shmid, abandoned, f_close, conn>>

\* Mutated form of OpenSemFile: the error path forgets shmctl(IPC_RMID).
OpenSemFile_NoRmid(p) ==
  /\ at[p] = "semfile"
  /\ \E next \in {"initsem", "exit"} : Goto(p, next)
  /\ UNCHANGED <<semVars, shmVars, f_close, conn>>

OpenSemFile(p) ==
  /\ at[p] = "semfile"
  /\ \E next \in {"initsem", "cleanup"} : Goto(p, next)
  /\ UNCHANGED <<semVars, shmVars, f_close, conn>>

CallInitSem(p) ==
  /\ at[p] = "initsem"
  /\ \/ Sem!SemgetCreates(p) \/ Sem!SemgetExists(p) \/ Sem!SemgetFails(p)
     \/ Sem!InitSemStep(p)
  /\ UNCHANGED <<shmVars, at, f_close, conn>>

InitSemReturns(p) ==
  /\ at[p] = "initsem"
  /\ \/ /\ pc[p] = "ready"
        /\ Goto(p, IF p \in Producers THEN "sensor" ELSE "signals")
     \/ /\ pc[p] = "failed"
        /\ Goto(p, "cleanup")
  /\ UNCHANGED <<semVars, shmVars, f_close, conn>>

\* One fscanf before the loop; whatever it answers, the stages are the same.
ReadSensor(p) ==
  /\ at[p] = "sensor"
  /\ \E next \in {"loop", "cleanup"} : Goto(p, next)
  /\ UNCHANGED <<semVars, shmVars, f_close, conn>>

InstallHandler(p) ==
  /\ at[p] = "signals"
  /\ \E next \in {"connect", "cleanup"} : Goto(p, next)
  /\ UNCHANGED <<semVars, shmVars, f_close, conn>>

Connect(p) ==
  /\ at[p] = "connect"
  /\ \/ /\ Goto(p, "loop")
        /\ conn' = [conn EXCEPT ![p] = "up"]
     \/ /\ Goto(p, "cleanup")
        /\ UNCHANGED conn
  /\ UNCHANGED <<semVars, shmVars, f_close>>

-----------------------------------------------------------------------------
(* The loop *)

\* Only the consumer has a handler that sets f_close: in CPUtemp.c it is never
\* installed, and the loop is never entered.
TestLoop(p) ==
  /\ at[p] = "loop"
  /\ Goto(p, IF f_close[p] THEN "lock" ELSE "cleanup")
  /\ UNCHANGED <<semVars, shmVars, f_close, conn>>

Lock(p) ==
  /\ at[p] = "lock"
  /\ Sem!Acquire(p)
  /\ Goto(p, "shm")
  /\ UNCHANGED <<shmVars, f_close, conn>>

\* semop answers -1 at once, or when another consumer removes the set under the one
\* that waits.
LockFails(p) ==
  /\ at[p] = "lock"
  /\ ~sb[p].num0 \/ ~Sem!Alive(p) \/ sb[p].nowait
  /\ Sem!AcquireFails(p)
  /\ Goto(p, "cleanup")
  /\ UNCHANGED <<shmVars, f_close, conn>>

\* The handler of SIGUSR1 runs while semop waits: EINTR, in spite of SA_RESTART.
LockInterrupted(p) ==
  /\ at[p] = "lock" /\ p \in Consumers
  /\ Sem!AcquireFails(p)
  /\ f_close' = [f_close EXCEPT ![p] = TRUE]
  /\ Goto(p, "cleanup")
  /\ UNCHANGED <<shmVars, conn>>

\* Mutated form of UseShm: nothing written yet, continue with the loop.
UseShm_Continues(p) ==
  /\ at[p] = "shm"
  /\ Goto(p, IF shmid[p] \in written THEN "unlock" ELSE "loop")
  /\ UNCHANGED <<semVars, shmVars, f_close, conn>>

\* The producer's snprintf, the consumer's sscanf.
UseShm(p) ==
  /\ at[p] = "shm"
  /\ attached[p]
  /\ written' = IF p \in Producers THEN written \cup {shmid[p]} ELSE written
  /\ Goto(p, "unlock")
  /\ UNCHANGED <<semVars, segKey, segs, small, shmid, attached, abandoned, f_close, conn>>

Unlock(p) ==
  /\ at[p] = "unlock"
  /\ \/ /\ Sem!Release(p)
        /\ Goto(p, IF p \in Producers THEN "loop" ELSE "send")
     \/ Sem!ReleaseFails(p) /\ Goto(p, "cleanup")
  /\ UNCHANGED <<shmVars, f_close, conn>>

\* The first send after the server closed still succeeds.
Send(p) ==
  /\ at[p] = "send"
  /\ \/ Goto(p, "recv")
     \/ conn[p] = "closed" /\ Goto(p, "cleanup")
  /\ UNCHANGED <<semVars, shmVars, f_close, conn>>

RecvAnswer(p) ==
  /\ at[p] = "recv"
  /\ conn[p] = "up"
  /\ Goto(p, "loop")
  /\ UNCHANGED <<semVars, shmVars, f_close, conn>>

-----------------------------------------------------------------------------
(* The end of a program *)

\* What the kernel does for any process that ends: it detaches the segment.
End(p) ==
  /\ Goto(p, "off")
  /\ shmid' = [shmid EXCEPT ![p] = 0]
  /\ attached' = [attached EXCEPT ![p] = FALSE]
  /\ f_close' = [f_close EXCEPT ![p] = FALSE]
  /\ conn' = [conn EXCEPT ![p] = "none"]

Abandon(p) == abandoned' = abandoned \cup {shmid[p]}

\* recv answered 0 or -1: the exit(1) that follows belongs to no branch of the
\* if, and nothing is released.
RecvFails(p) ==
  /\ at[p] = "recv"
  /\ End(p)
  /\ Abandon(p)
  /\ Sem!Exit(p)
  /\ UNCHANGED <<segKey, segs, small, written>>

ReleaseShm(p) ==
  /\ at[p] = "cleanup"
  /\ attached' = [attached EXCEPT ![p] = FALSE]
  /\ segKey' = IF shmid[p] = segKey THEN 0 ELSE segKey
  /\ Goto(p, "exit")
  /\ UNCHANGED <<semVars, segs, small, written, shmid, abandoned, f_close, conn>>

\* Mutated form of ExitProgram: IPC_RMID of the set after a failed initsem too.
ExitProgram_AlwaysRmid(p) ==
  /\ at[p] = "exit"
  /\ End(p)
  /\ Sem!Forget(p)
  /\ keyed' = 0
  /\ UNCHANGED <<sets, val, otime, sb, segKey, segs, small, written, abandoned>>

\* A consumer past initsem removes the set.
ExitProgram(p) ==
  /\ at[p] = "exit"
  /\ End(p)
  /\ IF pc[p] = "idle" THEN UNCHANGED semVars
     ELSE IF p \in Consumers /\ pc[p] # "failed" THEN Sem!ExitRemoving(p)
     ELSE Sem!Exit(p)
  /\ UNCHANGED <<segKey, segs, small, written, abandoned>>

\* A signal without a handler, SIGUSR1 for a producer included.
Kill(p) ==
  /\ at[p] # "off"
  /\ End(p)
  /\ IF at[p] = "exit" THEN UNCHANGED abandoned ELSE Abandon(p)
  /\ IF pc[p] = "idle" THEN UNCHANGED semVars ELSE Sem!Kill(p)
  /\ UNCHANGED <<segKey, segs, small, written>>

\* SIGSEGV in snprintf or sscanf: buffer is what a failed shmat returned.
Segfault(p) ==
  /\ at[p] = "shm"
  /\ ~attached[p]
  /\ Kill(p)

\* SIGUSR1 to a consumer that has called sigaction.  Nothing reads f_close after the
\* loop.
SigUsr1(p) ==
  /\ p \in Consumers
  /\ at[p] \in {"connect", "loop", "lock", "shm", "unlock", "send", "recv"}
  /\ f_close' = [f_close EXCEPT ![p] = TRUE]
  /\ UNCHANGED <<semVars, shmVars, at, conn>>

CloudCloses(p) ==
  /\ conn[p] = "up"
  /\ at[p] \notin {"cleanup", "exit"}  \* the connection is of no more use
  /\ conn' = [conn EXCEPT ![p] = "closed"]
  /\ UNCHANGED <<semVars, shmVars, at, f_close>>

-----------------------------------------------------------------------------
\* What a program that is running does next.
Advance(p) ==
  \/ Shmat(p) \/ OpenSemFile(p) \/ CallInitSem(p) \/ InitSemReturns(p)
  \/ ReadSensor(p) \/ InstallHandler(p) \/ Connect(p)
  \/ TestLoop(p) \/ LockFails(p) \/ UseShm(p) \/ Segfault(p) \/ Unlock(p)
  \/ Send(p) \/ RecvAnswer(p) \/ RecvFails(p)
  \/ ReleaseShm(p) \/ ExitProgram(p)

Next ==
  \E p \in Procs :
    \/ ShmgetCreates(p) \/ ShmgetFinds(p) \/ ShmgetFails(p)
    \/ Advance(p) \/ Lock(p) \/ LockInterrupted(p)
    \/ Kill(p) \/ SigUsr1(p) \/ CloudCloses(p)

Spec == Init /\ [][Next]_vars

\* Running programs go on, and a blocked semop is served in turn.  Nobody has to
\* start, signal or kill a program: a consumer that waits for the lock may not count
\* on EINTR.  The cloud server need not close.
Fairness == \A p \in Procs : WF_vars(Advance(p)) /\ SF_vars(Lock(p))

FairSpec == Spec /\ Fairness

-----------------------------------------------------------------------------
(* Properties *)

\* The segment shmget finds has a running program that will remove it, or was left
\* by one that ended without doing so (a kill, or the exit(1) after recv).  Every
\* other way out of main removes what it created.
SegmentHasAnOwner ==
  segKey # 0 => \/ segKey \in abandoned
                \/ \E p \in Procs : shmid[p] = segKey /\ at[p] # "exit"

\* A program holds the semaphore exactly while it uses the segment: every way
\* through the loop, errors included, gives it back before anything that waits.
HoldsLockOnlyAroundShm ==
  \A p \in Procs : pc[p] = "cs" <=> at[p] \in {"shm", "unlock"}

\* The programs use the semaphore set as InitSem.tla says, so that what is proved
\* there holds for them.
SemSpec == Sem!Spec

\* When the cloud server closes the connection the consumer ends, whatever the other
\* consumers do with the semaphore they share: they may hold it, be killed while they
\* do, or remove the set under it and make another.  This needs SEM_UNDO in sb.sem_flg.
CloseEndsConsumer ==
  (\A q \in Procs : sb[q].undo) =>
    \A p \in Consumers : conn[p] = "closed" ~> at[p] = "off"
=============================================================================
