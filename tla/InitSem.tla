------------------------------ MODULE InitSem ------------------------------
(***************************************************************************)
(* The System V semaphore set that every application of the repository     *)
(* creates, initialises and uses as a lock:                                *)
(*                                                                         *)
(*   - initsem() (src/src/initsem.c, repeated line by line in              *)
(*     src/Plus/TCP-IP-SensorDeTemp/ClienteServidor/initsem.c): the        *)
(*     process whose semget(IPC_EXCL) succeeds creates the set and         *)
(*     releases its semaphore once; any other process finds the set and    *)
(*     polls sem_otime until that first semop has been done;               *)
(*   - the semop(-1) / semop(+1) pairs around the shared data, the exits   *)
(*     of the applications, and the signals that interrupt or kill them;   *)
(*   - the kernel's side (external): a set is found by its key until       *)
(*     IPC_RMID, and its identifier is not used again.                     *)
(*                                                                         *)
(* Every call site passes nsems = 1, so the loop of initsem.c:17 runs once *)
(* and a set is one number.  Each action is one system call.               *)
(***************************************************************************)
EXTENDS Naturals

CONSTANTS
  Procs,       \* the processes that call initsem
  MaxRetries,  \* MAX_RETRIES: polls of sem_otime before ETIME
  MaxSets,     \* bound: sets created in a behaviour; at the bound semget fails
  SembufFlags, \* the values struct sembuf sb may have: see Sembuf
  Removers,    \* the processes that may IPC_RMID the set when they exit
  Signalled,   \* the processes that handle a signal and may see EINTR
  Killable,    \* the processes that a signal may kill
  Operator     \* TRUE if somebody may run ipcrm on the set

\* What the fields of the caller's sb amount to: SEM_UNDO and IPC_NOWAIT in
\* sem_flg, and sem_num = 0.  CPUtemp.c and CloudCommunicationApp.c only assign
\* sem_op, so there the three are whatever the stack held.
Sembuf == [undo : BOOLEAN, nowait : BOOLEAN, num0 : BOOLEAN]

ASSUME ConstantsAssumption ==
  /\ MaxRetries \in Nat /\ MaxSets \in Nat
  /\ SembufFlags \subseteq Sembuf
  /\ Removers \subseteq Procs /\ Signalled \subseteq Procs
  /\ Killable \subseteq Procs
  /\ Operator \in BOOLEAN

SetIds == 1..MaxSets

VARIABLES
  keyed,   \* kernel: the set that semget finds under the key, 0 if there is none
  sets,    \* kernel: number of sets created so far; the ids are 1..sets
  val,     \* kernel: value of the semaphore of each set
  otime,   \* kernel: sem_otime # 0, some semop on the set has succeeded
  pc,      \* where each process is, see Points
  semid,   \* local of initsem and main: the set the process has got
  tries,   \* local i of initsem: polls done
  sb       \* local of main: see Sembuf; no process changes these fields

vars == <<keyed, sets, val, otime, pc, semid, tries, sb>>

Points == {"idle",     \* not running, or before initsem
           "creator",  \* semget created the set, its semop is to come
           "lookup",   \* semget answered EEXIST
           "poll",     \* in the loop that reads sem_otime
           "failed",   \* initsem returned -1
           "ready",    \* initsem returned, outside the critical section
           "cs",       \* between the semop(-1) and the semop(+1)
           "error"}    \* a semop failed, on the way to exit(1)

TypeOK ==
  /\ keyed \in 0..MaxSets
  /\ sets \in 0..MaxSets
  /\ val \in [SetIds -> Nat]
  /\ otime \in [SetIds -> BOOLEAN]
  /\ pc \in [Procs -> Points]
  /\ semid \in [Procs -> 0..MaxSets]
  /\ tries \in [Procs -> 0..MaxRetries]
  /\ sb \in [Procs -> SembufFlags]

Init ==
  /\ keyed = 0
  /\ sets = 0
  /\ val = [g \in SetIds |-> 0]
  /\ otime = [g \in SetIds |-> FALSE]
  /\ pc = [p \in Procs |-> "idle"]
  /\ semid = [p \in Procs |-> 0]
  /\ tries = [p \in Procs |-> 0]
  /\ sb \in [Procs -> SembufFlags]

Goto(p, point) == pc' = [pc EXCEPT ![p] = point]

\* The set the process holds the identifier of still exists.
Alive(p) == /\ keyed # 0
            /\ semid[p] = keyed

Holders(g) == {p \in Procs : pc[p] = "cs" /\ semid[p] = g}

-----------------------------------------------------------------------------
(* initsem *)

\* semget(IPC_CREAT | IPC_EXCL) when no set has the key.
SemgetCreates(p) ==
  /\ pc[p] = "idle"
  /\ keyed = 0
  /\ sets < MaxSets
  /\ sets' = sets + 1
  /\ keyed' = sets + 1
  /\ semid' = [semid EXCEPT ![p] = sets + 1]
  /\ Goto(p, "creator")
  /\ UNCHANGED <<val, otime, tries, sb>>

\* ... and when one has: EEXIST.
SemgetExists(p) ==
  /\ pc[p] = "idle"
  /\ keyed # 0
  /\ Goto(p, "lookup")
  /\ UNCHANGED <<keyed, sets, val, otime, semid, tries, sb>>

\* Any other error of semget (no room for a set, no permission).
SemgetFails(p) ==
  /\ pc[p] = "idle"
  /\ Goto(p, "failed")
  /\ UNCHANGED <<keyed, sets, val, otime, semid, tries, sb>>

\* The creator releases the semaphore.  This is also what sets sem_otime.
CreatorReleases(p) ==
  /\ pc[p] = "creator"
  /\ Alive(p)
  /\ val' = [val EXCEPT ![semid[p]] = @ + 1]
  /\ otime' = [otime EXCEPT ![semid[p]] = TRUE]
  /\ Goto(p, "ready")
  /\ UNCHANGED <<keyed, sets, semid, tries, sb>>

\* Its semop fails because the set was removed; the IPC_RMID that follows then
\* fails too.
CreatorFails(p) ==
  /\ pc[p] = "creator"
  /\ ~Alive(p)
  /\ Goto(p, "failed")
  /\ UNCHANGED <<keyed, sets, val, otime, semid, tries, sb>>

\* Mutated form of LookupFinds: the process that finds the set releases its
\* semaphore too.
LookupFinds_AsCreator(p) ==
  /\ pc[p] = "lookup"
  /\ keyed # 0
  /\ semid' = [semid EXCEPT ![p] = keyed]
  /\ Goto(p, "creator")
  /\ UNCHANGED <<keyed, sets, val, otime, tries, sb>>

\* The second semget, without IPC_CREAT.
LookupFinds(p) ==
  /\ pc[p] = "lookup"
  /\ keyed # 0
  /\ semid' = [semid EXCEPT ![p] = keyed]
  /\ Goto(p, "poll")
  /\ UNCHANGED <<keyed, sets, val, otime, tries, sb>>

LookupFails(p) ==
  /\ pc[p] = "lookup"
  /\ keyed = 0
  /\ Goto(p, "failed")
  /\ UNCHANGED <<keyed, sets, val, otime, semid, tries, sb>>

\* buf.sem_otime # 0 after the IPC_STAT, whose result is not looked at.  When the
\* set is gone the call leaves buf as it was: garbage of the stack before the
\* first poll, the 0 that kept the loop going later.
StatAnswers(p) == IF Alive(p) THEN {otime[semid[p]]}
                  ELSE IF tries[p] = 0 THEN BOOLEAN ELSE {FALSE}

\* Mutated form of PollReady: the loser does not wait for sem_otime.
PollReady_Blind(p) ==
  /\ pc[p] = "poll"
  /\ Goto(p, "ready")
  /\ UNCHANGED <<keyed, sets, val, otime, semid, tries, sb>>

PollReady(p) ==
  /\ pc[p] = "poll"
  /\ tries[p] < MaxRetries
  /\ TRUE \in StatAnswers(p)
  /\ Goto(p, "ready")
  /\ UNCHANGED <<keyed, sets, val, otime, semid, tries, sb>>

\* Mutated form of PollAgain: one poll too many (i <= MAX_RETRIES).
PollAgain_OneMore(p) ==
  /\ pc[p] = "poll"
  /\ FALSE \in StatAnswers(p)
  /\ tries' = [tries EXCEPT ![p] = @ + 1]
  /\ UNCHANGED <<keyed, sets, val, otime, pc, semid, sb>>

PollAgain(p) ==
  /\ pc[p] = "poll"
  /\ tries[p] < MaxRetries
  /\ FALSE \in StatAnswers(p)
  /\ tries' = [tries EXCEPT ![p] = @ + 1]
  /\ UNCHANGED <<keyed, sets, val, otime, pc, semid, sb>>

\* errno = ETIME
PollTimeout(p) ==
  /\ pc[p] = "poll"
  /\ tries[p] = MaxRetries
  /\ Goto(p, "failed")
  /\ UNCHANGED <<keyed, sets, val, otime, semid, tries, sb>>

InitSemStep(p) ==
  \/ CreatorReleases(p) \/ CreatorFails(p)
  \/ LookupFinds(p) \/ LookupFails(p)
  \/ PollReady(p) \/ PollAgain(p) \/ PollTimeout(p)

-----------------------------------------------------------------------------
(* The lock *)

\* Mutated form of Acquire: the value is looked at, as ProcesarCliente.c:39 does
\* with GETVAL, and not taken.
Acquire_Looks(p) ==
  /\ pc[p] = "ready"
  /\ sb[p].num0
  /\ Alive(p)
  /\ val[semid[p]] > 0
  /\ Goto(p, "cs")
  /\ UNCHANGED <<keyed, sets, val, otime, semid, tries, sb>>

\* semop(-1); it blocks while the value is 0.
Acquire(p) ==
  /\ pc[p] = "ready"
  /\ sb[p].num0
  /\ Alive(p)
  /\ val[semid[p]] > 0
  /\ val' = [val EXCEPT ![semid[p]] = @ - 1]
  /\ Goto(p, "cs")
  /\ UNCHANGED <<keyed, sets, otime, semid, tries, sb>>

\* semop(-1) returns -1: EFBIG, EINVAL or EIDRM when the set is gone, and where
\* it would block EAGAIN with IPC_NOWAIT, or EINTR after a signal handler ran
\* (SA_RESTART does not restart semop).
AcquireFails(p) ==
  /\ pc[p] = "ready"
  /\ \/ ~sb[p].num0
     \/ ~Alive(p)
     \/ /\ val[semid[p]] = 0
        /\ sb[p].nowait \/ p \in Signalled
  /\ Goto(p, "error")
  /\ UNCHANGED <<keyed, sets, val, otime, semid, tries, sb>>

\* Mutated form of Release: sb.sem_op = 1 is forgotten, the call is semop(-1) again.
Release_TakesAgain(p) ==
  /\ pc[p] = "cs"
  /\ Alive(p)
  /\ val[semid[p]] > 0
  /\ val' = [val EXCEPT ![semid[p]] = @ - 1]
  /\ Goto(p, "ready")
  /\ UNCHANGED <<keyed, sets, otime, semid, tries, sb>>

\* semop(+1)
Release(p) ==
  /\ pc[p] = "cs"
  /\ Alive(p)
  /\ val' = [val EXCEPT ![semid[p]] = @ + 1]
  /\ Goto(p, "ready")
  /\ UNCHANGED <<keyed, sets, otime, semid, tries, sb>>

ReleaseFails(p) ==
  /\ pc[p] = "cs"
  /\ ~Alive(p)
  /\ Goto(p, "error")
  /\ UNCHANGED <<keyed, sets, val, otime, semid, tries, sb>>

-----------------------------------------------------------------------------
(* The end of a process; it may be started again *)

Forget(p) ==
  /\ Goto(p, "idle")
  /\ semid' = [semid EXCEPT ![p] = 0]
  /\ tries' = [tries EXCEPT ![p] = 0]

\* exit() without touching the set: after a failed initsem, and wherever the
\* application does not remove it.
Exit(p) ==
  /\ pc[p] \in {"failed", "ready", "error"}
  /\ Forget(p)
  /\ UNCHANGED <<keyed, sets, val, otime, sb>>

\* exit() after semctl(semid, 0, IPC_RMID).
ExitRemoving(p) ==
  /\ p \in Removers
  /\ pc[p] \in {"ready", "error"}
  /\ Forget(p)
  /\ keyed' = IF Alive(p) THEN 0 ELSE keyed
  /\ UNCHANGED <<sets, val, otime, sb>>

\* Mutated form of Kill: SEM_UNDO is not passed, the kernel restores nothing.
Kill_NoUndo(p) ==
  /\ p \in Killable
  /\ pc[p] # "idle"
  /\ Forget(p)
  /\ UNCHANGED <<keyed, sets, val, otime, sb>>

\* Killed by a signal anywhere.  The kernel undoes what was done under SEM_UNDO.
Kill(p) ==
  /\ p \in Killable
  /\ pc[p] # "idle"
  /\ Forget(p)
  /\ val' = IF pc[p] = "cs" /\ Alive(p) /\ sb[p].undo
              THEN [val EXCEPT ![semid[p]] = @ + 1] ELSE val
  /\ UNCHANGED <<keyed, sets, otime, sb>>

\* ipcrm -S: the only way to get rid of a set whose creator died.
Ipcrm ==
  /\ Operator
  /\ keyed # 0
  /\ keyed' = 0
  /\ UNCHANGED <<sets, val, otime, pc, semid, tries, sb>>

-----------------------------------------------------------------------------
ProcessStep(p) ==
  \/ SemgetCreates(p) \/ SemgetExists(p) \/ SemgetFails(p)
  \/ InitSemStep(p)
  \/ Acquire(p) \/ AcquireFails(p) \/ Release(p) \/ ReleaseFails(p)
  \/ Exit(p) \/ ExitRemoving(p) \/ Kill(p)

Next == Ipcrm \/ \E p \in Procs : ProcessStep(p)

Spec == Init /\ [][Next]_vars

\* A process that is running goes on with its calls; nothing makes a user start
\* one, stop one or kill one.  A blocked semop is served in the order of arrival
\* (the kernel keeps its sleepers in a queue), hence SF for Acquire.
Fairness ==
  \A p \in Procs :
    /\ WF_vars(InitSemStep(p))
    /\ SF_vars(Acquire(p))
    /\ WF_vars(AcquireFails(p))
    /\ WF_vars(Release(p) \/ ReleaseFails(p))

FairSpec == Spec /\ Fairness

-----------------------------------------------------------------------------
(* Properties *)

\* Two processes are never between their semop(-1) and semop(+1) of the same
\* set, whatever was killed, removed or started again in between.
MutualExclusion ==
  \A p, q \in Procs :
    pc[p] = "cs" /\ pc[q] = "cs" /\ semid[p] = semid[q] => p = q

\* Nobody leaves initsem with a set that still exists before the creator has
\* released its semaphore (the handshake of initsem.c:33-42).
InitialisedBeforeUse ==
  \A p \in Procs :
    pc[p] \in {"ready", "cs", "error"} /\ Alive(p) => otime[semid[p]]

\* Provided every user passes SEM_UNDO, the semaphore of an initialised set is
\* free or held by a living process: no kill can make the lock disappear.
NoLostToken ==
  /\ \A p \in Procs : sb[p].undo
  /\ keyed # 0
  /\ otime[keyed]
  => val[keyed] = 1 \/ \E p \in Procs : pc[p] = "cs" /\ semid[p] = keyed

\* The inductive invariant behind the properties above: which sets processes may
\* name, what a set that nobody released yet looks like, and that a semaphore is
\* worth one token that is either in val or with the one holder.
LockInv ==
  /\ keyed <= sets
  /\ \A g \in SetIds :
       /\ val[g] \in {0, 1}
       /\ ~otime[g] => val[g] = 0
       /\ g > sets => ~otime[g]
  /\ \A p \in Procs :
       /\ pc[p] \in {"creator", "poll", "ready", "cs", "error"} => semid[p] \in 1..sets
       /\ pc[p] = "creator" => ~otime[semid[p]]
       /\ pc[p] = "cs" => otime[semid[p]] /\ val[semid[p]] = 0
  /\ \A p, q \in Procs :
       pc[p] = "creator" /\ pc[q] = "creator" /\ semid[p] = semid[q] => p = q
  /\ MutualExclusion
  /\ InitialisedBeforeUse

\* Provided every user passes SEM_UNDO, a process that wants the lock gets it or is
\* told that it cannot, in spite of what is killed and removed meanwhile.
NobodyWaitsForever ==
  (\A q \in Procs : sb[q].undo) =>
    \A p \in Procs : pc[p] = "ready" ~> pc[p] # "ready"

\* The sets are locks: every behaviour is one of Mutex, with one lock per set.
Lock == INSTANCE Mutex WITH Locks <- SetIds,
                            holder <- [g \in SetIds |-> Holders(g)]
LockSpec == Lock!Spec
=============================================================================
