-------------------------- MODULE TempShare_proofs --------------------------
(***************************************************************************)
(* Proofs about TempShare.tla, for any producers and consumers, any number *)
(* of segments, sets and retries.                                          *)
(***************************************************************************)
EXTENDS TempShare, TLAPS

-----------------------------------------------------------------------------
(* What a step does to the semaphore set *)

\* Each step is one step of InitSem.tla or leaves its variables alone.
LEMMA SemStep == [Next]_vars => [Sem!Next]_semVars
<1> SUFFICES ASSUME [Next]_vars
             PROVE  [Sem!Next]_semVars
  OBVIOUS
<1>1. CASE UNCHANGED vars
  BY <1>1 DEF vars
<1>2. ASSUME NEW p \in Procs,
             ShmgetCreates(p) \/ ShmgetFinds(p) \/ ShmgetFails(p) \/ Shmat(p)
             \/ OpenSemFile(p) \/ InitSemReturns(p) \/ ReadSensor(p) \/ InstallHandler(p)
             \/ Connect(p) \/ TestLoop(p) \/ UseShm(p) \/ Send(p) \/ RecvAnswer(p)
             \/ ReleaseShm(p) \/ SigUsr1(p) \/ CloudCloses(p)
      PROVE  UNCHANGED semVars
  BY <1>2 DEF Starts, ShmgetCreates, ShmgetFinds, ShmgetFails, Shmat, OpenSemFile, InitSemReturns,
     ReadSensor, InstallHandler, Connect, TestLoop, UseShm, Send, RecvAnswer, ReleaseShm,
     SigUsr1, CloudCloses, vars
<1>3. ASSUME NEW p \in Procs,
             CallInitSem(p) \/ Lock(p) \/ LockFails(p) \/ LockInterrupted(p) \/ Unlock(p)
             \/ RecvFails(p) \/ ExitProgram(p) \/ Kill(p)
      PROVE  Sem!ProcessStep(p) \/ UNCHANGED semVars
  BY <1>3 DEF CallInitSem, Lock, LockFails, LockInterrupted, Unlock, RecvFails,
     ExitProgram, Kill, Sem!ProcessStep
<1>4. ASSUME NEW p \in Procs, Segfault(p)
      PROVE  Kill(p)
  BY <1>4 DEF Segfault
<1> QED
  BY <1>1, <1>2, <1>3, <1>4 DEF Next, Advance, Sem!Next

\* The two programs use the semaphore set as InitSem.tla says and in no other way, so
\* that what is proved of initsem and of the lock holds for them.
THEOREM ProgramsUseTheSet == Spec => SemSpec
<1>1. Init => Sem!Init
  BY DEF Init
<1> QED
  BY <1>1, SemStep, PTL DEF Spec, SemSpec, Sem!Spec, Sem!vars, semVars

-----------------------------------------------------------------------------
(* The inductive invariant *)

\* A program that runs has got a segment from shmget.
HasSegment == \A p \in Procs : at[p] # "off" => shmid[p] \in SegIds

\* Where a program is with the set, by where it is in main(): nothing before initsem,
\* the set in hand from there on, the lock around the use of the segment only, and
\* never when main() cleans up.
SemStage ==
  /\ pc \in [Procs -> Sem!Points]
  /\ \A p \in Procs :
       /\ at[p] \in {"off", "attach", "semfile"} => pc[p] = "idle"
       /\ at[p] = "initsem" => pc[p] \notin {"cs", "error"}
       /\ at[p] \in {"sensor", "signals", "connect", "loop", "lock", "send", "recv"} =>
            pc[p] = "ready"
       /\ at[p] \in {"shm", "unlock"} => pc[p] = "cs"
       /\ at[p] \in {"cleanup", "exit"} => pc[p] \in {"idle", "failed", "ready", "error"}

IInv == TypeOK /\ HasSegment /\ SemStage /\ SegmentHasAnOwner

\* The invariant holds at the start.
LEMMA InitEstablishes == Init => IInv
BY AppsAssumption DEF Init, IInv, TypeOK, Stages, SegIds, HasSegment, SemStage,
   SegmentHasAnOwner, Sem!Init, Sem!Points

\* Every step keeps the types, and a segment in the hands of who runs.
LEMMA TypeStep == TypeOK /\ HasSegment /\ [Next]_vars => TypeOK' /\ HasSegment'
<1> USE AppsAssumption DEF TypeOK, Stages, SegIds, HasSegment
<1> SUFFICES ASSUME TypeOK, HasSegment, [Next]_vars
             PROVE  TypeOK' /\ HasSegment'
  OBVIOUS
<1>1. CASE UNCHANGED vars
  BY <1>1 DEF vars, shmVars
<1>2. ASSUME NEW p \in Procs, ShmgetCreates(p) \/ ShmgetFinds(p)
      PROVE  TypeOK' /\ HasSegment'
  <2>1. /\ segs' \in 0..MaxSegs /\ segKey' \in SegIds
        /\ shmid' = [shmid EXCEPT ![p] = segKey']
        /\ at' = [at EXCEPT ![p] = "attach"]
    BY <1>2 DEF Starts, ShmgetCreates, ShmgetFinds, Goto
  <2>2. small' \subseteq SegIds
    <3>1. small' = small \/ small' = small \cup {segKey'}
      BY <1>2 DEF Starts, ShmgetCreates, ShmgetFinds
    <3> QED
      BY <2>1, <3>1
  <2>3. TypeOK'
    BY <1>2, <2>1, <2>2 DEF Starts, ShmgetCreates, ShmgetFinds
  <2>4. HasSegment'
    BY <2>1
  <2> QED
    BY <2>3, <2>4
<1>3. ASSUME NEW p \in Procs, Shmat(p) \/ ReleaseShm(p)
      PROVE  TypeOK' /\ HasSegment'
  <2>1. attached' \in [Procs -> BOOLEAN]
    BY <1>3 DEF Shmat, ReleaseShm, Exists
  <2>2. segKey' \in 0..MaxSegs
    BY <1>3 DEF Shmat, ReleaseShm
  <2>3. \E stage \in {"semfile", "exit"} : at' = [at EXCEPT ![p] = stage] /\ at[p] # "off"
    BY <1>3 DEF Shmat, ReleaseShm, Goto
  <2>4. TypeOK'
    BY <1>3, <2>1, <2>2, <2>3 DEF Shmat, ReleaseShm
  <2>5. HasSegment'
    BY <1>3, <2>3 DEF Shmat, ReleaseShm
  <2> QED
    BY <2>4, <2>5
<1>4. ASSUME NEW p \in Procs,
             OpenSemFile(p) \/ CallInitSem(p) \/ InitSemReturns(p) \/ ReadSensor(p)
             \/ InstallHandler(p) \/ TestLoop(p) \/ Lock(p) \/ LockFails(p) \/ Unlock(p)
             \/ Send(p) \/ RecvAnswer(p)
      PROVE  TypeOK' /\ HasSegment'
  BY <1>4 DEF OpenSemFile, CallInitSem, InitSemReturns, ReadSensor, InstallHandler,
     TestLoop, Lock, LockFails, Unlock, Send, RecvAnswer, Goto, shmVars
<1>5. ASSUME NEW p \in Procs,
             Connect(p) \/ SigUsr1(p) \/ CloudCloses(p) \/ LockInterrupted(p)
      PROVE  TypeOK' /\ HasSegment'
  BY <1>5 DEF Connect, LockInterrupted, SigUsr1, CloudCloses, Goto, shmVars
<1>6. ASSUME NEW p \in Procs, UseShm(p)
      PROVE  TypeOK' /\ HasSegment'
  BY <1>6 DEF UseShm, Goto
<1>7. ASSUME NEW p \in Procs, RecvFails(p) \/ ExitProgram(p) \/ Kill(p)
      PROVE  TypeOK' /\ HasSegment'
  <2>1. shmid[p] \in SegIds
    BY <1>7 DEF RecvFails, ExitProgram, Kill
  <2>2. abandoned' \subseteq SegIds
    BY <1>7, <2>1 DEF RecvFails, ExitProgram, Kill, Abandon
  <2>3. End(p) /\ UNCHANGED <<segKey, segs, small, written>>
    BY <1>7 DEF RecvFails, ExitProgram, Kill
  <2>4. TypeOK'
    BY <2>2, <2>3 DEF End, Goto
  <2>5. HasSegment'
    BY <2>3 DEF End, Goto
  <2> QED
    BY <2>4, <2>5
<1>8. ASSUME NEW p \in Procs, Segfault(p)
      PROVE  Kill(p)
  BY <1>8 DEF Segfault
<1>9. ASSUME NEW p \in Procs, ShmgetFails(p)
      PROVE  UNCHANGED vars
  BY <1>9 DEF ShmgetFails
<1> QED
  BY <1>1, <1>2, <1>3, <1>4, <1>5, <1>6, <1>7, <1>8, <1>9 DEF Next, Advance

\* A step of another program, or of p itself where it does not touch the set, leaves
\* the others where they are with it.
LEMMA StageStep == TypeOK /\ SemStage /\ [Next]_vars => SemStage'
<1> USE DEF SemStage, TypeOK, Stages, Sem!Points
<1> SUFFICES ASSUME TypeOK, SemStage, [Next]_vars
             PROVE  SemStage'
  OBVIOUS
<1>1. CASE UNCHANGED vars
  BY <1>1 DEF vars, semVars
<1>2. ASSUME NEW p \in Procs,
             ShmgetCreates(p) \/ ShmgetFinds(p) \/ Shmat(p) \/ OpenSemFile(p)
             \/ InitSemReturns(p) \/ ReadSensor(p) \/ InstallHandler(p) \/ Connect(p)
             \/ TestLoop(p) \/ UseShm(p) \/ Send(p) \/ RecvAnswer(p) \/ ReleaseShm(p)
             \/ SigUsr1(p) \/ CloudCloses(p)
      PROVE  SemStage'
  BY <1>2 DEF Starts, ShmgetCreates, ShmgetFinds, Shmat, OpenSemFile, InitSemReturns, ReadSensor,
     InstallHandler, Connect, TestLoop, UseShm, Send, RecvAnswer, ReleaseShm, SigUsr1,
     CloudCloses, Goto, semVars
<1>3. ASSUME NEW p \in Procs, CallInitSem(p)
      PROVE  SemStage'
  BY <1>3 DEF CallInitSem, Sem!SemgetCreates, Sem!SemgetExists, Sem!SemgetFails,
     Sem!InitSemStep, Sem!CreatorReleases, Sem!CreatorFails, Sem!LookupFinds,
     Sem!LookupFails, Sem!PollReady, Sem!PollAgain, Sem!PollTimeout, Sem!Goto
<1>4. ASSUME NEW p \in Procs, Lock(p) \/ LockFails(p) \/ LockInterrupted(p) \/ Unlock(p)
      PROVE  SemStage'
  BY <1>4 DEF Lock, LockFails, LockInterrupted, Unlock, Goto, Sem!Acquire,
     Sem!AcquireFails, Sem!Release, Sem!ReleaseFails, Sem!Goto
<1>5. ASSUME NEW p \in Procs, RecvFails(p) \/ ExitProgram(p) \/ Kill(p)
      PROVE  SemStage'
  BY <1>5 DEF RecvFails, ExitProgram, Kill, End, Goto, semVars, Sem!Exit,
     Sem!ExitRemoving, Sem!Kill, Sem!Forget, Sem!Goto
<1>6. ASSUME NEW p \in Procs, Segfault(p)
      PROVE  Kill(p)
  BY <1>6 DEF Segfault
<1>7. ASSUME NEW p \in Procs, ShmgetFails(p)
      PROVE  UNCHANGED vars
  BY <1>7 DEF ShmgetFails
<1> QED
  BY <1>1, <1>2, <1>3, <1>4, <1>5, <1>6, <1>7 DEF Next, Advance

\* The owner of the segment under the key stays, gives it up by removing it, or leaves
\* it abandoned.
LEMMA OwnerStep == TypeOK /\ SegmentHasAnOwner /\ [Next]_vars => SegmentHasAnOwner'
<1> USE DEF SegmentHasAnOwner, TypeOK
<1> SUFFICES ASSUME TypeOK, SegmentHasAnOwner, [Next]_vars
             PROVE  SegmentHasAnOwner'
  OBVIOUS
<1>1. CASE UNCHANGED vars
  BY <1>1 DEF vars, shmVars
<1>2. ASSUME NEW p \in Procs, ShmgetCreates(p) \/ ShmgetFinds(p)
      PROVE  SegmentHasAnOwner'
  <2>1. shmid'[p] = segKey' /\ at'[p] = "attach"
    BY <1>2 DEF Starts, ShmgetCreates, ShmgetFinds, Goto
  <2> QED
    BY <2>1
<1>3. ASSUME NEW p \in Procs,
             Shmat(p) \/ OpenSemFile(p) \/ CallInitSem(p) \/ InitSemReturns(p)
             \/ ReadSensor(p) \/ InstallHandler(p) \/ Connect(p) \/ TestLoop(p) \/ Lock(p)
             \/ LockFails(p) \/ LockInterrupted(p) \/ UseShm(p) \/ Unlock(p) \/ Send(p)
             \/ RecvAnswer(p) \/ SigUsr1(p) \/ CloudCloses(p)
      PROVE  SegmentHasAnOwner'
  <2>1. UNCHANGED <<segKey, shmid, abandoned>>
    BY <1>3 DEF Shmat, OpenSemFile, CallInitSem, InitSemReturns, ReadSensor,
       InstallHandler, Connect, TestLoop, Lock, LockFails, LockInterrupted, UseShm, Unlock,
       Send, RecvAnswer, SigUsr1, CloudCloses, shmVars
  <2>2. \A q \in Procs : at[q] # "exit" => at'[q] # "exit"
    BY <1>3 DEF Shmat, OpenSemFile, CallInitSem, InitSemReturns, ReadSensor,
       InstallHandler, Connect, TestLoop, Lock, LockFails, LockInterrupted, UseShm, Unlock,
       Send, RecvAnswer, SigUsr1, CloudCloses, Goto
  <2> QED
    BY <2>1, <2>2
<1>4. ASSUME NEW p \in Procs, ReleaseShm(p)
      PROVE  SegmentHasAnOwner'
  BY <1>4 DEF ReleaseShm, Goto
<1>5. ASSUME NEW p \in Procs, RecvFails(p) \/ ExitProgram(p) \/ Kill(p)
      PROVE  SegmentHasAnOwner'
  <2>1. \A q \in Procs \ {p} : shmid'[q] = shmid[q] /\ at'[q] = at[q]
    BY <1>5 DEF RecvFails, ExitProgram, Kill, End, Goto
  <2>2. segKey' = segKey /\ abandoned \subseteq abandoned'
    BY <1>5 DEF RecvFails, ExitProgram, Kill, Abandon
  <2>3. at[p] # "exit" => shmid[p] \in abandoned'
    BY <1>5 DEF RecvFails, ExitProgram, Kill, Abandon
  <2> QED
    BY <2>1, <2>2, <2>3
<1>6. ASSUME NEW p \in Procs, Segfault(p)
      PROVE  Kill(p)
  BY <1>6 DEF Segfault
<1>7. ASSUME NEW p \in Procs, ShmgetFails(p)
      PROVE  UNCHANGED vars
  BY <1>7 DEF ShmgetFails
<1> QED
  BY <1>1, <1>2, <1>3, <1>4, <1>5, <1>6, <1>7 DEF Next, Advance

LEMMA Invariance == Spec => []IInv
<1>1. IInv /\ [Next]_vars => IInv'
  BY TypeStep, StageStep, OwnerStep DEF IInv
<1> QED
  BY InitEstablishes, <1>1, PTL DEF Spec

-----------------------------------------------------------------------------
(* The theorems *)

\* Every variable of the two programs and of the segments keeps its type.
THEOREM TypeCorrect == Spec => []TypeOK
BY Invariance, PTL DEF IInv

\* Every way out of main() of either program, but the ones that are killed or leave by
\* the exit(1) after recv, removes the segment it created.
THEOREM SegmentsAreOwned == Spec => []SegmentHasAnOwner
BY Invariance, PTL DEF IInv

\* A program is between the semop(-1) and the semop(+1) exactly while it uses the
\* segment: no error path keeps the lock, and none uses the segment without it.
THEOREM LockAroundShm == Spec => []HoldsLockOnlyAroundShm
<1>1. IInv => HoldsLockOnlyAroundShm
  BY DEF IInv, TypeOK, Stages, SemStage, HoldsLockOnlyAroundShm
<1> QED
  BY <1>1, Invariance, PTL

-----------------------------------------------------------------------------
(* The two programs and what is proved of the set *)

SemProofs == INSTANCE InitSem_proofs WITH
  Removers <- Consumers, Signalled <- Consumers, Killable <- Procs, Operator <- FALSE

\* Two programs that have the same set never use the segment at the same time.  (A
\* consumer that ends removes the set; who still has it may meet a user of the next.)
UsersExclude ==
  \A p, q \in Procs :
    at[p] \in {"shm", "unlock"} /\ at[q] \in {"shm", "unlock"} /\ semid[p] = semid[q] =>
      p = q

\* The exclusion proved of initsem and the lock carries over to main() of the two
\* programs, from start to every exit.
THEOREM UsersExcludeEachOther == Spec => []UsersExclude
<1>1. Sem!ConstantsAssumption
  BY AppsAssumption DEF Sem!ConstantsAssumption, Procs, Sem!Sembuf
<1>2. SemProofs!Spec => []SemProofs!MutualExclusion
  BY <1>1, SemProofs!MutualExclusionHolds
     DEF Sem!ConstantsAssumption, SemProofs!ConstantsAssumption, Sem!Sembuf, SemProofs!Sembuf
<1>3. Sem!Init => SemProofs!Init
  BY DEF Sem!Init, SemProofs!Init, Sem!SetIds, SemProofs!SetIds
<1>4. [Sem!Next]_Sem!vars => [SemProofs!Next]_SemProofs!vars
  BY DEF Sem!SemgetCreates, SemProofs!SemgetCreates, Sem!SemgetExists,
     SemProofs!SemgetExists, Sem!SemgetFails, SemProofs!SemgetFails,
     Sem!InitSemStep, SemProofs!InitSemStep, Sem!CreatorReleases,
     SemProofs!CreatorReleases, Sem!CreatorFails, SemProofs!CreatorFails,
     Sem!LookupFinds, SemProofs!LookupFinds, Sem!LookupFails,
     SemProofs!LookupFails, Sem!PollReady, SemProofs!PollReady, Sem!PollAgain,
     SemProofs!PollAgain, Sem!PollTimeout, SemProofs!PollTimeout,
     Sem!StatAnswers, SemProofs!StatAnswers, Sem!Acquire, SemProofs!Acquire,
     Sem!AcquireFails, SemProofs!AcquireFails, Sem!Release, SemProofs!Release,
     Sem!ReleaseFails, SemProofs!ReleaseFails, Sem!Exit, SemProofs!Exit,
     Sem!ExitRemoving, SemProofs!ExitRemoving, Sem!Kill, SemProofs!Kill,
     Sem!Forget, SemProofs!Forget, Sem!Goto, SemProofs!Goto, Sem!Alive,
     SemProofs!Alive, Sem!Ipcrm, SemProofs!Ipcrm, Sem!ProcessStep,
     SemProofs!ProcessStep, Sem!Next, SemProofs!Next, Sem!vars, SemProofs!vars
<1>5. IInv /\ SemProofs!MutualExclusion => UsersExclude
  BY DEF IInv, SemStage, SemProofs!MutualExclusion, UsersExclude
<1> QED
  BY <1>2, <1>3, <1>4, <1>5, Invariance, ProgramsUseTheSet, PTL
     DEF SemSpec, Sem!Spec, SemProofs!Spec
=============================================================================
