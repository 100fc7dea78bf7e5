--------------------------- MODULE InitSem_proofs ---------------------------
(***************************************************************************)
(* Proofs about InitSem.tla, for any processes, any number of sets and     *)
(* retries, and whatever the users' struct sembuf holds.                   *)
(***************************************************************************)
EXTENDS InitSem, TLAPS

\* Sets, values, points and polls stay of the types that TypeOK gives: no poll after
\* MAX_RETRIES, no value below 0.
THEOREM TypeCorrect == Spec => []TypeOK
<1> USE ConstantsAssumption DEF TypeOK, SetIds, Points
<1>1. Init => TypeOK
  BY DEF Init
<1>2. TypeOK /\ [Next]_vars => TypeOK'
  <2> SUFFICES ASSUME TypeOK, [Next]_vars
               PROVE  TypeOK'
    OBVIOUS
  <2>1. CASE UNCHANGED vars
    BY <2>1 DEF vars
  <2>2. CASE Ipcrm
    BY <2>2 DEF Ipcrm
  <2>3. ASSUME NEW p \in Procs, ProcessStep(p)
        PROVE  TypeOK'
    <3>1. CASE SemgetCreates(p)
      BY <3>1 DEF SemgetCreates, Goto
    <3>2. CASE SemgetExists(p) \/ SemgetFails(p)
      BY <3>2 DEF SemgetExists, SemgetFails, Goto
    <3>3. CASE CreatorReleases(p)
      BY <3>3 DEF CreatorReleases, Goto, Alive
    <3>4. CASE CreatorFails(p) \/ LookupFinds(p) \/ LookupFails(p)
      BY <3>4 DEF CreatorFails, LookupFinds, LookupFails, Goto
    <3>5. CASE PollReady(p) \/ PollTimeout(p)
      BY <3>5 DEF PollReady, PollTimeout, Goto
    <3>11. CASE PollAgain(p)
      <4>1. tries'[p] \in 0..MaxRetries /\ tries' = [tries EXCEPT ![p] = tries[p] + 1]
        BY <3>11 DEF PollAgain
      <4> QED
        BY <3>11, <4>1 DEF PollAgain
    <3>6. CASE Acquire(p)
      BY <3>6 DEF Acquire, Goto, Alive
    <3>7. CASE AcquireFails(p) \/ ReleaseFails(p)
      BY <3>7 DEF AcquireFails, ReleaseFails, Goto
    <3>8. CASE Release(p)
      BY <3>8 DEF Release, Goto, Alive
    <3>9. CASE Exit(p)
      BY <3>9 DEF Exit, Forget, Goto
    <3>10. CASE Kill(p)
      BY <3>10 DEF Kill, Forget, Goto, Alive
    <3>12. CASE ExitRemoving(p)
      BY <3>12 DEF ExitRemoving, Forget, Goto
    <3> QED
      BY <2>3, <3>1, <3>2, <3>3, <3>4, <3>5, <3>6, <3>7, <3>8, <3>9, <3>10, <3>11, <3>12
         DEF ProcessStep, InitSemStep
  <2> QED
    BY <2>1, <2>2, <2>3 DEF Next
<1> QED
  BY <1>1, <1>2, PTL DEF Spec

\* The parts of LockInv that a step of process p can only break through val,
\* otime, keyed, sets, or its own pc and semid: what is left when those of the
\* sets stay as they are and p moves to a point that claims nothing new.
LEMMA HarmlessMove ==
  ASSUME TypeOK, TypeOK', LockInv, NEW p \in Procs,
         UNCHANGED <<keyed, sets, val, otime, semid>>,
         NEW point \in {"idle", "lookup", "poll", "failed", "error"},
         pc' = [pc EXCEPT ![p] = point],
         point = "poll" => pc[p] = "poll",
         point = "error" => pc[p] \in {"ready", "cs"}
  PROVE  LockInv'
BY DEF TypeOK, LockInv, MutualExclusion, InitialisedBeforeUse, Alive, SetIds, Points

\* A lock that is invisible to the others may be given up: the process forgets it.
LEMMA ForgetKeepsLockInv ==
  ASSUME TypeOK, TypeOK', LockInv, NEW p \in Procs, Forget(p),
         UNCHANGED <<sets, val, otime>>, keyed' \in {0, keyed}
  PROVE  LockInv'
BY DEF TypeOK, LockInv, MutualExclusion, InitialisedBeforeUse, Alive, SetIds, Points,
       Forget, Goto

\* LockInv is inductive: each call keeps it.
LEMMA LockInvInductive ==
  ASSUME TypeOK, TypeOK', LockInv, [Next]_vars
  PROVE  LockInv'
<1> USE ConstantsAssumption
<1> USE DEF SetIds
<1>1. CASE UNCHANGED vars
  BY <1>1 DEF vars, LockInv, MutualExclusion, InitialisedBeforeUse, Alive
<1>2. CASE Ipcrm
  BY <1>2 DEF Ipcrm, LockInv, MutualExclusion, InitialisedBeforeUse, Alive, TypeOK
<1>3. ASSUME NEW p \in Procs, ProcessStep(p)
      PROVE  LockInv'
  <2>1. CASE SemgetCreates(p)
    <3>1. \A q \in Procs : pc[q] \in {"creator", "poll", "ready", "cs", "error"}
                             => semid[q] # sets + 1
      BY DEF LockInv, TypeOK
    <3> QED
      BY <2>1, <3>1 DEF SemgetCreates, Goto, LockInv, MutualExclusion,
                        InitialisedBeforeUse, Alive, TypeOK, Points
  <2>2. CASE SemgetExists(p) \/ SemgetFails(p)
    BY <2>2, HarmlessMove DEF SemgetExists, SemgetFails, Goto
  <2>3. CASE CreatorReleases(p)
    BY <2>3 DEF CreatorReleases, Goto, LockInv, MutualExclusion,
                InitialisedBeforeUse, Alive, TypeOK, Points
  <2>4. CASE CreatorFails(p) \/ LookupFails(p) \/ PollTimeout(p)
    BY <2>4, HarmlessMove DEF CreatorFails, LookupFails, PollTimeout, Goto
  <2>5. CASE LookupFinds(p)
    BY <2>5 DEF LookupFinds, Goto, LockInv, MutualExclusion,
                InitialisedBeforeUse, Alive, TypeOK, Points
  <2>6. CASE PollReady(p)
    <3>1. Alive(p) => otime[semid[p]]
      BY <2>6 DEF PollReady, StatAnswers
    <3> QED
      BY <2>6, <3>1 DEF PollReady, Goto, LockInv, MutualExclusion,
                        InitialisedBeforeUse, Alive, TypeOK, Points
  <2>7. CASE PollAgain(p)
    <3>1. pc' = [pc EXCEPT ![p] = "poll"]
      BY <2>7 DEF PollAgain, TypeOK
    <3> QED
      BY <2>7, <3>1, HarmlessMove DEF PollAgain
  <2>8. CASE Acquire(p)
    BY <2>8 DEF Acquire, Goto, LockInv, MutualExclusion,
                InitialisedBeforeUse, Alive, TypeOK, Points
  <2>9. CASE AcquireFails(p) \/ ReleaseFails(p)
    BY <2>9, HarmlessMove DEF AcquireFails, ReleaseFails, Goto
  <2>10. CASE Release(p)
    BY <2>10 DEF Release, Goto, LockInv, MutualExclusion,
                 InitialisedBeforeUse, Alive, TypeOK, Points
  <2>11. CASE Exit(p) \/ ExitRemoving(p)
    BY <2>11, ForgetKeepsLockInv DEF Exit, ExitRemoving
  <2>12. CASE Kill(p)
    <3>1. CASE pc[p] = "cs" /\ Alive(p) /\ sb[p].undo
      BY <2>12, <3>1 DEF Kill, Forget, Goto, LockInv, MutualExclusion,
                         InitialisedBeforeUse, Alive, TypeOK, Points
    <3>2. CASE ~(pc[p] = "cs" /\ Alive(p) /\ sb[p].undo)
      BY <2>12, <3>2, ForgetKeepsLockInv DEF Kill
    <3> QED
      BY <3>1, <3>2
  <2> QED
    BY <1>3, <2>1, <2>2, <2>3, <2>4, <2>5, <2>6, <2>7, <2>8, <2>9, <2>10, <2>11, <2>12
       DEF ProcessStep, InitSemStep
<1> QED
  BY <1>1, <1>2, <1>3 DEF Next

\* LockInv holds in every state.
THEOREM LockInvariant == Spec => []LockInv
<1>1. Init => LockInv
  BY ConstantsAssumption DEF Init, LockInv, MutualExclusion, InitialisedBeforeUse,
                             Alive, SetIds
<1> QED
  BY <1>1, TypeCorrect, LockInvInductive, PTL DEF Spec

\* No two processes are between the semop(-1) and semop(+1) of the same set, with
\* any number of processes, kills, restarts, removals and any SEM_UNDO flags.
THEOREM MutualExclusionHolds == Spec => []MutualExclusion
<1>1. LockInv => MutualExclusion
  BY DEF LockInv
<1> QED
  BY <1>1, LockInvariant, PTL

\* The sem_otime handshake: whoever leaves initsem with a set that still exists
\* finds it initialised.
THEOREM HandshakeHolds == Spec => []InitialisedBeforeUse
<1>1. LockInv => InitialisedBeforeUse
  BY DEF LockInv
<1> QED
  BY <1>1, LockInvariant, PTL

-----------------------------------------------------------------------------
\* When every user passes SEM_UNDO, no kill loses the lock: the semaphore of an
\* initialised set is 1 or somebody alive holds it.
THEOREM NoTokenIsLost == Spec => []NoLostToken
<1>1. Init => NoLostToken
  BY DEF Init, NoLostToken
<1>2. ASSUME TypeOK, TypeOK', LockInv, NoLostToken, [Next]_vars
      PROVE  NoLostToken'
  <2> USE ConstantsAssumption
  <2> USE DEF NoLostToken, TypeOK, SetIds, Points, Goto, Alive
  <2>1. CASE UNCHANGED vars
    BY <1>2, <2>1 DEF vars
  <2>2. CASE Ipcrm
    BY <2>2 DEF Ipcrm
  <2>3. ASSUME NEW p \in Procs, ProcessStep(p)
        PROVE  NoLostToken'
    <3> USE <1>2
    <3>1. CASE SemgetCreates(p)
      BY <3>1 DEF SemgetCreates, LockInv
    <3>2. CASE SemgetExists(p) \/ SemgetFails(p)
      BY <3>2 DEF SemgetExists, SemgetFails
    <3>3. CASE CreatorReleases(p)
      BY <3>3 DEF CreatorReleases, LockInv
    <3>4. CASE CreatorFails(p) \/ LookupFinds(p) \/ LookupFails(p)
      BY <3>4 DEF CreatorFails, LookupFinds, LookupFails
    <3>5. CASE PollReady(p) \/ PollTimeout(p)
      BY <3>5 DEF PollReady, PollTimeout
    <3>6. CASE PollAgain(p)
      BY <3>6 DEF PollAgain
    <3>7. CASE Acquire(p)
      BY <3>7 DEF Acquire, LockInv
    <3>8. CASE AcquireFails(p) \/ ReleaseFails(p)
      BY <3>8 DEF AcquireFails, ReleaseFails
    <3>9. CASE Release(p)
      BY <3>9 DEF Release, LockInv
    <3>10. CASE Exit(p) \/ ExitRemoving(p)
      BY <3>10 DEF Exit, ExitRemoving, Forget
    <3>11. CASE Kill(p)
      <4>1. CASE pc[p] = "cs" /\ Alive(p)
        BY <3>11, <4>1 DEF Kill, Forget, LockInv
      <4>2. CASE ~(pc[p] = "cs" /\ Alive(p))
        BY <3>11, <4>2 DEF Kill, Forget
      <4> QED
        BY <4>1, <4>2
    <3> QED
      BY <2>3, <3>1, <3>2, <3>3, <3>4, <3>5, <3>6, <3>7, <3>8, <3>9, <3>10, <3>11
         DEF ProcessStep, InitSemStep
  <2> QED
    BY <1>2, <2>1, <2>2, <2>3 DEF Next
<1> QED
  BY <1>1, <1>2, TypeCorrect, LockInvariant, PTL DEF Spec

-----------------------------------------------------------------------------
\* The abstract locks, as the refinement mapping of InitSem sees them.
HolderMap == [g \in SetIds |-> Holders(g)]

\* Nobody comes in or leaves: a stuttering step of Mutex.
LEMMA HoldersUnchanged ==
  ASSUME TypeOK, NEW p \in Procs, pc[p] # "cs", pc'[p] # "cs",
         \A q \in Procs \ {p} : pc'[q] = pc[q] /\ semid'[q] = semid[q]
  PROVE  HolderMap' = HolderMap
BY DEF HolderMap, Holders, TypeOK

\* Process p, inside, goes out: the release, its failure, or a kill.
LEMMA HolderLeaves ==
  ASSUME TypeOK, LockInv, NEW p \in Procs, pc[p] = "cs", pc'[p] # "cs",
         \A q \in Procs \ {p} : pc'[q] = pc[q] /\ semid'[q] = semid[q]
  PROVE  Lock!Leave(p, semid[p])
<1>1. semid[p] \in SetIds
  BY ConstantsAssumption DEF LockInv, TypeOK, SetIds, Points
<1>2. Holders(semid[p]) = {p}
  BY DEF LockInv, MutualExclusion, Holders
<1>3. \A g \in SetIds : Holders(g)' = IF g = semid[p] THEN {} ELSE Holders(g)
  BY <1>2 DEF Holders, LockInv, MutualExclusion
<1> QED
  BY <1>1, <1>2, <1>3 DEF Lock!Leave

\* The sets of InitSem are locks in the sense of Mutex: every call of every process
\* enters or leaves one lock, or changes nothing that Mutex can see.
THEOREM Refinement == Spec => LockSpec
<1>1. Init => Lock!Init
  BY DEF Init, Lock!Init, Holders
<1>2. ASSUME TypeOK, TypeOK', LockInv, [Next]_vars
      PROVE  [Lock!Next]_HolderMap
  <2> USE <1>2, ConstantsAssumption
  <2>1. CASE UNCHANGED vars
    BY <2>1 DEF vars, HolderMap, Holders
  <2>2. CASE Ipcrm
    BY <2>2 DEF Ipcrm, HolderMap, Holders
  <2>3. ASSUME NEW p \in Procs, ProcessStep(p)
        PROVE  [Lock!Next]_HolderMap
    <3> DEFINE Frame == \A q \in Procs \ {p} : pc'[q] = pc[q] /\ semid'[q] = semid[q]
    <3>1. Frame
      BY <2>3 DEF ProcessStep, InitSemStep, SemgetCreates, SemgetExists, SemgetFails,
                  CreatorReleases, CreatorFails, LookupFinds, LookupFails, PollReady,
                  PollAgain, PollTimeout, Acquire, AcquireFails, Release, ReleaseFails,
                  Exit, ExitRemoving, Kill, Forget, Goto, TypeOK
    <3>2. CASE pc[p] = "cs" /\ pc'[p] # "cs"
      <4>1. semid[p] \in SetIds
        BY <3>2 DEF LockInv, TypeOK, SetIds, Points
      <4> QED
        BY <3>1, <3>2, <4>1, HolderLeaves DEF Lock!Next
    <3>3. CASE pc[p] # "cs" /\ pc'[p] # "cs"
      BY <3>1, <3>3, HoldersUnchanged
    <3>4. CASE pc'[p] = "cs"
      <4>1. Acquire(p)
        BY <2>3, <3>4 DEF ProcessStep, InitSemStep, SemgetCreates, SemgetExists,
                  SemgetFails, CreatorReleases, CreatorFails, LookupFinds, LookupFails,
                  PollReady, PollAgain, PollTimeout, AcquireFails, Release,
                  ReleaseFails, Exit, ExitRemoving, Kill, Forget, Goto, TypeOK
      <4>2. semid[p] \in SetIds /\ Holders(semid[p]) = {}
        BY <4>1 DEF Acquire, LockInv, Holders, TypeOK, SetIds, Points
      <4>3. \A g \in SetIds : Holders(g)' = IF g = semid[p] THEN {p} ELSE Holders(g)
        BY <4>1, <4>2 DEF Acquire, Goto, Holders, TypeOK
      <4> QED
        BY <4>2, <4>3 DEF Lock!Next, Lock!Enter
    <3> QED
      BY <3>2, <3>3, <3>4
  <2> QED
    BY <2>1, <2>2, <2>3 DEF Next
<1> QED
  BY <1>1, <1>2, TypeCorrect, LockInvariant, PTL DEF Spec, LockSpec, Lock!Spec, HolderMap

=============================================================================
