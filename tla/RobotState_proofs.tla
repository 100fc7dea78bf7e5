------------------------- MODULE RobotState_proofs -------------------------
(***************************************************************************)
(* Proofs about RobotState.tla, for any lines, lengths of values and       *)
(* angles, any file that has each line once, and any number of sets and    *)
(* retries.                                                                *)
(***************************************************************************)
EXTENDS RobotState, FiniteSetTheorems, TLAPS

-----------------------------------------------------------------------------
(* What a step does to the semaphore set *)

\* A step of saveSTATE or of the read of the request, and the others that leave the
\* set alone.
LEMMA SetAlone ==
  ASSUME NEW p \in Procs,
         Start(p) \/ InitSemReturns(p) \/ OpenDevices(p) \/ ReadDistances \/ ReadCompass
         \/ ReadEncoders \/ SaveLine \/ FlushFails \/ SaveEnds \/ SaveFails \/ ReadRequest
         \/ Steer \/ \E a \in Angles : Ask(a)
  PROVE  UNCHANGED semVars
BY DEF Start, InitSemReturns, OpenDevices, ReadDistances, ReadCompass, ReadEncoders,
   SaveLine, FlushFails, SaveEnds, SaveFails, ReadRequest, Steer, Ask

\* Each step is one step of InitSem.tla or leaves its variables alone.
LEMMA SemStep == [Next]_vars => [Sem!Next]_semVars
<1> SUFFICES ASSUME [Next]_vars
             PROVE  [Sem!Next]_semVars
  OBVIOUS
<1>1. CASE UNCHANGED vars
  BY <1>1 DEF vars
<1>2. ASSUME NEW p \in Procs,
             CallInitSem(p) \/ Fails(p) \/ Kill(p) \/ Unlock(p) \/ LockToSave \/ LockToRead
      PROVE  (\E q \in Procs : Sem!ProcessStep(q)) \/ UNCHANGED semVars
  BY <1>2 DEF CallInitSem, Fails, Kill, Unlock, LockToSave, LockToRead, Sem!ProcessStep, Procs
<1> QED
  BY <1>1, <1>2, SetAlone DEF Next, Advance, Lock, Sem!Next, Procs

\* The two programs use the semaphore set as InitSem.tla says and in no other way.
THEOREM ProgramsUseTheSet == Spec => Sem!Spec
<1>1. Init => Sem!Init
  BY DEF Init
<1> QED
  BY <1>1, SemStep, PTL DEF Spec, Sem!Spec, Sem!vars, semVars

-----------------------------------------------------------------------------
(* The least element of a set of positions *)

\* Among the intervals 1..y with y in S one contains no other, by the theorem on
\* finite sets: its y is the least.
LEMMA LeastExists ==
  ASSUME NEW S \in SUBSET Nat, S # {}
  PROVE  Min(S) \in S /\ \A y \in S : Min(S) <= y
<1> DEFINE Intervals == {1..y : y \in S}
<1>1. Intervals \subseteq FiniteSubsetsOf(Nat) /\ Intervals # {}
  <2>1. \A y \in S : IsFiniteSet(1..y) /\ 1..y \in SUBSET Nat
    BY FS_Interval
  <2> QED
    BY <2>1 DEF FiniteSubsetsOf
<1>2. PICK t \in Intervals : \A u \in Intervals : <<u, t>> \notin StrictSubsetOrdering(Nat)
  <2> HIDE DEF Intervals
  <2> QED
    BY <1>1, FS_StrictSubsetOrderingWellFounded, WFMin
<1>3. PICK x \in S : t = 1..x
  OBVIOUS
<1>4. ASSUME NEW y \in S
      PROVE  x <= y
  <2> SUFFICES ASSUME y < x
               PROVE  FALSE
    OBVIOUS
  <2>1. 1..y \subseteq 1..x /\ x \in 1..x /\ x \notin 1..y
    OBVIOUS
  <2>2. <<1..y, 1..x>> \in StrictSubsetOrdering(Nat)
    BY <2>1 DEF StrictSubsetOrdering
  <2> QED
    BY <1>2, <1>3, <2>2
<1> QED
  BY <1>4 DEF Min

LEMMA InInterval ==
  ASSUME NEW a \in Nat, NEW b \in Nat, NEW e \in a..b
  PROVE  e \in Nat /\ a <= e /\ e <= b
OBVIOUS

LEMMA SuccInInterval ==
  ASSUME NEW b \in Nat, NEW e \in Nat, e <= b, e # b
  PROVE  e + 1 \in 1..b /\ (e + 1) - 1 = e
OBVIOUS

\* A line ends at or after its beginning, inside the file, and has no newline before.
LEMMA LineEndIsFirst ==
  ASSUME NEW i \in DOMAIN file, file \in Seq(Cells)
  PROVE  /\ LineEnd(i) \in i..Len(file)
         /\ LineEnd(i) = Len(file) \/ file[LineEnd(i)] = Newline
         /\ \A j \in DOMAIN file : i <= j /\ j < LineEnd(i) => file[j] # Newline
<1> DEFINE Ends == {j \in DOMAIN file : j >= i /\ file[j] = Newline} \cup {Len(file)}
<1>1. Len(file) \in Nat /\ DOMAIN file = 1..Len(file)
  OBVIOUS
<1>2. Ends \in SUBSET Nat /\ Ends # {}
  BY <1>1
<1>3. Min(Ends) \in Ends /\ \A y \in Ends : Min(Ends) <= y
  BY <1>2, LeastExists
<1>4. LineEnd(i) = Min(Ends)
  BY DEF LineEnd
<1>5. LineEnd(i) \in i..Len(file)
  BY <1>1, <1>3, <1>4
<1>6. LineEnd(i) = Len(file) \/ file[LineEnd(i)] = Newline
  BY <1>3, <1>4
<1>7. ASSUME NEW j \in DOMAIN file, i <= j, j < LineEnd(i)
      PROVE  file[j] # Newline
  <2>1. j \in Ends => LineEnd(i) <= j
    BY <1>3, <1>4
  <2> QED
    BY <1>1, <1>5, <1>7, <2>1
<1> QED
  BY <1>5, <1>6, <1>7

-----------------------------------------------------------------------------
(* Where a program is with the set *)

LEMMA SemStageStep == TypeOK /\ SemStage /\ [Next]_vars => SemStage'
<1> SUFFICES ASSUME TypeOK, SemStage, [Next]_vars
             PROVE  SemStage'
  OBVIOUS
<1> USE DEF TypeOK, Stages, SemStage, Procs
<1>1. ASSUME NEW p \in Procs,
             Start(p) \/ InitSemReturns(p) \/ OpenDevices(p) \/ ReadDistances \/ ReadCompass
             \/ ReadEncoders \/ SaveLine \/ FlushFails \/ SaveEnds \/ SaveFails \/ ReadRequest
             \/ Steer \/ \E a \in Angles : Ask(a)
      PROVE  SemStage'
  <2>1. UNCHANGED semVars
    BY <1>1, SetAlone
  <2> QED
    BY <1>1, <2>1, RobotAssumption DEF semVars, Start, InitSemReturns, OpenDevices, ReadDistances,
       ReadCompass, ReadEncoders, SaveLine, FlushFails, SaveEnds, SaveFails, AtKeyLine,
       ReadRequest, Steer, Ask, Goto
<1>2. ASSUME NEW p \in Procs, CallInitSem(p)
      PROVE  SemStage'
  BY <1>2 DEF CallInitSem, Sem!SemgetCreates, Sem!SemgetExists, Sem!SemgetFails,
     Sem!InitSemStep, Sem!CreatorReleases, Sem!CreatorFails, Sem!LookupFinds,
     Sem!LookupFails, Sem!PollReady, Sem!PollAgain, Sem!PollTimeout, Sem!Goto, Sem!Points
<1>3. ASSUME NEW p \in Procs, Fails(p)
      PROVE  SemStage'
  BY <1>3 DEF Fails, Goto, Sem!Exit, Sem!Forget, Sem!Goto, Sem!Points
<1>4. ASSUME NEW p \in Procs, Kill(p)
      PROVE  SemStage'
  BY <1>4 DEF Kill, Goto, semVars, Sem!Kill, Sem!Forget, Sem!Goto, Sem!Points
<1>5. ASSUME NEW p \in Procs, Unlock(p)
      PROVE  SemStage'
  BY <1>5 DEF Unlock, Goto, Sem!Release, Sem!Goto, Sem!Points
<1>6. CASE LockToSave \/ LockToRead
  BY <1>6, RobotAssumption DEF LockToSave, LockToRead, Goto, Sem!Acquire, Sem!Goto, Sem!Points
<1>7. CASE UNCHANGED vars
  BY <1>7 DEF vars, semVars
<1> QED
  BY <1>1, <1>2, <1>3, <1>4, <1>5, <1>6, <1>7 DEF Next, Advance, Lock

\* No step takes the set from a program that has one.
LEMMA OneSetStep == Sem!TypeOK /\ SemStage /\ OneSet /\ [Next]_vars => OneSet'
<1> SUFFICES ASSUME Sem!TypeOK, SemStage, OneSet, [Next]_vars
             PROVE  OneSet'
  OBVIOUS
<1> USE DEF OneSet, SemStage, Sem!TypeOK, Sem!Goto
<1>1. CASE UNCHANGED semVars
  BY <1>1 DEF semVars
<1>2. ASSUME NEW p \in Procs, Sem!ProcessStep(p)
      PROVE  OneSet'
  <2>1. CASE Sem!SemgetCreates(p)
    BY <2>1 DEF Sem!SemgetCreates
  <2>2. CASE Sem!SemgetExists(p) \/ Sem!SemgetFails(p)
    BY <2>2 DEF Sem!SemgetExists, Sem!SemgetFails
  <2>3. CASE Sem!InitSemStep(p)
    BY <2>3 DEF Sem!InitSemStep, Sem!CreatorReleases, Sem!CreatorFails, Sem!LookupFinds,
       Sem!LookupFails, Sem!PollReady, Sem!PollAgain, Sem!PollTimeout
  <2>4. CASE Sem!Acquire(p) \/ Sem!AcquireFails(p) \/ Sem!Release(p) \/ Sem!ReleaseFails(p)
    BY <2>4 DEF Sem!Acquire, Sem!AcquireFails, Sem!Release, Sem!ReleaseFails
  <2>5. CASE Sem!Exit(p) \/ Sem!ExitRemoving(p) \/ Sem!Kill(p)
    BY <2>5 DEF Sem!Exit, Sem!ExitRemoving, Sem!Kill, Sem!Forget
  <2> QED
    BY <1>2, <2>1, <2>2, <2>3, <2>4, <2>5 DEF Sem!ProcessStep
<1>3. ~Sem!Ipcrm
  BY DEF Sem!Ipcrm
<1> QED
  BY <1>1, <1>2, <1>3, SemStep DEF Sem!Next

-----------------------------------------------------------------------------
(* The file *)

LEMMA MaxOfTwo ==
  ASSUME NEW a \in Nat, NEW b \in Nat
  PROVE  Max({a, b}) = IF a >= b THEN a ELSE b
BY DEF Max

LEMMA IntervalIsSeq ==
  ASSUME NEW S, NEW n \in Nat, NEW g \in [1..n -> S]
  PROVE  g \in Seq(S) /\ Len(g) = n
OBVIOUS

\* f with a key k and w characters of a value from position i on.
KeyAndValue(f, i, k, w) == Overlay(f, i, <<k>> \o [j \in 1..w |-> "new"])

\* What that makes of f: i is inside it or just behind its end.
Overwritten(g, f, i, k, w) ==
  /\ g \in Seq(Cells)
  /\ Len(g) = IF Len(f) >= i + w THEN Len(f) ELSE i + w
  /\ i \in DOMAIN g /\ g[i] = k
  /\ \A j \in DOMAIN g : j \in (i + 1)..(i + w) => g[j] = "new"
  /\ \A j \in DOMAIN g : j \notin i..(i + w) => j \in DOMAIN f /\ g[j] = f[j]

LEMMA OverlayWrites ==
  ASSUME NEW f \in Seq(Cells), NEW i \in 1..(Len(f) + 1), NEW w \in Nat \ {0}, NEW k \in Keys
  PROVE  Overwritten(KeyAndValue(f, i, k, w), f, i, k, w)
<1> DEFINE g == KeyAndValue(f, i, k, w)
<1> DEFINE text == <<k>> \o [j \in 1..w |-> "new"]
<1>1. /\ Len(text) = w + 1
      /\ text[1] = k
      /\ \A j \in 2..(w + 1) : text[j] = "new"
  OBVIOUS
<1>2. Len(f) \in Nat /\ DOMAIN f = 1..Len(f) /\ \A j \in DOMAIN f : f[j] \in Cells
  OBVIOUS
<1>0. Len(f) \in Nat /\ i \in Nat /\ 1 <= i /\ i <= Len(f) + 1
  BY <1>2
<1> DEFINE n == IF Len(f) >= i + w THEN Len(f) ELSE i + w
<1> HIDE DEF text
<1>3. g = [j \in 1..n |-> IF j \in i..(i + w) THEN text[j - i + 1] ELSE f[j]]
  <2>1. i + Len(text) - 1 = i + w
    BY <1>0, <1>1, <1>2
  <2>2. i + w \in Nat
    BY <1>0
  <2>3. Max({Len(f), i + w}) = n
    BY <1>0, <2>2, MaxOfTwo
  <2> QED
    BY <2>1, <2>3 DEF KeyAndValue, Overlay, text
<1>4. n \in Nat /\ n >= Len(f) /\ n >= i + w /\ (n = Len(f) \/ n = i + w)
  BY <1>0
<1> HIDE DEF n
<1>5. DOMAIN g = 1..n
  BY <1>3
<1>6. ASSUME NEW j \in 1..n, j \in (i + 1)..(i + w)
      PROVE  g[j] = "new"
  <2>1. j - i + 1 \in 2..(w + 1) /\ j \in i..(i + w)
    BY <1>0, <1>6
  <2> QED
    BY <1>1, <1>3, <2>1
<1>7. i \in 1..n /\ g[i] = k
  <2>1. i \in 1..n /\ i \in i..(i + w) /\ i - i + 1 = 1
    BY <1>0, <1>4
  <2> QED
    BY <1>1, <1>3, <2>1
<1>8. ASSUME NEW j \in 1..n, j \notin i..(i + w)
      PROVE  j \in DOMAIN f /\ g[j] = f[j]
  <2>1. j \in Nat /\ 1 <= j /\ j <= n
    BY <1>4
  <2>2. j < i \/ j > i + w
    BY <1>0, <1>8, <2>1
  <2>3. j \in 1..Len(f)
    BY <1>0, <1>4, <2>1, <2>2
  <2> QED
    BY <1>2, <1>3, <1>8, <2>3
<1>9. ASSUME NEW j \in 1..n
      PROVE  g[j] \in Cells
  <2>1. j = i \/ j \in (i + 1)..(i + w) \/ j \notin i..(i + w)
    BY <1>0, <1>4
  <2> QED
    BY <1>2, <1>6, <1>7, <1>8, <2>1 DEF Cells, Chars
<1>10. g \in Seq(Cells) /\ Len(g) = n
  <2>1. g \in [1..n -> Cells]
    BY <1>3, <1>9
  <2> QED
    BY <1>4, <2>1, IntervalIsSeq
<1>11. n = IF Len(f) >= i + w THEN Len(f) ELSE i + w
  BY DEF n
<1> HIDE DEF g
<1>12. Overwritten(g, f, i, k, w)
  BY <1>5, <1>6, <1>7, <1>8, <1>10, <1>11 DEF Overwritten
<1> QED
  BY <1>12 DEF g

LEMMA SameStarts ==
  ASSUME NEW f \in Seq(Cells), NEW g \in Seq(Cells), DOMAIN g = DOMAIN f,
         \A i \in DOMAIN f : g[i] = Newline <=> f[i] = Newline
  PROVE  LineStarts(g) = LineStarts(f)
<1>1. ASSUME NEW i \in DOMAIN f, i # 1
      PROVE  i - 1 \in DOMAIN f
  BY <1>1
<1> QED
  BY <1>1 DEF LineStarts

\* The line after the one at i begins behind its end, or there is none; no line begins
\* in between.
LEMMA NextLine ==
  ASSUME file \in Seq(Cells), NEW i \in DOMAIN file
  PROVE  /\ LineEnd(i) + 1 \in LineStarts(file) \cup {Len(file) + 1}
         /\ \A j \in LineStarts(file) : j < LineEnd(i) + 1 => j <= i
<1> DEFINE e == LineEnd(i)
<1>1. /\ e \in i..Len(file)
      /\ e = Len(file) \/ file[e] = Newline
      /\ \A j \in DOMAIN file : i <= j /\ j < e => file[j] # Newline
  BY LineEndIsFirst
<1>2. Len(file) \in Nat /\ DOMAIN file = 1..Len(file) /\ i \in Nat /\ 1 <= i
  OBVIOUS
<1> HIDE DEF e
<1>0. e \in Nat /\ i <= e /\ e <= Len(file)
  BY <1>1, <1>2, InInterval
<1>3. e + 1 \in LineStarts(file) \cup {Len(file) + 1}
  <2>1. CASE e = Len(file)
    BY <2>1
  <2>2. CASE e # Len(file)
    <3>1. e + 1 \in DOMAIN file /\ (e + 1) - 1 = e
      BY <1>0, <1>2, <2>2, SuccInInterval
    <3> QED
      BY <1>1, <2>2, <3>1 DEF LineStarts
  <2> QED
    BY <2>1, <2>2
<1>4. ASSUME NEW j \in LineStarts(file), j < e + 1
      PROVE  j <= i
  <2> SUFFICES ASSUME j > i
               PROVE  FALSE
    BY <1>2 DEF LineStarts
  <2>1. j \in DOMAIN file /\ j # 1 /\ file[j - 1] = Newline
    BY <1>2 DEF LineStarts
  <2>2. j \in Nat
    BY <1>2, <2>1
  <2>3. i <= j - 1 /\ j - 1 < e
    BY <1>0, <1>2, <1>4, <2>2
  <2>4. j - 1 \in DOMAIN file
    BY <1>0, <1>2, <2>2, <2>3
  <2> QED
    BY <1>1, <2>1, <2>3, <2>4
<1> QED
  BY <1>3, <1>4 DEF e

-----------------------------------------------------------------------------
(* The invariant of the file, step by step *)

FileInv == RequestIntact /\ SameLines /\ OffsetAhead /\ SaveInStep /\ Saved

\* The steps that neither write the file nor begin or end a pass over it.
LEMMA FileAlone ==
  ASSUME FileInv, UNCHANGED fileVars, at'[Top] = "save" <=> at[Top] = "save"
  PROVE  FileInv'
BY DEF FileInv, RequestIntact, SameLines, OffsetAhead, AtKeyLine, SaveInStep, Saved, KeyLines,
   Written, Value, fileVars, LineStarts

LEMMA LockToSaveStep ==
  ASSUME TypeOK, FileInv, LockToSave
  PROVE  file' \in Seq(Cells) /\ FileInv'
<1> USE DEF FileInv
<1>1. /\ file \in Seq(Cells)
      /\ Len(file) \in Nat /\ DOMAIN file = 1..Len(file)
      /\ \A i \in DOMAIN file : file[i] \in Cells
  BY DEF TypeOK
<1>2. /\ DOMAIN file' = DOMAIN file
      /\ \A i \in DOMAIN file : file'[i] = IF file[i] = "new" THEN "old" ELSE file[i]
      /\ off' = 1 /\ pos' = 1 /\ at'[Top] = "save" /\ outgrown' = outgrown
  BY RobotAssumption DEF LockToSave, TypeOK, Goto, Procs
<1>3. file' \in Seq(Cells) /\ Len(file') = Len(file)
  <2>1. file' \in [1..Len(file) -> Cells]
    BY <1>1, <1>2 DEF LockToSave, Cells, Chars
  <2> QED
    BY <1>1, <2>1, IntervalIsSeq
<1>4. \A i \in DOMAIN file : file'[i] = Newline <=> file[i] = Newline
  BY <1>2 DEF Newline
<1>5. LineStarts(file') = LineStarts(file)
  BY <1>1, <1>2, <1>3, <1>4, SameStarts
<1>6. RequestIntact'
  BY <1>1, <1>2, RobotAssumption DEF RequestIntact, Request, Chars
<1>7. SameLines'
  <2>1. ASSUME NEW i \in LineStarts(file), ~outgrown
        PROVE  file'[i] = FirstFile[i]
    <3>1. file[i] = FirstFile[i] /\ i \in DOMAIN file /\ i \in DOMAIN FirstFile
      BY <2>1 DEF SameLines, LineStarts
    <3>2. FirstFile[i] # "new"
      BY <3>1, RobotAssumption
    <3> QED
      BY <1>2, <3>1, <3>2
  <2> QED
    BY <1>2, <1>5, <2>1 DEF SameLines
<1>8. SaveInStep'
  <2>1. 1 \in LineStarts(file) \cup {Len(file) + 1}
    BY <1>1 DEF LineStarts
  <2>2. \A i \in LineStarts(file) : ~(i < 1)
    BY <1>1 DEF LineStarts
  <2> QED
    BY <1>2, <1>3, <1>5, <2>1, <2>2 DEF SaveInStep, KeyLines
<1>9. OffsetAhead' /\ Saved'
  BY <1>2 DEF OffsetAhead, Saved
<1> QED
  BY <1>3, <1>6, <1>7, <1>8, <1>9

\* A value that is whole stays whole while newlines stay where they are and new
\* characters stay new.
LEMMA WrittenStays ==
  ASSUME file \in Seq(Cells), NEW i \in DOMAIN file, Written(i),
         DOMAIN file' = DOMAIN file, shrunk => shrunk',
         \A j \in DOMAIN file : file'[j] = Newline <=> file[j] = Newline,
         \A j \in DOMAIN file : file[j] = "new" => file'[j] = "new"
  PROVE  Written(i)'
<1>1. Len(file) \in Nat /\ DOMAIN file = 1..Len(file)
  OBVIOUS
<1>2. ASSUME NEW j \in Value(i)'
      PROVE  j \in Value(i)
  <2>1. j \in DOMAIN file /\ j > i /\ \A m \in i..j : file'[m] # Newline
    BY DEF Value
  <2>2. i..j \subseteq DOMAIN file
    BY <1>1, <2>1
  <2> QED
    BY <2>1, <2>2 DEF Value
<1> QED
  BY <1>2 DEF Written, Value

\* A value that its line has room for leaves all lines where they are, and is new.
LEMMA WriteFits ==
  ASSUME file \in Seq(Cells), NEW b \in DOMAIN file, off = b, pos = b, file[b] \in Keys,
         NEW w \in Nat \ {0}, WriteValue(w), b + w < LineEnd(b)
  PROVE  /\ DOMAIN file' = DOMAIN file
         /\ LineStarts(file') = LineStarts(file)
         /\ \A i \in LineStarts(file) : file'[i] = file[i]
         /\ \A j \in DOMAIN file : file'[j] = Newline <=> file[j] = Newline
         /\ \A j \in DOMAIN file : file[j] = "new" => file'[j] = "new"
         /\ Written(b)'
<1>1. /\ file' \in Seq(Cells)
      /\ Len(file') = IF Len(file) >= b + w THEN Len(file) ELSE b + w
      /\ b \in DOMAIN file' /\ file'[b] = file[b]
      /\ \A j \in DOMAIN file' : j \in (b + 1)..(b + w) => file'[j] = "new"
      /\ \A j \in DOMAIN file' : j \notin b..(b + w) => file'[j] = file[j]
  <2>1. b \in 1..(Len(file) + 1)
    OBVIOUS
  <2>2. file' = KeyAndValue(file, b, file[b], w)
    BY DEF WriteValue, KeyAndValue
  <2>3. Overwritten(file', file, b, file[b], w)
    BY <2>1, <2>2, OverlayWrites
  <2> QED
    BY <2>3 DEF Overwritten
<1> DEFINE e == LineEnd(b)
           n == Len(file)
<1>2. n \in Nat /\ DOMAIN file = 1..n /\ b \in Nat /\ 1 <= b /\ b <= n
  OBVIOUS
<1>3. e \in b..n /\ \A j \in DOMAIN file : b <= j /\ j < e => file[j] # Newline
  BY LineEndIsFirst
<1>4. b + w < e
  OBVIOUS
<1> HIDE DEF e, n
<1>5. e \in Nat /\ b <= e /\ e <= n
  BY <1>2, <1>3, InInterval
<1>6. DOMAIN file' = DOMAIN file
  <2>1. b + w <= n
    BY <1>2, <1>4, <1>5
  <2>2. Len(file') = n
    BY <1>1, <1>2, <2>1 DEF n
  <2> QED
    BY <1>1, <1>2, <2>2
<1>7. ASSUME NEW j \in (b + 1)..(b + w)
      PROVE  /\ j \in DOMAIN file /\ j - 1 \in DOMAIN file
             /\ file[j] # Newline /\ file[j - 1] # Newline
             /\ file'[j] = "new"
  <2>1. j \in Nat /\ b + 1 <= j /\ j <= b + w
    BY <1>2, <1>7, InInterval
  <2>2. j \in DOMAIN file /\ j - 1 \in DOMAIN file
    BY <1>2, <1>4, <1>5, <2>1
  <2>3. b <= j /\ j < e /\ b <= j - 1 /\ j - 1 < e
    BY <1>2, <1>4, <1>5, <2>1
  <2> QED
    BY <1>1, <1>3, <1>6, <1>7, <2>2, <2>3
<1>8. ASSUME NEW j \in DOMAIN file, j \notin (b + 1)..(b + w)
      PROVE  file'[j] = file[j]
  <2>1. j \in Nat
    BY <1>2
  <2>2. j = b \/ j \notin b..(b + w)
    BY <1>2, <1>8, <2>1
  <2> QED
    BY <1>1, <1>6, <2>2
<1>9. \A j \in DOMAIN file : file'[j] = Newline <=> file[j] = Newline
  BY <1>7, <1>8 DEF Newline
<1>10. LineStarts(file') = LineStarts(file)
  BY <1>1, <1>6, <1>9, SameStarts
<1>11. ASSUME NEW i \in LineStarts(file)
       PROVE  file'[i] = file[i]
  <2>1. i \notin (b + 1)..(b + w)
    <3>1. CASE i = 1
      BY <1>2, <3>1
    <3>2. CASE i # 1
      BY <1>7, <3>2 DEF LineStarts
    <3> QED
      BY <3>1, <3>2
  <2> QED
    BY <1>8, <2>1 DEF LineStarts
<1>12. Written(b)'
  <2>2. b + 1 \in (b + 1)..(b + w)
    BY <1>2
  <2>3. b + 1 \in DOMAIN file' /\ file'[b + 1] = "new"
    BY <1>6, <1>7, <2>2
  <2>4. ASSUME NEW j \in DOMAIN file, j > b, \A m \in b..j : file'[m] # Newline, ~shrunk'
        PROVE  file'[j] = "new"
    <3>1. b..j \subseteq DOMAIN file /\ j \in Nat
      BY <1>2, <2>4
    <3>2. \A m \in b..j : file[m] # Newline
      BY <1>9, <2>4, <3>1
    <3>3. j \in Value(pos)
      BY <2>4, <3>2 DEF Value
    <3>4. ~(j > b + w)
      BY <2>4, <3>3 DEF WriteValue
    <3>5. j \in (b + 1)..(b + w)
      BY <1>2, <2>4, <3>1, <3>4
    <3> QED
      BY <1>7, <3>5
  <2> QED
    BY <1>6, <2>3, <2>4 DEF Written, Value
<1> QED
  BY <1>6, <1>7, <1>8, <1>9, <1>10, <1>11, <1>12

\* What is written over never parts the words of the request from the angle.
LEMMA WriteKeepsRequest ==
  ASSUME file \in Seq(Cells), pos \in DOMAIN file, file[pos] \in Keys,
         off = pos \/ off \in LineStarts(file) \cup {Len(file) + 1},
         NEW w \in Nat \ {0}, WriteValue(w), RequestIntact
  PROVE  file' \in Seq(Cells) /\ RequestIntact'
<1> DEFINE n == Len(file)
           m == Len(file')
<1>1. n \in Nat /\ DOMAIN file = 1..n
  OBVIOUS
<1>2. off \in Nat /\ 1 <= off /\ off <= n + 1
  BY <1>1 DEF LineStarts
<1>3. /\ file' \in Seq(Cells)
      /\ m = IF n >= off + w THEN n ELSE off + w
      /\ off \in DOMAIN file' /\ file'[off] = file[pos]
      /\ \A j \in DOMAIN file' : j \in (off + 1)..(off + w) => file'[j] = "new"
      /\ \A j \in DOMAIN file' :
           j \notin off..(off + w) => j \in DOMAIN file /\ file'[j] = file[j]
  <2>1. off \in 1..(n + 1)
    BY <1>1, <1>2
  <2>2. file' = KeyAndValue(file, off, file[pos], w)
    BY DEF WriteValue, KeyAndValue
  <2>3. Overwritten(file', file, off, file[pos], w)
    BY <2>1, <2>2, OverlayWrites
  <2> QED
    BY <2>3 DEF Overwritten
<1>4. m \in Nat /\ DOMAIN file' = 1..m
  BY <1>3
<1>5. n <= m /\ off + w <= m
  BY <1>1, <1>2, <1>3
<1> HIDE DEF n, m
<1>6. ASSUME NEW i \in 1..m, file'[i] = Request
      PROVE  i + 1 \in 1..m /\ file'[i + 1] \in Angles
  <2>1. i \in Nat /\ 1 <= i /\ i <= m
    BY <1>4
  <2>2. i # off /\ i \notin (off + 1)..(off + w)
    BY <1>3, <1>4, <1>6, RobotAssumption DEF Request
  <2>3. i < off \/ i > off + w
    BY <1>2, <2>1, <2>2
  <2>4. i \notin off..(off + w)
    BY <1>2, <2>1, <2>3
  <2>5. i \in DOMAIN file /\ file[i] = Request
    BY <1>3, <1>4, <1>6, <2>4
  <2>6. i + 1 \in DOMAIN file /\ file[i + 1] \in Angles
    BY <2>5 DEF RequestIntact
  <2>7. i + 1 # off
    <3>1. CASE off = pos
      BY <2>6, <3>1, RobotAssumption
    <3>2. CASE off \in LineStarts(file)
      <4>1. i + 1 # 1 /\ (i + 1) - 1 = i
        BY <2>1
      <4> QED
        BY <2>5, <3>2, <4>1 DEF LineStarts, Request, Newline
    <3>3. CASE off = Len(file) + 1
      BY <1>1, <2>6, <3>3 DEF n
    <3> QED
      BY <3>1, <3>2, <3>3
  <2>8. i + 1 \notin off..(off + w)
    BY <1>2, <2>1, <2>3, <2>7
  <2>9. i + 1 \in 1..m
    BY <1>1, <1>4, <1>5, <2>1, <2>6
  <2> QED
    BY <1>3, <1>4, <2>6, <2>8, <2>9
<1> QED
  BY <1>3, <1>4, <1>6 DEF RequestIntact

\* Where saveSTATE goes on: behind the line it has read.
LEMMA MovesOn ==
  ASSUME file \in Seq(Cells), pos \in DOMAIN file, off \in Nat \ {0}, MoveOn
  PROVE  /\ off' \in Nat \ {0} /\ pos' = off'
         /\ off = pos => off' = LineEnd(pos) + 1
<1>1. pos \in Nat /\ Len(file) \in Nat /\ LineEnd(pos) \in pos..Len(file)
  BY LineEndIsFirst
<1>2. LineEnd(pos) \in Nat /\ pos <= LineEnd(pos)
  BY <1>1, InInterval
<1> QED
  BY <1>1, <1>2 DEF MoveOn

LEMMA SaveLineStep ==
  ASSUME TypeOK, FileInv, SaveLine
  PROVE  file' \in Seq(Cells) /\ off' \in Nat \ {0} /\ pos' \in Nat \ {0} /\ FileInv'
<1> USE DEF FileInv
<1>1. /\ file \in Seq(Cells) /\ pos \in DOMAIN file /\ off \in Nat \ {0}
      /\ Len(file) \in Nat /\ DOMAIN file = 1..Len(file)
      /\ at[Top] = "save" /\ at'[Top] = "save" /\ cut' = cut
  BY DEF TypeOK, SaveLine, AtKeyLine
<1>2. /\ off' \in Nat \ {0} /\ pos' = off'
      /\ off = pos => off' = LineEnd(pos) + 1
  BY <1>1, MovesOn DEF SaveLine
<1>3. OffsetAhead' /\ Saved'
  BY <1>1, <1>2 DEF OffsetAhead, Saved
<1>4. /\ LineEnd(pos) + 1 \in LineStarts(file) \cup {Len(file) + 1}
      /\ \A j \in LineStarts(file) : j < LineEnd(pos) + 1 => j <= pos
  BY <1>1, NextLine
<1>5. CASE file[pos] \in Keys
  <2>1. PICK w \in Widths[file[pos]] : WriteValue(w)
    BY <1>1, <1>5 DEF SaveLine, AtKeyLine
  <2>2. w \in Nat \ {0}
    BY <1>5, RobotAssumption
  <2>3. off = pos \/ off \in LineStarts(file) \cup {Len(file) + 1}
    BY <1>1 DEF OffsetAhead
  <2>4. file' \in Seq(Cells) /\ RequestIntact'
    BY <1>1, <1>5, <2>1, <2>2, <2>3, WriteKeepsRequest
  <2>5. CASE outgrown'
    BY <1>2, <1>3, <2>4, <2>5 DEF SameLines, SaveInStep
  <2>6. CASE ~outgrown'
    <3>1. ~outgrown /\ off = pos /\ ~(off + w >= LineEnd(off))
      BY <2>1, <2>6 DEF WriteValue
    <3>2. PICK b \in DOMAIN file : off = b /\ pos = b
      BY <1>1, <3>1
    <3>3. b + w < LineEnd(b)
      <4>1. LineEnd(b) \in b..Len(file)
        BY <1>1, LineEndIsFirst
      <4>2. LineEnd(b) \in Nat /\ b \in Nat
        BY <1>1, <4>1, InInterval
      <4> QED
        BY <2>2, <3>1, <3>2, <4>2
    <3>4. /\ DOMAIN file' = DOMAIN file
          /\ LineStarts(file') = LineStarts(file)
          /\ \A i \in LineStarts(file) : file'[i] = file[i]
          /\ \A j \in DOMAIN file : file'[j] = Newline <=> file[j] = Newline
          /\ \A j \in DOMAIN file : file[j] = "new" => file'[j] = "new"
          /\ Written(b)'
      BY <1>1, <1>5, <2>1, <2>2, <3>2, <3>3, WriteFits
    <3>5. SameLines'
      BY <3>1, <3>4 DEF SameLines
    <3>6. Len(file') = Len(file)
      BY <1>1, <2>4, <3>4
    <3>7. ASSUME NEW i \in LineStarts(file), file[i] \in Keys, i < LineEnd(pos) + 1, ~cut
          PROVE  Written(i)'
      <4>1. CASE i = b
        BY <3>4, <4>1
      <4>2. CASE i # b
        <5>1. i \in DOMAIN file /\ i < b
          BY <1>1, <1>4, <3>2, <3>7, <4>2 DEF LineStarts
        <5>2. Written(i)
          BY <1>1, <3>1, <3>2, <3>7, <5>1 DEF SaveInStep, KeyLines
        <5>3. shrunk => shrunk'
          BY <2>1 DEF WriteValue
        <5> QED
          BY <1>1, <3>4, <5>1, <5>2, <5>3, WrittenStays
      <4> QED
        BY <4>1, <4>2
    <3>8. off' \in LineStarts(file') \cup {Len(file') + 1}
      BY <1>2, <1>4, <3>1, <3>4, <3>6
    <3>9. ASSUME NEW i \in KeyLines', i < off', ~cut'
          PROVE  Written(i)'
      BY <1>1, <1>2, <3>1, <3>4, <3>7, <3>9 DEF KeyLines
    <3>10. SaveInStep'
      BY <3>8, <3>9 DEF SaveInStep
    <3> QED
      BY <1>2, <1>3, <2>4, <3>5, <3>10
  <2> QED
    BY <2>5, <2>6
<1>6. CASE file[pos] \notin Keys
  <2>1. UNCHANGED <<file, shrunk, outgrown>> /\ off = pos
    BY <1>1, <1>6 DEF SaveLine, AtKeyLine, OffsetAhead
  <2>2. RequestIntact' /\ SameLines'
    BY <2>1 DEF RequestIntact, SameLines, LineStarts
  <2>3. SaveInStep'
    <3>1. ASSUME NEW i \in KeyLines, i < LineEnd(pos) + 1, ~outgrown, ~cut
          PROVE  Written(i)
      <4>1. i # pos /\ i \in LineStarts(file)
        BY <1>6 DEF KeyLines
      <4>2. i < off
        BY <1>1, <1>4, <2>1, <3>1, <4>1 DEF LineStarts
      <4> QED
        BY <1>1, <3>1, <4>2 DEF SaveInStep
    <3>2. KeyLines' = KeyLines /\ LineStarts(file') = LineStarts(file)
      BY <2>1 DEF KeyLines, LineStarts
    <3> QED
      BY <1>1, <1>2, <1>4, <2>1, <3>1, <3>2 DEF SaveInStep, Written, Value
  <2> QED
    BY <1>1, <1>2, <1>3, <2>1, <2>2, <2>3
<1> QED
  BY <1>5, <1>6

\* Another angle is asked for.
LEMMA AskStep ==
  ASSUME TypeOK, FileInv, NEW a \in Angles, Ask(a)
  PROVE  file' \in Seq(Cells) /\ FileInv'
<1> USE DEF FileInv
<1>1. /\ file \in Seq(Cells)
      /\ Len(file) \in Nat /\ DOMAIN file = 1..Len(file)
      /\ \A i \in DOMAIN file : file[i] \in Cells
  BY DEF TypeOK
<1>2. /\ DOMAIN file' = DOMAIN file
      /\ \A i \in DOMAIN file : file'[i] = IF i - 1 \in Lines(file, Request) THEN a ELSE file[i]
      /\ UNCHANGED <<at, off, pos, cut, shrunk, outgrown>>
  BY DEF Ask
<1>3. file' \in Seq(Cells) /\ Len(file') = Len(file)
  <2>1. file' \in [1..Len(file) -> Cells]
    BY <1>1, <1>2 DEF Ask, Cells
  <2> QED
    BY <1>1, <2>1, IntervalIsSeq
<1>4. ASSUME NEW i \in DOMAIN file, i - 1 \in Lines(file, Request)
      PROVE  /\ file[i] \in Angles /\ file'[i] = a
             /\ i \notin LineStarts(file)
             /\ \A j \in KeyLines : i # j + 1
  <2>1. /\ i - 1 \in DOMAIN file /\ file[i - 1] = Request
        /\ (i - 1) + 1 = i /\ i # 1
    BY <1>1, <1>4 DEF Lines, LineStarts
  <2>2. file[i] \in Angles
    BY <2>1 DEF RequestIntact
  <2>3. i \notin LineStarts(file)
    BY <2>1 DEF LineStarts, Request, Newline
  <2>4. ASSUME NEW j \in KeyLines, i = j + 1
        PROVE  FALSE
    <3>1. j \in DOMAIN file /\ file[j] \in Keys
      BY DEF KeyLines, LineStarts
    <3>2. j = i - 1
      BY <1>1, <2>4, <3>1
    <3> QED
      BY <2>1, <3>1, <3>2, RobotAssumption
  <2> QED
    BY <1>2, <1>4, <2>2, <2>3, <2>4
<1>5. \A i \in DOMAIN file : file'[i] = Newline <=> file[i] = Newline
  BY <1>2, <1>4, RobotAssumption
<1>6. LineStarts(file') = LineStarts(file)
  BY <1>1, <1>2, <1>3, <1>5, SameStarts
<1>7. \A i \in LineStarts(file) : file'[i] = file[i]
  BY <1>2, <1>4 DEF LineStarts
<1>8. KeyLines' = KeyLines
  BY <1>6, <1>7 DEF KeyLines
<1>9. ASSUME NEW i \in KeyLines, Written(i)
      PROVE  Written(i)'
  <2>1. i \in DOMAIN file
    BY DEF KeyLines, LineStarts
  <2>2. ASSUME NEW j \in DOMAIN file, file[j] = "new"
        PROVE  file'[j] = "new"
    BY <1>2, <1>4, <2>2, RobotAssumption DEF Chars
  <2> QED
    BY <1>1, <1>2, <1>5, <1>9, <2>1, <2>2, WrittenStays
<1>10. RequestIntact'
  <2>1. ASSUME NEW i \in DOMAIN file, file'[i] = Request
        PROVE  i + 1 \in DOMAIN file /\ file'[i + 1] \in Angles
    <3>1. file[i] = Request
      BY <1>2, <1>4, <2>1, RobotAssumption
    <3>2. i + 1 \in DOMAIN file /\ file[i + 1] \in Angles
      BY <3>1 DEF RequestIntact
    <3> QED
      BY <1>2, <3>2
  <2> QED
    BY <1>2, <2>1 DEF RequestIntact
<1>11. SameLines'
  BY <1>2, <1>6, <1>7 DEF SameLines
<1>12. SaveInStep' /\ Saved'
  BY <1>2, <1>3, <1>6, <1>8, <1>9 DEF SaveInStep, Saved
<1>13. OffsetAhead'
  <2>1. pos \in DOMAIN file /\ file[pos] \in Keys => file'[pos] \in Keys
    BY <1>2, <1>4, RobotAssumption
  <2>2. pos \in Nat \ {0}
    BY DEF TypeOK
  <2> QED
    BY <1>1, <1>2, <1>3, <1>6, <2>1, <2>2 DEF OffsetAhead, AtKeyLine
<1> QED
  BY <1>3, <1>10, <1>11, <1>12, <1>13

\* The steps of a program that leave the file and the pass over it alone.
LEMMA OtherSteps ==
  ASSUME TypeOK, NEW p \in Procs,
         Start(p) \/ CallInitSem(p) \/ InitSemReturns(p) \/ Fails(p) \/ OpenDevices(p)
         \/ ReadDistances \/ ReadCompass \/ ReadEncoders \/ Unlock(p) \/ LockToRead
         \/ ReadRequest \/ Steer
  PROVE  UNCHANGED fileVars /\ (at'[Top] = "save" <=> at[Top] = "save")
BY RobotAssumption DEF TypeOK, Procs, Goto, fileVars, Start, CallInitSem, InitSemReturns, Fails,
   OpenDevices, ReadDistances, ReadCompass, ReadEncoders, Unlock, LockToRead, ReadRequest, Steer

\* A value is lost: the pass goes on, and counts as left half way.
LEMMA FlushFailsStep ==
  ASSUME TypeOK, FileInv, FlushFails
  PROVE  off' \in Nat \ {0} /\ pos' \in Nat \ {0} /\ FileInv'
<1> USE DEF FileInv
<1>1. /\ file \in Seq(Cells) /\ pos \in DOMAIN file /\ pos \in Nat \ {0}
      /\ file[pos] \in Keys /\ at[Top] = "save"
      /\ Len(file) \in Nat
  BY DEF TypeOK, FlushFails, AtKeyLine
<1>2. /\ UNCHANGED <<file, at, shrunk, outgrown>> /\ cut'
      /\ off' = LineEnd(pos) + 1 /\ pos' \in {pos, off'}
  BY DEF FlushFails
<1>3. LineEnd(pos) + 1 \in LineStarts(file) \cup {Len(file) + 1}
  BY <1>1, NextLine
<1>4. off' \in Nat \ {0}
  <2>1. LineEnd(pos) \in pos..Len(file)
    BY <1>1, LineEndIsFirst
  <2>2. LineEnd(pos) \in Nat
    BY <1>1, <2>1, InInterval
  <2> QED
    BY <1>2, <2>2
<1>5. LineStarts(file') = LineStarts(file) /\ Len(file') = Len(file)
  BY <1>2
<1>6. RequestIntact' /\ SameLines' /\ Saved'
  BY <1>1, <1>2 DEF RequestIntact, SameLines, LineStarts, Saved
<1>7. OffsetAhead' /\ SaveInStep'
  BY <1>1, <1>2, <1>3, <1>5 DEF OffsetAhead, AtKeyLine, SaveInStep
<1> QED
  BY <1>1, <1>2, <1>4, <1>6, <1>7

\* The ends of a pass: at the end of the file, by an error, by a kill.
LEMMA PassEnds ==
  ASSUME TypeOK, FileInv, SaveEnds \/ SaveFails \/ \E p \in Procs : Kill(p)
  PROVE  FileInv'
<1> USE DEF FileInv
<1>1. /\ UNCHANGED <<file, off, pos, shrunk, outgrown>>
      /\ cut => cut'
  <2>1. SaveEnds => UNCHANGED fileVars
    BY DEF SaveEnds
  <2>2. SaveFails \/ (\E p \in Procs : Kill(p)) =>
          UNCHANGED <<file, off, pos, shrunk, outgrown>> /\ (cut => cut')
    BY DEF SaveFails, Kill
  <2> QED
    BY <2>1, <2>2 DEF fileVars
<1>2. RequestIntact' /\ SameLines'
  BY <1>1 DEF RequestIntact, SameLines, LineStarts
<1>3. KeyLines' = KeyLines /\ \A i \in KeyLines : Written(i)' <=> Written(i)
  BY <1>1 DEF KeyLines, Written, Value, LineStarts
<1>4. CASE SaveEnds
  <2>1. /\ at[Top] = "save" /\ at'[Top] = "unlock" /\ pos > Len(file)
        /\ cut' = cut
    BY <1>4, RobotAssumption DEF SaveEnds, Goto, TypeOK, Procs, fileVars
  <2>2. Len(file) \in Nat /\ DOMAIN file = 1..Len(file) /\ off \in Nat /\ pos \in Nat
    BY DEF TypeOK
  <2>3. off = pos
    BY <2>1, <2>2 DEF OffsetAhead, AtKeyLine
  <2>4. \A i \in KeyLines : i < off
    BY <2>1, <2>2, <2>3 DEF KeyLines, LineStarts
  <2> QED
    BY <1>1, <1>2, <1>3, <2>1, <2>4 DEF SaveInStep, Saved, OffsetAhead
<1>5. CASE SaveFails
  <2>1. cut' /\ at'[Top] = "unlock"
    BY <1>5, RobotAssumption DEF SaveFails, Goto, TypeOK, Procs
  <2> QED
    BY <1>2, <2>1 DEF SaveInStep, Saved, OffsetAhead
<1>6. ASSUME NEW p \in Procs, Kill(p)
      PROVE  FileInv'
  <2>1. CASE p = Top /\ at[p] = "save"
    <3>1. cut' /\ at'[Top] = "off"
      BY <1>6, <2>1, RobotAssumption DEF Kill, Goto, TypeOK, Procs
    <3> QED
      BY <1>2, <3>1 DEF SaveInStep, Saved, OffsetAhead
  <2>2. CASE ~(p = Top /\ at[p] = "save")
    <3>1. at'[Top] = "save" <=> at[Top] = "save"
      BY <1>6, <2>2, RobotAssumption DEF Kill, Goto, TypeOK, Procs
    <3>2. LineStarts(file') = LineStarts(file)
      BY <1>1 DEF LineStarts
    <3>3. OffsetAhead'
      BY <1>1, <3>1, <3>2 DEF OffsetAhead, AtKeyLine
    <3> QED
      BY <1>1, <1>2, <1>3, <3>1, <3>2, <3>3 DEF SaveInStep, Saved
  <2> QED
    BY <2>1, <2>2
<1> QED
  BY <1>4, <1>5, <1>6

LEMMA FileStep == TypeOK /\ FileInv /\ [Next]_vars => FileInv'
<1> SUFFICES ASSUME TypeOK, FileInv, [Next]_vars
             PROVE  FileInv'
  OBVIOUS
<1>1. CASE UNCHANGED vars
  BY <1>1, FileAlone DEF vars, fileVars
<1>2. CASE SaveEnds \/ SaveFails \/ FlushFails \/ \E p \in Procs : Kill(p)
  BY <1>2, PassEnds, FlushFailsStep
<1>3. CASE SaveLine
  BY <1>3, SaveLineStep
<1>4. CASE LockToSave
  BY <1>4, LockToSaveStep
<1>5. CASE \E a \in Angles : Ask(a)
  BY <1>5, AskStep
<1>6. ASSUME NEW p \in Procs,
             Start(p) \/ CallInitSem(p) \/ InitSemReturns(p) \/ Fails(p) \/ OpenDevices(p)
             \/ ReadDistances \/ ReadCompass \/ ReadEncoders \/ Unlock(p) \/ LockToRead
             \/ ReadRequest \/ Steer
      PROVE  FileInv'
  BY <1>6, OtherSteps, FileAlone
<1> QED
  BY <1>1, <1>2, <1>3, <1>4, <1>5, <1>6 DEF Next, Advance, Lock, Procs

LEMMA TypeStep == TypeOK /\ FileInv /\ [Next]_vars => TypeOK'
<1> SUFFICES ASSUME TypeOK, FileInv, [Next]_vars
             PROVE  TypeOK'
  OBVIOUS
<1>1. CASE UNCHANGED vars
  BY <1>1 DEF vars, TypeOK, fileVars, driveVars
<1>2. CASE SaveEnds \/ SaveFails \/ FlushFails \/ \E p \in Procs : Kill(p)
  <2>1. off' \in Nat \ {0} /\ pos' \in Nat \ {0}
    BY <1>2, FlushFailsStep DEF TypeOK, SaveEnds, SaveFails, Kill, fileVars
  <2> QED
    BY <1>2, <2>1 DEF TypeOK, SaveEnds, SaveFails, FlushFails, Kill, Goto, Stages, Procs,
       driveVars, fileVars
<1>3. CASE SaveLine
  <2>1. file' \in Seq(Cells) /\ off' \in Nat \ {0} /\ pos' \in Nat \ {0}
    BY <1>3, SaveLineStep
  <2>2. outgrown' \in BOOLEAN /\ shrunk' \in BOOLEAN
    BY <1>3 DEF SaveLine, WriteValue, TypeOK
  <2> QED
    BY <1>3, <2>1, <2>2 DEF TypeOK, SaveLine, driveVars
<1>4. CASE LockToSave
  <2>1. file' \in Seq(Cells)
    BY <1>4, LockToSaveStep
  <2>2. at' \in [Procs -> Stages]
    BY <1>4 DEF TypeOK, LockToSave, Goto, Stages
  <2>3. /\ off' = 1 /\ pos' = 1 /\ cut' = FALSE /\ shrunk' = FALSE
        /\ UNCHANGED <<outgrown, driveVars, asked>>
    BY <1>4 DEF LockToSave
  <2>4. cut' \in BOOLEAN /\ shrunk' \in BOOLEAN
    BY <2>3, Zenon
  <2> QED
    BY <2>1, <2>2, <2>3, <2>4 DEF TypeOK, driveVars
<1>5. ASSUME NEW a \in Angles, Ask(a)
      PROVE  TypeOK'
  <2>1. file' \in Seq(Cells)
    BY <1>5, AskStep
  <2> QED
    BY <1>5, <2>1 DEF TypeOK, Ask, driveVars
<1>6. CASE ReadRequest
  <2>1. Requests \subseteq Angles
    BY DEF FileInv, RequestIntact, Requests, Lines, LineStarts
  <2> QED
    BY <1>6, <2>1 DEF TypeOK, ReadRequest, Goto, Stages, Procs, fileVars
<1>7. ASSUME NEW p \in Procs,
             Start(p) \/ CallInitSem(p) \/ InitSemReturns(p) \/ Fails(p) \/ OpenDevices(p)
             \/ ReadDistances \/ ReadCompass \/ ReadEncoders \/ Unlock(p) \/ LockToRead
             \/ Steer
      PROVE  TypeOK'
  <2>1. UNCHANGED fileVars
    BY <1>7, OtherSteps
  <2> QED
    BY <1>7, <2>1 DEF TypeOK, fileVars, driveVars, Goto, Stages, Procs, Start, CallInitSem,
       InitSemReturns, Fails, OpenDevices, ReadDistances, ReadCompass, ReadEncoders, Unlock,
       LockToRead, Steer
<1> QED
  BY <1>1, <1>2, <1>3, <1>4, <1>5, <1>6, <1>7 DEF Next, Advance, Lock, Procs

LEMMA InvInit == Init => TypeOK /\ SemStage /\ OneSet /\ FileInv
<1> SUFFICES ASSUME Init
             PROVE  TypeOK /\ SemStage /\ OneSet /\ FileInv
  OBVIOUS
<1>1. file = FirstFile /\ FirstFile \in Seq(Cells)
  BY RobotAssumption DEF Init
<1>2. RequestIntact
  BY <1>1, RobotAssumption DEF RequestIntact
<1>3. Requests \subseteq Angles
  BY <1>2 DEF RequestIntact, Requests, Lines, LineStarts
<1>4. TypeOK
  <2>1. heading \in Angles /\ steered \in Angles /\ asked \in Angles
    BY <1>3 DEF Init
  <2>2. at = [p \in Procs |-> "off"] /\ off = 1 /\ pos = 1
        /\ cut = TRUE /\ shrunk = FALSE /\ outgrown = FALSE
    BY DEF Init
  <2>3. at \in [Procs -> Stages]
    BY <2>2 DEF Stages
  <2>4. file \in Seq(Cells)
    BY <1>1
  <2>5. off \in Nat \ {0} /\ pos \in Nat \ {0}
    BY <2>2
  <2>6. cut \in BOOLEAN /\ shrunk \in BOOLEAN /\ outgrown \in BOOLEAN
    BY <2>2, Zenon
  <2> QED
    BY <2>1, <2>3, <2>4, <2>5, <2>6 DEF TypeOK
<1>5. SemStage /\ OneSet
  BY DEF Init, SemStage, OneSet, Sem!Init, Sem!Points
<1>6. SameLines /\ OffsetAhead /\ SaveInStep /\ Saved
  BY <1>1, RobotAssumption DEF Init, SameLines, OffsetAhead, SaveInStep, Saved, Procs
<1> QED
  BY <1>2, <1>4, <1>5, <1>6 DEF FileInv

-----------------------------------------------------------------------------
(* What is proved of the set *)

SemProofs == INSTANCE InitSem_proofs WITH
  SembufFlags <- {[undo |-> TRUE, nowait |-> FALSE, num0 |-> TRUE]},
  Removers <- {}, Signalled <- {}, Killable <- Procs, Operator <- FALSE

\* The facts of InitSem_proofs, in the names of RobotState.
LEMMA SetFacts == Spec => [](Sem!TypeOK /\ SemProofs!MutualExclusion)
<1>1. SemProofs!ConstantsAssumption
  BY RobotAssumption DEF SemProofs!ConstantsAssumption, SemProofs!Sembuf
<1>2. SemProofs!Spec => []SemProofs!MutualExclusion
  BY <1>1, SemProofs!MutualExclusionHolds
     DEF SemProofs!ConstantsAssumption, SemProofs!Sembuf
<1>3. SemProofs!Spec => []SemProofs!TypeOK
  BY <1>1, SemProofs!TypeCorrect DEF SemProofs!ConstantsAssumption, SemProofs!Sembuf
<1>4. Sem!Init => SemProofs!Init
  BY DEF Sem!Init, SemProofs!Init, Sem!SetIds, SemProofs!SetIds
<1>5. [Sem!Next]_Sem!vars => [SemProofs!Next]_SemProofs!vars
  BY DEF Sem!SemgetCreates, SemProofs!SemgetCreates, Sem!SemgetExists,
     SemProofs!SemgetExists, Sem!SemgetFails, SemProofs!SemgetFails,
     Sem!InitSemStep, SemProofs!InitSemStep, Sem!CreatorReleases,
     SemProofs!CreatorReleases, Sem!CreatorFails, SemProofs!CreatorFails,
     Sem!LookupFinds, SemProofs!LookupFinds, Sem!LookupFails,
     SemProofs!LookupFails, Sem!PollReady, SemProofs!PollReady, Sem!PollAgain,
     SemProofs!PollAgain, Sem!PollTimeout, SemProofs!PollTimeout,
     Sem!StatAnswers, SemProofs!StatAnswers, Sem!Acquire, SemProofs!Acquire,
     Sem!AcquireFails, SemProofs!AcquireFails, Sem!Release, SemProofs!Release,
     Sem!ReleaseFails, SemProofs!ReleaseFails, Sem!Exit, SemProofs!Exit,
     Sem!ExitRemoving, SemProofs!ExitRemoving, Sem!Kill, SemProofs!Kill,
     Sem!Forget, SemProofs!Forget, Sem!Goto, SemProofs!Goto, Sem!Alive,
     SemProofs!Alive, Sem!Ipcrm, SemProofs!Ipcrm, Sem!ProcessStep,
     SemProofs!ProcessStep, Sem!Next, SemProofs!Next, Sem!vars, SemProofs!vars
<1>6. SemProofs!TypeOK => Sem!TypeOK
  BY DEF SemProofs!TypeOK, Sem!TypeOK, SemProofs!SetIds, Sem!SetIds, SemProofs!Points, Sem!Points
<1> QED
  BY <1>2, <1>3, <1>4, <1>5, <1>6, ProgramsUseTheSet, PTL DEF Sem!Spec, SemProofs!Spec

-----------------------------------------------------------------------------
(* The theorems *)

LEMMA Invariance == Spec => []IInv
<1>1. TypeOK /\ FileInv /\ [Next]_vars => (TypeOK /\ FileInv)'
  BY TypeStep, FileStep
<1>2. IInv <=> TypeOK /\ SemStage /\ OneSet /\ FileInv
  BY DEF IInv, FileInv
<1> QED
  BY <1>1, <1>2, InvInit, SemStageStep, OneSetStep, SetFacts, PTL DEF Spec

\* The state of the two programs and the cells of the file are of the types that TypeOK
\* gives; in particular the drive is never steered by what is no angle.
THEOREM TypeCorrect == Spec => []TypeOK
BY Invariance, PTL DEF IInv

\* Whoever takes the semaphore finds every line of the last pass of saveSTATE, in its
\* place and nowhere else, with the value of that pass (the whole line, unless a value
\* was shorter than the one before), for any lines and lengths of values, as long as no
\* error or kill left a line of it unwritten and no value outgrew its line.
THEOREM SnapshotIsOne == Spec => []OneSnapshot
<1>1. IInv => OneSnapshot
  <2> SUFFICES ASSUME IInv, \A p \in Procs : pc[p] # "cs", ~cut, ~outgrown, NEW k \in Keys
               PROVE  \E i \in DOMAIN file : Lines(file, k) = {i} /\ Written(i)
    BY DEF OneSnapshot
  <2>1. PICK i \in DOMAIN FirstFile : Lines(FirstFile, k) = {i}
    BY RobotAssumption
  <2>2. Lines(file, k) = {i}
    BY <2>1 DEF IInv, SameLines, Lines
  <2>3. at[Top] # "save"
    BY DEF IInv, SemStage, Procs
  <2>4. i \in KeyLines
    BY <2>2 DEF KeyLines, Lines
  <2>5. Written(i)
    BY <2>3, <2>4 DEF IInv, Saved
  <2> QED
    BY <2>2, <2>4, <2>5 DEF KeyLines, LineStarts
<1> QED
  BY <1>1, Invariance, PTL

\* The two programs are never at the file together.
FileIsExclusive == at[Top] \in {"save", "unlock"} => at[Drive] \notin {"read", "unlock"}

\* The exclusion proved of initsem and the lock keeps usrSpace_top and usrSpace_drive
\* apart, whoever is killed or started again, as nobody removes the set.
THEOREM ProgramsExclude == Spec => []FileIsExclusive
<1>1. IInv /\ SemProofs!MutualExclusion => FileIsExclusive
  BY RobotAssumption DEF IInv, SemStage, OneSet, SemProofs!MutualExclusion, FileIsExclusive, Procs
<1> QED
  BY <1>1, Invariance, SetFacts, PTL

=============================================================================
