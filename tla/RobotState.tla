----------------------------- MODULE RobotState -----------------------------
(***************************************************************************)
(* The two programs of the robot that share state.txt:                     *)
(*                                                                         *)
(*   - usrSpace_top.c reads the sensors and rewrites their lines of the    *)
(*     file in place (saveSTATE);                                          *)
(*   - usrSpace_drive.c reads the requested angle in the file and steers.  *)
(*                                                                         *)
(* Each does it between the semop(-1) and the semop(+1) of the set of      *)
(* InitSem.tla, with SEM_UNDO; neither removes the set.  Both read the     *)
(* file with a stdio stream; each fwrite is followed by an fseek, which    *)
(* flushes it or fails to, and each pass over the file ends at its end,    *)
(* after which stdio reads it again: otherwise the buffers are not         *)
(* modelled.                                                               *)
(*                                                                         *)
(* The file is a sequence of cells: the key of a line, which stands for    *)
(* the words that sscanf compares, the characters of its value and the     *)
(* newline.  The program that asks for an angle is external; so is the     *)
(* file before the first start, which is not in the repository.            *)
(***************************************************************************)
EXTENDS Naturals, Sequences, FiniteSetsExt

CONSTANTS
  Top, Drive,   \* the two programs
  Keys,         \* the lines that saveSTATE writes
  Widths,       \* the lengths a value of each of them may have
  Angles,       \* what the requested angle asks for: right, left or straight on
  FirstFile,    \* the file before the programs start
  MaxRetries, MaxSets  \* see InitSem.tla

Procs == {Top, Drive}

Newline == "newline"
Request == "Angulo requerido"

\* A character of a value: of this pass of saveSTATE, or of an earlier one.
Chars == {"new", "old"}

Cells == Keys \cup {Request, Newline} \cup Angles \cup Chars

\* Where a line of f begins.
LineStarts(f) == {i \in DOMAIN f : i = 1 \/ f[i - 1] = Newline}

\* The lines of f whose first words are those of key k.
Lines(f, k) == {i \in LineStarts(f) : f[i] = k}

\* The cells are told apart; the file, not written yet, has each line once, and an
\* angle behind the words of the request.
ASSUME RobotAssumption ==
  /\ Top # Drive
  /\ \A k \in Keys : Widths[k] \subseteq Nat \ {0}
  /\ Keys \cap (Angles \cup Chars \cup {Request, Newline}) = {}
  /\ Angles \cap (Chars \cup {Request, Newline}) = {}
  /\ FirstFile \in Seq(Cells \ {"new"})
  /\ \A k \in Keys : \E i \in DOMAIN FirstFile : Lines(FirstFile, k) = {i}
  /\ \A i \in DOMAIN FirstFile : FirstFile[i] = Request =>
       i + 1 \in DOMAIN FirstFile /\ FirstFile[i + 1] \in Angles
  /\ MaxRetries \in Nat /\ MaxSets \in Nat

VARIABLES
  keyed, sets, val, otime, pc, semid, tries, sb,  \* see InitSem.tla
  at,       \* where each program is in main()
  file,     \* state.txt
  off,      \* saveSTATE: loffset, where the next value is written
  pos,      \* where the stream is, and the next getline begins
  heading,  \* usrSpace_drive: the angle it steers by, not initialised
  steered,  \* the command last written to the drive
  asked,    \* the angle last asked for
  cut,      \* history: there was no pass of saveSTATE yet, or a kill or an error left
            \* a line of the last one, or of this one, unwritten
  shrunk,   \* history: in that pass a value was shorter than the one before
  outgrown  \* history: a value was written that had no room where it was written

semVars == <<keyed, sets, val, otime, pc, semid, tries, sb>>
fileVars == <<file, off, pos, cut, shrunk, outgrown>>
driveVars == <<heading, steered>>
vars == <<semVars, at, fileVars, driveVars, asked>>

Sem == INSTANCE InitSem WITH
  SembufFlags <- {[undo |-> TRUE, nowait |-> FALSE, num0 |-> TRUE]},
  Removers <- {}, Signalled <- {}, Killable <- Procs, Operator <- FALSE

Stages == {"off", "initsem",
           "devices",  \* the opens and the ioctl after initsem
           "sensors",  \* Top: reads of the distance sensors
           "compass",  \* Top: reads until the compass has data
           "encoders",
           "lock",
           "save",     \* Top: in saveSTATE
           "read",     \* Drive: the lines of the file
           "unlock",
           "steer"}    \* Drive: the write to the drive

TypeOK ==
  /\ at \in [Procs -> Stages]
  /\ file \in Seq(Cells)
  /\ off \in Nat \ {0} /\ pos \in Nat \ {0}
  /\ heading \in Angles /\ steered \in Angles /\ asked \in Angles
  /\ cut \in BOOLEAN /\ shrunk \in BOOLEAN /\ outgrown \in BOOLEAN

-----------------------------------------------------------------------------
(* The file *)

\* Where the line that begins at i ends: its newline, or the end of the file.
LineEnd(i) == Min({j \in DOMAIN file : j >= i /\ file[j] = Newline} \cup {Len(file)})

\* Where the characters of the line at i are, up to its newline.
Value(i) == {j \in DOMAIN file : j > i /\ \A m \in i..j : file[m] # Newline}

\* f with the cells of text from position i on; it may grow.
Overlay(f, i, text) ==
  [j \in 1..Max({Len(f), i + Len(text) - 1}) |->
     IF j \in i..(i + Len(text) - 1) THEN text[j - i + 1] ELSE f[j]]

\* The angles in the file, in the lines where usrSpace_drive finds them.
Requests == {file[i + 1] : i \in Lines(file, Request)}

Init ==
  /\ Sem!Init
  /\ at = [p \in Procs |-> "off"]
  /\ file = FirstFile
  /\ off = 1 /\ pos = 1
  /\ heading \in Angles
  /\ steered \in Angles
  /\ asked \in Requests
  /\ cut = TRUE /\ shrunk = FALSE /\ outgrown = FALSE

Goto(p, stage) == at' = [at EXCEPT ![p] = stage]

-----------------------------------------------------------------------------
(* Start and end of a program *)

\* Top calls initsem first; Drive opens state.txt before.
Start(p) ==
  /\ at[p] = "off"
  /\ Goto(p, "initsem")
  /\ UNCHANGED <<semVars, fileVars, driveVars, asked>>

CallInitSem(p) ==
  /\ at[p] = "initsem"
  /\ \/ Sem!SemgetCreates(p) \/ Sem!SemgetExists(p) \/ Sem!SemgetFails(p)
     \/ Sem!InitSemStep(p)
  /\ UNCHANGED <<at, fileVars, driveVars, asked>>

InitSemReturns(p) ==
  /\ at[p] = "initsem"
  /\ pc[p] = "ready"
  /\ Goto(p, "devices")
  /\ UNCHANGED <<semVars, fileVars, driveVars, asked>>

\* An error outside the lock: initsem, an open, a read of a sensor, the write to the
\* drive.  The programs return without removing anything.
Fails(p) ==
  /\ \/ at[p] = "initsem" /\ pc[p] = "failed"
     \/ at[p] \in {"devices", "sensors", "encoders", "steer"}
  /\ Goto(p, "off")
  /\ Sem!Exit(p)
  /\ UNCHANGED <<fileVars, driveVars, asked>>

\* Killed anywhere.  A pass of saveSTATE is then left half way.
Kill(p) ==
  /\ at[p] # "off"
  /\ Goto(p, "off")
  /\ IF pc[p] = "idle" THEN UNCHANGED semVars ELSE Sem!Kill(p)
  /\ cut' = (cut \/ at[p] = "save")
  /\ UNCHANGED <<file, off, pos, shrunk, outgrown, driveVars, asked>>

OpenDevices(p) ==
  /\ at[p] = "devices"
  /\ Goto(p, IF p = Top THEN "sensors" ELSE "lock")
  /\ UNCHANGED <<semVars, fileVars, driveVars, asked>>

-----------------------------------------------------------------------------
(* usrSpace_top.c *)

ReadDistances ==
  /\ at[Top] = "sensors"
  /\ Goto(Top, "compass")
  /\ UNCHANGED <<semVars, fileVars, driveVars, asked>>

\* get_headeing_degree answers with an angle: no overflow, data skipped or missing,
\* after which it is called again.
ReadCompass ==
  /\ at[Top] = "compass"
  /\ Goto(Top, "encoders")
  /\ UNCHANGED <<semVars, fileVars, driveVars, asked>>

ReadEncoders ==
  /\ at[Top] = "encoders"
  /\ Goto(Top, "lock")
  /\ UNCHANGED <<semVars, fileVars, driveVars, asked>>

\* Mutated form of LockToSave: without the fseek to the beginning of the file.
LockToSave_NoRewind ==
  /\ at[Top] = "lock"
  /\ Sem!Acquire(Top)
  /\ Goto(Top, "save")
  /\ cut' = FALSE /\ shrunk' = FALSE
  /\ file' = [i \in DOMAIN file |-> IF file[i] = "new" THEN "old" ELSE file[i]]
  /\ UNCHANGED <<off, pos, outgrown, driveVars, asked>>

\* The lock is taken and saveSTATE called: what the file holds is of earlier passes.
LockToSave ==
  /\ at[Top] = "lock"
  /\ Sem!Acquire(Top)
  /\ Goto(Top, "save")
  /\ off' = 1 /\ pos' = 1
  /\ cut' = FALSE /\ shrunk' = FALSE
  /\ file' = [i \in DOMAIN file |-> IF file[i] = "new" THEN "old" ELSE file[i]]
  /\ UNCHANGED <<outgrown, driveVars, asked>>

\* getline finds a line that saveSTATE knows.
AtKeyLine ==
  /\ at[Top] = "save"
  /\ pos <= Len(file) /\ file[pos] \in Keys

\* The key of the line at pos and its value are written over what is at off, without
\* a newline, however long the old value was: characters of it may stay behind.
WriteValue(w) ==
  /\ file' = Overlay(file, off, <<file[pos]>> \o [i \in 1..w |-> "new"])
  /\ shrunk' = (shrunk \/ \E j \in Value(pos) : j > off + w)
  /\ outgrown' = (outgrown \/ off # pos \/ off + w >= LineEnd(off))

\* loffset moves on by what getline has read, and the stream is, or is put, there.
MoveOn ==
  /\ off' = off + (LineEnd(pos) - pos + 1)
  /\ pos' = off'

\* One turn of the loop over getline, for a line of the file.
SaveLine ==
  /\ \/ AtKeyLine /\ \E w \in Widths[file[pos]] : WriteValue(w)
     \/ /\ at[Top] = "save" /\ pos <= Len(file) /\ ~AtKeyLine
        /\ UNCHANGED <<file, shrunk, outgrown>>
  /\ MoveOn
  /\ UNCHANGED <<semVars, at, cut, driveVars, asked>>

\* fwrite has filled the buffer of the stream, the fseek behind it cannot write it and
\* fails, which nobody looks at: the value is lost, loffset has moved on, and the stream
\* is there or still at this line.  Bounds: not again before the next value is written,
\* and not once a value went where there was no room for it.
FlushFails ==
  /\ AtKeyLine
  /\ off = pos /\ ~outgrown
  /\ cut' = TRUE
  /\ off' = LineEnd(pos) + 1
  /\ pos' \in {pos, off'}
  /\ UNCHANGED <<semVars, at, file, shrunk, outgrown, driveVars, asked>>

SaveEnds ==
  /\ at[Top] = "save"
  /\ pos > Len(file)
  /\ Goto(Top, "unlock")
  /\ UNCHANGED <<semVars, fileVars, driveVars, asked>>

\* Mutated form of SaveFails: after the error main goes on to its next pass.
SaveFails_Continues ==
  /\ AtKeyLine
  /\ Goto(Top, "sensors")
  /\ cut' = TRUE
  /\ UNCHANGED <<semVars, file, off, pos, shrunk, outgrown, driveVars, asked>>

\* fwrite fails and saveSTATE returns -1, which main does not look at.
SaveFails ==
  /\ AtKeyLine
  /\ Goto(Top, "unlock")
  /\ cut' = TRUE
  /\ UNCHANGED <<semVars, file, off, pos, shrunk, outgrown, driveVars, asked>>

Unlock(p) ==
  /\ at[p] = "unlock"
  /\ Sem!Release(p)
  /\ Goto(p, IF p = Top THEN "sensors" ELSE "steer")
  /\ UNCHANGED <<fileVars, driveVars, asked>>

-----------------------------------------------------------------------------
(* usrSpace_drive.c *)

LockToRead ==
  /\ at[Drive] = "lock"
  /\ Sem!Acquire(Drive)
  /\ Goto(Drive, "read")
  /\ UNCHANGED <<fileVars, driveVars, asked>>

\* Mutated form of ReadRequest: it takes what comes after the angle.
ReadRequest_OneFurther ==
  /\ at[Drive] = "read"
  /\ heading' \in {heading} \cup {file[i + 2] : i \in Lines(file, Request)}
  /\ Goto(Drive, "unlock")
  /\ UNCHANGED <<semVars, fileVars, steered, asked>>

\* All the lines of the file; without one of the request heading stays as it was.
ReadRequest ==
  /\ at[Drive] = "read"
  /\ heading' \in IF Requests = {} THEN {heading} ELSE Requests
  /\ Goto(Drive, "unlock")
  /\ UNCHANGED <<semVars, fileVars, steered, asked>>

Steer ==
  /\ at[Drive] = "steer"
  /\ steered' = heading
  /\ Goto(Drive, "lock")
  /\ UNCHANGED <<semVars, fileVars, heading, asked>>

\* Somebody asks for another angle: the line of the request gets another value, of
\* the same length, while neither program is at the file.
Ask(a) ==
  /\ a # asked
  /\ \A p \in Procs : pc[p] # "cs"
  /\ Lines(file, Request) # {}
  /\ asked' = a
  /\ file' = [i \in DOMAIN file |-> IF i - 1 \in Lines(file, Request) THEN a ELSE file[i]]
  /\ UNCHANGED <<semVars, at, off, pos, cut, shrunk, outgrown, driveVars>>

-----------------------------------------------------------------------------
\* What a program that is running does next.
Advance(p) ==
  \/ CallInitSem(p) \/ InitSemReturns(p) \/ OpenDevices(p) \/ Fails(p)
  \/ p = Top /\ (ReadDistances \/ ReadCompass \/ ReadEncoders \/ SaveLine \/ SaveEnds)
  \/ p = Top /\ (FlushFails \/ SaveFails)
  \/ p = Drive /\ (ReadRequest \/ Steer)
  \/ Unlock(p)

Lock(p) == (p = Top /\ LockToSave) \/ (p = Drive /\ LockToRead)

Next ==
  \/ \E p \in Procs : Start(p) \/ Advance(p) \/ Lock(p) \/ Kill(p)
  \/ \E a \in Angles : Ask(a)

Spec == Init /\ [][Next]_vars

\* Running programs go on, but for a compass that never answers, and a blocked semop
\* is served in turn.
Fairness ==
  \A p \in Procs :
    /\ WF_vars(Advance(p) /\ (p = Top => at[p] # "compass"))
    /\ SF_vars(Lock(p))

FairSpec == Spec /\ Fairness

-----------------------------------------------------------------------------
(* Properties *)

\* The line at i has a value of this pass, or of the last one, from its first character
\* on; up to its newline, if no value of the pass was shorter than what it replaced.
Written(i) ==
  /\ i + 1 \in DOMAIN file /\ file[i + 1] = "new"
  /\ shrunk \/ \A j \in Value(i) : file[j] = "new"

\* Whoever takes the semaphore finds every line of the last pass of saveSTATE, in its
\* place and in its place only, with the value of that pass, behind which characters of
\* an older value are left only if it was shorter; unless an error or a kill left a line
\* of that pass unwritten, which the next complete one repairs, or a value outgrew its
\* line, once, which nothing repairs.
OneSnapshot ==
  (\A p \in Procs : pc[p] # "cs") /\ ~cut /\ ~outgrown =>
    \A k \in Keys : \E i \in DOMAIN file : Lines(file, k) = {i} /\ Written(i)

\* The angle asked for is what the robot is steered by in the end, if it is not asked
\* for another and usrSpace_drive goes on running, whatever happens to usrSpace_top,
\* as long as no value outgrows its line.
RequestSteers ==
  \A a \in Angles :
    asked = a /\ at[Drive] = "lock" ~>
      steered = a \/ asked # a \/ at[Drive] = "off" \/ outgrown

-----------------------------------------------------------------------------
(* Why OneSnapshot holds *)

\* Where a program is with the set, by where it is in main().
SemStage ==
  /\ pc \in [Procs -> Sem!Points]
  /\ \A p \in Procs :
       /\ at[p] = "off" => pc[p] = "idle"
       /\ at[p] = "initsem" => pc[p] \notin {"cs", "error"}
       /\ at[p] \in {"devices", "sensors", "compass", "encoders", "lock", "steer"} =>
            pc[p] = "ready"
       /\ at[p] \in {"save", "read", "unlock"} => pc[p] = "cs"

\* Nobody removes the set: there is one, and whoever has a set has that one.
OneSet ==
  \A p \in Procs : pc[p] \in {"creator", "poll", "ready", "cs"} =>
    semid[p] = keyed /\ keyed # 0

\* saveSTATE overwrites the words of the request together with the angle, if at all.
RequestIntact ==
  \A i \in DOMAIN file : file[i] = Request =>
    i + 1 \in DOMAIN file /\ file[i + 1] \in Angles

\* The lines begin where they did, and with the same words.
SameLines ==
  ~outgrown =>
    /\ LineStarts(file) = LineStarts(FirstFile)
    /\ \A i \in LineStarts(file) : file[i] = FirstFile[i]

KeyLines == {i \in LineStarts(file) : file[i] \in Keys}

\* loffset is ahead of the stream only after a flush that failed, at the line after.
OffsetAhead ==
  at[Top] = "save" /\ off # pos =>
    /\ cut
    /\ AtKeyLine
    /\ off \in LineStarts(file) \cup {Len(file) + 1}

\* saveSTATE is at a line, or at the end, and has written all those before, unless an
\* error left one out.
SaveInStep ==
  at[Top] = "save" /\ ~outgrown =>
    /\ off \in LineStarts(file) \cup {Len(file) + 1}
    /\ ~cut => \A i \in KeyLines : i < off => Written(i)

Saved ==
  at[Top] # "save" /\ ~cut /\ ~outgrown => \A i \in KeyLines : Written(i)

IInv ==
  /\ TypeOK /\ SemStage /\ OneSet
  /\ RequestIntact /\ SameLines /\ OffsetAhead /\ SaveInStep /\ Saved
=============================================================================
