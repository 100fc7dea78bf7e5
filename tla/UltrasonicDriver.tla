-------------------------- MODULE UltrasonicDriver --------------------------
(***************************************************************************)
(* The driver of the three distance sensors of the robot                   *)
(* (src/Plus/Tesis/Drivers/driver_MIOgpio_PS.c).  driver_read triggers the *)
(* sensors one after the other and waits, 50 ms at most, for each to be    *)
(* measured; driver_isr takes the time of both edges of each echo and sets *)
(* a flag at the second.  A distance is the difference of the two times.   *)
(*                                                                         *)
(* A time is abstracted to the trigger whose echo it was taken from: the   *)
(* read that is being served, or Old.  The sensors (external) answer a     *)
(* trigger with a pulse, as late as they like or never, and leave          *)
(* triggers alone while they are answering one.  The GPIO controller       *)
(* (external) latches every edge as a bit of INT_STAT.                     *)
(*                                                                         *)
(* The life of RX_buff and TX_buff is the one I2cDriver models for the     *)
(* same code and is left out, and so are clocks, pads and directions.      *)
(***************************************************************************)
EXTENDS Naturals, Sequences

CONSTANTS
  Readers,  \* the processes that open the device
  Old,      \* the tag of what belongs to no read in progress
  Sensors,  \* right, center and left
  Order,    \* the order in which driver_read deals with them: center, left, right
  Blocks    \* the order in which driver_isr tests their bits: right, center, left

Tags == Readers \cup {Old}

\* q names each sensor once.
Enumerates(q) ==
  /\ q \in Seq(Sensors)
  /\ \A s \in Sensors : \E i \in DOMAIN q : q[i] = s
  /\ \A i, j \in DOMAIN q : q[i] = q[j] => i = j

ASSUME UltrasonicAssumption ==
  /\ Old \notin Readers
  /\ Sensors # {}
  /\ Enumerates(Order) /\ Enumerates(Blocks)

VARIABLES
  valid,    \* right_valid_value, center_valid_value, left_valid_value
  start,    \* *_echo_start: the trigger whose echo rose
  end,      \* *_echo_end: the trigger whose echo fell
  at,       \* where each process is in its call
  turn,     \* position in Order of the sensor a read is dealing with
  ping,     \* sensors: the trigger each is to answer
  heard,    \* the trigger whose echo moved the pin last
  phase,    \* sensors: ready for a trigger, triggered, or with the echo pin high
  pending,  \* INT_STAT: the pins with a latched edge
  block,    \* driver_isr: the test it is at, in Blocks; 0 when it does not run
  recorded, \* driver_isr: it has served the bit and is about to clear it
  clean     \* history, for the property only: the read began with the sensors at
            \* rest, and since then nothing of what the driver makes no provision
            \* for has happened: a wait that timed out, a second process, an edge
            \* that came before the last one was served

driver  == <<valid, start, end>>
process == <<at, turn>>
sensors == <<ping, heard, phase>>
handler == <<block, recorded>>
vars == <<driver, process, sensors, handler, pending, clean>>

TypeOK ==
  /\ valid \in [Sensors -> BOOLEAN]
  /\ start \in [Sensors -> Tags]
  /\ end \in [Sensors -> Tags]
  /\ at \in [Readers -> {"closed", "open", "trigger", "wait", "compute"}]
  /\ turn \in [Readers -> 1..Len(Order)]
  /\ ping \in [Sensors -> Tags]
  /\ heard \in [Sensors -> Tags]
  /\ phase \in [Sensors -> {"ready", "triggered", "high"}]
  /\ pending \subseteq Sensors
  /\ block \in 0..Len(Blocks)
  /\ recorded \in BOOLEAN
  /\ clean \in [Readers -> BOOLEAN]

Init ==
  /\ valid = [s \in Sensors |-> FALSE]
  /\ start = [s \in Sensors |-> Old]
  /\ end = [s \in Sensors |-> Old]
  /\ at = [r \in Readers |-> "closed"]
  /\ turn = [r \in Readers |-> 1]
  /\ ping = [s \in Sensors |-> Old]
  /\ heard = [s \in Sensors |-> Old]
  /\ phase = [s \in Sensors |-> "ready"]
  /\ pending = {}
  /\ block = 0 /\ recorded = FALSE
  /\ clean = [r \in Readers |-> FALSE]

Goto(r, place) == at' = [at EXCEPT ![r] = place]

\* The sensor the read of r is dealing with.
Sensor(r) == Order[turn[r]]

Reading(r) == at[r] \in {"trigger", "wait", "compute"}

\* No echo in the air and no edge to serve.
Rest == pending = {} /\ ~recorded /\ \A s \in Sensors : phase[s] = "ready"

-----------------------------------------------------------------------------
(* The calls of a process *)

\* driver_open; when there is no memory it returns -ENODEV and nothing changes.  It
\* resets the controller under whoever is reading, unless the register of the reset
\* is still locked: it is unlocked afterwards.
Open(r) ==
  /\ at[r] = "closed"
  /\ Goto(r, "open")
  /\ pending' \in {pending, {}}
  /\ clean' = [q \in Readers |-> FALSE]
  /\ UNCHANGED <<driver, turn, sensors, handler>>

Release(r) ==
  /\ at[r] = "open"
  /\ Goto(r, "closed")
  /\ UNCHANGED <<driver, turn, sensors, handler, pending, clean>>

\* What belonged to an earlier read of r does not belong to the one that begins.
Aged(f, r) == [s \in Sensors |-> IF f[s] = r THEN Old ELSE f[s]]

BeginRead(r) ==
  /\ at[r] = "open"
  /\ Goto(r, "trigger")
  /\ turn' = [turn EXCEPT ![r] = 1]
  /\ start' = Aged(start, r) /\ end' = Aged(end, r)
  /\ ping' = Aged(ping, r) /\ heard' = Aged(heard, r)
  /\ clean' = [q \in Readers |-> q = r /\ Rest /\ \A p \in Readers : ~Reading(p)]
  /\ UNCHANGED <<phase, handler, pending>>

\* Mutated form of Read: the flags are as the last read left them.
Read_KeepsFlags(r) ==
  /\ BeginRead(r)
  /\ UNCHANGED valid

\* driver_read up to its first trigger.
Read(r) ==
  /\ BeginRead(r)
  /\ valid' = [s \in Sensors |-> FALSE]

\* A pulse of 10 us on the trigger pin.  A sensor that is answering ignores it.
Trigger(r) ==
  /\ at[r] = "trigger"
  /\ Goto(r, "wait")
  /\ IF phase[Sensor(r)] = "ready"
       THEN /\ ping' = [ping EXCEPT ![Sensor(r)] = r]
            /\ phase' = [phase EXCEPT ![Sensor(r)] = "triggered"]
       ELSE UNCHANGED <<ping, phase>>
  /\ UNCHANGED <<driver, turn, heard, handler, pending, clean>>

\* Mutated form of Advance: one turn too many.
Advance_OneMore(r) ==
  IF turn[r] <= Len(Order)
    THEN Goto(r, "trigger") /\ turn' = [turn EXCEPT ![r] = @ + 1]
    ELSE Goto(r, "compute") /\ UNCHANGED turn

\* After a wait: the next sensor, or the three differences.
Advance(r) ==
  IF turn[r] < Len(Order)
    THEN Goto(r, "trigger") /\ turn' = [turn EXCEPT ![r] = @ + 1]
    ELSE Goto(r, "compute") /\ UNCHANGED turn

Measured(r) ==
  /\ at[r] = "wait"
  /\ valid[Sensor(r)]
  /\ Advance(r)
  /\ UNCHANGED <<driver, sensors, handler, pending, clean>>

\* counter > 50000, "Out of range": the read goes on as if it had been measured.
Timeout(r) ==
  /\ at[r] = "wait"
  /\ ~valid[Sensor(r)]
  /\ Advance(r)
  /\ clean' = [clean EXCEPT ![r] = FALSE]
  /\ UNCHANGED <<driver, sensors, handler, pending>>

\* RX_buff gets end - start of each sensor and is copied to the user.
Compute(r) ==
  /\ at[r] = "compute"
  /\ Goto(r, "open")
  /\ UNCHANGED <<driver, turn, sensors, handler, pending, clean>>

\* driver_write moves the trigger pins of the sensors in T, whoever is reading.
Write(r) ==
  /\ at[r] = "open"
  /\ \E T \in SUBSET {s \in Sensors : phase[s] = "ready"} :
       /\ ping' = [s \in Sensors |-> IF s \in T THEN Old ELSE ping[s]]
       /\ phase' = [s \in Sensors |-> IF s \in T THEN "triggered" ELSE phase[s]]
  /\ clean' = [q \in Readers |-> FALSE]
  /\ UNCHANGED <<driver, process, heard, handler, pending>>

-----------------------------------------------------------------------------
(* The sensors and the controller *)

\* An edge of the echo of s is latched.  The reads are spoilt when the handler has
\* another to serve: of one pin it would take two for one, and see the level after
\* both; and as it clears one pin it clears them all.
Edge(s) ==
  /\ pending' = pending \cup {s}
  /\ clean' = IF pending = {} THEN clean ELSE [r \in Readers |-> FALSE]

EchoRises(s) ==
  /\ phase[s] = "triggered"
  /\ phase' = [phase EXCEPT ![s] = "high"]
  /\ heard' = [heard EXCEPT ![s] = ping[s]]
  /\ ping' = [ping EXCEPT ![s] = Old]
  /\ Edge(s)
  /\ UNCHANGED <<driver, process, handler>>

EchoFalls(s) ==
  /\ phase[s] = "high"
  /\ phase' = [phase EXCEPT ![s] = "ready"]
  /\ Edge(s)
  /\ UNCHANGED <<driver, process, ping, heard, handler>>

\* A sensor that is not there, or did not take the pulse for a trigger.
NoEcho(s) ==
  /\ phase[s] = "triggered"
  /\ phase' = [phase EXCEPT ![s] = "ready"]
  /\ ping' = [ping EXCEPT ![s] = Old]
  /\ UNCHANGED <<driver, process, heard, handler, pending, clean>>

-----------------------------------------------------------------------------
(* driver_isr: the same block three times, one for each pin *)

NextBlock == block' = IF block < Len(Blocks) THEN block + 1 ELSE 0

IsrBegins ==
  /\ block = 0 /\ pending # {}
  /\ NextBlock
  /\ UNCHANGED <<driver, process, sensors, recorded, pending, clean>>

IsrSkips ==
  /\ block # 0 /\ ~recorded
  /\ Blocks[block] \notin pending
  /\ NextBlock
  /\ UNCHANGED <<driver, process, sensors, recorded, pending, clean>>

\* The time goes where the level of the pin says, while the flag is 0.
Record(s) ==
  \/ valid[s] /\ UNCHANGED driver
  \/ /\ ~valid[s] /\ phase[s] = "high"
     /\ start' = [start EXCEPT ![s] = heard[s]]
     /\ UNCHANGED <<valid, end>>
  \/ /\ ~valid[s] /\ phase[s] # "high"
     /\ end' = [end EXCEPT ![s] = heard[s]]
     /\ valid' = [valid EXCEPT ![s] = TRUE]
     /\ UNCHANGED start

IsrRecords ==
  /\ block # 0 /\ ~recorded
  /\ Blocks[block] \in pending
  /\ Record(Blocks[block])
  /\ recorded' = TRUE
  /\ UNCHANGED <<process, sensors, block, pending, clean>>

\* set_registers reads INT_STAT and writes it back with the bit of the pin: every
\* bit that was set is written as 1, which clears it.
IsrClears ==
  /\ block # 0 /\ recorded
  /\ pending' = {}
  /\ recorded' = FALSE
  /\ NextBlock
  /\ UNCHANGED <<driver, process, sensors, clean>>

-----------------------------------------------------------------------------
Call(r) ==
  \/ Open(r) \/ Release(r) \/ Read(r) \/ Write(r)
  \/ Trigger(r) \/ Measured(r) \/ Timeout(r) \/ Compute(r)

Echo(s) == EchoRises(s) \/ EchoFalls(s) \/ NoEcho(s)

Isr == IsrBegins \/ IsrSkips \/ IsrRecords \/ IsrClears

Next ==
  \/ \E r \in Readers : Call(r)
  \/ \E s \in Sensors : Echo(s)
  \/ Isr

Spec == Init /\ [][Next]_vars

-----------------------------------------------------------------------------
(* Properties *)

\* A read that began with the sensors at rest answers with the echoes of its own
\* three triggers, whatever earlier reads met: late echoes, lost edges, other
\* processes.  It takes that no wait of its own times out, that nobody else uses
\* the device meanwhile and that the handler keeps up with the edges.
OwnEchoes ==
  \A r \in Readers : at[r] = "compute" /\ clean[r] =>
    \A s \in Sensors : start[s] = r /\ end[s] = r

-----------------------------------------------------------------------------
(* Why OwnEchoes holds: what a clean read finds at each sensor *)

\* The handler has served the bit of s and is about to clear it.
Serving(s) == recorded /\ Blocks[block] = s

\* Not triggered yet.
Untouched(s) == ~valid[s] /\ phase[s] = "ready" /\ s \notin pending

\* Measured, for r.
Done(r, s) == valid[s] /\ start[s] = r /\ end[s] = r /\ phase[s] = "ready"

\* Triggered by r: the steps of the answer, down to the end of an echo.
InAir(r, s) ==
  \/ phase[s] = "triggered" /\ ping[s] = r /\ ~valid[s] /\ s \notin pending
  \/ /\ phase[s] = "high" /\ heard[s] = r /\ ~valid[s]
     /\ (s \in pending /\ ~Serving(s)) \/ start[s] = r
  \/ /\ phase[s] = "ready" /\ heard[s] = r /\ ~valid[s]
     /\ s \in pending /\ ~Serving(s) /\ start[s] = r
  \/ Done(r, s)
  \/ Untouched(s)

\* The sensors before the one r is at, that one, and those after it.
ReadInStep(r) ==
  \A i \in DOMAIN Order :
    /\ i < turn[r] \/ at[r] = "compute" => Done(r, Order[i])
    /\ i = turn[r] /\ at[r] = "wait" => InAir(r, Order[i])
    /\ i = turn[r] /\ at[r] = "trigger" => Untouched(Order[i])
    /\ i > turn[r] /\ at[r] # "compute" => Untouched(Order[i])

\* What the handler has served is still latched.
ServedIsPending == recorded => block # 0 /\ Blocks[block] \in pending

\* A clean read is the only one, with one edge to serve at most.
CleanReads ==
  \A r \in Readers : clean[r] /\ Reading(r) =>
    /\ \A q \in Readers : Reading(q) => q = r
    /\ \A s, t \in pending : s = t
    /\ ServedIsPending
    /\ ReadInStep(r)

IInv == TypeOK /\ CleanReads
=============================================================================
