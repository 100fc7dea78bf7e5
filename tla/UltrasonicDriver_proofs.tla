----------------------- MODULE UltrasonicDriver_proofs -----------------------
(***************************************************************************)
(* Proofs about UltrasonicDriver, for any processes and any sensors.       *)
(***************************************************************************)
EXTENDS UltrasonicDriver, TLAPS

-----------------------------------------------------------------------------
(* Types *)

\* driver_read is never past the last sensor.
LEMMA OrderHasElements ==
  /\ Order \in Seq(Sensors) /\ Len(Order) \in Nat /\ Len(Order) >= 1
  /\ DOMAIN Order = 1..Len(Order)
  /\ \A i \in 1..Len(Order) : Order[i] \in Sensors
<1>1. Order \in Seq(Sensors)
  BY UltrasonicAssumption DEF Enumerates
<1>2. Len(Order) \in Nat /\ DOMAIN Order = 1..Len(Order)
  BY <1>1
<1>3. \A i \in 1..Len(Order) : Order[i] \in Sensors
  BY <1>1, <1>2
<1>4. PICK i \in DOMAIN Order : TRUE
  BY UltrasonicAssumption DEF Enumerates
<1>5. Len(Order) >= 1
  BY <1>2, <1>4
<1> QED
  BY <1>1, <1>2, <1>3, <1>5

\* driver_isr is never past the last pin.
LEMMA BlocksHasElements ==
  /\ Blocks \in Seq(Sensors) /\ Len(Blocks) \in Nat
  /\ \A i \in 1..Len(Blocks) : Blocks[i] \in Sensors
<1>1. Blocks \in Seq(Sensors)
  BY UltrasonicAssumption DEF Enumerates
<1>2. Len(Blocks) \in Nat /\ \A i \in 1..Len(Blocks) : Blocks[i] \in Sensors
  BY <1>1
<1> QED
  BY <1>1, <1>2

\* The sensor of a read is one.
LEMMA SensorType ==
  ASSUME TypeOK, NEW r \in Readers
  PROVE  Sensor(r) \in Sensors
BY OrderHasElements DEF Sensor, TypeOK

\* The type invariant holds at the start.
LEMMA TypeInit == Init => TypeOK
<1> SUFFICES ASSUME Init
             PROVE  TypeOK
  OBVIOUS
<1> USE DEF Init, Tags
<1>1. /\ valid \in [Sensors -> BOOLEAN] /\ start \in [Sensors -> Tags]
      /\ end \in [Sensors -> Tags] /\ ping \in [Sensors -> Tags]
      /\ heard \in [Sensors -> Tags]
      /\ phase \in [Sensors -> {"ready", "triggered", "high"}]
  OBVIOUS
<1>2. /\ at \in [Readers -> {"closed", "open", "trigger", "wait", "compute"}]
      /\ clean \in [Readers -> BOOLEAN]
  OBVIOUS
<1>3. turn \in [Readers -> 1..Len(Order)] /\ block \in 0..Len(Blocks)
  BY OrderHasElements, BlocksHasElements
<1> QED
  BY <1>1, <1>2, <1>3 DEF TypeOK

\* Every step keeps it.
LEMMA TypeStep == TypeOK /\ [Next]_vars => TypeOK'
<1> SUFFICES ASSUME TypeOK, [Next]_vars
             PROVE  TypeOK'
  OBVIOUS
<1> USE DEF TypeOK, Tags
<1>1. ASSUME NEW r \in Readers, Open(r) \/ Release(r) \/ Compute(r)
      PROVE  TypeOK'
  <2>1. pending' \subseteq Sensors /\ clean' \in [Readers -> BOOLEAN]
    BY <1>1 DEF Open, Release, Compute
  <2> QED
    BY <1>1, <2>1 DEF Open, Release, Compute, Goto, driver, sensors, handler
<1>2. ASSUME NEW r \in Readers, Read(r)
      PROVE  TypeOK'
  <2>1. valid' \in [Sensors -> BOOLEAN]
    BY <1>2 DEF Read
  <2>2. /\ start' \in [Sensors -> Tags] /\ end' \in [Sensors -> Tags]
        /\ ping' \in [Sensors -> Tags] /\ heard' \in [Sensors -> Tags]
    BY <1>2 DEF Read, BeginRead, Aged
  <2>3. turn' \in [Readers -> 1..Len(Order)]
    BY <1>2, OrderHasElements DEF Read, BeginRead
  <2>4. clean' \in [Readers -> BOOLEAN]
    BY <1>2 DEF Read, BeginRead
  <2>5. /\ at' \in [Readers -> {"closed", "open", "trigger", "wait", "compute"}]
        /\ phase' = phase /\ pending' = pending /\ block' = block /\ recorded' = recorded
    BY <1>2 DEF Read, BeginRead, Goto, handler
  <2> QED
    BY <2>1, <2>2, <2>3, <2>4, <2>5
<1>3. ASSUME NEW r \in Readers, Trigger(r)
      PROVE  TypeOK'
  BY <1>3 DEF Trigger, Goto, driver, sensors, handler
<1>4. ASSUME NEW r \in Readers, Measured(r) \/ Timeout(r)
      PROVE  TypeOK'
  <2>1. turn' \in [Readers -> 1..Len(Order)]
    <3>1. turn[r] \in 1..Len(Order) /\ (turn[r] < Len(Order) => turn[r] + 1 \in 1..Len(Order))
      BY OrderHasElements
    <3>2. turn' = turn \/ (turn[r] < Len(Order) /\ turn' = [turn EXCEPT ![r] = turn[r] + 1])
      BY <1>4 DEF Measured, Timeout, Advance
    <3> QED
      BY <3>1, <3>2
  <2>2. at' \in [Readers -> {"closed", "open", "trigger", "wait", "compute"}]
    BY <1>4 DEF Measured, Timeout, Advance, Goto
  <2>3. clean' \in [Readers -> BOOLEAN]
    BY <1>4 DEF Measured, Timeout
  <2> QED
    BY <1>4, <2>1, <2>2, <2>3 DEF Measured, Timeout, driver, sensors, handler
<1>5. ASSUME NEW r \in Readers, Write(r)
      PROVE  TypeOK'
  <2>1. PICK T \in SUBSET {s \in Sensors : phase[s] = "ready"} :
          /\ ping' = [s \in Sensors |-> IF s \in T THEN Old ELSE ping[s]]
          /\ phase' = [s \in Sensors |-> IF s \in T THEN "triggered" ELSE phase[s]]
    BY <1>5 DEF Write
  <2>2. ping' \in [Sensors -> Tags]
    BY <2>1
  <2>3. phase' \in [Sensors -> {"ready", "triggered", "high"}]
    BY <2>1
  <2>4. clean' \in [Readers -> BOOLEAN]
    BY <1>5 DEF Write
  <2> QED
    BY <1>5, <2>2, <2>3, <2>4 DEF Write, driver, process, handler
<1>6. ASSUME NEW s \in Sensors, Echo(s)
      PROVE  TypeOK'
  <2>1. Edge(s) \/ UNCHANGED <<pending, clean>>
    BY <1>6 DEF Echo, EchoRises, EchoFalls, NoEcho
  <2>5. pending' \subseteq Sensors
    BY <2>1 DEF Edge
  <2>6. clean' \in [Readers -> BOOLEAN]
    BY <2>1 DEF Edge
  <2>2. ping' \in [Sensors -> Tags] /\ heard' \in [Sensors -> Tags]
    BY <1>6 DEF Echo, EchoRises, EchoFalls, NoEcho
  <2>3. phase' \in [Sensors -> {"ready", "triggered", "high"}]
    BY <1>6 DEF Echo, EchoRises, EchoFalls, NoEcho
  <2>4. UNCHANGED <<driver, process, handler>>
    BY <1>6 DEF Echo, EchoRises, EchoFalls, NoEcho
  <2> QED
    BY <2>2, <2>3, <2>4, <2>5, <2>6 DEF driver, process, handler
<1>7. ASSUME IsrBegins \/ IsrSkips \/ IsrClears
      PROVE  TypeOK'
  <2>1. block' \in 0..Len(Blocks)
    BY <1>7, BlocksHasElements DEF IsrBegins, IsrSkips, IsrClears, NextBlock
  <2> QED
    BY <1>7, <2>1 DEF IsrBegins, IsrSkips, IsrClears, driver, process, sensors
<1>8. ASSUME IsrRecords
      PROVE  TypeOK'
  BY <1>8 DEF IsrRecords, Record, driver, process, sensors
<1>9. CASE UNCHANGED vars
  BY <1>9 DEF vars, driver, process, sensors, handler
<1> QED
  BY <1>1, <1>2, <1>3, <1>4, <1>5, <1>6, <1>7, <1>8, <1>9 DEF Next, Call, Isr

\* The state of the driver, of its handler, of the reads and of the sensors is of the
\* types that TypeOK gives.
THEOREM TypeCorrect == Spec => []TypeOK
BY TypeInit, TypeStep, PTL DEF Spec

-----------------------------------------------------------------------------
(* Clean reads *)

\* What CleanReads says of one process.
CleanRead(r) ==
  clean[r] /\ Reading(r) =>
    /\ \A q \in Readers : Reading(q) => q = r
    /\ \A s, t \in pending : s = t
    /\ ServedIsPending
    /\ ReadInStep(r)

\* A call of another process spoils the read of r, is outside of reads or cannot be.
LEMMA OtherCall ==
  ASSUME TypeOK, NEW r \in Readers, NEW q \in Readers, q # r, CleanRead(r), Call(q)
  PROVE  CleanRead(r)'
<1> SUFFICES ASSUME clean'[r], Reading(r)'
             PROVE  /\ \A p \in Readers : Reading(p)' => p = r
                    /\ \A s, t \in pending' : s = t
                    /\ ServedIsPending'
                    /\ ReadInStep(r)'
  BY DEF CleanRead
<1>1. ~Read(q) /\ ~Write(q) /\ ~Open(q)
  BY DEF Read, BeginRead, Write, Open
<1>2. clean[r] /\ at'[r] = at[r]
  <2>1. clean[r]
    <3>1. clean' = clean \/ clean' = [clean EXCEPT ![q] = FALSE]
      BY <1>1 DEF Call, Release, Trigger, Measured, Timeout, Compute
    <3> QED
      BY <3>1 DEF TypeOK
  <2>2. \E place \in {"closed", "open", "trigger", "wait", "compute"} : at' = [at EXCEPT ![q] = place]
    BY <1>1 DEF Call, Release, Trigger, Measured, Timeout, Advance, Compute, Goto
  <2> QED
    BY <2>1, <2>2 DEF TypeOK
<1>3. Reading(r)
  BY <1>2 DEF Reading
<1>4. ~Reading(q)
  BY <1>2, <1>3 DEF CleanRead
<1>5. Release(q)
  BY <1>1, <1>4 DEF Call, Trigger, Measured, Timeout, Compute, Reading
<1>6. /\ UNCHANGED <<driver, turn, sensors, handler, pending>>
      /\ at' = [at EXCEPT ![q] = "closed"]
  BY <1>5 DEF Release, Goto
<1>7. \A p \in Readers : Reading(p)' => Reading(p)
  BY <1>6 DEF Reading, TypeOK
<1>8. ReadInStep(r)' <=> ReadInStep(r)
  BY <1>2, <1>6 DEF ReadInStep, Done, InAir, Untouched, Serving, driver, sensors, handler
<1> QED
  BY <1>2, <1>3, <1>6, <1>7, <1>8 DEF CleanRead, ServedIsPending, handler

\* A call of the process itself.
LEMMA OwnCall ==
  ASSUME TypeOK, NEW r \in Readers, CleanRead(r), Call(r)
  PROVE  CleanRead(r)'
<1> SUFFICES ASSUME clean'[r], Reading(r)'
             PROVE  /\ \A p \in Readers : Reading(p)' => p = r
                    /\ \A s, t \in pending' : s = t
                    /\ ServedIsPending'
                    /\ ReadInStep(r)'
  BY DEF CleanRead
<1> USE OrderHasElements
<1>1. CASE Open(r) \/ Release(r) \/ Compute(r)
  BY <1>1 DEF Open, Release, Compute, Goto, Reading, TypeOK
<1>2. CASE Read(r)
  <2>1. /\ Rest /\ \A p \in Readers : ~Reading(p)
        /\ at' = [at EXCEPT ![r] = "trigger"] /\ turn'[r] = 1
        /\ valid' = [s \in Sensors |-> FALSE]
        /\ phase' = phase /\ pending' = pending /\ recorded' = recorded
    BY <1>2 DEF Read, BeginRead, Goto, TypeOK, handler
  <2>2. \A p \in Readers : Reading(p)' => p = r
    BY <2>1 DEF Reading, TypeOK
  <2>3. \A s \in Sensors : Untouched(s)'
    BY <2>1 DEF Untouched, Rest
  <2>4. at'[r] = "trigger" /\ pending' = {} /\ ServedIsPending'
    BY <2>1 DEF TypeOK, Rest, ServedIsPending
  <2>5. ReadInStep(r)'
    BY <2>1, <2>3, <2>4 DEF ReadInStep
  <2> QED
    BY <2>2, <2>4, <2>5
<1>3. CASE Trigger(r)
  <2>1. /\ clean[r] /\ at[r] = "trigger"
        /\ at' = [at EXCEPT ![r] = "wait"] /\ at'[r] = "wait"
        /\ UNCHANGED <<driver, turn, heard, handler, pending, clean>>
    BY <1>3 DEF Trigger, Goto, TypeOK
  <2>2. /\ \A p \in Readers : Reading(p) => p = r
        /\ \A s, t \in pending : s = t
        /\ ServedIsPending
        /\ ReadInStep(r)
    BY <2>1 DEF CleanRead, Reading
  <2>3. \A p \in Readers : Reading(p)' => p = r
    BY <2>1, <2>2 DEF Reading, TypeOK
  <2>4. turn[r] \in 1..Len(Order) /\ Untouched(Order[turn[r]])
    BY <2>1, <2>2 DEF ReadInStep, TypeOK
  <2>5. /\ ping' = [ping EXCEPT ![Order[turn[r]]] = r]
        /\ phase' = [phase EXCEPT ![Order[turn[r]]] = "triggered"]
    BY <1>3, <2>4 DEF Trigger, Sensor, Untouched
  <2>6. InAir(r, Order[turn[r]])'
    BY <2>1, <2>4, <2>5 DEF InAir, Untouched, driver, TypeOK
  <2>7. ASSUME NEW i \in DOMAIN Order, i # turn[r]
        PROVE  /\ Done(r, Order[i]) => Done(r, Order[i])'
               /\ Untouched(Order[i]) => Untouched(Order[i])'
    <3>1. Order[i] # Order[turn[r]]
      BY <2>4, <2>7, UltrasonicAssumption DEF Enumerates
    <3> QED
      BY <2>1, <2>5, <3>1 DEF Done, Untouched, driver, TypeOK
  <2>8. ReadInStep(r)'
    BY <2>1, <2>2, <2>4, <2>6, <2>7 DEF ReadInStep
  <2> QED
    BY <2>1, <2>2, <2>3, <2>8 DEF ServedIsPending, handler
<1>4. CASE Measured(r)
  <2>1. /\ clean[r] /\ at[r] = "wait" /\ valid[Sensor(r)]
        /\ UNCHANGED <<driver, sensors, handler, pending, clean>>
    BY <1>4 DEF Measured
  <2>2. /\ \A p \in Readers : Reading(p) => p = r
        /\ \A s, t \in pending : s = t
        /\ ServedIsPending
        /\ ReadInStep(r)
    BY <2>1 DEF CleanRead, Reading
  <2>3. turn[r] \in 1..Len(Order) /\ Done(r, Order[turn[r]])
    <3>1. turn[r] \in 1..Len(Order) /\ InAir(r, Order[turn[r]])
      BY <2>1, <2>2 DEF ReadInStep, TypeOK
    <3> QED
      BY <2>1, <3>1 DEF InAir, Untouched, Sensor
  <2>4. \A s \in Sensors : /\ Done(r, s)' <=> Done(r, s)
                           /\ Untouched(s)' <=> Untouched(s)
    BY <2>1 DEF Done, Untouched, driver, sensors
  <2>5. CASE turn[r] < Len(Order)
    <3>1. /\ at' = [at EXCEPT ![r] = "trigger"] /\ at'[r] = "trigger"
          /\ turn'[r] = turn[r] + 1
      BY <1>4, <2>5 DEF Measured, Advance, Goto, TypeOK
    <3>2. \A i \in DOMAIN Order : i < turn[r] + 1 => i < turn[r] \/ i = turn[r]
      BY <2>3
    <3>3. \A i \in DOMAIN Order : i = turn[r] + 1 \/ i > turn[r] + 1 => i > turn[r]
      BY <2>3
    <3>4. ReadInStep(r)'
      BY <2>1, <2>2, <2>3, <2>4, <3>1, <3>2, <3>3 DEF ReadInStep
    <3>5. \A p \in Readers : Reading(p)' => p = r
      BY <2>2, <3>1 DEF Reading, TypeOK
    <3> QED
      BY <2>1, <2>2, <3>4, <3>5 DEF ServedIsPending, handler
  <2>6. CASE ~(turn[r] < Len(Order))
    <3>1. /\ at' = [at EXCEPT ![r] = "compute"] /\ at'[r] = "compute"
          /\ turn' = turn
      BY <1>4, <2>6 DEF Measured, Advance, Goto, TypeOK
    <3>2. \A i \in DOMAIN Order : i < turn[r] \/ i = turn[r]
      BY <2>3, <2>6
    <3>3. \A i \in DOMAIN Order : Done(r, Order[i])'
      BY <2>2, <2>3, <2>4, <3>2 DEF ReadInStep
    <3>4. ReadInStep(r)'
      BY <3>1, <3>2, <3>3, <2>3 DEF ReadInStep
    <3>5. \A p \in Readers : Reading(p)' => p = r
      BY <2>2, <3>1 DEF Reading, TypeOK
    <3> QED
      BY <2>1, <2>2, <3>4, <3>5 DEF ServedIsPending, handler
  <2> QED
    BY <2>5, <2>6
<1>5. CASE Timeout(r) \/ Write(r)
  BY <1>5 DEF Timeout, Write, TypeOK
<1> QED
  BY <1>1, <1>2, <1>3, <1>4, <1>5 DEF Call

\* An edge of an echo: of the sensor the read is at, and the only one to serve, or the
\* read is spoilt.
LEMMA EchoStep ==
  ASSUME TypeOK, NEW r \in Readers, CleanRead(r),
         NEW s \in Sensors, Echo(s)
  PROVE  CleanRead(r)'
<1> SUFFICES ASSUME clean'[r], Reading(r)'
             PROVE  /\ \A p \in Readers : Reading(p)' => p = r
                    /\ \A t, u \in pending' : t = u
                    /\ ServedIsPending'
                    /\ ReadInStep(r)'
  BY DEF CleanRead
<1> USE OrderHasElements
<1>1. UNCHANGED <<driver, process, handler>>
  BY DEF Echo, EchoRises, EchoFalls, NoEcho
<1>2. /\ clean[r] /\ Reading(r)
      /\ NoEcho(s) \/ (pending = {} /\ pending' = {s})
  BY <1>1 DEF Echo, EchoRises, EchoFalls, NoEcho, Edge, Reading, process
<1>3. /\ \A p \in Readers : Reading(p) => p = r
      /\ \A t, u \in pending : t = u
      /\ ServedIsPending
      /\ ReadInStep(r)
  BY <1>2 DEF CleanRead
<1>4. \A p \in Readers : Reading(p)' => p = r
  BY <1>1, <1>3 DEF Reading, process
<1>5. \A t, u \in pending' : t = u
  BY <1>2, <1>3 DEF NoEcho
<1>6. /\ phase' = [phase EXCEPT ![s] = phase'[s]]
      /\ ping' = [ping EXCEPT ![s] = ping'[s]]
      /\ heard' = [heard EXCEPT ![s] = heard'[s]]
      /\ phase[s] # "ready"
  <2>1. CASE EchoRises(s)
    BY <2>1 DEF EchoRises, TypeOK
  <2>2. CASE EchoFalls(s)
    BY <2>2 DEF EchoFalls, TypeOK
  <2>3. CASE NoEcho(s)
    BY <2>3 DEF NoEcho, TypeOK
  <2> QED
    BY <2>1, <2>2, <2>3 DEF Echo
<1>7. ASSUME NEW t \in Sensors
      PROVE  /\ Done(r, t) => Done(r, t)'
             /\ Untouched(t) => Untouched(t)'
  <2>1. CASE t = s
    BY <1>6, <2>1 DEF Done, Untouched
  <2>2. CASE t # s
    <3>1. phase'[t] = phase[t] /\ (t \in pending' => t \in pending)
      BY <1>2, <1>6, <2>2 DEF TypeOK, NoEcho
    <3> QED
      BY <1>1, <3>1 DEF Done, Untouched, driver
  <2> QED
    BY <2>1, <2>2
<1>8. ASSUME NEW t \in Sensors, InAir(r, t)
      PROVE  InAir(r, t)'
  <2>1. CASE Done(r, t) \/ Untouched(t)
    BY <1>7, <2>1 DEF InAir
  <2>2. CASE t # s
    <3>1. /\ phase'[t] = phase[t] /\ ping'[t] = ping[t] /\ heard'[t] = heard[t]
          /\ t \in pending' => t \in pending
          /\ t \in pending => t \in pending'
      BY <1>2, <1>6, <2>2 DEF TypeOK, NoEcho
    <3> QED
      BY <1>1, <1>8, <3>1 DEF InAir, Done, Untouched, Serving, driver, handler
  <2>3. CASE t = s /\ EchoRises(s)
    <3>1. phase[s] = "triggered" /\ ping[s] = r /\ ~valid[s]
      BY <1>6, <1>8, <2>3 DEF InAir, Done, Untouched, EchoRises
    <3>2. phase'[s] = "high" /\ heard'[s] = r /\ pending = {} /\ s \in pending'
      BY <1>2, <2>3, <3>1 DEF EchoRises, NoEcho, TypeOK
    <3>3. ~recorded /\ ~recorded'
      BY <1>1, <1>3, <3>2 DEF ServedIsPending, handler
    <3> QED
      BY <1>1, <2>3, <3>1, <3>2, <3>3 DEF InAir, Serving, driver
  <2>4. CASE t = s /\ EchoFalls(s)
    <3>1. phase[s] = "high" /\ pending = {} /\ s \in pending' /\ phase'[s] = "ready" /\ heard' = heard
      BY <1>2, <2>4 DEF EchoFalls, NoEcho, TypeOK
    <3>2. heard[s] = r /\ ~valid[s] /\ start[s] = r
      BY <1>8, <2>4, <3>1 DEF InAir, Done, Untouched
    <3>3. ~recorded /\ ~recorded'
      BY <1>1, <1>3, <3>1 DEF ServedIsPending, handler
    <3> QED
      BY <1>1, <2>4, <3>1, <3>2, <3>3 DEF InAir, Serving, driver
  <2>5. CASE t = s /\ NoEcho(s)
    <3>1. phase[s] = "triggered" /\ phase'[s] = "ready" /\ pending' = pending
      BY <2>5 DEF NoEcho, TypeOK
    <3>2. ~valid[s] /\ s \notin pending
      BY <1>8, <2>5, <3>1 DEF InAir, Done, Untouched
    <3> QED
      BY <1>1, <2>5, <3>1, <3>2 DEF InAir, Untouched, driver
  <2> QED
    BY <2>1, <2>2, <2>3, <2>4, <2>5 DEF Echo
<1>9. ReadInStep(r)'
  BY <1>1, <1>3, <1>7, <1>8 DEF ReadInStep, process
<1>10. ServedIsPending'
  BY <1>1, <1>2, <1>3 DEF ServedIsPending, NoEcho, handler
<1> QED
  BY <1>4, <1>5, <1>9, <1>10

\* A step of the handler: it records the edge of the only pin that has one.
LEMMA IsrStep ==
  ASSUME TypeOK, NEW r \in Readers, CleanRead(r), Isr
  PROVE  CleanRead(r)'
<1> SUFFICES ASSUME clean'[r], Reading(r)'
             PROVE  /\ \A p \in Readers : Reading(p)' => p = r
                    /\ \A s, t \in pending' : s = t
                    /\ ServedIsPending'
                    /\ ReadInStep(r)'
  BY DEF CleanRead
<1> USE OrderHasElements
<1>1. UNCHANGED <<process, sensors, clean>>
  BY DEF Isr, IsrBegins, IsrSkips, IsrRecords, IsrClears
<1>2. clean[r] /\ Reading(r)
  BY <1>1 DEF Reading, process
<1>3. /\ \A p \in Readers : Reading(p) => p = r
      /\ \A s, t \in pending : s = t
      /\ ServedIsPending
      /\ ReadInStep(r)
  BY <1>2 DEF CleanRead
<1>4. \A p \in Readers : Reading(p)' => p = r
  BY <1>1, <1>3 DEF Reading, process
<1>5. (\A s, t \in pending' : s = t) /\ ServedIsPending'
  BY <1>3 DEF ServedIsPending, Isr, IsrBegins, IsrSkips, IsrRecords, IsrClears
<1>6. ASSUME \A s \in Sensors : /\ Done(r, s) => Done(r, s)'
                                /\ Untouched(s) => Untouched(s)'
                                /\ InAir(r, s) => InAir(r, s)'
      PROVE  ReadInStep(r)'
  BY <1>1, <1>3, <1>6 DEF ReadInStep, process
<1>7. CASE IsrBegins \/ IsrSkips
  <2>1. /\ UNCHANGED <<driver, recorded, pending>> /\ ~recorded
    BY <1>3, <1>7 DEF IsrBegins, IsrSkips, ServedIsPending
  <2> QED
    BY <1>1, <1>4, <1>5, <1>6, <2>1 DEF Done, Untouched, InAir, Serving, driver, sensors
<1>8. CASE IsrRecords
  <2>2. PICK b \in Sensors : b = Blocks[block]
    BY <1>8 DEF IsrRecords, TypeOK
  <2>1. /\ b \in pending /\ ~recorded /\ Record(b) /\ recorded' = TRUE
        /\ UNCHANGED <<block, pending>>
    BY <1>8, <2>2 DEF IsrRecords
  <2>3. ASSUME NEW s \in Sensors, s # b
        PROVE  /\ valid'[s] = valid[s] /\ start'[s] = start[s] /\ end'[s] = end[s]
               /\ s \notin pending /\ ~Serving(s)'
    BY <1>3, <2>1, <2>2, <2>3 DEF Record, driver, TypeOK, Serving
  <2>4. ASSUME NEW s \in Sensors, s # b
        PROVE  /\ Done(r, s) => Done(r, s)'
               /\ Untouched(s) => Untouched(s)'
               /\ InAir(r, s) => InAir(r, s)'
    BY <1>1, <2>1, <2>3, <2>4 DEF Done, Untouched, InAir, sensors
  <2>5. ~Untouched(b)
    BY <2>1 DEF Untouched
  <2>6. Done(r, b) => Done(r, b)'
    BY <1>1, <2>1 DEF Done, Record, driver, sensors
  <2>7. ASSUME InAir(r, b)
        PROVE  InAir(r, b)'
    <3>1. CASE Done(r, b)
      BY <2>6, <3>1 DEF InAir
    <3>2. CASE phase[b] = "high" /\ heard[b] = r /\ ~valid[b]
      <4>1. start'[b] = r /\ valid' = valid
        BY <2>1, <2>2, <3>2 DEF Record, TypeOK
      <4>2. (phase[b] = "high" /\ heard[b] = r /\ ~valid[b] /\ start[b] = r)'
        BY <1>1, <3>2, <4>1 DEF sensors
      <4> QED
        BY <4>2 DEF InAir
    <3>3. CASE phase[b] = "ready" /\ heard[b] = r /\ ~valid[b] /\ start[b] = r
      <4>1. end'[b] = r /\ valid'[b] /\ start' = start
        BY <2>1, <2>2, <3>3 DEF Record, TypeOK
      <4>2. (valid[b] /\ start[b] = r /\ end[b] = r /\ phase[b] = "ready")'
        BY <1>1, <3>3, <4>1 DEF sensors
      <4> QED
        BY <4>2 DEF InAir, Done
    <3> QED
      BY <2>1, <2>5, <2>7, <3>1, <3>2, <3>3 DEF InAir
  <2> QED
    BY <1>4, <1>5, <1>6, <2>4, <2>5, <2>6, <2>7
<1>9. CASE IsrClears
  <2>1. /\ recorded /\ recorded' = FALSE /\ pending' = {} /\ UNCHANGED driver
        /\ Blocks[block] \in pending
    BY <1>3, <1>9 DEF IsrClears, ServedIsPending
  <2>2. \A s \in Sensors : Done(r, s) => Done(r, s)'
    BY <1>1, <2>1 DEF Done, driver, sensors
  <2>3. \A s \in Sensors : Untouched(s) => Untouched(s)'
    BY <1>1, <2>1 DEF Untouched, driver, sensors
  <2>4. \A s \in pending : Serving(s)
    BY <1>3, <2>1 DEF Serving
  <2>5. ASSUME NEW s \in Sensors, InAir(r, s)
        PROVE  InAir(r, s)'
    <3>1. CASE phase[s] = "triggered" /\ ping[s] = r /\ ~valid[s]
      BY <1>1, <2>1, <3>1 DEF InAir, driver, sensors
    <3>2. CASE phase[s] = "high" /\ heard[s] = r /\ ~valid[s] /\ start[s] = r
      BY <1>1, <2>1, <3>2 DEF InAir, driver, sensors
    <3>3. CASE Done(r, s) \/ Untouched(s)
      BY <2>2, <2>3, <3>3 DEF InAir
    <3> QED
      BY <2>4, <2>5, <3>1, <3>2, <3>3 DEF InAir
  <2> QED
    BY <1>4, <1>5, <1>6, <2>2, <2>3, <2>5
<1> QED
  BY <1>7, <1>8, <1>9 DEF Isr

\* Every step keeps what CleanReads says.
LEMMA CleanStep == TypeOK /\ CleanReads /\ [Next]_vars => CleanReads'
<1> SUFFICES ASSUME TypeOK, CleanReads, [Next]_vars, NEW r \in Readers
             PROVE  CleanRead(r)'
  BY DEF CleanReads, CleanRead
<1>1. CleanRead(r)
  BY DEF CleanReads, CleanRead
<1>2. ASSUME NEW q \in Readers, Call(q)
      PROVE  CleanRead(r)'
  BY <1>1, <1>2, OtherCall, OwnCall
<1>3. ASSUME NEW s \in Sensors, Echo(s)
      PROVE  CleanRead(r)'
  BY <1>1, <1>3, EchoStep
<1>4. CASE Isr
  BY <1>1, <1>4, IsrStep
<1>5. CASE UNCHANGED vars
  BY <1>1, <1>5 DEF vars, driver, process, sensors, handler, CleanRead, Reading, ReadInStep,
       Done, InAir, Untouched, Serving, ServedIsPending
<1> QED
  BY <1>2, <1>3, <1>4, <1>5 DEF Next

\* A read whose sensors were at rest at its beginning answers with the echoes of its
\* own triggers, unless a wait timed out, another process came or an edge was lost:
\* for any number of processes and sensors.
THEOREM EchoesAreOwn == Spec => []OwnEchoes
<1>1. Init => IInv
  BY TypeInit DEF Init, IInv, CleanReads
<1>2. IInv /\ [Next]_vars => IInv'
  BY TypeStep, CleanStep DEF IInv
<1>3. IInv => OwnEchoes
  <2> SUFFICES ASSUME IInv, NEW r \in Readers, at[r] = "compute", clean[r], NEW s \in Sensors
               PROVE  start[s] = r /\ end[s] = r
    BY DEF OwnEchoes
  <2>1. ReadInStep(r)
    BY DEF IInv, CleanReads, Reading
  <2>2. PICK i \in DOMAIN Order : Order[i] = s
    BY UltrasonicAssumption DEF Enumerates
  <2> QED
    BY <2>1, <2>2 DEF ReadInStep, Done
<1> QED
  BY <1>1, <1>2, <1>3, PTL DEF Spec
=============================================================================
