------------------------ MODULE EncoderDriver_proofs ------------------------
(***************************************************************************)
(* Proofs about EncoderDriver, for any length of a block, any width of the *)
(* count and any number of pulses.                                         *)
(***************************************************************************)
EXTENDS EncoderDriver, TLAPS

USE EncoderAssumption

-----------------------------------------------------------------------------
(* Types *)

\* A sum of a count and a block wraps at most once.
LEMMA WrappedType ==
  ASSUME NEW n \in 0..(Width - 1)
  PROVE  Wrapped(n + Block) \in 0..(Width - 1)
BY DEF Wrapped

\* The type invariant holds at the start.
LEMMA TypeInit == Init => TypeOK
<1> SUFFICES ASSUME Init
             PROVE  TypeOK
  OBVIOUS
<1> USE DEF Init
<1>1. /\ sensor_1 \in 0..(Block - 1) /\ nro_vueltas1 \in 0..(Width - 1)
      /\ valid_value1 \in {0, 1} /\ echo_start1 \in Nat /\ echo_end1 \in Nat
      /\ pulses \in 0..MaxPulses /\ got \in Nat /\ count \in 0..(Width - 1)
  OBVIOUS
<1>2. /\ input \in BOOLEAN /\ status \in BOOLEAN /\ counted \in BOOLEAN
      /\ exact \in BOOLEAN /\ quiet \in BOOLEAN
  OBVIOUS
<1>3. /\ at \in {"out", "wait", "test", "end", "start", "count", "done"}
      /\ period \in Int \cup {None}
  OBVIOUS
<1> QED
  BY <1>1, <1>2, <1>3 DEF TypeOK

\* Every step keeps it.
LEMMA TypeStep == TypeOK /\ [Next]_vars => TypeOK'
<1> SUFFICES ASSUME TypeOK, [Next]_vars
             PROVE  TypeOK'
  OBVIOUS
<1> USE DEF TypeOK
<1>1. CASE Wheel
  <2>1. pulses' \in 0..MaxPulses
    BY <1>1 DEF Wheel, Rise, Fall, OtherInput, wheel
  <2>2. input' \in BOOLEAN /\ status' \in BOOLEAN /\ exact' \in BOOLEAN
    BY <1>1 DEF Wheel, Rise, Fall, OtherInput, wheel
  <2>3. UNCHANGED <<driver, process, counted, quiet>>
    BY <1>1 DEF Wheel, Rise, Fall, OtherInput
  <2> QED
    BY <2>1, <2>2, <2>3 DEF driver, process
<1>2. CASE IsrCounts
  <2>1. nro_vueltas1' \in 0..(Width - 1)
    BY <1>2, WrappedType DEF IsrCounts, EndOfBlock, driver
  <2>2. /\ sensor_1' \in 0..(Block - 1) /\ valid_value1' \in {0, 1}
        /\ echo_start1' \in Nat /\ echo_end1' \in Nat
    BY <1>2 DEF IsrCounts, StartOfBlock, EndOfBlock, driver
  <2> QED
    BY <1>2, <2>1, <2>2 DEF IsrCounts, wheel, process
<1>3. CASE IsrClears
  BY <1>3 DEF IsrClears, driver, wheel, process
<1>4. CASE ReadStep
  <2> USE DEF ReadStep, Read, WaitEnds, TestFlag, LoadEnd, LoadStart, LoadCount, Return
  <2>1. at' \in {"out", "wait", "test", "end", "start", "count", "done"}
    BY <1>4
  <2>2. got' \in Nat /\ count' \in 0..(Width - 1)
    BY <1>4
  <2>3. period' \in Int \cup {None}
    BY <1>4
  <2>4. quiet' \in BOOLEAN /\ UNCHANGED <<driver, wheel, status, counted, exact>>
    BY <1>4
  <2> QED
    BY <2>1, <2>2, <2>3, <2>4 DEF driver, wheel
<1>5. CASE UNCHANGED vars
  BY <1>5 DEF vars, driver, wheel, process
<1> QED
  BY <1>1, <1>2, <1>3, <1>4, <1>5 DEF Next, Isr

\* The state of the driver, of its handler and of the read is of the types that TypeOK
\* gives: a block never has more pulses than it should.
THEOREM TypeCorrect == Spec => []TypeOK
BY TypeInit, TypeStep, PTL DEF Spec

-----------------------------------------------------------------------------
(* Counts *)

\* As many pulses as wraps, at least: the bound of the quantifier in CountOf is one.
LEMMA WrapsBounded ==
  ASSUME NEW n \in Nat, NEW c \in Nat, NEW w \in Nat, n = c + w * Width
  PROVE  CountOf(c, n)
<1>1. w * Width = w + w * (Width - 1)
  OBVIOUS
<1>2. w * (Width - 1) \in Nat
  <2> DEFINE d == Width - 1
  <2>1. d \in Nat
    OBVIOUS
  <2>2. \A a, b \in Nat : a * b \in Nat
    OBVIOUS
  <2> HIDE DEF d
  <2>3. w * d \in Nat
    BY <2>1, <2>2
  <2> QED
    BY <2>3 DEF d
<1>3. w \in 0..n
  BY <1>1, <1>2
<1> QED
  BY <1>3 DEF CountOf

\* One pulse more.
LEMMA CountNext ==
  ASSUME NEW n \in Nat, NEW c \in Nat, CountOf(c, n)
  PROVE  CountOf(c + 1, n + 1)
<1>1. PICK w \in 0..n : n = c + w * Width
  BY DEF CountOf
<1>2. w \in Nat /\ n + 1 = (c + 1) + w * Width
  BY <1>1
<1> QED
  BY <1>2, WrapsBounded

\* The count wraps.
LEMMA CountWraps ==
  ASSUME NEW n \in Nat, NEW c \in Nat, CountOf(c, n), c >= Width
  PROVE  CountOf(c - Width, n)
<1>1. PICK w \in 0..n : n = c + w * Width
  BY DEF CountOf
<1>2. w + 1 \in Nat /\ n = (c - Width) + (w + 1) * Width /\ c - Width \in Nat
  BY <1>1
<1> QED
  BY <1>2, WrapsBounded

\* The invariant holds at the start.
LEMMA InvInit == Init => IInv
<1> SUFFICES ASSUME Init
             PROVE  IInv
  OBVIOUS
<1>1. CountedIsLatched /\ ReadInStep
  BY DEF Init, CountedIsLatched, ReadInStep
<1>2. Uncounted = 0
  BY DEF Init, Uncounted
<1>3. EveryPulseCounts
  <2>1. CountOf(0, 0)
    BY DEF CountOf
  <2> QED
    BY <1>2, <2>1 DEF Init, EveryPulseCounts
<1>4. TimesOfBlock
  BY DEF Init, TimesOfBlock
<1> QED
  BY TypeInit, <1>1, <1>3, <1>4 DEF IInv

\* The wheel moves or the other input does: a pulse more is a pulse more to count.
LEMMA WheelStep ==
  ASSUME IInv, Wheel
  PROVE  CountedIsLatched' /\ EveryPulseCounts' /\ TimesOfBlock' /\ ReadInStep'
<1> USE DEF IInv
<1>1. /\ UNCHANGED <<driver, process, counted, quiet>>
      /\ status' = TRUE
      /\ exact' => exact /\ ~status
  BY DEF Wheel, Rise, Fall, OtherInput, TypeOK
<1>2. CountedIsLatched'
  BY <1>1 DEF CountedIsLatched
<1>3. ASSUME exact'
      PROVE  /\ Uncounted = 0 /\ Uncounted' \in {0, 1}
             /\ pulses' = pulses + Uncounted'
  <2>1. Uncounted = 0 /\ ~counted'
    BY <1>1, <1>3 DEF Uncounted, CountedIsLatched
  <2>2. CASE Rise
    BY <1>1, <2>1, <2>2 DEF Rise, Uncounted, TypeOK
  <2>3. CASE Fall
    BY <1>1, <2>1, <2>3 DEF Fall, Uncounted, TypeOK
  <2>4. CASE OtherInput
    BY <1>1, <1>3, <2>1, <2>4 DEF OtherInput, wheel, Uncounted, TypeOK
  <2> QED
    BY <2>1, <2>2, <2>3, <2>4 DEF Wheel
<1>4. EveryPulseCounts'
  <2> SUFFICES ASSUME exact'
               PROVE  CountOf(nro_vueltas1 + sensor_1 + Uncounted, pulses)'
    BY DEF EveryPulseCounts
  <2>1. CountOf(nro_vueltas1 + sensor_1, pulses)
    BY <1>1, <1>3 DEF EveryPulseCounts, TypeOK
  <2>2. nro_vueltas1' = nro_vueltas1 /\ sensor_1' = sensor_1
    BY <1>1 DEF driver
  <2>3. nro_vueltas1 + sensor_1 \in Nat /\ pulses \in Nat
    BY DEF TypeOK
  <2>4. CASE Uncounted' = 0
    BY <1>3, <2>1, <2>2, <2>3, <2>4 DEF CountOf
  <2>5. CASE Uncounted' = 1
    <3>1. CountOf(nro_vueltas1 + sensor_1 + 1, pulses + 1)
      BY <2>1, <2>3, CountNext
    <3> QED
      BY <1>3, <2>2, <2>5, <3>1 DEF CountOf
  <2> QED
    BY <1>3, <2>4, <2>5
<1>5. TimesOfBlock'
  <2> SUFFICES ASSUME exact'
               PROVE  TimesOfBlock'
    BY DEF TimesOfBlock
  <2>1. Counted' = Counted
    BY <1>3 DEF Counted, TypeOK
  <2> QED
    BY <1>1, <2>1 DEF TimesOfBlock, driver
<1>6. ReadInStep'
  BY <1>1 DEF ReadInStep, driver, process
<1> QED
  BY <1>2, <1>4, <1>5, <1>6

\* The handler counts: what it was to count is counted.
LEMMA IsrCountsStep ==
  ASSUME IInv, IsrCounts
  PROVE  CountedIsLatched' /\ EveryPulseCounts' /\ TimesOfBlock' /\ ReadInStep'
<1> USE DEF IInv
<1>1. /\ status /\ ~counted /\ counted' = TRUE /\ quiet' = FALSE
      /\ UNCHANGED <<wheel, process, status, exact>>
  BY DEF IsrCounts
<1>2. CountedIsLatched' /\ ReadInStep'
  BY <1>1 DEF CountedIsLatched, ReadInStep
<1>3. Uncounted' = 0 /\ pulses' = pulses
  BY <1>1 DEF Uncounted, wheel
<1>4. Counted' = pulses
  BY <1>3 DEF Counted, TypeOK
<1>5. CASE ~input
  <2>1. Uncounted = 0 /\ UNCHANGED driver
    BY <1>5 DEF IsrCounts, Uncounted
  <2>2. Counted = pulses
    BY <2>1 DEF Counted, TypeOK
  <2>3. EveryPulseCounts'
    BY <1>1, <1>3, <2>1 DEF EveryPulseCounts, CountOf, driver
  <2>4. TimesOfBlock'
    BY <1>1, <1>4, <2>1, <2>2 DEF TimesOfBlock, driver
  <2> QED
    BY <1>2, <2>3, <2>4
<1>6. CASE input
  <2>1. /\ Uncounted = 1 /\ StartOfBlock /\ EndOfBlock
    BY <1>1, <1>6 DEF IsrCounts, Uncounted
  <2>2. Counted = pulses - 1
    BY <2>1 DEF Counted
  <2> DEFINE c == nro_vueltas1 + sensor_1 + 1
  <2>3. exact => CountOf(c, pulses)
    BY <2>1 DEF EveryPulseCounts
  <2>4. c \in Nat /\ pulses \in Nat
    BY DEF TypeOK
  <2>5. CASE sensor_1 + 1 >= Block
    <3>1. /\ echo_end1' = pulses /\ sensor_1' = 0 /\ valid_value1' = 1
          /\ nro_vueltas1' = Wrapped(nro_vueltas1 + Block)
      BY <2>1, <2>5 DEF EndOfBlock
    <3>2. c = nro_vueltas1 + Block /\ sensor_1 > 0
      BY <2>5 DEF TypeOK
    <3>3. nro_vueltas1' + sensor_1' + Uncounted' = Wrapped(c)
      BY <1>3, <3>1, <3>2, WrappedType DEF TypeOK
    <3>4. exact => CountOf(Wrapped(c), pulses)
      <4>1. CASE c < Width
        BY <2>3, <4>1 DEF Wrapped
      <4>2. CASE ~(c < Width)
        BY <2>3, <2>4, <4>2, CountWraps DEF Wrapped
      <4> QED
        BY <4>1, <4>2
    <3>5. EveryPulseCounts'
      BY <1>1, <1>3, <3>3, <3>4 DEF EveryPulseCounts, CountOf
    <3>6. echo_start1' = echo_start1
      BY <2>1, <3>2 DEF StartOfBlock, TypeOK
    <3>7. exact => echo_start1' = pulses - (Block - 1)
      BY <2>2, <2>5, <3>2, <3>6 DEF TimesOfBlock, TypeOK
    <3>8. TimesOfBlock'
      BY <1>1, <1>4, <3>1, <3>7 DEF TimesOfBlock
    <3> QED
      BY <1>2, <3>5, <3>8
  <2>6. CASE ~(sensor_1 + 1 >= Block)
    <3>1. /\ sensor_1' = sensor_1 + 1
          /\ valid_value1' = IF sensor_1 = 0 THEN 0 ELSE valid_value1
          /\ UNCHANGED <<echo_end1, nro_vueltas1>>
      BY <2>1, <2>6 DEF EndOfBlock
    <3>2. nro_vueltas1' + sensor_1' + Uncounted' = c
      BY <1>3, <3>1 DEF TypeOK
    <3>3. EveryPulseCounts'
      BY <1>1, <1>3, <2>3, <3>2 DEF EveryPulseCounts, CountOf
    <3>4. exact => valid_value1' = 0 /\ sensor_1' > 0
      BY <3>1 DEF TimesOfBlock, TypeOK
    <3>5. exact => echo_start1' = pulses - (sensor_1' - 1)
      <4>1. CASE sensor_1 = 0
        BY <2>1, <3>1, <4>1 DEF StartOfBlock, TypeOK
      <4>2. CASE sensor_1 > 0
        BY <2>1, <2>2, <3>1, <4>2 DEF StartOfBlock, TimesOfBlock, TypeOK
      <4> QED
        BY <4>1, <4>2 DEF TypeOK
    <3>6. TimesOfBlock'
      BY <1>1, <1>4, <3>4, <3>5 DEF TimesOfBlock
    <3> QED
      BY <1>2, <3>3, <3>6
  <2> QED
    BY <2>5, <2>6
<1> QED
  BY <1>5, <1>6

\* The steps that count nothing and move nothing.
LEMMA OtherStep ==
  ASSUME IInv, IsrClears \/ ReadStep \/ UNCHANGED vars
  PROVE  CountedIsLatched' /\ EveryPulseCounts' /\ TimesOfBlock' /\ ReadInStep'
<1> USE DEF IInv
<1>1. /\ UNCHANGED <<driver, wheel, exact>>
      /\ \/ counted /\ counted' = FALSE
         \/ UNCHANGED <<counted, status>>
  BY DEF IsrClears, ReadStep, Read, WaitEnds, TestFlag, LoadEnd, LoadStart, LoadCount, Return, vars
<1>2. CountedIsLatched'
  BY <1>1 DEF CountedIsLatched
<1>3. Uncounted' = Uncounted /\ pulses' = pulses
  <2>1. CASE IsrClears
    BY <2>1 DEF IsrClears, Uncounted, wheel
  <2>2. CASE UNCHANGED <<counted, status>>
    BY <1>1, <2>2 DEF Uncounted, wheel
  <2>3. CASE ReadStep \/ UNCHANGED vars
    <3>1. UNCHANGED <<counted, status>>
      BY <2>3 DEF ReadStep, Read, WaitEnds, TestFlag, LoadEnd, LoadStart, LoadCount, Return, vars
    <3> QED
      BY <2>2, <3>1
  <2> QED
    BY <2>1, <2>3
<1>4. EveryPulseCounts'
  BY <1>1, <1>3 DEF EveryPulseCounts, CountOf, driver
<1>5. TimesOfBlock'
  BY <1>1, <1>3 DEF TimesOfBlock, Counted, driver
<1>6. ReadInStep'
  <2>1. CASE IsrClears \/ UNCHANGED vars
    BY <1>1, <2>1 DEF IsrClears, vars, ReadInStep, driver, process
  <2>2. CASE Read \/ WaitEnds \/ Return
    BY <1>1, <2>2 DEF Read, WaitEnds, Return, ReadInStep
  <2>3. CASE TestFlag
    BY <1>1, <2>3 DEF TestFlag, ReadInStep, driver, TypeOK
  <2>4. CASE LoadEnd
    BY <1>1, <2>4 DEF LoadEnd, ReadInStep, driver
  <2>5. CASE LoadStart
    <3>1. /\ at = "start" /\ at' = "count" /\ period' = got - echo_start1
          /\ UNCHANGED <<got, quiet>>
      BY <2>5 DEF LoadStart
    <3>2. exact /\ quiet => valid_value1 = 1 /\ got = echo_end1
      BY <3>1 DEF ReadInStep
    <3>3. exact /\ quiet => period' = Block - 1
      <4>1. exact /\ quiet => got = Counted /\ echo_start1 = Counted - (Block - 1)
        BY <3>2 DEF TimesOfBlock
      <4>2. Counted \in Int
        BY DEF Counted, Uncounted, TypeOK
      <4> QED
        BY <3>1, <4>1, <4>2
    <3> QED
      BY <1>1, <3>1, <3>2, <3>3 DEF ReadInStep, driver
  <2>6. CASE LoadCount
    BY <1>1, <2>6 DEF LoadCount, ReadInStep, driver
  <2> QED
    BY <2>1, <2>2, <2>3, <2>4, <2>5, <2>6 DEF ReadStep
<1> QED
  BY <1>2, <1>4, <1>5, <1>6

\* The invariant is inductive.
LEMMA InvStep == IInv /\ [Next]_vars => IInv'
<1> SUFFICES ASSUME IInv, [Next]_vars
             PROVE  IInv'
  OBVIOUS
<1>1. TypeOK'
  BY TypeStep DEF IInv
<1>2. CountedIsLatched' /\ EveryPulseCounts' /\ TimesOfBlock' /\ ReadInStep'
  BY WheelStep, IsrCountsStep, OtherStep DEF Next, Isr
<1> QED
  BY <1>1, <1>2 DEF IInv

\* No pulse is lost and none is counted twice while each edge is served in time and
\* the other input keeps still, for any number of pulses and of wraps of the count.
THEOREM PulsesAreCounted == Spec => []EveryPulseCounts
BY InvInit, InvStep, PTL DEF Spec, IInv

\* A read during which no interrupt is served answers with the time of the last block
\* of the count that it gives with it.
THEOREM AnswersAreOfOneBlock == Spec => []AnswerOfOneBlock
<1>1. IInv => AnswerOfOneBlock
  <2> SUFFICES ASSUME IInv, at = "done", quiet, exact, period # None
               PROVE  period = Block - 1 /\ CountOf(count, got)
    BY DEF AnswerOfOneBlock
  <2>1. period = Block - 1 /\ valid_value1 = 1 /\ got = echo_end1 /\ count = nro_vueltas1
    BY DEF IInv, ReadInStep
  <2>2. sensor_1 = 0 /\ got = pulses - Uncounted
    BY <2>1 DEF IInv, TimesOfBlock, Counted
  <2>3. CountOf(count + Uncounted, pulses)
    BY <2>1, <2>2 DEF IInv, EveryPulseCounts, TypeOK
  <2>4. Uncounted \in {0, 1} /\ count \in Nat /\ pulses \in Nat /\ got \in Nat
    BY DEF Uncounted, IInv, TypeOK
  <2>5. PICK w \in 0..pulses : pulses = (count + Uncounted) + w * Width
    BY <2>3 DEF CountOf
  <2>6. w \in Nat /\ got = count + w * Width
    <3> DEFINE ww == w * Width
    <3>1. w \in Nat /\ ww \in Int
      BY <2>4
    <3>2. pulses = (count + Uncounted) + ww
      BY <2>5
    <3> HIDE DEF ww
    <3>3. got = count + ww
      BY <2>2, <2>4, <3>1, <3>2
    <3> QED
      BY <3>1, <3>3 DEF ww
  <2> QED
    BY <2>1, <2>4, <2>6, WrapsBounded
<1> QED
  BY InvInit, InvStep, <1>1, PTL DEF Spec
=============================================================================
