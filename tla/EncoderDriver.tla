--------------------------- MODULE EncoderDriver ---------------------------
(***************************************************************************)
(* The driver of one wheel encoder of the robot; the two wheels have the   *)
(* same code (src/Plus/Tesis/Drivers/driver_encoder_EMIOgpio_PL_1.c and    *)
(* driver_encoder_EMIOgpio_PL_2.c).  driver_isr counts the pulses of the   *)
(* wheel in blocks of Block and takes the time of the first and of the last *)
(* pulse of a block; driver_read answers with the difference of the two    *)
(* and with the count.  Nothing keeps the two apart: a step of the handler *)
(* may fall between any two of the read, and on a second processor into    *)
(* one of them, of which the properties then say as little (quiet).  One   *)
(* process reads an encoder (usrSpace_top.c).                              *)
(*                                                                         *)
(* A time is abstracted to the number of the pulse it was taken at.  The   *)
(* wheel and the AXI GPIO controller are external: any change of an input  *)
(* of the channel sets its bit of IPISR.                                   *)
(***************************************************************************)
EXTENDS Integers

CONSTANTS
  MaxPulses, \* bound: pulses of the wheel in a behaviour
  Block,     \* pulses of a block, 5 in the code: "1/4 REVOLUCIONES"
  Width,     \* nro_vueltas1 is a uint32_t: it wraps at Width, 2^32 there
  None       \* the -1 that stands for no result

ASSUME EncoderAssumption ==
  /\ MaxPulses \in Nat
  /\ Block \in Nat /\ Block > 1
  /\ Width \in Nat /\ Width > Block
  /\ None \notin Int

VARIABLES
  sensor_1, nro_vueltas1, valid_value1,
  echo_start1, echo_end1,  \* the pulse each was taken at, 0 before the first
  input,    \* bit 0 of GPIO1_DATA: the wheel's sensor
  status,   \* IPISR: the channel has changed
  counted,  \* driver_isr: it has counted and is about to clear IPISR
  pulses,   \* history: pulses of the wheel so far; also the time
  exact,    \* history: no edge came before the last was served, and none was of
            \* the other input while this one's was high
  at,       \* where the process is in driver_read
  got,      \* driver_read: echo_end1, loaded for the difference
  period,   \* RX_buff[0]: the difference, or None
  count,    \* RX_buff[1]: the count
  quiet     \* history: no interrupt was served since the read looked at the flag

driver  == <<sensor_1, nro_vueltas1, valid_value1, echo_start1, echo_end1>>
wheel   == <<input, pulses>>
process == <<at, got, period, count>>
vars == <<driver, wheel, process, status, counted, exact, quiet>>

TypeOK ==
  /\ sensor_1 \in 0..(Block - 1)
  /\ nro_vueltas1 \in 0..(Width - 1)
  /\ valid_value1 \in {0, 1}
  /\ echo_start1 \in Nat /\ echo_end1 \in Nat
  /\ input \in BOOLEAN /\ status \in BOOLEAN /\ counted \in BOOLEAN
  /\ pulses \in 0..MaxPulses
  /\ exact \in BOOLEAN
  /\ at \in {"out", "wait", "test", "end", "start", "count", "done"}
  /\ got \in Nat
  /\ period \in Int \cup {None}
  /\ count \in 0..(Width - 1)
  /\ quiet \in BOOLEAN

Init ==
  /\ sensor_1 = 0 /\ nro_vueltas1 = 0 /\ valid_value1 = 0
  /\ echo_start1 = 0 /\ echo_end1 = 0
  /\ input = FALSE /\ status = FALSE /\ counted = FALSE
  /\ pulses = 0
  /\ exact = TRUE
  /\ at = "out"
  /\ got = 0 /\ period = None /\ count = 0
  /\ quiet = FALSE

-----------------------------------------------------------------------------
(* The wheel and the controller *)

Rise ==
  /\ ~input /\ pulses < MaxPulses
  /\ input' = TRUE
  /\ pulses' = pulses + 1
  /\ status' = TRUE
  /\ exact' = (exact /\ ~status)
  /\ UNCHANGED <<driver, process, counted, quiet>>

Fall ==
  /\ input
  /\ input' = FALSE
  /\ status' = TRUE
  /\ exact' = (exact /\ ~status)
  /\ UNCHANGED <<driver, process, pulses, counted, quiet>>

\* The other input of the channel changes.
OtherInput ==
  /\ status' = TRUE
  /\ exact' = (exact /\ ~status /\ ~input)
  /\ UNCHANGED <<driver, wheel, process, counted, quiet>>

-----------------------------------------------------------------------------
(* driver_isr *)

\* The sum of two counts in Width values.
Wrapped(n) == IF n < Width THEN n ELSE n - Width

\* Mutated form of StartOfBlock: each pulse starts the time.
StartOfBlock_Always == echo_start1' = pulses

\* The first pulse of a block starts its time.
StartOfBlock ==
  IF sensor_1 = 0 THEN echo_start1' = pulses ELSE UNCHANGED echo_start1

\* Mutated form of EndOfBlock: the test is >, and a block takes one pulse more.
EndOfBlock_OneMore ==
  IF sensor_1 + 1 > Block
    THEN /\ echo_end1' = pulses
         /\ nro_vueltas1' = Wrapped(nro_vueltas1 + Block)
         /\ sensor_1' = 0
         /\ valid_value1' = 1
    ELSE /\ sensor_1' = sensor_1 + 1
         /\ valid_value1' = IF sensor_1 = 0 THEN 0 ELSE valid_value1
         /\ UNCHANGED <<echo_end1, nro_vueltas1>>

\* The last ends it: its time, the count and the flag, which the first takes back.
EndOfBlock ==
  IF sensor_1 + 1 >= Block
    THEN /\ echo_end1' = pulses
         /\ nro_vueltas1' = Wrapped(nro_vueltas1 + Block)
         /\ sensor_1' = 0
         /\ valid_value1' = 1
    ELSE /\ sensor_1' = sensor_1 + 1
         /\ valid_value1' = IF sensor_1 = 0 THEN 0 ELSE valid_value1
         /\ UNCHANGED <<echo_end1, nro_vueltas1>>

\* Mutated form of IsrCounts: it looks at what has changed, not at the level.
IsrCounts_BothEdges ==
  /\ status /\ ~counted
  /\ StartOfBlock /\ EndOfBlock
  /\ counted' = TRUE
  /\ quiet' = FALSE
  /\ UNCHANGED <<wheel, process, status, exact>>

\* The handler looks at the level of the input, not at what has changed.
IsrCounts ==
  /\ status /\ ~counted
  /\ IF input THEN StartOfBlock /\ EndOfBlock ELSE UNCHANGED driver
  /\ counted' = TRUE
  /\ quiet' = FALSE
  /\ UNCHANGED <<wheel, process, status, exact>>

IsrClears ==
  /\ counted
  /\ status' = FALSE
  /\ counted' = FALSE
  /\ UNCHANGED <<driver, wheel, process, exact, quiet>>

-----------------------------------------------------------------------------
(* driver_read *)

Read ==
  /\ at = "out"
  /\ at' = "wait"
  /\ UNCHANGED <<driver, wheel, got, period, count, status, counted, exact, quiet>>

\* The wait ends with the flag, or without it after ten looks.
WaitEnds ==
  /\ at = "wait"
  /\ at' = "test"
  /\ UNCHANGED <<driver, wheel, got, period, count, status, counted, exact, quiet>>

TestFlag ==
  /\ at = "test"
  /\ IF valid_value1 # 0
       THEN at' = "end" /\ UNCHANGED period
       ELSE at' = "count" /\ period' = None
  /\ quiet' = TRUE
  /\ UNCHANGED <<driver, wheel, got, count, status, counted, exact>>

LoadEnd ==
  /\ at = "end"
  /\ at' = "start"
  /\ got' = echo_end1
  /\ UNCHANGED <<driver, wheel, period, count, status, counted, exact, quiet>>

LoadStart ==
  /\ at = "start"
  /\ at' = "count"
  /\ period' = got - echo_start1
  /\ UNCHANGED <<driver, wheel, got, count, status, counted, exact, quiet>>

LoadCount ==
  /\ at = "count"
  /\ at' = "done"
  /\ count' = nro_vueltas1
  /\ UNCHANGED <<driver, wheel, got, period, status, counted, exact, quiet>>

\* The copy to the user, and the return.  The next read writes all of RX_buff, so
\* what it held is not kept.
Return ==
  /\ at = "done"
  /\ at' = "out"
  /\ got' = 0 /\ period' = None /\ count' = 0
  /\ quiet' = FALSE
  /\ UNCHANGED <<driver, wheel, status, counted, exact>>

-----------------------------------------------------------------------------
ReadStep ==
  \/ Read \/ WaitEnds \/ TestFlag
  \/ LoadEnd \/ LoadStart \/ LoadCount \/ Return

Wheel == Rise \/ Fall \/ OtherInput

Isr == IsrCounts \/ IsrClears

Next == Wheel \/ Isr \/ ReadStep

Spec == Init /\ [][Next]_vars

-----------------------------------------------------------------------------
(* Properties *)

\* The pulses the handler has not counted yet: at most the one it is about to.
Uncounted == IF status /\ ~counted /\ input THEN 1 ELSE 0

\* A count c is of n pulses, but for the times it has wrapped.
CountOf(c, n) == \E wraps \in 0..n : n = c + wraps * Width

\* No pulse is lost and none is counted twice, while each edge is served before the
\* next and the other input keeps still: whole blocks and the pulses since.
EveryPulseCounts ==
  exact => CountOf(nro_vueltas1 + sensor_1 + Uncounted, pulses)

\* The difference a read answers with is that of the last block the count includes,
\* unless an interrupt was served while the read was at it.
AnswerOfOneBlock ==
  at = "done" /\ quiet /\ exact /\ period # None =>
    /\ period = Block - 1
    /\ CountOf(count, got)

-----------------------------------------------------------------------------
(* Why AnswerOfOneBlock holds *)

\* What the handler has served is still latched.
CountedIsLatched == counted => status

\* The last pulse the handler has counted.
Counted == pulses - Uncounted

\* The times are those of the block being counted, or of the last one if none is.
TimesOfBlock ==
  exact =>
    /\ sensor_1 > 0 => valid_value1 = 0 /\ echo_start1 = Counted - (sensor_1 - 1)
    /\ valid_value1 = 1 =>
         /\ sensor_1 = 0
         /\ echo_end1 = Counted
         /\ echo_start1 = Counted - (Block - 1)

\* What a read has loaded is what there is to load, while no interrupt is served.
ReadInStep ==
  exact /\ quiet =>
    /\ at \in {"end", "start"} => valid_value1 = 1
    /\ at = "start" => got = echo_end1
    /\ at \in {"count", "done"} /\ period # None =>
         /\ valid_value1 = 1 /\ got = echo_end1 /\ period = Block - 1
         /\ at = "done" => count = nro_vueltas1

IInv ==
  /\ TypeOK
  /\ CountedIsLatched
  /\ EveryPulseCounts
  /\ TimesOfBlock
  /\ ReadInStep
=============================================================================
