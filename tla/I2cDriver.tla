----------------------------- MODULE I2cDriver -----------------------------
(***************************************************************************)
(* The driver of the pressure sensor (MyDriver/i2c_dev.c): the system      *)
(* calls open, read and close of the processes that use /dev/prueba-td3,   *)
(* the interrupt handler, and the i2c controller with the sensor behind it *)
(* (external: modelled by what the driver expects of its registers).       *)
(*                                                                         *)
(* bmp280_read() writes a command and reads the answer; open runs it for   *)
(* the commands "id", "calib" and "config" and each read for "data".  A    *)
(* call is cut where it sleeps; between two sleeps the handler and the     *)
(* controller may act.  A byte of an answer is <<command, position>>; what *)
(* was received before a command was prepared is Junk for that command.    *)
(***************************************************************************)
EXTENDS Integers, Sequences

CONSTANTS
  Procs,          \* the processes that open the device
  TxLen, RxLen,   \* the bytes a command sends and those it asks for
  BufLen,         \* BYTE2READ / sizeof(int), the elements of each buffer
  MaxCuts,        \* bound: signals that end a wait
  MaxFaults       \* bound: transfers that never complete

Cmds == {"id", "calib", "config", "data"}

ASSUME I2cAssumption ==
  /\ TxLen \in [Cmds -> 1..BufLen] /\ RxLen \in [Cmds -> 1..BufLen]
  /\ BufLen \in 1..255 /\ MaxCuts \in Nat /\ MaxFaults \in Nat

\* driver_read sends the address of the first register it wants (i2c_dev.c:617).
ASSUME ReadSendsOneByte == TxLen["data"] = 1

VARIABLES
  pc,             \* where each process is
  cmd,            \* the command of the call it is in
  kbuff,          \* what its last read copied to the user
  txMem, rxMem,   \* the memory behind bmp280_dev.TX_buff and RX_buff
  TX_buff,        \* the command in TX_buff[0]
  RX_buff,
  TX_count, RX_count,
  calib,          \* the calibration bmp280_dev keeps
  condition, aux, aux2,
  bus, left,      \* the controller: the transfer it is in, the bytes that are missing
  CNT, enabled,   \* its registers
  fifo,           \* bytes received that nobody has read from I2C_2_DATA
  ardy,           \* the completion it has latched
  reg,            \* the sensor: the command that reached it in this transfer
  cuts, faults, overlap,
  missed          \* history: driver_isr has cleared a completion it had not read

driver == <<TX_buff, RX_buff, TX_count, RX_count, condition, aux, aux2>>
mem == <<txMem, rxMem>>
users == <<pc, cmd, kbuff, calib>>
chip == <<bus, left, CNT, enabled, fifo, ardy, reg>>
vars == <<users, mem, driver, chip, cuts, faults, missed, overlap>>

Places == {"closed", "open", "busTx", "waitTx", "busRx", "waitRx", "freed"}
Pointers == {"null", "live", "freed"}
Irqs == {"XRDY", "RRDY", "ARDY"}
Junk == <<"none", 0>>
Bytes == (Cmds \cup {"none"}) \X Int
Slots == 0..(BufLen - 1)

TypeUsers ==
  /\ pc \in [Procs -> Places] /\ cmd \in [Procs -> Cmds]
  /\ kbuff \in [Procs -> {"none", "whole", "torn"}]
  /\ calib \in {"none", "whole", "torn"}
TypeMem == txMem \in Pointers /\ rxMem \in Pointers
TypeDriver ==
  /\ TX_buff \in Cmds /\ RX_buff \in [Slots -> Bytes]
  /\ TX_count \in Int /\ RX_count \in Int
  /\ condition \in {0, 10} /\ aux \in Nat /\ aux2 \in Nat
TypeChip ==
  /\ bus \in {"idle", "tx", "rx"} /\ left \in Nat /\ CNT \in 0..255
  /\ enabled \in SUBSET Irqs /\ fifo \in Seq(Bytes)
  /\ ardy \in BOOLEAN /\ reg \in Cmds \cup {"none"}
TypeHistory == cuts \in 0..MaxCuts /\ faults \in 0..MaxFaults /\ overlap \in BOOLEAN
               /\ missed \in BOOLEAN

TypeOK == TypeUsers /\ TypeMem /\ TypeDriver /\ TypeChip /\ TypeHistory

Init ==
  /\ pc = [p \in Procs |-> "closed"] /\ cmd = [p \in Procs |-> "id"]
  /\ kbuff = [p \in Procs |-> "none"]
  /\ calib = "none"
  /\ txMem = "null" /\ rxMem = "null"
  /\ TX_buff = "id" /\ RX_buff = [i \in Slots |-> Junk]
  /\ TX_count = 0 /\ RX_count = 0
  /\ condition = 0 /\ aux = 0 /\ aux2 = 0
  /\ bus = "idle" /\ left = 0 /\ CNT = 0 /\ enabled = {}
  /\ fifo = <<>> /\ ardy = FALSE /\ reg = "none"
  /\ cuts = 0 /\ faults = 0 /\ overlap = FALSE /\ missed = FALSE

-----------------------------------------------------------------------------
(* bmp280_read() *)

\* Its caller fills in the request; the controller is programmed, not started.
\* I2C_2_CNT takes the last eight bits of a length.
Prepare(p, c) ==
  /\ pc' = [pc EXCEPT ![p] = "busTx"]
  /\ cmd' = [cmd EXCEPT ![p] = c]
  /\ TX_buff' = c /\ TX_count' = TxLen[c] /\ RX_count' = RxLen[c]
  /\ RX_buff' = [i \in Slots |-> Junk]
  /\ fifo' = [i \in DOMAIN fifo |-> Junk]
  /\ reg' = "none" /\ ardy' = FALSE
  /\ enabled' = {"ARDY", "XRDY"} /\ CNT' = TxLen[c] % 256
  /\ UNCHANGED <<bus, left>>

\* I2C_2_IRQSTATUS_BB: the bus is free once the controller has sent its stop.
BusBusy == bus = "tx" \/ (bus = "rx" /\ left > 0)

StartTx(p) ==
  /\ pc[p] = "busTx" /\ ~BusBusy
  /\ pc' = [pc EXCEPT ![p] = "waitTx"]
  /\ bus' = "tx" /\ left' = CNT
  /\ UNCHANGED <<cmd, kbuff, calib, mem, driver, CNT, enabled,
                 fifo, ardy, reg, cuts, faults, missed, overlap>>

\* Mutant: the flag is not cleared between the two waits.
AfterTx_KeepsFlag(p) ==
  /\ pc[p] = "waitTx"
  /\ pc' = [pc EXCEPT ![p] = "busRx"]
  /\ UNCHANGED condition /\ CNT' = RX_count % 256
  /\ UNCHANGED <<cmd, kbuff, calib, mem, TX_buff, RX_buff, TX_count,
                 RX_count, aux, aux2, bus, left, enabled, fifo, ardy, reg,
                 faults, missed, overlap>>

\* I2C_2_CON takes the controller out of transmission and CNT has the new length.
AfterTx(p) ==
  /\ pc[p] = "waitTx"
  /\ pc' = [pc EXCEPT ![p] = "busRx"]
  /\ condition' = 0 /\ CNT' = RX_count % 256
  /\ UNCHANGED <<cmd, kbuff, calib, mem, TX_buff, RX_buff, TX_count,
                 RX_count, aux, aux2, bus, left, enabled, fifo, ardy, reg,
                 faults, missed, overlap>>

WakeTx(p) == condition # 0 /\ AfterTx(p) /\ UNCHANGED cuts

StartRx(p) ==
  /\ pc[p] = "busRx" /\ ~BusBusy
  /\ pc' = [pc EXCEPT ![p] = "waitRx"]
  /\ enabled' = {"RRDY"} /\ ardy' = FALSE
  /\ bus' = "rx" /\ left' = CNT
  /\ UNCHANGED <<cmd, kbuff, calib, mem, driver, CNT, fifo, reg,
                 cuts, faults, missed, overlap>>

\* The bus stays busy, for this transfer or for another master: bmp280_read
\* returns -1.  driver_read passes it on; driver_open looks at no result.
BusTimeout(p) ==
  /\ pc[p] \in {"busTx", "busRx"}
  /\ pc' = [pc EXCEPT ![p] = "open"]
  /\ UNCHANGED <<cmd, kbuff, calib, mem, driver, chip, cuts, faults, missed, overlap>>

-----------------------------------------------------------------------------
(* The system calls *)

Whole(c) == \A i \in 0..(RxLen[c] - 1) : RX_buff[i] = <<c, i>>
Taken(c) == IF Whole(c) THEN "whole" ELSE "torn"

Open(p) ==
  /\ pc[p] = "closed"
  /\ overlap' = (overlap \/ \E q \in Procs : pc[q] # "closed")
  /\ kbuff' = [kbuff EXCEPT ![p] = "none"]
  /\ \/ /\ rxMem' = "live" /\ txMem' = "live"
        /\ Prepare(p, "id")
     \/ /\ \/ rxMem' = "null" /\ txMem' = txMem     \* no memory for RX_buff
           \/ rxMem' = "live" /\ txMem' = "null"    \* none for TX_buff
        /\ UNCHANGED <<pc, cmd, TX_buff, RX_buff, TX_count, RX_count, chip>>
  /\ UNCHANGED <<calib, condition, aux, aux2, cuts, faults, missed>>

\* A size that is not BYTE2READ or a bad buffer is refused before anything else.
Read(p) ==
  /\ pc[p] = "open"
  /\ kbuff' = [kbuff EXCEPT ![p] = "none"]
  /\ \/ Prepare(p, "data")
     \/ UNCHANGED <<pc, cmd, TX_buff, RX_buff, TX_count, RX_count, chip>>
  /\ UNCHANGED <<calib, mem, condition, aux, aux2, cuts, faults, missed, overlap>>

\* The transfer of p is over: what its caller does then.
\* driver_read copies the answer, which __copy_to_user may refuse.
ReturnData(p) ==
  /\ cmd[p] = "data"
  /\ pc' = [pc EXCEPT ![p] = "open"]
  /\ kbuff' \in {kbuff, [kbuff EXCEPT ![p] = Taken("data")]}
  /\ UNCHANGED <<cmd, calib, TX_buff, RX_buff, TX_count, RX_count, chip>>

\* bmp280_init: save_calib_param after the second transfer; the third checks
\* what the sensor answers, and driver_open returns 0 whatever comes out.
NextCommand(p) ==
  \/ cmd[p] = "id" /\ Prepare(p, "calib") /\ UNCHANGED <<calib, kbuff>>
  \/ /\ cmd[p] = "calib" /\ Prepare(p, "config")
     /\ calib' = Taken("calib") /\ UNCHANGED kbuff
  \/ /\ cmd[p] = "config"
     /\ pc' = [pc EXCEPT ![p] = "open"]
     /\ UNCHANGED <<cmd, calib, kbuff, TX_buff, RX_buff, TX_count, RX_count, chip>>

AfterRx(p) ==
  /\ pc[p] = "waitRx"
  /\ condition' = 0
  /\ ReturnData(p) \/ NextCommand(p)
  /\ UNCHANGED <<mem, aux, aux2, faults, missed, overlap>>

\* Mutant: the second wait does not look at the flag.
WakeRx_Unasked(p) == AfterRx(p) /\ UNCHANGED cuts

WakeRx(p) == condition # 0 /\ AfterRx(p) /\ UNCHANGED cuts

\* A signal ends wait_event_interruptible; the code goes on as if awakened.
Cut(p) ==
  /\ condition = 0 /\ cuts < MaxCuts
  /\ cuts' = cuts + 1
  /\ AfterTx(p) \/ AfterRx(p)

\* driver_release frees the buffers, then switches the controller off.
CloseFree(p) ==
  /\ pc[p] = "open"
  /\ pc' = [pc EXCEPT ![p] = "freed"]
  /\ txMem' = (IF txMem = "null" THEN "null" ELSE "freed")
  /\ rxMem' = (IF rxMem = "null" THEN "null" ELSE "freed")
  /\ UNCHANGED <<cmd, kbuff, calib, driver, chip, cuts, faults, missed, overlap>>

CloseReset(p) ==
  /\ pc[p] = "freed"
  /\ pc' = [pc EXCEPT ![p] = "closed"]
  /\ bus' = "idle" /\ left' = 0 /\ fifo' = <<>> /\ ardy' = FALSE
  /\ UNCHANGED <<cmd, kbuff, calib, mem, driver, CNT, enabled, reg,
                 cuts, faults, missed, overlap>>

-----------------------------------------------------------------------------
(* The controller and the sensor *)

Raised == (IF bus = "tx" /\ left > 0 THEN {"XRDY"} ELSE {})
          \cup (IF fifo # <<>> THEN {"RRDY"} ELSE {})
          \cup (IF ardy THEN {"ARDY"} ELSE {})
Pending == Raised \cap enabled

ByteArrives ==
  /\ bus = "rx" /\ left > 0
  /\ left' = left - 1
  /\ fifo' = Append(fifo, IF reg = "none" THEN Junk ELSE <<reg, CNT - left>>)
  /\ UNCHANGED <<users, mem, driver, bus, CNT, enabled, ardy, reg, cuts, faults,
                 missed, overlap>>

TransferEnds ==
  /\ left = 0
  /\ bus = "tx" \/ (bus = "rx" /\ fifo = <<>>)
  /\ bus' = "idle" /\ ardy' = TRUE
  /\ UNCHANGED <<users, mem, driver, left, CNT, enabled, fifo, reg, cuts, faults,
                 missed, overlap>>

\* The sensor does not acknowledge: nothing the driver has enabled is raised.
Nack ==
  /\ bus # "idle" /\ faults < MaxFaults
  /\ faults' = faults + 1
  /\ bus' = "idle" /\ left' = 0
  /\ UNCHANGED <<users, mem, driver, CNT, enabled, fifo, ardy, reg, cuts,
                 missed, overlap>>

-----------------------------------------------------------------------------
(* driver_isr: it clears every event and serves one *)

IsrTx ==
  /\ "XRDY" \in Pending
  /\ left' = left - 1
  /\ reg' = IF aux = 0 THEN TX_buff ELSE reg
  /\ TX_count' = TX_count - 1
  /\ IF TX_count = 1
       THEN aux' = 0 /\ enabled' = (enabled \ {"XRDY"}) \cup {"ARDY"}
       ELSE aux' = aux + 1 /\ UNCHANGED enabled
  /\ ardy' = FALSE
  /\ UNCHANGED <<users, mem, TX_buff, RX_buff, RX_count, condition, aux2, bus,
                 CNT, fifo, cuts, faults, missed, overlap>>

\* Mutants: the index goes on from transfer to transfer; the end is not reported.
IsrRx_KeepsIndex ==
  /\ "RRDY" \in Pending /\ "XRDY" \notin Pending
  /\ RX_buff' = [i \in Slots |-> IF i = aux2 THEN Head(fifo) ELSE RX_buff[i]]
  /\ fifo' = Tail(fifo)
  /\ RX_count' = RX_count - 1
  /\ IF RX_count = 1
       THEN aux2' = aux2 + 1 /\ enabled' = (enabled \ {"RRDY"}) \cup {"ARDY"}
       ELSE aux2' = aux2 + 1 /\ UNCHANGED enabled
  /\ ardy' = FALSE
  /\ \/ UNCHANGED <<bus, missed>>
     \/ /\ bus = "rx" /\ left = 0 /\ fifo' = <<>>
        /\ bus' = "idle" /\ missed' = TRUE
  /\ UNCHANGED <<users, mem, TX_buff, TX_count, condition, aux, left, CNT, reg,
                 cuts, faults, overlap>>

IsrRx_Silent ==
  /\ "RRDY" \in Pending /\ "XRDY" \notin Pending
  /\ RX_buff' = [i \in Slots |-> IF i = aux2 THEN Head(fifo) ELSE RX_buff[i]]
  /\ fifo' = Tail(fifo)
  /\ RX_count' = RX_count - 1
  /\ IF RX_count = 1
       THEN aux2' = 0 /\ enabled' = enabled \ {"RRDY"}
       ELSE aux2' = aux2 + 1 /\ UNCHANGED enabled
  /\ ardy' = FALSE
  /\ \/ UNCHANGED <<bus, missed>>
     \/ /\ bus = "rx" /\ left = 0 /\ fifo' = <<>>
        /\ bus' = "idle" /\ missed' = TRUE
  /\ UNCHANGED <<users, mem, TX_buff, TX_count, condition, aux, left, CNT, reg,
                 cuts, faults, overlap>>

\* Reading the last byte completes the transfer: a completion the controller latches
\* before the handler clears the events for the second time goes unseen.
IsrRx ==
  /\ "RRDY" \in Pending /\ "XRDY" \notin Pending
  /\ RX_buff' = [i \in Slots |-> IF i = aux2 THEN Head(fifo) ELSE RX_buff[i]]
  /\ fifo' = Tail(fifo)
  /\ RX_count' = RX_count - 1
  /\ IF RX_count = 1
       THEN aux2' = 0 /\ enabled' = (enabled \ {"RRDY"}) \cup {"ARDY"}
       ELSE aux2' = aux2 + 1 /\ UNCHANGED enabled
  /\ ardy' = FALSE
  /\ \/ UNCHANGED <<bus, missed>>
     \/ /\ bus = "rx" /\ left = 0 /\ fifo' = <<>>
        /\ bus' = "idle" /\ missed' = TRUE
  /\ UNCHANGED <<users, mem, TX_buff, TX_count, condition, aux, left, CNT, reg,
                 cuts, faults, overlap>>

\* Mutant: a second event adds to the first.
IsrDone_Adds ==
  /\ Pending = {"ARDY"}
  /\ condition' = condition + 10 /\ ardy' = FALSE
  /\ UNCHANGED <<users, mem, TX_buff, RX_buff, TX_count, RX_count, aux, aux2,
                 bus, left, CNT, enabled, fifo, reg, cuts, faults,
                 missed, overlap>>

IsrDone ==
  /\ Pending = {"ARDY"}
  /\ condition' = 10 /\ ardy' = FALSE
  /\ UNCHANGED <<users, mem, TX_buff, RX_buff, TX_count, RX_count, aux, aux2,
                 bus, left, CNT, enabled, fifo, reg, cuts, faults,
                 missed, overlap>>

Isr == IsrTx \/ IsrRx \/ IsrDone
Hardware == ByteArrives \/ TransferEnds
Awake(p) == WakeTx(p) \/ WakeRx(p)

Next ==
  \/ \E p \in Procs :
       \/ Open(p) \/ Read(p) \/ CloseFree(p) \/ CloseReset(p)
       \/ StartTx(p) \/ StartRx(p) \/ BusTimeout(p)
       \/ WakeTx(p) \/ WakeRx(p) \/ Cut(p)
  \/ ByteArrives \/ TransferEnds \/ Nack
  \/ IsrTx \/ IsrRx \/ IsrDone

Spec == Init /\ [][Next]_vars

\* The kernel serves the interrupt and runs who was awakened; a transfer goes on.
Fairness ==
  /\ WF_vars(Isr) /\ WF_vars(Hardware)
  /\ \A p \in Procs : WF_vars(Awake(p))

FairSpec == Spec /\ Fairness

-----------------------------------------------------------------------------
(* Properties *)

\* Nothing the driver does not provide for: one process at a time has the device
\* open, and no signal has ended a wait.
Calm == cuts = 0 /\ ~overlap

\* What read() gives the user is the whole answer of the sensor to that read, each
\* byte in its place and none from an earlier transfer, and so is the calibration
\* kept by open(): bmp280_read waits twice on one flag that driver_isr sets.
MeasurementIsWhole ==
  Calm => calib # "torn" /\ \A p \in Procs : kbuff[p] # "torn"

\* driver_isr never finds a byte to write or to read when the buffer it would use is
\* not allocated: driver_release frees both before it switches the controller off.
HandlerOwnsBuffers ==
  Calm => /\ "XRDY" \in Pending => txMem = "live"
          /\ "RRDY" \in Pending => rxMem = "live"

\* The static indices of driver_isr, which no call sets back, stay in the buffers.
\* A wait cut short leaves them where they are, so that each may add one answer.
IndexBound ==
  ~overlap => aux < (cuts + 1) * BufLen /\ aux2 < (cuts + 1) * BufLen

Asleep(p) == pc[p] \in {"waitTx", "waitRx"}

\* A process asleep in bmp280_read is awakened: its completion is not masked, cleared
\* before the transfer, or taken by the other wait.  It says nothing when the controller
\* never reports one, or when driver_isr has cleared the report unread, together with
\* the events it has served: then the process sleeps until a signal.
WaitEnds ==
  \A p \in Procs : Asleep(p) ~> (~Asleep(p) \/ ~Calm \/ faults > 0 \/ missed)
=============================================================================
