-------------------------- MODULE I2cDriver_proofs --------------------------
(***************************************************************************)
(* What is proved of I2cDriver.tla, for any processes and any lengths:     *)
(* type correctness; from the invariant Inv, that a read returns the bytes *)
(* of its own transfer and that the handler stays in live buffers; from    *)
(* IndexInv, how far signals can move the indices of the handler.          *)
(***************************************************************************)
EXTENDS I2cDriver, TLAPS

-----------------------------------------------------------------------------
(* Types *)

LEMMA Lengths ==
  ASSUME NEW c \in Cmds
  PROVE  TxLen[c] \in 1..255 /\ RxLen[c] \in 1..255 /\ RxLen[c] <= BufLen
<1>1. TxLen[c] \in 1..BufLen /\ RxLen[c] \in 1..BufLen /\ BufLen \in 1..255
      BY I2cAssumption
<1>2. QED
      BY <1>1

LEMMA PrepareType ==
  ASSUME NEW p \in Procs, NEW c \in Cmds, TypeOK, Prepare(p, c)
  PROVE  /\ TypeChip'
         /\ pc' \in [Procs -> Places] /\ cmd' \in [Procs -> Cmds]
         /\ TX_buff' \in Cmds /\ RX_buff' \in [Slots -> Bytes]
         /\ TX_count' \in Int /\ RX_count' \in Int
<1> USE DEF TypeOK, Prepare
<1>1. TxLen[c] \in 1..255 /\ RxLen[c] \in 1..255
      BY Lengths
<1>2. fifo' \in Seq(Bytes)
      BY DEF TypeChip, Junk, Bytes
<1>3. TypeChip'
  <2>1. CNT' \in 0..255
        BY <1>1
  <2>2. enabled' \in SUBSET Irqs
        BY DEF Irqs
  <2>3. bus' \in {"idle", "tx", "rx"} /\ left' \in Nat
        BY DEF TypeChip
  <2>4. ardy' \in BOOLEAN /\ reg' \in Cmds \cup {"none"}
        OBVIOUS
  <2>5. QED
        BY <1>2, <2>1, <2>2, <2>3, <2>4 DEF TypeChip
<1>4. pc' \in [Procs -> Places] /\ cmd' \in [Procs -> Cmds]
      BY DEF TypeUsers, Places
<1>5. RX_buff' \in [Slots -> Bytes]
      BY DEF Junk, Bytes
<1>6. QED
      BY <1>1, <1>3, <1>4, <1>5

LEMMA AfterTxType ==
  ASSUME NEW p \in Procs, TypeOK, AfterTx(p)
  PROVE  /\ TypeMem' /\ TypeDriver' /\ TypeChip' /\ TypeUsers'
         /\ faults' = faults /\ overlap' = overlap /\ missed' = missed
<1> USE DEF TypeOK, AfterTx
<1>1. TypeMem'
      BY DEF TypeMem, mem
<1>2. TypeDriver'
      BY DEF TypeDriver
<1>3. TypeChip'
      BY DEF TypeChip, TypeDriver
<1>4. TypeUsers'
      BY DEF TypeUsers, Places
<1>5. QED
      BY <1>1, <1>2, <1>3, <1>4

LEMMA AfterRxType ==
  ASSUME NEW p \in Procs, TypeOK, AfterRx(p)
  PROVE  /\ TypeMem' /\ TypeDriver' /\ TypeChip' /\ TypeUsers'
         /\ faults' = faults /\ overlap' = overlap /\ missed' = missed
<1> USE DEF TypeOK, AfterRx
<1>1. TypeMem'
      BY DEF TypeMem, mem
<1>2. CASE ReturnData(p)
  <2>1. TypeDriver' /\ TypeChip'
        BY <1>2 DEF ReturnData, TypeDriver, TypeChip, chip
  <2>2. TypeUsers'
        BY <1>2 DEF ReturnData, TypeUsers, Places, Taken
  <2>3. QED
        BY <1>1, <2>1, <2>2
<1>3. CASE NextCommand(p)
  <2>1. CASE cmd[p] = "config"
    <3>1. TypeDriver' /\ TypeChip'
          BY <1>3, <2>1 DEF NextCommand, TypeDriver, TypeChip, chip
    <3>2. TypeUsers'
          BY <1>3, <2>1 DEF NextCommand, TypeUsers, Places
    <3>3. QED
          BY <1>1, <3>1, <3>2
  <2>2. CASE cmd[p] # "config"
    <3>1. PICK c \in Cmds : Prepare(p, c)
          BY <1>3, <2>2 DEF NextCommand, Cmds
    <3>2. calib' \in {"none", "whole", "torn"} /\ kbuff' = kbuff
          BY <1>3, <2>2 DEF NextCommand, Taken, TypeUsers
    <3>3. TypeDriver' /\ TypeChip'
          BY <3>1, PrepareType DEF TypeDriver
    <3>4. TypeUsers'
          BY <3>1, <3>2, PrepareType DEF TypeUsers
    <3>5. QED
          BY <1>1, <3>3, <3>4
  <2>3. QED
        BY <2>1, <2>2
<1>4. QED
      BY <1>2, <1>3

LEMMA TypeInit == Init => TypeOK
<1> SUFFICES ASSUME Init PROVE TypeOK
    OBVIOUS
<1> USE DEF Init
<1>1. TypeUsers
      BY DEF TypeUsers, Places, Cmds
<1>2. TypeMem
      BY DEF TypeMem, Pointers
<1>3. TypeDriver
      BY DEF TypeDriver, Cmds, Bytes, Junk
<1>4. TypeChip
  <2>1. enabled \in SUBSET Irqs /\ CNT \in 0..255 /\ fifo \in Seq(Bytes)
        OBVIOUS
  <2>2. QED
        BY <2>1 DEF TypeChip
<1>5. TypeHistory
  <2>1. MaxCuts \in Nat /\ MaxFaults \in Nat
        BY I2cAssumption
  <2>2. cuts \in 0..MaxCuts /\ faults \in 0..MaxFaults
        BY <2>1
  <2>3. QED
        BY <2>2 DEF TypeHistory
<1>6. QED
      BY <1>1, <1>2, <1>3, <1>4, <1>5 DEF TypeOK

LEMMA TypeInductive == TypeOK /\ [Next]_vars => TypeOK'
<1> SUFFICES ASSUME TypeOK, [Next]_vars PROVE TypeOK'
    OBVIOUS
<1> USE DEF TypeOK
<1>1. ASSUME NEW p \in Procs, Open(p) PROVE TypeOK'
  <2> USE <1>1 DEF Open
  <2>1. TypeMem'
        BY DEF TypeMem, Pointers
  <2>2. TypeHistory'
        BY DEF TypeHistory
  <2>3. CASE Prepare(p, "id")
    <3>1. "id" \in Cmds
          BY DEF Cmds
    <3>2. TypeUsers'
          BY <2>3, <3>1, PrepareType DEF TypeUsers
    <3>3. TypeDriver' /\ TypeChip'
          BY <2>3, <3>1, PrepareType DEF TypeDriver
    <3>4. QED
          BY <2>1, <2>2, <3>2, <3>3
  <2>4. CASE UNCHANGED <<pc, cmd, TX_buff, RX_buff, TX_count, RX_count, chip>>
    <3>1. TypeUsers'
          BY <2>4 DEF TypeUsers
    <3>2. TypeDriver' /\ TypeChip'
          BY <2>4 DEF TypeDriver, TypeChip, chip
    <3>3. QED
          BY <2>1, <2>2, <3>1, <3>2
  <2>5. QED
        BY <2>3, <2>4
<1>2. ASSUME NEW p \in Procs, Read(p) PROVE TypeOK'
  <2> USE <1>2 DEF Read
  <2>1. TypeMem' /\ TypeHistory'
        BY DEF TypeMem, TypeHistory, mem
  <2>2. CASE Prepare(p, "data")
    <3>1. "data" \in Cmds
          BY DEF Cmds
    <3>2. TypeUsers'
          BY <2>2, <3>1, PrepareType DEF TypeUsers
    <3>3. TypeDriver' /\ TypeChip'
          BY <2>2, <3>1, PrepareType DEF TypeDriver
    <3>4. QED
          BY <2>1, <3>2, <3>3
  <2>3. CASE UNCHANGED <<pc, cmd, TX_buff, RX_buff, TX_count, RX_count, chip>>
    <3>1. TypeUsers'
          BY <2>3 DEF TypeUsers
    <3>2. TypeDriver' /\ TypeChip'
          BY <2>3 DEF TypeDriver, TypeChip, chip
    <3>3. QED
          BY <2>1, <3>1, <3>2
  <2>4. QED
        BY <2>2, <2>3
<1>3. ASSUME NEW p \in Procs, CloseFree(p) PROVE TypeOK'
  <2>1. TypeUsers'
        BY <1>3 DEF CloseFree, TypeUsers, Places
  <2>2. TypeMem'
        BY <1>3 DEF CloseFree, TypeMem, Pointers
  <2>3. TypeDriver'
        BY <1>3 DEF CloseFree, TypeDriver, driver
  <2>4. TypeChip'
        BY <1>3 DEF CloseFree, TypeChip, chip
  <2>5. TypeHistory'
        BY <1>3 DEF CloseFree, TypeHistory
  <2>6. QED
        BY <2>1, <2>2, <2>3, <2>4, <2>5
<1>4. ASSUME NEW p \in Procs, CloseReset(p) PROVE TypeOK'
  <2>1. TypeUsers'
        BY <1>4 DEF CloseReset, TypeUsers, Places
  <2>2. TypeMem'
        BY <1>4 DEF CloseReset, TypeMem, mem
  <2>3. TypeDriver'
        BY <1>4 DEF CloseReset, TypeDriver, driver
  <2>4. TypeChip'
    <3>1. fifo' \in Seq(Bytes) /\ left' \in Nat
          BY <1>4 DEF CloseReset
    <3>2. QED
          BY <1>4, <3>1 DEF CloseReset, TypeChip
  <2>5. TypeHistory'
        BY <1>4 DEF CloseReset, TypeHistory
  <2>6. QED
        BY <2>1, <2>2, <2>3, <2>4, <2>5
<1>5. ASSUME NEW p \in Procs, StartTx(p) PROVE TypeOK'
  <2>1. TypeUsers'
        BY <1>5 DEF StartTx, TypeUsers, Places
  <2>2. TypeMem'
        BY <1>5 DEF StartTx, TypeMem, mem
  <2>3. TypeDriver'
        BY <1>5 DEF StartTx, TypeDriver, driver
  <2>4. TypeChip'
        BY <1>5 DEF StartTx, TypeChip, chip
  <2>5. TypeHistory'
        BY <1>5 DEF StartTx, TypeHistory
  <2>6. QED
        BY <2>1, <2>2, <2>3, <2>4, <2>5
<1>6. ASSUME NEW p \in Procs, StartRx(p) PROVE TypeOK'
  <2>1. TypeUsers'
        BY <1>6 DEF StartRx, TypeUsers, Places
  <2>2. TypeMem'
        BY <1>6 DEF StartRx, TypeMem, mem
  <2>3. TypeDriver'
        BY <1>6 DEF StartRx, TypeDriver, driver
  <2>4. TypeChip'
    <3>1. enabled' \in SUBSET Irqs /\ left' \in Nat
          BY <1>6 DEF StartRx, TypeChip, Irqs
    <3>2. QED
          BY <1>6, <3>1 DEF StartRx, TypeChip
  <2>5. TypeHistory'
        BY <1>6 DEF StartRx, TypeHistory
  <2>6. QED
        BY <2>1, <2>2, <2>3, <2>4, <2>5
<1>7. ASSUME NEW p \in Procs, BusTimeout(p) PROVE TypeOK'
  <2>1. TypeUsers'
        BY <1>7 DEF BusTimeout, TypeUsers, Places
  <2>2. TypeMem'
        BY <1>7 DEF BusTimeout, TypeMem, mem
  <2>3. TypeDriver'
        BY <1>7 DEF BusTimeout, TypeDriver, driver
  <2>4. TypeChip'
        BY <1>7 DEF BusTimeout, TypeChip, chip
  <2>5. TypeHistory'
        BY <1>7 DEF BusTimeout, TypeHistory
  <2>6. QED
        BY <2>1, <2>2, <2>3, <2>4, <2>5
<1>8. ASSUME NEW p \in Procs, WakeTx(p) PROVE TypeOK'
      BY <1>8, AfterTxType DEF WakeTx, TypeUsers, TypeHistory
<1>9. ASSUME NEW p \in Procs, WakeRx(p) PROVE TypeOK'
      BY <1>9, AfterRxType DEF WakeRx, TypeUsers, TypeHistory
<1>10. ASSUME NEW p \in Procs, Cut(p) PROVE TypeOK'
  <2>1. cuts' \in 0..MaxCuts
        BY <1>10, I2cAssumption DEF Cut, TypeUsers, TypeHistory
  <2>2. AfterTx(p) \/ AfterRx(p)
        BY <1>10 DEF Cut
  <2>3. QED
        BY <2>1, <2>2, AfterTxType, AfterRxType DEF TypeHistory
<1>11. CASE ByteArrives
  <2>1. TypeUsers'
        BY <1>11 DEF ByteArrives, TypeUsers, users
  <2>2. TypeMem'
        BY <1>11 DEF ByteArrives, TypeMem, mem
  <2>3. TypeDriver'
        BY <1>11 DEF ByteArrives, TypeDriver, driver
  <2>4. TypeChip'
    <3>1. fifo' \in Seq(Bytes) /\ left' \in Nat
          BY <1>11 DEF ByteArrives, TypeChip, Junk, Bytes
    <3>2. QED
          BY <1>11, <3>1 DEF ByteArrives, TypeChip
  <2>5. TypeHistory'
        BY <1>11 DEF ByteArrives, TypeHistory
  <2>6. QED
        BY <2>1, <2>2, <2>3, <2>4, <2>5
<1>12. CASE TransferEnds
  <2>1. TypeUsers'
        BY <1>12 DEF TransferEnds, TypeUsers, users
  <2>2. TypeMem'
        BY <1>12 DEF TransferEnds, TypeMem, mem
  <2>3. TypeDriver'
        BY <1>12 DEF TransferEnds, TypeDriver, driver
  <2>4. TypeChip'
        BY <1>12 DEF TransferEnds, TypeChip, chip
  <2>5. TypeHistory'
        BY <1>12 DEF TransferEnds, TypeHistory
  <2>6. QED
        BY <2>1, <2>2, <2>3, <2>4, <2>5
<1>13. CASE Nack
  <2>1. TypeUsers'
        BY <1>13 DEF Nack, TypeUsers, users
  <2>2. TypeMem'
        BY <1>13 DEF Nack, TypeMem, mem
  <2>3. TypeDriver'
        BY <1>13 DEF Nack, TypeDriver, driver
  <2>4. TypeChip'
        BY <1>13 DEF Nack, TypeChip, chip
  <2>5. TypeHistory'
        BY <1>13, I2cAssumption DEF Nack, TypeHistory
  <2>6. QED
        BY <2>1, <2>2, <2>3, <2>4, <2>5
<1>14. CASE IsrTx
  <2>1. TypeUsers'
        BY <1>14 DEF IsrTx, TypeUsers, users
  <2>2. TypeMem'
        BY <1>14 DEF IsrTx, TypeMem, mem
  <2>3. TypeDriver'
        BY <1>14 DEF IsrTx, TypeDriver, driver
  <2>4. TypeChip'
    <3>1. left' \in Nat
          BY <1>14 DEF IsrTx, TypeChip, Pending, Raised
    <3>2. enabled' \in SUBSET Irqs
          BY <1>14 DEF IsrTx, TypeChip, Irqs
    <3>3. reg' \in Cmds \cup {"none"}
          BY <1>14 DEF IsrTx, TypeChip, TypeDriver
    <3>4. QED
          BY <1>14, <3>1, <3>2, <3>3 DEF IsrTx, TypeChip
  <2>5. TypeHistory'
        BY <1>14 DEF IsrTx, TypeHistory
  <2>6. QED
        BY <2>1, <2>2, <2>3, <2>4, <2>5
<1>15. CASE IsrRx
  <2>1. TypeUsers'
        BY <1>15 DEF IsrRx, TypeUsers, users
  <2>2. TypeMem'
        BY <1>15 DEF IsrRx, TypeMem, mem
  <2>3. TypeDriver'
    <3>1. Head(fifo) \in Bytes
          BY <1>15 DEF IsrRx, Pending, Raised, TypeChip
    <3>2. RX_buff' \in [Slots -> Bytes]
          BY <1>15, <3>1 DEF IsrRx, TypeDriver
    <3>3. aux2' \in Nat /\ RX_count' \in Int
          BY <1>15 DEF IsrRx, TypeDriver
    <3>4. QED
          BY <1>15, <3>2, <3>3 DEF IsrRx, TypeDriver
  <2>4. TypeChip'
    <3>1. fifo' \in Seq(Bytes)
          BY <1>15 DEF IsrRx, Pending, Raised, TypeChip
    <3>2. enabled' \in SUBSET Irqs
          BY <1>15 DEF IsrRx, TypeChip, Irqs
    <3>3. bus' \in {"idle", "tx", "rx"}
          BY <1>15 DEF IsrRx, TypeChip
    <3>4. QED
          BY <1>15, <3>1, <3>2, <3>3 DEF IsrRx, TypeChip
  <2>5. TypeHistory'
        BY <1>15, I2cAssumption DEF IsrRx, TypeHistory
  <2>6. QED
        BY <2>1, <2>2, <2>3, <2>4, <2>5
<1>16. CASE IsrDone
  <2>1. TypeUsers'
        BY <1>16 DEF IsrDone, TypeUsers, users
  <2>2. TypeMem'
        BY <1>16 DEF IsrDone, TypeMem, mem
  <2>3. TypeDriver'
        BY <1>16 DEF IsrDone, TypeDriver, driver
  <2>4. TypeChip'
        BY <1>16 DEF IsrDone, TypeChip, chip
  <2>5. TypeHistory'
        BY <1>16 DEF IsrDone, TypeHistory
  <2>6. QED
        BY <2>1, <2>2, <2>3, <2>4, <2>5
<1>17. CASE UNCHANGED vars
      BY <1>17 DEF vars, users, mem, driver, chip, TypeUsers, TypeMem, TypeDriver,
                 TypeChip, TypeHistory
<1>18. QED
      BY <1>1, <1>2, <1>3, <1>4, <1>5, <1>6, <1>7, <1>8, <1>9, <1>10, <1>11, <1>12, <1>13, <1>14, <1>15, <1>16, <1>17 DEF Next

\* Every variable keeps its type: in particular the controller is never given a
\* length its register does not hold.
THEOREM TypeCorrect == Spec => []TypeOK
      BY TypeInit, TypeInductive, PTL DEF Spec

-----------------------------------------------------------------------------
(* A calm driver: one process at a time, no wait cut short *)

\* Nothing of a transfer is left over in the controller or in the handler.
Quiet ==
  /\ bus = "idle" /\ left = 0 /\ fifo = <<>> /\ ardy = FALSE
  /\ condition = 0 /\ aux = 0 /\ aux2 = 0

Sent(c) == TxLen[c] - TX_count
Received(c) == RxLen[c] - RX_count

\* The flag, or the completion that will set it, means that the transfer is over.
Reported(count) ==
  /\ ardy = TRUE => bus = "idle" /\ count = 0 /\ condition = 0
  /\ condition # 0 => bus = "idle" /\ count = 0

Requested(c) == TX_buff = c /\ RX_count = RxLen[c]

ReadyTx(c) == Requested(c) /\ TX_count = TxLen[c] /\ CNT = TxLen[c]

\* What has been sent is missing from TX_count, and the next byte is the one at aux.
Sending(c) ==
  /\ Requested(c)
  /\ TX_count \in 0..TxLen[c]
  /\ aux = (IF TX_count = 0 THEN 0 ELSE Sent(c))
  /\ Sent(c) > 0 => reg = c
  /\ bus = "tx" => left = TX_count
  /\ bus = "idle" => left = 0
  /\ bus # "rx" /\ fifo = <<>> /\ aux2 = 0
  /\ Reported(TX_count)

ReadyRx(c) == RX_count = RxLen[c] /\ CNT = RxLen[c] /\ reg = c

\* The answer is in RX_buff up to aux2, goes on in the fifo, and the rest is to come.
Receiving(c) ==
  /\ RX_count \in 0..RxLen[c]
  /\ aux2 = (IF RX_count = 0 THEN 0 ELSE Received(c))
  /\ CNT = RxLen[c] /\ reg = c
  /\ bus = "rx" => left + Len(fifo) = RX_count
  /\ bus = "idle" => left = 0 /\ Len(fifo) <= RX_count
  /\ bus # "tx" /\ aux = 0
  /\ \A i \in Slots : i < Received(c) => RX_buff[i] = <<c, i>>
  /\ \A j \in 1..Len(fifo) : fifo[j] = <<c, Received(c) + j - 1>>
  /\ Reported(RX_count)

Awakens == {"open", "busTx", "busRx", "freed"}

\* What holds where a process is.
Place(p) ==
  /\ pc[p] \in Awakens => Quiet
  /\ pc[p] \notin {"closed", "freed"} => txMem = "live" /\ rxMem = "live"
  /\ pc[p] = "busTx" => ReadyTx(cmd[p])
  /\ pc[p] = "waitTx" => Sending(cmd[p])
  /\ pc[p] = "busRx" => ReadyRx(cmd[p])
  /\ pc[p] = "waitRx" => Receiving(cmd[p])

Alone(p) == \A q \in Procs : q # p => pc[q] = "closed"
Delivered == calib # "torn" /\ \A p \in Procs : kbuff[p] # "torn"

Core ==
  /\ \A p \in Procs : pc[p] # "closed" => Alone(p)
  /\ (\A p \in Procs : pc[p] = "closed") => Quiet
  /\ \A p \in Procs : Place(p)
  /\ Delivered

Inv == Calm => Core

\* It is enough to look at the process that is alone after a step.
LEMMA Gather ==
  ASSUME NEW p \in Procs, Alone(p)', Place(p)', pc'[p] = "closed" => Quiet', Delivered'
  PROVE  Core'
<1>1. \A q \in Procs : pc'[q] # "closed" => Alone(q)'
      BY DEF Alone
<1>2. (\A q \in Procs : pc'[q] = "closed") => Quiet'
      OBVIOUS
<1>3. ASSUME NEW q \in Procs PROVE Place(q)'
  <2>1. CASE q = p
        BY <2>1
  <2>2. CASE q # p
    <3>1. pc'[q] = "closed"
          BY <2>2 DEF Alone
    <3>2. QED
          BY <3>1 DEF Place, Awakens
  <2>3. QED
        BY <2>1, <2>2
<1>4. QED
      BY <1>1, <1>2, <1>3 DEF Core

\* While something of a transfer is under way, one process waits for it.
Waits(p, c) ==
  /\ Alone(p) /\ cmd[p] = c
  /\ \/ pc[p] = "waitTx" /\ Sending(c)
     \/ pc[p] = "waitRx" /\ Receiving(c)

LEMMA SomeoneWaits ==
  ASSUME TypeOK, Core, ~Quiet
  PROVE  \E p \in Procs, c \in Cmds : Waits(p, c) /\ txMem = "live" /\ rxMem = "live"
<1>1. PICK p \in Procs : pc[p] # "closed"
      BY DEF Core
<1>2. Alone(p) /\ Place(p)
      BY <1>1 DEF Core
<1>3. pc[p] \in Places /\ pc[p] \notin Awakens /\ cmd[p] \in Cmds
      BY <1>2 DEF Place, TypeOK, TypeUsers
<1>4. pc[p] = "waitTx" \/ pc[p] = "waitRx"
      BY <1>1, <1>3 DEF Places, Awakens
<1>5. Waits(p, cmd[p]) /\ txMem = "live" /\ rxMem = "live"
      BY <1>2, <1>4 DEF Waits, Place
<1>6. QED
      BY <1>3, <1>5

\* A step that leaves the processes where they are.
LEMMA GatherWaiting ==
  ASSUME NEW p \in Procs, NEW c \in Cmds, TypeOK, Core, Waits(p, c),
         users' = users, mem' = mem,
         \/ pc[p] = "waitTx" /\ Sending(c)'
         \/ pc[p] = "waitRx" /\ Receiving(c)'
  PROVE  Core'
<1>1. pc' = pc /\ cmd' = cmd /\ kbuff' = kbuff /\ calib' = calib /\ txMem' = txMem /\ rxMem' = rxMem
      BY DEF users, mem
<1>2. Alone(p)' /\ Delivered' /\ cmd'[p] = c
      BY <1>1 DEF Waits, Alone, Delivered, Core
<1>3. txMem' = "live" /\ rxMem' = "live"
  <2>1. Place(p) /\ pc[p] \notin {"closed", "freed"}
        BY DEF Core, Waits
  <2>2. QED
        BY <1>1, <2>1 DEF Place
<1>4. Place(p)'
  <2>1. CASE pc[p] = "waitTx" /\ Sending(c)'
    <3>1. Sending(cmd[p])'
          BY <1>2, <2>1 DEF Sending, Requested, Sent
    <3>2. QED
          BY <1>1, <1>3, <2>1, <3>1 DEF Place, Awakens
  <2>2. CASE pc[p] = "waitRx" /\ Receiving(c)'
    <3>1. Receiving(cmd[p])'
          BY <1>2, <2>2 DEF Receiving, Received
    <3>2. QED
          BY <1>1, <1>3, <2>2, <3>1 DEF Place, Awakens
  <2>3. QED
        BY <2>1, <2>2
<1>5. QED
      BY <1>1, <1>2, <1>4, Gather

\* A length fits the register.
LEMMA ByteLength == \A n \in 1..255 : n % 256 = n
      OBVIOUS

LEMMA PrepareCore ==
  ASSUME NEW p \in Procs, NEW c \in Cmds, TypeOK, Prepare(p, c), Alone(p),
         bus = "idle", left = 0, fifo = <<>>, condition' = 0, aux' = 0, aux2' = 0,
         txMem' = "live", rxMem' = "live", Delivered'
  PROVE  Core'
<1>1. pc'[p] = "busTx" /\ cmd'[p] = c /\ Alone(p)'
      BY DEF Prepare, Alone, TypeOK, TypeUsers
<1>2. Quiet'
      BY DEF Prepare, Quiet
<1>3. TxLen[c] % 256 = TxLen[c]
      BY Lengths, ByteLength
<1>4. ReadyTx(c)'
      BY <1>3 DEF Prepare, ReadyTx, Requested
<1>5. Place(p)'
      BY <1>1, <1>2, <1>4 DEF Place
<1>6. QED
      BY <1>1, <1>5, Gather

LEMMA CalmBefore == TypeOK /\ [Next]_vars /\ Calm' => Calm
<1> SUFFICES ASSUME TypeOK, [Next]_vars, Calm' PROVE Calm
    OBVIOUS
<1>1. cuts' = 0 /\ overlap' = FALSE
      BY DEF Calm
<1>2. (cuts' = cuts \/ cuts' = cuts + 1) /\ (overlap => overlap')
  <2>1. ASSUME NEW p \in Procs,
               \/ Open(p) \/ Read(p) \/ CloseFree(p) \/ CloseReset(p)
               \/ StartTx(p) \/ StartRx(p) \/ BusTimeout(p)
        PROVE  cuts' = cuts /\ (overlap => overlap')
    <3>1. CASE Open(p)
          BY <3>1 DEF Open
    <3>2. CASE Read(p)
          BY <3>2 DEF Read
    <3>3. CASE CloseFree(p) \/ CloseReset(p)
          BY <3>3 DEF CloseFree, CloseReset
    <3>4. CASE StartTx(p) \/ StartRx(p) \/ BusTimeout(p)
          BY <3>4 DEF StartTx, StartRx, BusTimeout
    <3>5. QED
          BY <2>1, <3>1, <3>2, <3>3, <3>4
  <2>2. ASSUME NEW p \in Procs, WakeTx(p) \/ WakeRx(p)
        PROVE  cuts' = cuts /\ (overlap => overlap')
        BY <2>2 DEF WakeTx, WakeRx, AfterTx, AfterRx
  <2>3. ASSUME NEW p \in Procs, Cut(p)
        PROVE  cuts' = cuts + 1 /\ (overlap => overlap')
        BY <2>3 DEF Cut, AfterTx, AfterRx
  <2>4. ASSUME ByteArrives \/ TransferEnds \/ Nack \/ IsrTx \/ IsrRx \/ IsrDone
        PROVE  cuts' = cuts /\ (overlap => overlap')
        BY <2>4 DEF ByteArrives, TransferEnds, Nack, IsrTx, IsrRx, IsrDone
  <2>5. ASSUME UNCHANGED vars PROVE cuts' = cuts /\ (overlap => overlap')
        BY <2>5 DEF vars
  <2>6. QED
        BY <2>1, <2>2, <2>3, <2>4, <2>5 DEF Next
<1>3. QED
      BY <1>1, <1>2 DEF Calm, TypeOK, TypeHistory

LEMMA OpenCore ==
  ASSUME NEW p \in Procs, TypeOK, Core, Open(p), Calm' PROVE Core'
<1>1. \A q \in Procs : pc[q] = "closed"
      BY DEF Open, Calm
<1>2. Quiet /\ Alone(p)
      BY <1>1 DEF Core, Alone
<1>3. Delivered'
      BY DEF Open, Delivered, Core, TypeOK, TypeUsers
<1>4. CASE Prepare(p, "id")
  <2>1. txMem' = "live" /\ rxMem' = "live"
        BY <1>1, <1>4 DEF Open, Prepare, TypeOK, TypeUsers
  <2>2. "id" \in Cmds
        BY DEF Cmds
  <2>3. QED
        BY <1>2, <1>3, <1>4, <2>1, <2>2, PrepareCore DEF Open, Quiet
<1>5. CASE UNCHANGED <<pc, cmd, TX_buff, RX_buff, TX_count, RX_count, chip>>
  <2>1. Quiet'
        BY <1>2, <1>5 DEF Open, Quiet, chip
  <2>2. Alone(p)' /\ Place(p)'
        BY <1>1, <1>5 DEF Alone, Place, Awakens
  <2>3. QED
        BY <1>3, <2>1, <2>2, Gather
<1>6. QED
      BY <1>4, <1>5 DEF Open

LEMMA ReadCore ==
  ASSUME NEW p \in Procs, TypeOK, Core, Read(p) PROVE Core'
<1>1. pc[p] = "open" /\ Alone(p) /\ Place(p)
      BY DEF Read, Core
<1>2. Quiet /\ txMem = "live" /\ rxMem = "live"
      BY <1>1 DEF Place, Awakens
<1>3. Delivered'
      BY DEF Read, Delivered, Core, TypeOK, TypeUsers
<1>4. CASE Prepare(p, "data")
  <2>1. "data" \in Cmds
        BY DEF Cmds
  <2>2. QED
        BY <1>1, <1>2, <1>3, <1>4, <2>1, PrepareCore DEF Read, Quiet, mem
<1>5. CASE UNCHANGED <<pc, cmd, TX_buff, RX_buff, TX_count, RX_count, chip>>
  <2>1. Quiet'
        BY <1>2, <1>5 DEF Read, Quiet, chip
  <2>2. Alone(p)' /\ Place(p)'
        BY <1>1, <1>2, <1>5, <2>1 DEF Read, Alone, Place, Awakens, mem
  <2>3. QED
        BY <1>3, <2>1, <2>2, Gather
<1>6. QED
      BY <1>4, <1>5 DEF Read

LEMMA CloseCore ==
  ASSUME NEW p \in Procs, TypeOK, Core, CloseFree(p) \/ CloseReset(p) PROVE Core'
<1>1. pc[p] \in {"open", "freed"} /\ Alone(p) /\ Place(p)
      BY DEF CloseFree, CloseReset, Core
<1>2. Quiet
      BY <1>1 DEF Place, Awakens
<1>3. Quiet'
      BY <1>2 DEF CloseFree, CloseReset, Quiet, driver, chip
<1>4. pc'[p] \in {"freed", "closed"} /\ Alone(p)'
      BY <1>1 DEF CloseFree, CloseReset, Alone, TypeOK, TypeUsers
<1>5. Place(p)'
      BY <1>3, <1>4 DEF Place, Awakens
<1>6. Delivered'
      BY DEF CloseFree, CloseReset, Delivered, Core
<1>7. QED
      BY <1>3, <1>4, <1>5, <1>6, Gather

LEMMA StartTxCore ==
  ASSUME NEW p \in Procs, TypeOK, Core, StartTx(p) PROVE Core'
<1>1. pc[p] = "busTx" /\ Alone(p) /\ Place(p) /\ cmd[p] \in Cmds
      BY DEF StartTx, Core, TypeOK, TypeUsers
<1>2. Quiet /\ ReadyTx(cmd[p]) /\ txMem = "live" /\ rxMem = "live"
      BY <1>1 DEF Place, Awakens
<1>3. pc'[p] = "waitTx" /\ cmd' = cmd /\ Alone(p)'
      BY <1>1 DEF StartTx, Alone, TypeOK, TypeUsers
<1>4. TxLen[cmd[p]] \in 1..255
      BY <1>1, Lengths
<1>5. Sending(cmd[p])'
  <2>1. TX_count' = TxLen[cmd[p]] /\ left' = TX_count' /\ bus' = "tx"
        BY <1>2 DEF StartTx, ReadyTx, driver
  <2>2. aux' = 0 /\ aux2' = 0 /\ fifo' = <<>> /\ ardy' = FALSE /\ condition' = 0
        BY <1>2 DEF StartTx, Quiet, driver
  <2>3. Requested(cmd[p])' /\ Reported(TX_count)'
        BY <1>2, <1>3, <2>1, <2>2 DEF StartTx, ReadyTx, Requested, Reported, driver
  <2>4. Sent(cmd[p])' = 0
        BY <1>3, <1>4, <2>1 DEF Sent
  <2>5. TX_count' \in 0..TxLen[cmd'[p]]
        BY <1>3, <1>4, <2>1
  <2>6. Sent(cmd[p])' > 0 => reg' = cmd'[p]
        BY <2>4
  <2>7. aux' = (IF TX_count' = 0 THEN 0 ELSE Sent(cmd[p])')
        BY <2>2, <2>4
  <2>8. QED
        BY <2>1, <2>2, <2>3, <2>5, <2>6, <2>7 DEF Sending
<1>6. Place(p)'
      BY <1>2, <1>3, <1>5 DEF StartTx, Place, Awakens, mem
<1>7. Delivered'
      BY DEF StartTx, Delivered, Core
<1>8. QED
      BY <1>3, <1>6, <1>7, Gather

LEMMA WakeTxCore ==
  ASSUME NEW p \in Procs, TypeOK, Core, WakeTx(p) PROVE Core'
<1>1. pc[p] = "waitTx" /\ Alone(p) /\ Place(p) /\ cmd[p] \in Cmds
      BY DEF WakeTx, AfterTx, Core, TypeOK, TypeUsers
<1>2. Sending(cmd[p]) /\ txMem = "live" /\ rxMem = "live"
      BY <1>1 DEF Place
<1>3. TxLen[cmd[p]] \in 1..255 /\ RxLen[cmd[p]] \in 1..255
      BY <1>1, Lengths
<1>4. bus = "idle" /\ TX_count = 0 /\ ardy = FALSE
      BY <1>2 DEF WakeTx, Sending, Reported, TypeOK, TypeChip
<1>5. Quiet'
      BY <1>2, <1>4 DEF WakeTx, AfterTx, Sending, Quiet
<1>6. RxLen[cmd[p]] % 256 = RxLen[cmd[p]]
      BY <1>3, ByteLength
<1>7. reg = cmd[p] /\ RX_count = RxLen[cmd[p]]
  <2>1. Sent(cmd[p]) > 0
        BY <1>3, <1>4 DEF Sent
  <2>2. QED
        BY <1>2, <2>1 DEF Sending, Requested
<1>8. pc'[p] = "busRx" /\ cmd' = cmd /\ Alone(p)' /\ ReadyRx(cmd[p])'
  <2>1. pc'[p] = "busRx" /\ cmd' = cmd /\ Alone(p)'
        BY <1>1 DEF WakeTx, AfterTx, Alone, TypeOK, TypeUsers
  <2>2. ReadyRx(cmd[p])'
        BY <1>6, <1>7, <2>1 DEF WakeTx, AfterTx, ReadyRx
  <2>3. QED
        BY <2>1, <2>2
<1>9. Place(p)'
      BY <1>2, <1>5, <1>8 DEF WakeTx, AfterTx, Place, mem
<1>10. Delivered'
       BY DEF WakeTx, AfterTx, Delivered, Core
<1>11. QED
       BY <1>8, <1>9, <1>10, Gather

LEMMA StartRxCore ==
  ASSUME NEW p \in Procs, TypeOK, Core, StartRx(p) PROVE Core'
<1>1. pc[p] = "busRx" /\ Alone(p) /\ Place(p) /\ cmd[p] \in Cmds
      BY DEF StartRx, Core, TypeOK, TypeUsers
<1>2. Quiet /\ ReadyRx(cmd[p]) /\ txMem = "live" /\ rxMem = "live"
      BY <1>1 DEF Place, Awakens
<1>3. pc'[p] = "waitRx" /\ cmd' = cmd /\ Alone(p)'
      BY <1>1 DEF StartRx, Alone, TypeOK, TypeUsers
<1>4. RxLen[cmd[p]] \in 1..255
      BY <1>1, Lengths
<1>5. Receiving(cmd[p])'
  <2>1. RX_count' = RxLen[cmd[p]] /\ CNT' = RxLen[cmd[p]] /\ reg' = cmd[p]
        BY <1>2 DEF StartRx, ReadyRx, driver
  <2>2. left' = RX_count' /\ bus' = "rx"
        BY <1>2 DEF StartRx, ReadyRx, driver
  <2>3. aux' = 0 /\ aux2' = 0 /\ fifo' = <<>> /\ ardy' = FALSE /\ condition' = 0
        BY <1>2 DEF StartRx, Quiet, driver
  <2>4. Received(cmd[p])' = 0
        BY <1>3, <1>4, <2>1 DEF Received
  <2>5. \A i \in Slots : ~(i < Received(cmd[p])')
        BY <2>4 DEF Slots
  <2>6. Len(fifo') = 0
        BY <2>3
  <2>7. Reported(RX_count)'
        BY <2>2, <2>3 DEF Reported
  <2>8. RX_count' \in Int /\ left' + 0 = RX_count'
        BY <1>4, <2>1, <2>2
  <2>9. left' + Len(fifo') = RX_count'
        BY <2>6, <2>8
  <2>10. RX_count' \in 0..RxLen[cmd'[p]] /\ CNT' = RxLen[cmd'[p]] /\ reg' = cmd'[p]
         BY <1>3, <1>4, <2>1
  <2>11. aux2' = (IF RX_count' = 0 THEN 0 ELSE Received(cmd[p])')
         BY <2>3, <2>4
  <2>12. \A i \in Slots : i < Received(cmd[p])' => RX_buff'[i] = <<cmd'[p], i>>
         BY <2>5
  <2>13. \A j \in 1..Len(fifo') : fifo'[j] = <<cmd'[p], Received(cmd[p])' + j - 1>>
         BY <2>6
  <2>14. bus' # "tx" /\ bus' # "idle"
         BY <2>2
  <2>15. QED
         BY <2>3, <2>7, <2>9, <2>10, <2>11, <2>12, <2>13, <2>14 DEF Receiving
<1>6. Place(p)'
      BY <1>2, <1>3, <1>5 DEF StartRx, Place, Awakens, mem
<1>7. Delivered'
      BY DEF StartRx, Delivered, Core
<1>8. QED
      BY <1>3, <1>6, <1>7, Gather

LEMMA BusTimeoutCore ==
  ASSUME NEW p \in Procs, TypeOK, Core, BusTimeout(p) PROVE Core'
<1>1. pc[p] \in {"busTx", "busRx"} /\ Alone(p) /\ Place(p)
      BY DEF BusTimeout, Core
<1>2. Quiet /\ txMem = "live" /\ rxMem = "live"
      BY <1>1 DEF Place, Awakens
<1>3. Quiet'
      BY <1>2 DEF BusTimeout, Quiet, driver, chip
<1>4. pc'[p] = "open" /\ Alone(p)'
      BY <1>1 DEF BusTimeout, Alone, TypeOK, TypeUsers
<1>5. Place(p)'
      BY <1>2, <1>3, <1>4 DEF BusTimeout, Place, mem
<1>6. Delivered'
      BY DEF BusTimeout, Delivered, Core
<1>7. QED
      BY <1>4, <1>5, <1>6, Gather

\* When the wait for the answer ends, all of it is in RX_buff.
LEMMA WakeRxCore ==
  ASSUME NEW p \in Procs, TypeOK, Core, WakeRx(p) PROVE Core'
<1>1. pc[p] = "waitRx" /\ Alone(p) /\ Place(p) /\ cmd[p] \in Cmds
      BY DEF WakeRx, AfterRx, Core, TypeOK, TypeUsers
<1>2. Receiving(cmd[p]) /\ txMem = "live" /\ rxMem = "live"
      BY <1>1 DEF Place
<1>3. RxLen[cmd[p]] \in 1..255 /\ RxLen[cmd[p]] <= BufLen /\ BufLen \in 1..255
      BY <1>1, Lengths, I2cAssumption
<1>4. bus = "idle" /\ RX_count = 0 /\ left = 0 /\ ardy = FALSE /\ aux = 0 /\ aux2 = 0
      BY <1>2 DEF WakeRx, Receiving, Reported, TypeOK, TypeChip
<1>5. fifo = <<>>
  <2>1. Len(fifo) <= 0 /\ fifo \in Seq(Bytes)
        BY <1>2, <1>4 DEF Receiving, TypeOK, TypeChip
  <2>2. QED
        BY <2>1
<1>6. Whole(cmd[p])
  <2>1. Received(cmd[p]) = RxLen[cmd[p]]
        BY <1>3, <1>4 DEF Received
  <2>2. ASSUME NEW i \in 0..(RxLen[cmd[p]] - 1) PROVE RX_buff[i] = <<cmd[p], i>>
    <3>1. i \in Slots /\ i < Received(cmd[p])
          BY <1>3, <2>1 DEF Slots
    <3>2. QED
          BY <1>2, <3>1 DEF Receiving
  <2>3. QED
        BY <2>2 DEF Whole
<1>7. condition' = 0 /\ aux' = 0 /\ aux2' = 0 /\ txMem' = "live" /\ rxMem' = "live"
      BY <1>2, <1>4 DEF WakeRx, AfterRx, mem
<1>8. CASE ReturnData(p) \/ (NextCommand(p) /\ cmd[p] = "config")
  <2>1. pc'[p] = "open" /\ Alone(p)'
        BY <1>1, <1>8 DEF ReturnData, NextCommand, Alone, TypeOK, TypeUsers
  <2>2. UNCHANGED chip
        BY <1>8 DEF ReturnData, NextCommand
  <2>3. Quiet'
        BY <1>4, <1>5, <1>7, <2>2 DEF Quiet, chip
  <2>4. Place(p)'
        BY <1>7, <2>1, <2>3 DEF Place
  <2>5. Delivered'
    <3>1. CASE ReturnData(p)
          BY <1>6, <3>1 DEF ReturnData, Taken, Delivered, Core, TypeOK, TypeUsers
    <3>2. CASE NextCommand(p) /\ cmd[p] = "config"
          BY <3>2 DEF NextCommand, Delivered, Core
    <3>3. QED
          BY <1>8, <3>1, <3>2
  <2>6. QED
        BY <2>1, <2>4, <2>5, Gather
<1>9. CASE NextCommand(p) /\ cmd[p] # "config"
  <2>1. PICK c \in Cmds : Prepare(p, c)
        BY <1>9 DEF NextCommand, Cmds
  <2>2. Delivered'
        BY <1>6, <1>9 DEF NextCommand, Taken, Delivered, Core
  <2>3. QED
        BY <1>1, <1>4, <1>5, <1>7, <2>1, <2>2, PrepareCore
<1>10. QED
       BY <1>8, <1>9 DEF WakeRx, AfterRx

(* The controller and the handler, while one process waits. *)

LEMMA ByteArrivesCore ==
  ASSUME TypeOK, Core, ByteArrives PROVE Core'
<1>1. ~Quiet
      BY DEF ByteArrives, Quiet
<1>2. PICK p \in Procs, c \in Cmds : Waits(p, c)
      BY <1>1, SomeoneWaits
<1>3. pc[p] = "waitRx" /\ Receiving(c)
      BY <1>2 DEF ByteArrives, Waits, Sending
<1>4. RxLen[c] \in 1..255
      BY Lengths
<1>5. fifo \in Seq(Bytes) /\ left \in Nat
      BY DEF TypeOK, TypeChip
<1>6. reg = c /\ CNT - left = Received(c) + Len(fifo) /\ c # "none"
  <2>1. reg = c /\ CNT = RxLen[c] /\ left + Len(fifo) = RX_count /\ c # "none"
        BY <1>3 DEF ByteArrives, Receiving, Cmds
  <2>2. RxLen[c] \in Int
        BY <1>4
  <2>3. Len(fifo) \in Int /\ left \in Int
        BY <1>5
  <2>4. RX_count \in Int
        BY DEF TypeOK, TypeDriver
  <2>5. CNT - left = (RxLen[c] - RX_count) + Len(fifo)
        BY <2>1, <2>2, <2>3, <2>4
  <2>6. QED
        BY <2>1, <2>5 DEF Received
<1>7. fifo' = Append(fifo, <<c, Received(c) + Len(fifo)>>)
      BY <1>6 DEF ByteArrives
<1>8. Len(fifo') = Len(fifo) + 1
      BY <1>5, <1>7
<1>9. Received(c)' = Received(c)
      BY DEF ByteArrives, Received, driver
<1>10. ASSUME NEW j \in 1..Len(fifo') PROVE fifo'[j] = <<c, Received(c)' + j - 1>>
  <2>1. CASE j = Len(fifo) + 1
    <3>1. fifo'[j] = <<c, Received(c) + Len(fifo)>>
          BY <1>5, <1>7, <2>1
    <3>2. Received(c) + j - 1 = Received(c) + Len(fifo)
          BY <1>3, <1>4, <1>5, <2>1 DEF Receiving, Received
    <3>3. QED
          BY <1>9, <3>1, <3>2
  <2>2. CASE j # Len(fifo) + 1
    <3>1. j \in 1..Len(fifo) /\ fifo'[j] = fifo[j]
          BY <1>5, <1>7, <1>8, <2>2
    <3>2. QED
          BY <1>3, <1>9, <3>1 DEF Receiving
  <2>3. QED
        BY <2>1, <2>2
<1>11. Receiving(c)'
  <2>1. left' + Len(fifo') = RX_count'
        BY <1>3, <1>5, <1>8 DEF ByteArrives, Receiving, driver
  <2>2. Reported(RX_count)'
        BY <1>3 DEF ByteArrives, Receiving, Reported, driver
  <2>3. QED
        BY <1>3, <1>9, <1>10, <2>1, <2>2 DEF ByteArrives, Receiving, driver
<1>12. QED
       BY <1>2, <1>3, <1>11, GatherWaiting DEF ByteArrives

LEMMA TransferEndsCore ==
  ASSUME TypeOK, Core, TransferEnds PROVE Core'
<1>1. ~Quiet
      BY DEF TransferEnds, Quiet
<1>2. PICK p \in Procs, c \in Cmds : Waits(p, c)
      BY <1>1, SomeoneWaits
<1>3. RxLen[c] \in 1..255 /\ TxLen[c] \in 1..255
      BY Lengths
<1>4. CASE pc[p] = "waitTx" /\ Sending(c)
  <2>1. bus = "tx" /\ TX_count = 0 /\ condition = 0
        BY <1>4 DEF TransferEnds, Sending, Reported
  <2>2. Reported(TX_count)'
        BY <2>1 DEF TransferEnds, Reported, driver
  <2>3. Sent(c)' = Sent(c) /\ Requested(c)'
        BY <1>4 DEF TransferEnds, Sending, Sent, Requested, driver
  <2>4. Sending(c)'
        BY <1>4, <2>2, <2>3 DEF TransferEnds, Sending, driver
  <2>5. QED
        BY <1>2, <1>4, <2>4, GatherWaiting DEF TransferEnds
<1>5. CASE pc[p] = "waitRx" /\ Receiving(c)
  <2>1. bus = "rx" /\ fifo = <<>> /\ left = 0
        BY <1>5 DEF TransferEnds, Receiving
  <2>2. RX_count = 0 /\ condition = 0
        BY <1>5, <2>1 DEF Receiving, Reported
  <2>3. Reported(RX_count)'
        BY <2>2 DEF TransferEnds, Reported, driver
  <2>4. Received(c)' = Received(c) /\ Len(fifo') <= RX_count'
        BY <2>1, <2>2 DEF TransferEnds, Received, driver
  <2>5. Receiving(c)'
        BY <1>5, <2>1, <2>3, <2>4 DEF TransferEnds, Receiving, driver
  <2>6. QED
        BY <1>2, <1>5, <2>5, GatherWaiting DEF TransferEnds
<1>6. QED
      BY <1>2, <1>4, <1>5 DEF Waits

LEMMA NackCore ==
  ASSUME TypeOK, Core, Nack PROVE Core'
<1>1. ~Quiet
      BY DEF Nack, Quiet
<1>2. PICK p \in Procs, c \in Cmds : Waits(p, c)
      BY <1>1, SomeoneWaits
<1>3. CASE pc[p] = "waitTx" /\ Sending(c)
  <2>1. Reported(TX_count)' /\ Sent(c)' = Sent(c) /\ Requested(c)'
        BY <1>3 DEF Nack, Sending, Reported, Sent, Requested, driver
  <2>2. Sending(c)'
        BY <1>3, <2>1 DEF Nack, Sending, driver
  <2>3. QED
        BY <1>2, <1>3, <2>2, GatherWaiting DEF Nack
<1>4. CASE pc[p] = "waitRx" /\ Receiving(c)
  <2>1. Reported(RX_count)' /\ Received(c)' = Received(c)
        BY <1>4 DEF Nack, Receiving, Reported, Received, driver
  <2>2. bus = "rx"
        BY <1>4 DEF Nack, Receiving, TypeOK, TypeChip
  <2>3. Len(fifo') <= RX_count'
        BY <1>4, <2>2 DEF Nack, Receiving, TypeOK, TypeChip, driver
  <2>4. Receiving(c)'
        BY <1>4, <2>1, <2>3 DEF Nack, Receiving, driver
  <2>5. QED
        BY <1>2, <1>4, <2>4, GatherWaiting DEF Nack
<1>5. QED
      BY <1>2, <1>3, <1>4 DEF Waits

\* The command goes out from TX_buff[0] on, and the index is back at 0 at its end.
LEMMA IsrTxCore ==
  ASSUME TypeOK, Core, IsrTx PROVE Core'
<1>1. bus = "tx" /\ left > 0
      BY DEF IsrTx, Pending, Raised
<1>2. PICK p \in Procs, c \in Cmds : Waits(p, c)
      BY <1>1, SomeoneWaits DEF Quiet
<1>3. pc[p] = "waitTx" /\ Sending(c)
      BY <1>1, <1>2 DEF Waits, Receiving
<1>4. TxLen[c] \in 1..255 /\ left \in Nat
      BY Lengths DEF TypeOK, TypeChip
<1>5. TX_count = left /\ TX_count \in 1..TxLen[c] /\ condition = 0
      BY <1>1, <1>3, <1>4 DEF Sending, Reported
<1>6. aux = Sent(c) /\ TX_buff = c
      BY <1>3, <1>5 DEF Sending, Requested
<1>7. reg' = c
  <2>1. CASE aux = 0
        BY <1>6, <2>1 DEF IsrTx
  <2>2. CASE aux # 0
    <3>1. Sent(c) > 0
          BY <1>4, <1>5, <1>6, <2>2 DEF Sent
    <3>2. QED
          BY <1>3, <2>2, <3>1 DEF IsrTx, Sending
  <2>3. QED
        BY <2>1, <2>2
<1>8. TX_count' = TX_count - 1 /\ TX_count' \in 0..TxLen[c] /\ left' = TX_count'
      BY <1>4, <1>5 DEF IsrTx
<1>9. Sent(c)' = Sent(c) + 1
      BY <1>4, <1>5, <1>8 DEF Sent
<1>10. aux' = (IF TX_count' = 0 THEN 0 ELSE Sent(c)')
  <2>1. CASE TX_count = 1
        BY <1>8, <2>1 DEF IsrTx
  <2>2. CASE TX_count # 1
        BY <1>5, <1>6, <1>8, <1>9, <2>2 DEF IsrTx
  <2>3. QED
        BY <2>1, <2>2
<1>11. Requested(c)' /\ Reported(TX_count)'
       BY <1>3, <1>5 DEF IsrTx, Sending, Requested, Reported
<1>12. Sending(c)'
       BY <1>1, <1>3, <1>7, <1>8, <1>10, <1>11 DEF IsrTx, Sending
<1>13. QED
       BY <1>2, <1>3, <1>12, GatherWaiting DEF IsrTx

\* The byte at the head of the fifo is the one that belongs at aux2.
LEMMA IsrRxCore ==
  ASSUME TypeOK, Core, IsrRx PROVE Core'
<1>1. fifo # <<>> /\ fifo \in Seq(Bytes)
      BY DEF IsrRx, Pending, Raised, TypeOK, TypeChip
<1>2. PICK p \in Procs, c \in Cmds : Waits(p, c)
      BY <1>1, SomeoneWaits DEF Quiet
<1>3. pc[p] = "waitRx" /\ Receiving(c)
      BY <1>1, <1>2 DEF Waits, Sending
<1>4. RxLen[c] \in 1..255 /\ left \in Nat /\ Len(fifo) \in Nat /\ Len(fifo) > 0
      BY <1>1, Lengths DEF TypeOK, TypeChip
<1>5. bus \in {"rx", "idle"}
      BY <1>3 DEF Receiving, TypeOK, TypeChip
<1>6. RX_count \in 1..RxLen[c] /\ Len(fifo) <= RX_count
      BY <1>3, <1>4, <1>5 DEF Receiving
<1>6a. RX_count \in Int /\ RxLen[c] \in Int /\ Received(c) \in Int
  <2>1. RX_count \in Int
        BY DEF TypeOK, TypeDriver
  <2>2. RxLen[c] \in Int
        BY Lengths
  <2>3. QED
        BY <2>1, <2>2 DEF Received
<1>7. ardy = FALSE /\ condition = 0
      BY <1>3, <1>4, <1>6 DEF Receiving, Reported, TypeOK, TypeChip
<1>8. aux2 = Received(c) /\ Head(fifo) = <<c, Received(c)>>
  <2>1. aux2 = Received(c)
        BY <1>3, <1>6 DEF Receiving
  <2>2. Head(fifo) = fifo[1] /\ 1 \in 1..Len(fifo)
        BY <1>1, <1>4
  <2>3. fifo[1] = <<c, Received(c) + 1 - 1>>
        BY <1>3, <2>2 DEF Receiving
  <2>4. Received(c) + 1 - 1 = Received(c)
        BY <1>6a
  <2>5. QED
        BY <2>1, <2>2, <2>3, <2>4
<1>9. RX_count' = RX_count - 1 /\ RX_count' \in 0..RxLen[c] /\ Received(c)' = Received(c) + 1
  <2>1. RX_count' = RX_count - 1
        BY DEF IsrRx
  <2>2. RX_count' \in 0..RxLen[c]
        BY <1>6, <1>6a, <2>1
  <2>3. Received(c)' = Received(c) + 1
    <3>1. \A x, y \in Int : x - (y - 1) = (x - y) + 1
          OBVIOUS
    <3>2. RX_count \in Int /\ RxLen[c] \in Int
          BY <1>6a
    <3>3. Received(c)' = RxLen[c] - (RX_count - 1)
          BY <2>1 DEF Received
    <3>4. RxLen[c] - (RX_count - 1) = (RxLen[c] - RX_count) + 1
          BY <3>1, <3>2
    <3>5. QED
          BY <3>3, <3>4 DEF Received
  <2>4. QED
        BY <2>1, <2>2, <2>3
<1>10. Len(fifo') = Len(fifo) - 1 /\ \A j \in 1..Len(fifo') : fifo'[j] = fifo[j + 1]
       BY <1>1, <1>4 DEF IsrRx
<1>11. aux2' = (IF RX_count' = 0 THEN 0 ELSE Received(c)')
  <2>1. CASE RX_count = 1
        BY <1>9, <2>1 DEF IsrRx
  <2>2. CASE RX_count # 1
        BY <1>6, <1>8, <1>9, <2>2 DEF IsrRx
  <2>3. QED
        BY <2>1, <2>2
<1>12. ASSUME NEW i \in Slots, i < Received(c)' PROVE RX_buff'[i] = <<c, i>>
  <2>1. CASE i = aux2
        BY <1>8, <2>1 DEF IsrRx
  <2>2. CASE i # aux2
    <3>1. i < Received(c)
          BY <1>4, <1>6, <1>8, <1>9, <1>12, <2>2 DEF Received, Slots
    <3>2. QED
          BY <1>3, <2>2, <3>1 DEF IsrRx, Receiving
  <2>3. QED
        BY <2>1, <2>2
<1>13. ASSUME NEW j \in 1..Len(fifo') PROVE fifo'[j] = <<c, Received(c)' + j - 1>>
  <2>1. j + 1 \in 1..Len(fifo) /\ fifo'[j] = fifo[j + 1]
        BY <1>4, <1>10
  <2>2. fifo[j + 1] = <<c, Received(c) + (j + 1) - 1>>
        BY <1>3, <2>1 DEF Receiving
  <2>3. Received(c) + (j + 1) - 1 = Received(c)' + j - 1
        BY <1>9, <1>6a
  <2>4. QED
        BY <2>1, <2>2, <2>3
<1>14. (bus' = bus \/ (bus' = "idle" /\ left = 0)) /\ left' = left
       BY DEF IsrRx
<1>15. bus' = "rx" => left' + Len(fifo') = RX_count'
       BY <1>3, <1>4, <1>6, <1>9, <1>10, <1>14 DEF Receiving
<1>16. bus' = "idle" => left' = 0 /\ Len(fifo') <= RX_count'
       BY <1>3, <1>4, <1>6, <1>9, <1>10, <1>14 DEF Receiving
<1>17. Reported(RX_count)' /\ bus' # "tx"
       BY <1>5, <1>7, <1>14 DEF IsrRx, Reported
<1>18. CNT' = CNT /\ reg' = reg /\ aux' = aux
       BY DEF IsrRx
<1>19. Receiving(c)'
       BY <1>3, <1>9, <1>11, <1>12, <1>13, <1>15, <1>16, <1>17, <1>18 DEF Receiving
<1>20. QED
       BY <1>2, <1>3, <1>19, GatherWaiting DEF IsrRx

LEMMA IsrDoneCore ==
  ASSUME TypeOK, Core, IsrDone PROVE Core'
<1>1. ardy = TRUE
      BY DEF IsrDone, Pending, Raised, TypeOK, TypeChip
<1>2. PICK p \in Procs, c \in Cmds : Waits(p, c)
      BY <1>1, SomeoneWaits DEF Quiet
<1>3. CASE pc[p] = "waitTx" /\ Sending(c)
  <2>1. Reported(TX_count)' /\ Sent(c)' = Sent(c) /\ Requested(c)'
        BY <1>1, <1>3 DEF IsrDone, Sending, Reported, Sent, Requested
  <2>2. Sending(c)'
        BY <1>3, <2>1 DEF IsrDone, Sending
  <2>3. QED
        BY <1>2, <1>3, <2>2, GatherWaiting DEF IsrDone
<1>4. CASE pc[p] = "waitRx" /\ Receiving(c)
  <2>1. Reported(RX_count)' /\ Received(c)' = Received(c)
        BY <1>1, <1>4 DEF IsrDone, Receiving, Reported, Received
  <2>2. Receiving(c)'
        BY <1>4, <2>1 DEF IsrDone, Receiving
  <2>3. QED
        BY <1>2, <1>4, <2>2, GatherWaiting DEF IsrDone
<1>5. QED
      BY <1>2, <1>3, <1>4 DEF Waits

-----------------------------------------------------------------------------
(* The theorems *)

LEMMA InvInit == Init => Inv
<1> SUFFICES ASSUME Init PROVE Core
    BY DEF Inv
<1>1. \A p \in Procs : pc[p] = "closed"
      BY DEF Init
<1>2. Quiet /\ Delivered
      BY DEF Init, Quiet, Delivered
<1>3. \A p \in Procs : Place(p)
      BY <1>1 DEF Place, Awakens
<1>4. QED
      BY <1>1, <1>2, <1>3 DEF Core

LEMMA InvInductive == TypeOK /\ Inv /\ [Next]_vars => Inv'
<1> SUFFICES ASSUME TypeOK, Inv, [Next]_vars, Calm' PROVE Core'
    BY DEF Inv
<1>1. Calm /\ Core
      BY CalmBefore DEF Inv
<1>2. ASSUME NEW p \in Procs, Cut(p) PROVE FALSE
      BY <1>2 DEF Cut, Calm, TypeOK, TypeHistory
<1>3. CASE UNCHANGED vars
      BY <1>1, <1>3 DEF vars, users, mem, driver, chip, Core, Alone, Quiet, Delivered,
         Place, Awakens, ReadyTx, Requested, Sending, Sent, ReadyRx, Receiving, Received,
         Reported
<1>4. QED
      BY <1>1, <1>2, <1>3, OpenCore, ReadCore, CloseCore, StartTxCore, StartRxCore,
         BusTimeoutCore, WakeTxCore, WakeRxCore, ByteArrivesCore, TransferEndsCore,
         NackCore, IsrTxCore, IsrRxCore, IsrDoneCore DEF Next

LEMMA InvAlways == Spec => [](TypeOK /\ Inv)
      BY TypeInit, TypeInductive, InvInit, InvInductive, PTL DEF Spec

\* With one process at a time and no signal in a wait, read() never gives the user a
\* torn or a stale answer and open() never keeps a torn calibration.
THEOREM ReadsAreWhole == Spec => []MeasurementIsWhole
<1>1. Inv => MeasurementIsWhole
      BY DEF Inv, Core, Delivered, MeasurementIsWhole
<1>2. QED
      BY InvAlways, <1>1, PTL

\* Under the same conditions driver_isr never uses a buffer that is not allocated.
THEOREM HandlerIsSafe == Spec => []HandlerOwnsBuffers
<1>1. TypeOK /\ Inv => HandlerOwnsBuffers
  <2> SUFFICES ASSUME TypeOK, Core, "XRDY" \in Pending \/ "RRDY" \in Pending
               PROVE  txMem = "live" /\ rxMem = "live"
      BY DEF Inv, HandlerOwnsBuffers
  <2>1. ~Quiet
        BY DEF Pending, Raised, Quiet
  <2>2. QED
        BY <2>1, SomeoneWaits
<1>2. QED
      BY InvAlways, <1>1, PTL

-----------------------------------------------------------------------------
(* The indices of the handler, with any number of waits cut short *)

Count(b) == IF b THEN 1 ELSE 0
Budget(k) == k * BufLen

\* A wait that a signal cuts short leaves a transfer behind, whose completion comes
\* early for the next wait and may end it before its own transfer is over, and so on.
\* Credit is what that may still cost, in transfers: those paid for by the cuts and by
\* the wait that is going on, less the completions that have come early.
Sleeps == \E p \in Procs : Asleep(p)
Credit == cuts + Count(Sleeps) - Count(condition # 0) - Count(ardy)

\* An index and the bytes it may still be moved by.  A transfer in the other direction
\* may complete early too.
ToSend == IF bus = "tx" THEN left ELSE 0
ToRead == IF "RRDY" \in enabled THEN RX_count ELSE 0
TxCredit == Credit - Count(bus = "rx")
RxCredit == Credit - Count(bus = "tx")
TxPaid == aux + ToSend <= Budget(TxCredit)
RxPaid == aux2 + ToRead <= Budget(RxCredit)
InBudget == aux < Budget(cuts + 1) /\ aux2 < Budget(cuts + 1)

\* The counts of the driver agree with those of the controller, so that a transfer
\* cannot complete while its index has not gone back to 0.
TxCounted ==
  /\ bus = "tx" /\ left = 0 => aux = 0
  /\ "XRDY" \in enabled => TX_count >= 1
  /\ bus = "tx" /\ "XRDY" \in enabled => TX_count \in {1, left}
RxCounted ==
  /\ bus = "rx" /\ left = 0 /\ fifo = <<>> => aux2 = 0
  /\ "RRDY" \in enabled => RX_count >= 1
  /\ "RRDY" \in enabled /\ bus = "rx" => RX_count <= left + Len(fifo)

\* What the registers hold where a process is.
Stage(p) ==
  /\ pc[p] \in {"busTx", "waitTx", "busRx"} => "RRDY" \notin enabled /\ RX_count \in 1..BufLen
  /\ pc[p] = "busTx" => /\ CNT \in 1..BufLen
                        /\ "XRDY" \in enabled => TX_count \in {1, CNT}
                        /\ "XRDY" \in enabled /\ bus = "tx" => TX_count = 1
  /\ pc[p] = "busRx" => CNT = RX_count /\ bus # "rx"
  /\ pc[p] = "waitTx" => bus # "rx"
  /\ pc[p] = "waitRx" => bus # "tx"

OneUser == \A p, q \in Procs : p # q => pc[p] = "closed" \/ pc[q] = "closed"
ClosedIsIdle == (\A p \in Procs : pc[p] = "closed") => bus = "idle"
Stages == \A p \in Procs : Stage(p)

IndexCore == /\ OneUser /\ ClosedIsIdle /\ Stages
             /\ TxCounted /\ RxCounted
             /\ TxPaid /\ RxPaid /\ InBudget
IndexInv == ~overlap => IndexCore

LEMMA BudgetFacts ==
  /\ \A k \in Int : Budget(k) \in Int /\ Budget(k + 1) = Budget(k) + BufLen
  /\ \A k \in Int : Budget(k) >= 0 <=> k >= 0
  /\ \A j, k \in Int : j <= k => Budget(j) <= Budget(k)
<1>1. BufLen \in Int /\ BufLen >= 1
  BY I2cAssumption
<1>2. \A k \in Int : Budget(k) \in Int /\ Budget(k + 1) = Budget(k) + BufLen
  BY <1>1 DEF Budget
<1>3. \A j, k \in Int : j <= k => Budget(j) <= Budget(k)
  BY <1>1 DEF Budget
<1>4. Budget(0) = 0 /\ Budget(-1) < 0
  BY <1>1 DEF Budget
<1>5. ASSUME NEW k \in Int
      PROVE  Budget(k) >= 0 <=> k >= 0
  <2>1. CASE k >= 0
    BY <1>2, <1>3, <1>4, <2>1
  <2>2. CASE k < 0
    <3>1. k <= -1
      BY <2>2
    <3>2. Budget(k) <= Budget(-1) /\ Budget(k) \in Int /\ Budget(-1) \in Int
      BY <1>2, <1>3, <3>1
    <3> QED
      BY <1>4, <2>2, <3>2
  <2> QED
    BY <2>1, <2>2
<1> QED
  BY <1>2, <1>3, <1>5

Numeric ==
  /\ cuts \in Nat /\ Credit \in Int /\ TxCredit \in Int /\ RxCredit \in Int
  /\ aux \in Nat /\ aux2 \in Nat /\ ToSend \in Nat /\ ToRead \in Int
  /\ RX_count \in Int /\ TX_count \in Int /\ left \in Nat

LEMMA Numbers == TypeOK => Numeric
<1> SUFFICES ASSUME TypeOK
             PROVE  Numeric
  OBVIOUS
<1>1. cuts \in Nat
  BY DEF TypeOK, TypeHistory
<1>2. Credit \in Int
  BY <1>1 DEF Credit, Count
<1> QED
  BY <1>1, <1>2
     DEF Numeric, TxCredit, RxCredit, Count, TypeOK, TypeDriver, TypeChip, ToSend, ToRead

LEMMA NumbersNext == TypeOK' => Numeric'
  BY Numbers, PTL

\* The credit of a step, from what each of its terms does.
LEMMA CreditOn ==
  ASSUME TypeOK, TypeOK', NEW w \in 0..1, NEW w2 \in 0..1,
         Count(Sleeps) = w, Count(Sleeps') = w2,
         NEW k \in Int,
         cuts' + w2 - Count(condition' # 0) - Count(ardy')
           >= cuts + w - Count(condition # 0) - Count(ardy) + k
  PROVE  Credit' >= Credit + k /\ Credit \in Int /\ Credit' \in Int
<1>1. Credit = cuts + w - Count(condition # 0) - Count(ardy)
  BY DEF Credit
<1>2. Credit' = cuts' + w2 - Count(condition' # 0) - Count(ardy')
  BY DEF Credit
<1>3. Credit \in Int /\ Credit' \in Int
  BY Numbers, NumbersNext DEF Numeric
<1> QED
  BY <1>1, <1>2, <1>3

\* A transfer that may complete early in the other direction counts too.
LEMMA DirectionOn ==
  ASSUME TypeOK, TypeOK', NEW k \in Int, Credit' >= Credit + k
  PROVE  /\ TxCredit' >= TxCredit + k + Count(bus = "rx") - Count(bus' = "rx")
         /\ RxCredit' >= RxCredit + k + Count(bus = "tx") - Count(bus' = "tx")
         /\ TxCredit = Credit - Count(bus = "rx") /\ RxCredit = Credit - Count(bus = "tx")
         /\ TxCredit' = Credit' - Count(bus' = "rx") /\ RxCredit' = Credit' - Count(bus' = "tx")
<1>1. TxCredit = Credit - Count(bus = "rx") /\ RxCredit = Credit - Count(bus = "tx")
  BY DEF TxCredit, RxCredit
<1>2. TxCredit' = Credit' - Count(bus' = "rx") /\ RxCredit' = Credit' - Count(bus' = "tx")
  BY DEF TxCredit, RxCredit
<1>3. Credit \in Int /\ Credit' \in Int
  BY Numbers, NumbersNext DEF Numeric
<1>4. /\ Count(bus = "rx") \in Int /\ Count(bus' = "rx") \in Int
      /\ Count(bus = "tx") \in Int /\ Count(bus' = "tx") \in Int
  BY DEF Count
<1> QED
  BY <1>1, <1>2, <1>3, <1>4

LEMMA SameDirection ==
  ASSUME TypeOK, TypeOK', Credit' >= Credit, bus' = bus
  PROVE  TxCredit' >= TxCredit /\ RxCredit' >= RxCredit
<1>1. Credit' >= Credit + 0 /\ Credit \in Int
  BY Numbers, NumbersNext DEF Numeric
<1>2. /\ TxCredit' >= TxCredit + 0 + Count(bus = "rx") - Count(bus' = "rx")
      /\ RxCredit' >= RxCredit + 0 + Count(bus = "tx") - Count(bus' = "tx")
  BY <1>1, DirectionOn
<1>3. Count(bus = "rx") \in Int /\ Count(bus = "tx") \in Int
  BY DEF Count
<1>4. TxCredit \in Int /\ RxCredit \in Int /\ TxCredit' \in Int /\ RxCredit' \in Int
  BY Numbers, NumbersNext DEF Numeric
<1> QED
  BY <1>2, <1>3, <1>4

\* A step that costs nothing and moves no index further.
LEMMA TxPaidOn ==
  ASSUME TypeOK, TypeOK', TxPaid, TxCredit' >= TxCredit, aux' + ToSend' <= aux + ToSend
  PROVE  TxPaid'
<1>1. /\ TxCredit \in Int /\ aux \in Nat /\ ToSend \in Nat
      /\ TxCredit' \in Int /\ aux' \in Nat /\ ToSend' \in Nat
  BY Numbers, NumbersNext DEF Numeric
<1>2. Budget(TxCredit) <= Budget(TxCredit') /\ Budget(TxCredit) \in Int /\ Budget(TxCredit') \in Int
  BY <1>1, BudgetFacts
<1>3. aux + ToSend <= Budget(TxCredit)
  BY DEF TxPaid
<1>4. aux' + ToSend' <= Budget(TxCredit')
  <2>1. aux + ToSend \in Int /\ aux' + ToSend' \in Int
    BY <1>1
  <2>2. \A a, b, c, d \in Int : a <= b /\ b <= c /\ c <= d => a <= d
    OBVIOUS
  <2> QED
    BY <1>2, <1>3, <2>1, <2>2
<1> QED
  BY <1>4 DEF TxPaid, Budget

LEMMA RxPaidOn ==
  ASSUME TypeOK, TypeOK', RxPaid, RxCredit' >= RxCredit, aux2' + ToRead' <= aux2 + ToRead
  PROVE  RxPaid'
<1>1. /\ RxCredit \in Int /\ aux2 \in Nat /\ ToRead \in Int
      /\ RxCredit' \in Int /\ aux2' \in Nat /\ ToRead' \in Int
  BY Numbers, NumbersNext DEF Numeric
<1>2. Budget(RxCredit) <= Budget(RxCredit') /\ Budget(RxCredit) \in Int /\ Budget(RxCredit') \in Int
  BY <1>1, BudgetFacts
<1>3. aux2 + ToRead <= Budget(RxCredit)
  BY DEF RxPaid
<1>4. aux2' + ToRead' <= Budget(RxCredit')
  <2>1. aux2 + ToRead \in Int /\ aux2' + ToRead' \in Int
    BY <1>1
  <2>2. \A a, b, c, d \in Int : a <= b /\ b <= c /\ c <= d => a <= d
    OBVIOUS
  <2> QED
    BY <1>2, <1>3, <2>1, <2>2
<1> QED
  BY <1>4 DEF RxPaid, Budget

\* A transfer begins: it may move the index by a whole buffer.
LEMMA TxPaidMore ==
  ASSUME TypeOK, TypeOK', TxPaid, TxCredit' >= TxCredit + 1, aux' + ToSend' <= (aux + ToSend) + BufLen
  PROVE  TxPaid'
<1>1. /\ TxCredit \in Int /\ aux \in Nat /\ ToSend \in Int /\ BufLen \in Int
      /\ TxCredit' \in Int /\ aux' \in Nat /\ ToSend' \in Int
  BY Numbers, NumbersNext, I2cAssumption DEF Numeric
<1>2. /\ Budget(TxCredit + 1) <= Budget(TxCredit') /\ Budget(TxCredit + 1) = Budget(TxCredit) + BufLen
      /\ Budget(TxCredit) \in Int /\ Budget(TxCredit + 1) \in Int /\ Budget(TxCredit') \in Int
  <2>1. TxCredit + 1 \in Int
    BY <1>1
  <2> QED
    BY <1>1, <2>1, BudgetFacts
<1>3. aux + ToSend <= Budget(TxCredit)
  BY DEF TxPaid
<1>4. aux' + ToSend' <= Budget(TxCredit')
  <2>1. aux + ToSend \in Int /\ aux' + ToSend' \in Int
    BY <1>1
  <2>2. \A a, b, c, d, e, n \in Int : a <= b + n /\ b <= c /\ e = c + n /\ e <= d => a <= d
    OBVIOUS
  <2> QED
    BY <1>1, <1>2, <1>3, <2>1, <2>2
<1> QED
  BY <1>4 DEF TxPaid, Budget

LEMMA RxPaidMore ==
  ASSUME TypeOK, TypeOK', RxPaid, RxCredit' >= RxCredit + 1, aux2' + ToRead' <= (aux2 + ToRead) + BufLen
  PROVE  RxPaid'
<1>1. /\ RxCredit \in Int /\ aux2 \in Nat /\ ToRead \in Int /\ BufLen \in Int
      /\ RxCredit' \in Int /\ aux2' \in Nat /\ ToRead' \in Int
  BY Numbers, NumbersNext, I2cAssumption DEF Numeric
<1>2. /\ Budget(RxCredit + 1) <= Budget(RxCredit') /\ Budget(RxCredit + 1) = Budget(RxCredit) + BufLen
      /\ Budget(RxCredit) \in Int /\ Budget(RxCredit + 1) \in Int /\ Budget(RxCredit') \in Int
  <2>1. RxCredit + 1 \in Int
    BY <1>1
  <2> QED
    BY <1>1, <2>1, BudgetFacts
<1>3. aux2 + ToRead <= Budget(RxCredit)
  BY DEF RxPaid
<1>4. aux2' + ToRead' <= Budget(RxCredit')
  <2>1. aux2 + ToRead \in Int /\ aux2' + ToRead' \in Int
    BY <1>1
  <2>2. \A a, b, c, d, e, n \in Int : a <= b + n /\ b <= c /\ e = c + n /\ e <= d => a <= d
    OBVIOUS
  <2> QED
    BY <1>1, <1>2, <1>3, <2>1, <2>2
<1> QED
  BY <1>4 DEF RxPaid, Budget

\* A transfer is over.
LEMMA TxPaidBack ==
  ASSUME TypeOK', TxCredit' >= 0, aux' + ToSend' = 0
  PROVE  TxPaid'
<1>1. TxCredit' \in Int
  BY NumbersNext DEF Numeric
<1>2. 0 <= Budget(TxCredit')
  BY <1>1, BudgetFacts
<1> QED
  BY <1>2 DEF TxPaid, Budget

LEMMA RxPaidBack ==
  ASSUME TypeOK', RxCredit' >= 0, aux2' + ToRead' = 0
  PROVE  RxPaid'
<1>1. RxCredit' \in Int
  BY NumbersNext DEF Numeric
<1>2. 0 <= Budget(RxCredit')
  BY <1>1, BudgetFacts
<1> QED
  BY <1>2 DEF RxPaid, Budget

LEMMA InBudgetOn ==
  ASSUME TypeOK, TypeOK', InBudget, aux' <= aux, aux2' <= aux2, cuts' >= cuts
  PROVE  InBudget'
<1>1. cuts \in Nat /\ cuts' \in Nat /\ aux \in Nat /\ aux' \in Nat /\ aux2 \in Nat /\ aux2' \in Nat
  BY Numbers, NumbersNext DEF Numeric
<1>2. /\ Budget(cuts + 1) <= Budget(cuts' + 1)
      /\ Budget(cuts + 1) \in Int /\ Budget(cuts' + 1) \in Int
  BY <1>1, BudgetFacts
<1> QED
  BY <1>1, <1>2 DEF InBudget, Budget

\* Some credit is left while a transfer goes on.
LEMMA CreditLeft ==
  ASSUME TypeOK, TxPaid, RxPaid, RxCounted
  PROVE  TxCredit >= 0 /\ RxCredit >= 0
<1>1. /\ TxCredit \in Int /\ aux \in Nat /\ ToSend \in Nat
      /\ RxCredit \in Int /\ aux2 \in Nat /\ ToRead \in Int /\ RX_count \in Int
  BY Numbers, NumbersNext DEF Numeric
<1>2. ToRead >= 0
  BY <1>1 DEF RxCounted, ToRead
<1>3. Budget(TxCredit) \in Int /\ Budget(RxCredit) \in Int
  BY <1>1, BudgetFacts
<1>4. Budget(TxCredit) >= 0 /\ Budget(RxCredit) >= 0
  BY <1>1, <1>2, <1>3 DEF TxPaid, RxPaid
<1> QED
  BY <1>1, <1>4, BudgetFacts

\* The process that a system call is about is the only one, before and after.
LEMMA OneMoves ==
  ASSUME NEW p \in Procs, NEW x \in Places, TypeOK, Alone(p), pc' = [pc EXCEPT ![p] = x],
         Stage(p)', x = "closed" => bus' = "idle"
  PROVE  /\ OneUser' /\ ClosedIsIdle' /\ Stages'
         /\ Sleeps <=> Asleep(p)
         /\ Sleeps' <=> x \in {"waitTx", "waitRx"}
         /\ pc'[p] = x
<1>1. pc'[p] = x /\ \A q \in Procs : q # p => pc'[q] = "closed" /\ pc[q] = "closed"
  BY DEF TypeOK, TypeUsers, Alone
<1>2. OneUser' /\ ClosedIsIdle'
  BY <1>1 DEF OneUser, ClosedIsIdle
<1>3. ASSUME NEW q \in Procs, q # p
      PROVE  Stage(q)'
  BY <1>1, <1>3 DEF Stage
<1>4. Stages'
  BY <1>3 DEF Stages
<1>5. Sleeps <=> Asleep(p)
  BY <1>1 DEF Sleeps, Asleep
<1>6. Sleeps' <=> x \in {"waitTx", "waitRx"}
  BY <1>1 DEF Sleeps, Asleep
<1> QED
  BY <1>1, <1>2, <1>4, <1>5, <1>6

LEMMA UserIsAlone ==
  ASSUME NEW p \in Procs, OneUser, pc[p] # "closed"
  PROVE  Alone(p)
  BY DEF OneUser, Alone

\* A system call that prepares another transfer.
LEMMA PrepareIndex ==
  ASSUME NEW p \in Procs, NEW c \in Cmds, TypeOK, TypeOK', IndexCore, Alone(p), Prepare(p, c),
         aux' = aux, aux2' = aux2, cuts' >= cuts,
         cuts' - Count(condition' # 0) >= cuts + Count(Asleep(p)) - Count(condition # 0),
         bus = "tx" => c = "data"
  PROVE  IndexCore'
<1> USE DEF IndexCore
<1>1. /\ TxLen[c] \in 1..BufLen /\ RxLen[c] \in 1..BufLen /\ TxLen[c] % 256 = TxLen[c]
      /\ bus = "tx" => TxLen[c] = 1
  BY I2cAssumption, ReadSendsOneByte, Lengths, ByteLength
<1>2. /\ pc' = [pc EXCEPT ![p] = "busTx"] /\ bus' = bus /\ left' = left
      /\ TX_count' = TxLen[c] /\ RX_count' = RxLen[c] /\ CNT' = TxLen[c]
      /\ "XRDY" \in enabled' /\ "RRDY" \notin enabled' /\ ardy' = FALSE
      /\ Len(fifo') = Len(fifo) /\ (fifo' = <<>> <=> fifo = <<>>)
  BY <1>1 DEF Prepare, TypeOK, TypeChip
<1>3. pc'[p] = "busTx" /\ "busTx" \in Places
  BY <1>2 DEF Places, TypeOK, TypeUsers
<1>4. Stage(p)'
  BY <1>1, <1>2, <1>3 DEF Stage
<1>5. /\ OneUser' /\ ClosedIsIdle' /\ Stages'
      /\ (Sleeps <=> Asleep(p)) /\ ~Sleeps'
  BY <1>2, <1>3, <1>4, OneMoves
<1>6. Numeric /\ Numeric'
  BY Numbers, NumbersNext
<1>7. TxCounted' /\ RxCounted'
  BY <1>1, <1>2 DEF TxCounted, RxCounted
<1>8. Credit' >= Credit
  <2>1. /\ Count(Sleeps) = Count(Asleep(p)) /\ Count(Sleeps') = 0 /\ Count(ardy') = 0
        /\ Count(Asleep(p)) \in 0..1 /\ Count(ardy) \in 0..1
        /\ Count(condition # 0) \in 0..1 /\ Count(condition' # 0) \in 0..1
    BY <1>2, <1>5 DEF Count
  <2>2. cuts' + 0 - Count(condition' # 0) - Count(ardy')
          >= cuts + Count(Asleep(p)) - Count(condition # 0) - Count(ardy) + 0
    BY <1>6, <2>1 DEF Numeric
  <2>3. Credit' >= Credit + 0 /\ Credit \in Int /\ Credit' \in Int
    BY <2>1, <2>2, CreditOn
  <2> QED
    BY <2>3
<1>9. TxCredit' >= TxCredit /\ RxCredit' >= RxCredit
  BY <1>2, <1>8, SameDirection
<1>10. TxPaid'
  <2>1. aux' + ToSend' <= aux + ToSend
    BY <1>2, <1>6 DEF ToSend, Numeric
  <2> QED
    BY <1>9, <2>1, TxPaidOn
<1>11. RxPaid'
  <2>1. aux2' + ToRead' <= aux2 + ToRead
    BY <1>2, <1>6 DEF ToRead, Numeric, RxCounted
  <2> QED
    BY <1>9, <2>1, RxPaidOn
<1>12. InBudget'
  BY <1>6, InBudgetOn DEF Numeric
<1> QED
  BY <1>5, <1>7, <1>10, <1>11, <1>12

\* A step of a process that leaves the transfer as it is.
LEMMA PlainIndex ==
  ASSUME NEW p \in Procs, NEW x \in {"open", "freed"}, TypeOK, TypeOK', IndexCore, Alone(p),
         pc' = [pc EXCEPT ![p] = x], chip' = chip,
         TX_count' = TX_count, RX_count' = RX_count, aux' = aux, aux2' = aux2, cuts' >= cuts,
         cuts' - Count(condition' # 0) >= cuts + Count(Asleep(p)) - Count(condition # 0)
  PROVE  IndexCore'
<1> USE DEF IndexCore
<1>1. /\ bus' = bus /\ left' = left /\ CNT' = CNT /\ enabled' = enabled
      /\ fifo' = fifo /\ ardy' = ardy
  BY DEF chip
<1>2. pc'[p] = x /\ x \in Places
  BY DEF Places, TypeOK, TypeUsers
<1>3. Stage(p)'
  BY <1>2 DEF Stage
<1>4. /\ OneUser' /\ ClosedIsIdle' /\ Stages'
      /\ (Sleeps <=> Asleep(p)) /\ ~Sleeps'
  BY <1>2, <1>3, OneMoves
<1>5. Numeric /\ Numeric'
  BY Numbers, NumbersNext
<1>6. TxCounted' /\ RxCounted'
  BY <1>1 DEF TxCounted, RxCounted
<1>7. Credit' >= Credit
  <2>1. /\ Count(Sleeps) = Count(Asleep(p)) /\ Count(Sleeps') = 0 /\ Count(ardy') = Count(ardy)
        /\ Count(Asleep(p)) \in 0..1 /\ Count(ardy) \in 0..1
        /\ Count(condition # 0) \in 0..1 /\ Count(condition' # 0) \in 0..1
    BY <1>1, <1>4 DEF Count
  <2>2. cuts' + 0 - Count(condition' # 0) - Count(ardy')
          >= cuts + Count(Asleep(p)) - Count(condition # 0) - Count(ardy) + 0
    BY <1>5, <2>1 DEF Numeric
  <2>3. Credit' >= Credit + 0 /\ Credit \in Int /\ Credit' \in Int
    BY <2>1, <2>2, CreditOn
  <2> QED
    BY <2>3
<1>8. TxCredit' >= TxCredit /\ RxCredit' >= RxCredit
  BY <1>1, <1>7, SameDirection
<1>9. aux' + ToSend' <= aux + ToSend /\ aux2' + ToRead' <= aux2 + ToRead
  BY <1>1, <1>5 DEF ToSend, ToRead, Numeric
<1>10. TxPaid' /\ RxPaid'
  BY <1>8, <1>9, TxPaidOn, RxPaidOn
<1>11. InBudget'
  BY <1>5, InBudgetOn DEF Numeric
<1> QED
  BY <1>4, <1>6, <1>10, <1>11

\* What a wait costs is paid by its completion or by the signal that ends it.
LEMMA WaitPaid ==
  ASSUME NEW p \in Procs, TypeOK, condition' = 0,
         (condition # 0 /\ cuts' = cuts) \/ (condition = 0 /\ cuts' = cuts + 1)
  PROVE  /\ cuts' >= cuts
         /\ cuts' - Count(condition' # 0) >= cuts + Count(Asleep(p)) - Count(condition # 0)
  BY Numbers DEF Numeric, Count

LEMMA AfterRxIndex ==
  ASSUME NEW p \in Procs, TypeOK, TypeOK', IndexCore, AfterRx(p),
         (condition # 0 /\ cuts' = cuts) \/ (condition = 0 /\ cuts' = cuts + 1)
  PROVE  IndexCore'
<1>1. /\ pc[p] = "waitRx" /\ condition' = 0 /\ aux' = aux /\ aux2' = aux2
      /\ ReturnData(p) \/ NextCommand(p)
  BY DEF AfterRx
<1>2. Alone(p) /\ bus # "tx"
  BY <1>1, UserIsAlone DEF IndexCore, Stages, Stage
<1>3. /\ cuts' >= cuts
      /\ cuts' - Count(condition' # 0) >= cuts + Count(Asleep(p)) - Count(condition # 0)
  BY <1>1, WaitPaid
<1>4. CASE \E c \in Cmds : Prepare(p, c)
  BY <1>1, <1>2, <1>3, <1>4, PrepareIndex
<1>5. CASE /\ pc' = [pc EXCEPT ![p] = "open"]
           /\ UNCHANGED <<TX_count, RX_count, chip>>
  BY <1>1, <1>2, <1>3, <1>5, PlainIndex
<1> QED
  BY <1>1, <1>4, <1>5 DEF ReturnData, NextCommand, Cmds

LEMMA OpenIndex ==
  ASSUME NEW p \in Procs, TypeOK, TypeOK', IndexCore, ~overlap', Open(p)
  PROVE  IndexCore'
<1>1. /\ \A q \in Procs : pc[q] = "closed"
      /\ condition' = condition /\ aux' = aux /\ aux2' = aux2 /\ cuts' = cuts
  BY DEF Open
<1>2. Alone(p) /\ bus = "idle" /\ ~Asleep(p)
  BY <1>1 DEF Alone, IndexCore, ClosedIsIdle, Asleep
<1>3. CASE Prepare(p, "id")
  <2>1. cuts' - Count(condition' # 0) >= cuts + Count(Asleep(p)) - Count(condition # 0)
    BY <1>1, <1>2, Numbers DEF Numeric, Count
  <2>2. "id" \in Cmds /\ cuts' >= cuts
    BY <1>1, Numbers DEF Cmds, Numeric
  <2> QED
    BY <1>1, <1>2, <1>3, <2>1, <2>2, PrepareIndex
<1>4. CASE UNCHANGED <<pc, TX_count, RX_count, chip>>
  BY <1>1, <1>4 DEF IndexCore, OneUser, ClosedIsIdle, Stages, Stage, TxCounted, RxCounted,
     TxPaid, RxPaid, InBudget, TxCredit, RxCredit, Credit, ToSend, ToRead, Sleeps, Asleep, chip
<1> QED
  BY <1>3, <1>4 DEF Open

LEMMA ReadIndex ==
  ASSUME NEW p \in Procs, TypeOK, TypeOK', IndexCore, Read(p)
  PROVE  IndexCore'
<1>1. /\ pc[p] = "open" /\ condition' = condition /\ aux' = aux /\ aux2' = aux2 /\ cuts' = cuts
  BY DEF Read
<1>2. Alone(p) /\ ~Asleep(p)
  BY <1>1, UserIsAlone DEF IndexCore, Asleep
<1>3. CASE Prepare(p, "data")
  <2>1. cuts' - Count(condition' # 0) >= cuts + Count(Asleep(p)) - Count(condition # 0)
    BY <1>1, <1>2, Numbers DEF Numeric, Count
  <2>2. "data" \in Cmds /\ cuts' >= cuts
    BY <1>1, Numbers DEF Cmds, Numeric
  <2> QED
    BY <1>1, <1>2, <1>3, <2>1, <2>2, PrepareIndex
<1>4. CASE UNCHANGED <<pc, TX_count, RX_count, chip>>
  BY <1>1, <1>4 DEF IndexCore, OneUser, ClosedIsIdle, Stages, Stage, TxCounted, RxCounted,
     TxPaid, RxPaid, InBudget, TxCredit, RxCredit, Credit, ToSend, ToRead, Sleeps, Asleep, chip
<1> QED
  BY <1>3, <1>4 DEF Read

LEMMA LeaveIndex ==
  ASSUME NEW p \in Procs, TypeOK, TypeOK', IndexCore, BusTimeout(p) \/ CloseFree(p)
  PROVE  IndexCore'
<1>1. /\ pc[p] \in {"busTx", "busRx", "open"} /\ chip' = chip /\ driver' = driver /\ cuts' = cuts
      /\ \E x \in {"open", "freed"} : pc' = [pc EXCEPT ![p] = x]
  BY DEF BusTimeout, CloseFree
<1>2. /\ TX_count' = TX_count /\ RX_count' = RX_count /\ aux' = aux /\ aux2' = aux2
      /\ condition' = condition
  BY <1>1 DEF driver
<1>3. Alone(p) /\ ~Asleep(p)
  BY <1>1, UserIsAlone DEF IndexCore, Asleep
<1>4. /\ cuts' >= cuts
      /\ cuts' - Count(condition' # 0) >= cuts + Count(Asleep(p)) - Count(condition # 0)
  BY <1>1, <1>2, <1>3, Numbers DEF Numeric, Count
<1> QED
  BY <1>1, <1>2, <1>3, <1>4, PlainIndex

\* A step of the controller or of the handler: no process moves.
LEMMA NobodyMoves ==
  ASSUME OneUser, pc' = pc
  PROVE  OneUser' /\ Count(Sleeps) \in 0..1 /\ Count(Sleeps') = Count(Sleeps)
  BY DEF OneUser, Sleeps, Asleep, Count

LEMMA CountsAreBits ==
  /\ Count(ardy) \in 0..1 /\ Count(ardy') \in 0..1
  /\ Count(condition # 0) \in 0..1 /\ Count(condition' # 0) \in 0..1
  /\ Count(bus = "rx") \in 0..1 /\ Count(bus' = "rx") \in 0..1
  /\ Count(bus = "tx") \in 0..1 /\ Count(bus' = "tx") \in 0..1
  BY DEF Count

LEMMA StartTxIndex ==
  ASSUME NEW p \in Procs, TypeOK, TypeOK', IndexCore, StartTx(p)
  PROVE  IndexCore'
<1> USE DEF IndexCore
<1>1. /\ pc[p] = "busTx" /\ bus # "tx" /\ pc' = [pc EXCEPT ![p] = "waitTx"]
      /\ bus' = "tx" /\ left' = CNT /\ enabled' = enabled /\ fifo' = fifo /\ ardy' = ardy
      /\ TX_count' = TX_count /\ RX_count' = RX_count /\ condition' = condition
      /\ aux' = aux /\ aux2' = aux2 /\ cuts' = cuts
  BY DEF StartTx, BusBusy, driver
<1>2. /\ Alone(p) /\ ~Asleep(p) /\ CNT \in 1..BufLen /\ "RRDY" \notin enabled
      /\ RX_count \in 1..BufLen /\ ("XRDY" \in enabled => TX_count \in {1, CNT})
  BY <1>1, UserIsAlone DEF Stages, Stage, Asleep
<1>3. pc'[p] = "waitTx" /\ "waitTx" \in Places
  BY <1>1 DEF Places, TypeOK, TypeUsers
<1>4. Stage(p)'
  BY <1>1, <1>2, <1>3 DEF Stage
<1>5. OneUser' /\ ClosedIsIdle' /\ Stages' /\ ~Sleeps /\ Sleeps'
  BY <1>1, <1>2, <1>3, <1>4, OneMoves
<1>6. Numeric /\ Numeric'
  BY Numbers, NumbersNext
<1>7. TxCounted' /\ RxCounted'
  BY <1>1, <1>2, <1>6, I2cAssumption DEF TxCounted, RxCounted, Numeric
<1>8. Credit' >= Credit + 1
  <2>1. Count(Sleeps) = 0 /\ Count(Sleeps') = 1
    BY <1>5 DEF Count
  <2>2. cuts' + 1 - Count(condition' # 0) - Count(ardy')
          >= cuts + 0 - Count(condition # 0) - Count(ardy) + 1
    BY <1>1, <1>6, CountsAreBits DEF Numeric
  <2> QED
    BY <2>1, <2>2, CreditOn
<1>9. TxCredit' >= TxCredit + 1 /\ RxCredit' >= RxCredit
  <2>1. /\ Count(bus = "tx") = 0 /\ Count(bus' = "tx") = 1 /\ Count(bus' = "rx") = 0
        /\ Count(bus = "rx") >= 0
    BY <1>1, CountsAreBits DEF Count
  <2>2. /\ TxCredit' >= TxCredit + 1 + Count(bus = "rx") - Count(bus' = "rx")
        /\ RxCredit' >= RxCredit + 1 + Count(bus = "tx") - Count(bus' = "tx")
    BY <1>8, DirectionOn
  <2> QED
    BY <1>6, <2>1, <2>2, CountsAreBits DEF Numeric
<1>10. TxPaid'
  <2>1. ToSend = 0 /\ ToSend' = CNT
    BY <1>1 DEF ToSend
  <2>2. aux' + ToSend' <= (aux + ToSend) + BufLen
    BY <1>1, <1>2, <1>6, <2>1, I2cAssumption DEF Numeric
  <2> QED
    BY <1>9, <2>2, TxPaidMore
<1>11. RxPaid'
  <2>1. aux2' + ToRead' <= aux2 + ToRead
    BY <1>1, <1>6 DEF ToRead, Numeric
  <2> QED
    BY <1>9, <2>1, RxPaidOn
<1>12. InBudget'
  BY <1>1, <1>6, InBudgetOn DEF Numeric
<1> QED
  BY <1>5, <1>7, <1>10, <1>11, <1>12

LEMMA StartRxIndex ==
  ASSUME NEW p \in Procs, TypeOK, TypeOK', IndexCore, StartRx(p)
  PROVE  IndexCore'
<1> USE DEF IndexCore
<1>1. /\ pc[p] = "busRx" /\ bus # "tx" /\ pc' = [pc EXCEPT ![p] = "waitRx"]
      /\ bus' = "rx" /\ left' = CNT /\ enabled' = {"RRDY"} /\ fifo' = fifo /\ ardy' = FALSE
      /\ TX_count' = TX_count /\ RX_count' = RX_count /\ condition' = condition
      /\ aux' = aux /\ aux2' = aux2 /\ cuts' = cuts
  BY DEF StartRx, BusBusy, driver
<1>2. /\ Alone(p) /\ ~Asleep(p) /\ CNT = RX_count /\ "RRDY" \notin enabled
      /\ RX_count \in 1..BufLen /\ bus # "rx"
  BY <1>1, UserIsAlone DEF Stages, Stage, Asleep
<1>3. pc'[p] = "waitRx" /\ "waitRx" \in Places
  BY <1>1 DEF Places, TypeOK, TypeUsers
<1>4. Stage(p)'
  BY <1>1, <1>2, <1>3 DEF Stage
<1>5. OneUser' /\ ClosedIsIdle' /\ Stages' /\ ~Sleeps /\ Sleeps'
  BY <1>1, <1>2, <1>3, <1>4, OneMoves
<1>6. Numeric /\ Numeric' /\ Len(fifo) \in Nat
  BY Numbers, NumbersNext DEF TypeOK, TypeChip
<1>7. TxCounted' /\ RxCounted'
  BY <1>1, <1>2, <1>6, I2cAssumption DEF TxCounted, RxCounted, Numeric
<1>8. Credit' >= Credit + 1
  <2>1. Count(Sleeps) = 0 /\ Count(Sleeps') = 1 /\ Count(ardy') = 0
    BY <1>1, <1>5 DEF Count
  <2>2. cuts' + 1 - Count(condition' # 0) - Count(ardy')
          >= cuts + 0 - Count(condition # 0) - Count(ardy) + 1
    BY <1>1, <1>6, <2>1, CountsAreBits DEF Numeric
  <2> QED
    BY <2>1, <2>2, CreditOn
<1>9. TxCredit' >= TxCredit /\ RxCredit' >= RxCredit + 1
  <2>1. /\ Count(bus = "tx") = 0 /\ Count(bus' = "tx") = 0 /\ Count(bus' = "rx") = 1
        /\ Count(bus = "rx") = 0
    BY <1>1, <1>2 DEF Count
  <2>2. /\ TxCredit' >= TxCredit + 1 + Count(bus = "rx") - Count(bus' = "rx")
        /\ RxCredit' >= RxCredit + 1 + Count(bus = "tx") - Count(bus' = "tx")
    BY <1>8, DirectionOn
  <2>3. TxCredit' >= TxCredit + 1 + 0 - 1 /\ RxCredit' >= RxCredit + 1 + 0 - 0
    BY <2>1, <2>2
  <2> QED
    BY <1>6, <2>3 DEF Numeric
<1>10. TxPaid'
  <2>1. aux' + ToSend' <= aux + ToSend
    BY <1>1, <1>6 DEF ToSend, Numeric
  <2> QED
    BY <1>9, <2>1, TxPaidOn
<1>11. RxPaid'
  <2>1. ToRead = 0 /\ ToRead' = RX_count
    BY <1>1, <1>2 DEF ToRead
  <2>2. aux2' + ToRead' <= (aux2 + ToRead) + BufLen
    BY <1>1, <1>2, <1>6, <2>1, I2cAssumption DEF Numeric
  <2> QED
    BY <1>9, <2>2, RxPaidMore
<1>12. InBudget'
  BY <1>1, <1>6, InBudgetOn DEF Numeric
<1> QED
  BY <1>5, <1>7, <1>10, <1>11, <1>12

LEMMA AfterTxIndex ==
  ASSUME NEW p \in Procs, TypeOK, TypeOK', IndexCore, AfterTx(p),
         (condition # 0 /\ cuts' = cuts) \/ (condition = 0 /\ cuts' = cuts + 1)
  PROVE  IndexCore'
<1> USE DEF IndexCore
<1>1. /\ pc[p] = "waitTx" /\ pc' = [pc EXCEPT ![p] = "busRx"]
      /\ bus' = bus /\ left' = left /\ enabled' = enabled /\ fifo' = fifo /\ ardy' = ardy
      /\ TX_count' = TX_count /\ RX_count' = RX_count /\ condition' = 0
      /\ aux' = aux /\ aux2' = aux2 /\ CNT' = RX_count % 256
  BY DEF AfterTx
<1>2. /\ Alone(p) /\ Asleep(p) /\ "RRDY" \notin enabled
      /\ RX_count \in 1..BufLen /\ bus # "rx"
  BY <1>1, UserIsAlone DEF Stages, Stage, Asleep
<1>3. pc'[p] = "busRx" /\ "busRx" \in Places
  BY <1>1 DEF Places, TypeOK, TypeUsers
<1>4. RX_count \in 1..255 /\ CNT' = RX_count
  <2>1. RX_count \in 1..255
    BY <1>2, I2cAssumption
  <2> QED
    BY <1>1, <2>1, ByteLength
<1>5. Stage(p)'
  BY <1>1, <1>2, <1>3, <1>4 DEF Stage
<1>6. OneUser' /\ ClosedIsIdle' /\ Stages' /\ Sleeps /\ ~Sleeps'
  BY <1>1, <1>2, <1>3, <1>5, OneMoves
<1>7. Numeric /\ Numeric' /\ cuts' >= cuts
  BY Numbers, NumbersNext DEF Numeric
<1>8. TxCounted' /\ RxCounted'
  BY <1>1 DEF TxCounted, RxCounted
<1>9. Credit' >= Credit
  <2>1. Count(Sleeps) = 1 /\ Count(Sleeps') = 0 /\ Count(condition' # 0) = 0
        /\ Count(ardy') = Count(ardy)
        /\ (condition = 0 => Count(condition # 0) = 0)
        /\ (condition # 0 => Count(condition # 0) = 1)
    BY <1>1, <1>6 DEF Count
  <2>2. cuts' + 0 - Count(condition' # 0) - Count(ardy')
          >= cuts + 1 - Count(condition # 0) - Count(ardy) + 0
    BY <1>7, <2>1, CountsAreBits DEF Numeric
  <2>3. Credit' >= Credit + 0 /\ Credit \in Int /\ Credit' \in Int
    BY <2>1, <2>2, CreditOn
  <2> QED
    BY <2>3
<1>10. TxCredit' >= TxCredit /\ RxCredit' >= RxCredit
  BY <1>1, <1>9, SameDirection
<1>11. aux' + ToSend' <= aux + ToSend /\ aux2' + ToRead' <= aux2 + ToRead
  BY <1>1, <1>7 DEF ToSend, ToRead, Numeric
<1>12. TxPaid' /\ RxPaid'
  BY <1>10, <1>11, TxPaidOn, RxPaidOn
<1>13. InBudget'
  BY <1>1, <1>7, InBudgetOn DEF Numeric
<1> QED
  BY <1>6, <1>8, <1>12, <1>13

LEMMA CloseResetIndex ==
  ASSUME NEW p \in Procs, TypeOK, TypeOK', IndexCore, CloseReset(p)
  PROVE  IndexCore'
<1> USE DEF IndexCore
<1>1. /\ pc[p] = "freed" /\ pc' = [pc EXCEPT ![p] = "closed"]
      /\ bus' = "idle" /\ left' = 0 /\ fifo' = <<>> /\ ardy' = FALSE /\ enabled' = enabled
      /\ TX_count' = TX_count /\ RX_count' = RX_count /\ condition' = condition
      /\ aux' = aux /\ aux2' = aux2 /\ cuts' = cuts
  BY DEF CloseReset, driver
<1>2. Alone(p) /\ ~Asleep(p)
  BY <1>1, UserIsAlone DEF Asleep
<1>3. pc'[p] = "closed" /\ "closed" \in Places
  BY <1>1 DEF Places, TypeOK, TypeUsers
<1>4. Stage(p)'
  BY <1>3 DEF Stage
<1>5. OneUser' /\ ClosedIsIdle' /\ Stages' /\ ~Sleeps /\ ~Sleeps'
  BY <1>1, <1>2, <1>3, <1>4, OneMoves
<1>6. Numeric /\ Numeric'
  BY Numbers, NumbersNext
<1>7. TxCounted' /\ RxCounted'
  BY <1>1 DEF TxCounted, RxCounted
<1>8. Credit' >= Credit + 0
  <2>1. Count(Sleeps) = 0 /\ Count(Sleeps') = 0 /\ Count(ardy') = 0
    BY <1>1, <1>5 DEF Count
  <2>2. cuts' + 0 - Count(condition' # 0) - Count(ardy')
          >= cuts + 0 - Count(condition # 0) - Count(ardy) + 0
    BY <1>1, <1>6, <2>1, CountsAreBits DEF Numeric
  <2> QED
    BY <2>1, <2>2, CreditOn
<1>9. TxCredit' >= TxCredit /\ RxCredit' >= RxCredit
  <2>1. Count(bus' = "tx") = 0 /\ Count(bus' = "rx") = 0
    BY <1>1 DEF Count
  <2>2. /\ TxCredit' >= TxCredit + 0 + Count(bus = "rx") - Count(bus' = "rx")
        /\ RxCredit' >= RxCredit + 0 + Count(bus = "tx") - Count(bus' = "tx")
    BY <1>8, DirectionOn
  <2> QED
    BY <1>6, <2>1, <2>2, CountsAreBits DEF Numeric
<1>10. aux' + ToSend' <= aux + ToSend /\ aux2' + ToRead' <= aux2 + ToRead
  BY <1>1, <1>6 DEF ToSend, ToRead, Numeric
<1>11. TxPaid' /\ RxPaid'
  BY <1>9, <1>10, TxPaidOn, RxPaidOn
<1>12. InBudget'
  BY <1>1, <1>6, InBudgetOn DEF Numeric
<1> QED
  BY <1>5, <1>7, <1>11, <1>12

LEMMA ByteArrivesIndex ==
  ASSUME TypeOK, TypeOK', IndexCore, ByteArrives
  PROVE  IndexCore'
<1> USE DEF IndexCore
<1>1. /\ bus = "rx" /\ bus' = bus /\ left > 0 /\ left' = left - 1 /\ enabled' = enabled
      /\ ardy' = ardy /\ CNT' = CNT /\ pc' = pc /\ Len(fifo') = Len(fifo) + 1
      /\ TX_count' = TX_count /\ RX_count' = RX_count /\ condition' = condition
      /\ aux' = aux /\ aux2' = aux2 /\ cuts' = cuts
  BY DEF ByteArrives, driver, users, TypeOK, TypeChip
<1>2. Numeric /\ Numeric' /\ Len(fifo) \in Nat
  BY Numbers, NumbersNext DEF TypeOK, TypeChip
<1>3. OneUser' /\ ClosedIsIdle' /\ Stages'
  BY <1>1 DEF OneUser, ClosedIsIdle, Stages, Stage
<1>4. TxCounted' /\ RxCounted'
  <2>1. Len(fifo') > 0 /\ fifo' # <<>>
    BY <1>1, <1>2
  <2>2. left' + Len(fifo') = left + Len(fifo)
    BY <1>1, <1>2 DEF Numeric
  <2> QED
    BY <1>1, <2>1, <2>2 DEF TxCounted, RxCounted
<1>5. Credit' = Credit
  BY <1>1 DEF Credit, Sleeps, Asleep
<1>6. TxCredit' >= TxCredit /\ RxCredit' >= RxCredit
  BY <1>1, <1>2, <1>5, SameDirection DEF Numeric
<1>7. aux' + ToSend' <= aux + ToSend /\ aux2' + ToRead' <= aux2 + ToRead
  BY <1>1, <1>2 DEF ToSend, ToRead, Numeric
<1>8. TxPaid' /\ RxPaid'
  BY <1>6, <1>7, TxPaidOn, RxPaidOn
<1>9. InBudget'
  BY <1>1, <1>2, InBudgetOn DEF Numeric
<1> QED
  BY <1>3, <1>4, <1>8, <1>9

LEMMA NackIndex ==
  ASSUME TypeOK, TypeOK', IndexCore, Nack
  PROVE  IndexCore'
<1> USE DEF IndexCore
<1>1. /\ bus' = "idle" /\ left' = 0 /\ enabled' = enabled
      /\ ardy' = ardy /\ CNT' = CNT /\ pc' = pc /\ fifo' = fifo
      /\ TX_count' = TX_count /\ RX_count' = RX_count /\ condition' = condition
      /\ aux' = aux /\ aux2' = aux2 /\ cuts' = cuts
  BY DEF Nack, driver, users
<1>2. Numeric /\ Numeric'
  BY Numbers, NumbersNext
<1>3. OneUser' /\ ClosedIsIdle' /\ Stages'
  BY <1>1 DEF OneUser, ClosedIsIdle, Stages, Stage
<1>4. TxCounted' /\ RxCounted'
  BY <1>1 DEF TxCounted, RxCounted
<1>5. Credit' = Credit
  BY <1>1 DEF Credit, Sleeps, Asleep
<1>6. TxCredit' >= TxCredit /\ RxCredit' >= RxCredit
  <2>1. Count(bus' = "tx") = 0 /\ Count(bus' = "rx") = 0
    BY <1>1 DEF Count
  <2>2. /\ TxCredit' >= TxCredit + 0 + Count(bus = "rx") - Count(bus' = "rx")
        /\ RxCredit' >= RxCredit + 0 + Count(bus = "tx") - Count(bus' = "tx")
    BY <1>2, <1>5, DirectionOn DEF Numeric
  <2> QED
    BY <1>2, <2>1, <2>2, CountsAreBits DEF Numeric
<1>7. aux' + ToSend' <= aux + ToSend /\ aux2' + ToRead' <= aux2 + ToRead
  BY <1>1, <1>2 DEF ToSend, ToRead, Numeric
<1>8. TxPaid' /\ RxPaid'
  BY <1>6, <1>7, TxPaidOn, RxPaidOn
<1>9. InBudget'
  BY <1>1, <1>2, InBudgetOn DEF Numeric
<1> QED
  BY <1>3, <1>4, <1>8, <1>9

\* The index of the transfer that completes is 0, and the early completion has been paid
\* for by the other index.
LEMMA TransferEndsIndex ==
  ASSUME TypeOK, TypeOK', IndexCore, TransferEnds
  PROVE  IndexCore'
<1> USE DEF IndexCore
<1>1. /\ left = 0 /\ left' = 0
      /\ bus = "tx" \/ (bus = "rx" /\ fifo = <<>>)
      /\ bus' = "idle" /\ enabled' = enabled
      /\ ardy' = TRUE /\ CNT' = CNT /\ pc' = pc /\ fifo' = fifo
      /\ TX_count' = TX_count /\ RX_count' = RX_count /\ condition' = condition
      /\ aux' = aux /\ aux2' = aux2 /\ cuts' = cuts
  BY DEF TransferEnds, driver, users
<1>2. Numeric /\ Numeric' /\ TxCredit >= 0 /\ RxCredit >= 0
  BY Numbers, NumbersNext, CreditLeft
<1>3. OneUser' /\ ClosedIsIdle' /\ Stages'
  BY <1>1 DEF OneUser, ClosedIsIdle, Stages, Stage
<1>4. TxCounted' /\ RxCounted'
  BY <1>1 DEF TxCounted, RxCounted
<1>5. Credit' >= Credit + (-1)
  <2>1. /\ Count(Sleeps) \in 0..1 /\ Count(Sleeps') = Count(Sleeps)
        /\ Count(ardy') = 1 /\ Count(condition' # 0) = Count(condition # 0)
    BY <1>1, NobodyMoves DEF Count
  <2>2. \A c, w, k \in Int, a \in 0..1 : c + w - k - 1 >= c + w - k - a + (-1)
    OBVIOUS
  <2>3. /\ cuts \in Int /\ Count(Sleeps) \in Int /\ Count(condition # 0) \in Int
        /\ Count(ardy) \in 0..1
    BY <1>2, <2>1, CountsAreBits DEF Numeric
  <2>4. cuts' + Count(Sleeps) - Count(condition' # 0) - Count(ardy')
          >= cuts + Count(Sleeps) - Count(condition # 0) - Count(ardy) + (-1)
    BY <1>1, <2>1, <2>2, <2>3
  <2> QED
    BY <2>1, <2>4, CreditOn
<1>6. /\ TxCredit = Credit - Count(bus = "rx") /\ RxCredit = Credit - Count(bus = "tx")
      /\ TxCredit' = Credit' - 0 /\ RxCredit' = Credit' - 0
  <2>1. Count(bus' = "tx") = 0 /\ Count(bus' = "rx") = 0
    BY <1>1 DEF Count
  <2> QED
    BY <1>5, <2>1, DirectionOn
<1>7. InBudget'
  BY <1>1, <1>2, InBudgetOn DEF Numeric
<1>8. CASE bus = "tx"
  <2>1. Count(bus = "tx") = 1 /\ Count(bus = "rx") = 0
    BY <1>8 DEF Count
  <2>2. RxCredit' >= RxCredit /\ TxCredit' >= TxCredit + (-1) /\ TxCredit = RxCredit + 1
    <3>1. \A c, d \in Int : d >= c + (-1) =>
            /\ d - 0 >= c - 1 /\ d - 0 >= (c - 0) + (-1) /\ c - 0 = (c - 1) + 1
      OBVIOUS
    <3> QED
      BY <1>2, <1>5, <1>6, <2>1, <3>1 DEF Numeric
  <2>4. TxCredit' >= 0
    <3>1. \A t, r, u \in Int : r >= 0 /\ t = r + 1 /\ u >= t + (-1) => u >= 0
      OBVIOUS
    <3> QED
      BY <1>2, <2>2, <3>1 DEF Numeric
  <2>3. aux' + ToSend' = 0 /\ aux2' + ToRead' <= aux2 + ToRead
    BY <1>1, <1>2, <1>8 DEF TxCounted, ToSend, ToRead, Numeric
  <2> QED
    BY <1>3, <1>4, <1>7, <2>2, <2>3, <2>4, TxPaidBack, RxPaidOn
<1>9. CASE bus = "rx" /\ fifo = <<>>
  <2>1. Count(bus = "tx") = 0 /\ Count(bus = "rx") = 1
    BY <1>9 DEF Count
  <2>2. TxCredit' >= TxCredit /\ RxCredit' >= RxCredit + (-1) /\ RxCredit = TxCredit + 1
    <3>1. \A c, d \in Int : d >= c + (-1) =>
            /\ d - 0 >= c - 1 /\ d - 0 >= (c - 0) + (-1) /\ c - 0 = (c - 1) + 1
      OBVIOUS
    <3> QED
      BY <1>2, <1>5, <1>6, <2>1, <3>1 DEF Numeric
  <2>5. RxCredit' >= 0
    <3>1. \A t, r, u \in Int : r >= 0 /\ t = r + 1 /\ u >= t + (-1) => u >= 0
      OBVIOUS
    <3> QED
      BY <1>2, <2>2, <3>1 DEF Numeric
  <2>3. aux2 = 0 /\ "RRDY" \notin enabled
    <3> QED
      BY <1>1, <1>9 DEF RxCounted, TypeOK, TypeDriver
  <2>4. aux2' + ToRead' = 0 /\ aux' + ToSend' <= aux + ToSend
    BY <1>1, <1>2, <1>9, <2>3 DEF ToSend, ToRead, Numeric
  <2> QED
    BY <1>3, <1>4, <1>7, <2>2, <2>4, <2>5, TxPaidOn, RxPaidBack
<1> QED
  BY <1>1, <1>8, <1>9

LEMMA IsrDoneIndex ==
  ASSUME TypeOK, TypeOK', IndexCore, IsrDone
  PROVE  IndexCore'
<1> USE DEF IndexCore
<1>1. /\ bus' = bus /\ left' = left /\ enabled' = enabled /\ condition' = 10
      /\ ardy /\ ardy' = FALSE /\ CNT' = CNT /\ pc' = pc /\ fifo' = fifo
      /\ TX_count' = TX_count /\ RX_count' = RX_count
      /\ aux' = aux /\ aux2' = aux2 /\ cuts' = cuts
  BY DEF IsrDone, Pending, Raised, users
<1>2. Numeric /\ Numeric'
  BY Numbers, NumbersNext
<1>3. OneUser' /\ ClosedIsIdle' /\ Stages'
  BY <1>1 DEF OneUser, ClosedIsIdle, Stages, Stage
<1>4. TxCounted' /\ RxCounted'
  BY <1>1 DEF TxCounted, RxCounted
<1>5. Credit' >= Credit + 0
  <2>1. /\ Count(Sleeps) \in 0..1 /\ Count(Sleeps') = Count(Sleeps)
        /\ Count(ardy) = 1 /\ Count(ardy') = 0 /\ Count(condition' # 0) = 1
    BY <1>1, NobodyMoves DEF Count
  <2>2. \A c, w \in Int, k \in 0..1 : c + w - 1 - 0 >= c + w - k - 1 + 0
    OBVIOUS
  <2>3. cuts \in Int /\ Count(Sleeps) \in Int /\ Count(condition # 0) \in 0..1
    BY <1>2, <2>1, CountsAreBits DEF Numeric
  <2>4. cuts' + Count(Sleeps) - Count(condition' # 0) - Count(ardy')
          >= cuts + Count(Sleeps) - Count(condition # 0) - Count(ardy) + 0
    BY <1>1, <2>1, <2>2, <2>3
  <2> QED
    BY <2>1, <2>4, CreditOn
<1>6. TxCredit' >= TxCredit /\ RxCredit' >= RxCredit
  BY <1>1, <1>2, <1>5, SameDirection DEF Numeric
<1>7. aux' + ToSend' <= aux + ToSend /\ aux2' + ToRead' <= aux2 + ToRead
  BY <1>1, <1>2 DEF ToSend, ToRead, Numeric
<1>8. TxPaid' /\ RxPaid'
  BY <1>6, <1>7, TxPaidOn, RxPaidOn
<1>9. InBudget'
  BY <1>1, <1>2, InBudgetOn DEF Numeric
<1> QED
  BY <1>3, <1>4, <1>8, <1>9

\* No more is paid for than the cuts and one transfer.
LEMMA CreditCap ==
  ASSUME TypeOK
  PROVE  /\ Budget(TxCredit) <= Budget(cuts + 1) /\ Budget(RxCredit) <= Budget(cuts + 1)
         /\ Budget(TxCredit) \in Int /\ Budget(RxCredit) \in Int /\ Budget(cuts + 1) \in Int
<1>1. cuts \in Int /\ cuts + 1 \in Int /\ TxCredit \in Int /\ RxCredit \in Int
  BY Numbers DEF Numeric
<1>2. /\ Count(Sleeps) \in 0..1 /\ Count(condition # 0) \in 0..1 /\ Count(ardy) \in 0..1
      /\ Count(bus = "rx") \in 0..1 /\ Count(bus = "tx") \in 0..1
  BY DEF Count
<1>3. \A c \in Int, w, k, a, b \in 0..1 : (c + w - k - a) - b <= c + 1
  OBVIOUS
<1>4. TxCredit <= cuts + 1 /\ RxCredit <= cuts + 1
  BY <1>1, <1>2, <1>3 DEF TxCredit, RxCredit, Credit
<1> QED
  BY <1>1, <1>4, BudgetFacts

\* An event that the handler clears is not paid for any more.
LEMMA EventCleared ==
  ASSUME TypeOK, TypeOK', OneUser, pc' = pc, condition' = condition, cuts' = cuts, ardy' = FALSE
  PROVE  Credit' >= Credit /\ Credit' >= Credit + 0
<1>1. /\ Count(Sleeps) \in 0..1 /\ Count(Sleeps') = Count(Sleeps)
      /\ Count(ardy') = 0 /\ Count(condition' # 0) = Count(condition # 0)
  BY NobodyMoves DEF Count
<1>2. \A c, w, k \in Int, a \in 0..1 : c + w - k - 0 >= c + w - k - a + 0
  OBVIOUS
<1>3. /\ cuts \in Int /\ Count(Sleeps) \in Int /\ Count(condition # 0) \in Int
      /\ Count(ardy) \in 0..1
  BY <1>1, CountsAreBits, Numbers DEF Numeric
<1>4. cuts' + Count(Sleeps) - Count(condition' # 0) - Count(ardy')
        >= cuts + Count(Sleeps) - Count(condition # 0) - Count(ardy) + 0
  BY <1>1, <1>2, <1>3
<1>5. Credit' >= Credit + 0 /\ Credit \in Int
  BY <1>1, <1>4, CreditOn
<1> QED
  BY <1>5

LEMMA IsrTxIndex ==
  ASSUME TypeOK, TypeOK', IndexCore, IsrTx
  PROVE  IndexCore'
<1> USE DEF IndexCore
<1>1. /\ bus = "tx" /\ bus' = bus /\ left > 0 /\ left' = left - 1 /\ "XRDY" \in enabled
      /\ ardy' = FALSE /\ CNT' = CNT /\ pc' = pc /\ fifo' = fifo
      /\ TX_count' = TX_count - 1 /\ RX_count' = RX_count /\ condition' = condition
      /\ aux2' = aux2 /\ cuts' = cuts
      /\ "RRDY" \in enabled' <=> "RRDY" \in enabled
  BY DEF IsrTx, Pending, Raised, users
<1>2. Numeric /\ Numeric'
  BY Numbers, NumbersNext
<1>3. /\ TX_count \in {1, left}
      /\ TX_count = 1 => aux' = 0 /\ "XRDY" \notin enabled'
      /\ TX_count # 1 => aux' = aux + 1 /\ enabled' = enabled
  BY <1>1 DEF IsrTx, TxCounted
<1>4. TX_count # 1 => left > 1 /\ TX_count' = left' /\ left' >= 1
  BY <1>1, <1>2, <1>3 DEF Numeric
<1>5. OneUser' /\ ClosedIsIdle' /\ Stages'
  <2>1. OneUser' /\ ClosedIsIdle'
    BY <1>1 DEF OneUser, ClosedIsIdle
  <2>2. ASSUME NEW p \in Procs
        PROVE  Stage(p)'
    <3>1. Stage(p)
      BY DEF Stages
    <3>2. CASE TX_count = 1
      BY <1>1, <1>3, <3>1, <3>2 DEF Stage
    <3>3. CASE TX_count # 1
      BY <1>1, <1>3, <3>1, <3>3 DEF Stage
    <3> QED
      BY <3>2, <3>3
  <2> QED
    BY <2>1, <2>2 DEF Stages
<1>6. TxCounted' /\ RxCounted'
  <2>1. CASE TX_count = 1
    BY <1>1, <1>3, <2>1 DEF TxCounted, RxCounted
  <2>2. CASE TX_count # 1
    BY <1>1, <1>2, <1>3, <1>4, <2>2 DEF TxCounted, RxCounted, Numeric
  <2> QED
    BY <2>1, <2>2
<1>7. TxCredit' >= TxCredit /\ RxCredit' >= RxCredit
  BY <1>1, EventCleared, SameDirection
<1>8. aux' + ToSend' <= aux + ToSend /\ aux2' + ToRead' <= aux2 + ToRead
  <2>1. ToSend = left /\ ToSend' = left - 1 /\ ToRead' = ToRead
    BY <1>1 DEF ToSend, ToRead
  <2>2. aux' = 0 \/ aux' = aux + 1
    BY <1>3
  <2>3. \A a, l \in Nat : 0 + (l - 1) <= a + l /\ (a + 1) + (l - 1) <= a + l
    OBVIOUS
  <2>4. aux' + ToSend' <= aux + ToSend
    BY <1>2, <2>1, <2>2, <2>3 DEF Numeric
  <2>5. aux2' + ToRead' <= aux2 + ToRead
    BY <1>1, <1>2, <2>1 DEF Numeric
  <2> QED
    BY <2>4, <2>5
<1>9. TxPaid' /\ RxPaid'
  BY <1>7, <1>8, TxPaidOn, RxPaidOn
<1>10. InBudget'
  <2>1. CASE TX_count = 1
    BY <1>1, <1>2, <1>3, <2>1, InBudgetOn DEF Numeric
  <2>2. CASE TX_count # 1
    <3>1. aux + left <= Budget(TxCredit)
      BY <1>1 DEF TxPaid, ToSend
    <3>2. \A a, l, b, c \in Int : l > 1 /\ a + l <= b /\ b <= c => a + 1 < c
      OBVIOUS
    <3>3. aux + 1 < Budget(cuts + 1)
      BY <1>2, <1>4, <2>2, <3>1, <3>2, CreditCap DEF Numeric
    <3>4. Budget(cuts + 1)' = Budget(cuts + 1)
      BY <1>1 DEF Budget
    <3> QED
      BY <1>1, <1>3, <2>2, <3>3, <3>4 DEF InBudget
  <2> QED
    BY <2>1, <2>2
<1> QED
  BY <1>5, <1>6, <1>9, <1>10

LEMMA IsrRxIndex ==
  ASSUME TypeOK, TypeOK', IndexCore, IsrRx
  PROVE  IndexCore'
<1> USE DEF IndexCore
<1>1. /\ fifo # <<>> /\ fifo' = Tail(fifo) /\ "RRDY" \in enabled /\ left' = left
      /\ ardy' = FALSE /\ CNT' = CNT /\ pc' = pc
      /\ TX_count' = TX_count /\ RX_count' = RX_count - 1 /\ condition' = condition
      /\ aux' = aux /\ cuts' = cuts
      /\ "XRDY" \in enabled' <=> "XRDY" \in enabled
  BY DEF IsrRx, Pending, Raised, users
<1>2. Numeric /\ Numeric' /\ Len(fifo) \in Nat /\ Len(fifo') = Len(fifo) - 1
  <2>1. fifo \in Seq(Bytes)
    BY DEF TypeOK, TypeChip
  <2> QED
    BY <1>1, <2>1, Numbers, NumbersNext
<1>3. /\ RX_count >= 1
      /\ RX_count = 1 => aux2' = 0 /\ "RRDY" \notin enabled'
      /\ RX_count # 1 => aux2' = aux2 + 1 /\ enabled' = enabled
  BY <1>1 DEF IsrRx, RxCounted
<1>4. RX_count # 1 => RX_count > 1 /\ RX_count' >= 1
  BY <1>1, <1>2, <1>3 DEF Numeric
<1>5. bus' = bus \/ (bus = "rx" /\ bus' = "idle")
  BY DEF IsrRx
<1>6. OneUser' /\ ClosedIsIdle' /\ Stages'
  <2>1. OneUser' /\ ClosedIsIdle'
    BY <1>1, <1>5 DEF OneUser, ClosedIsIdle
  <2>2. Stages'
    BY <1>1, <1>5 DEF Stages, Stage
  <2> QED
    BY <2>1, <2>2
<1>7. TxCounted'
  BY <1>1, <1>5 DEF TxCounted
<1>8. RxCounted'
  <2>1. CASE RX_count = 1
    BY <1>1, <1>3, <2>1 DEF RxCounted
  <2>2. CASE RX_count # 1
    <3>1. bus' = "rx" => bus = "rx" /\ RX_count <= left + Len(fifo)
      BY <1>1, <1>5 DEF RxCounted
    <3>2. \A r, l, n, m \in Int : r <= l + n /\ m = n - 1 => r - 1 <= l + m
      OBVIOUS
    <3>3. bus' = "rx" => RX_count' <= left' + Len(fifo')
      BY <1>1, <1>2, <3>1, <3>2 DEF Numeric
    <3>4. ~(bus' = "rx" /\ left' = 0 /\ fifo' = <<>>)
      <4>1. Len(<<>>) = 0
        OBVIOUS
      <4>2. RX_count' \in Int /\ RX_count' >= 1
        BY <1>2, <1>4, <2>2 DEF Numeric
      <4> QED
        BY <3>3, <4>1, <4>2
    <3> QED
      BY <1>1, <1>4, <2>2, <3>3, <3>4 DEF RxCounted
  <2> QED
    BY <2>1, <2>2
<1>9. TxCredit' >= TxCredit /\ RxCredit' >= RxCredit
  <2>1. CASE bus' = bus
    BY <1>1, <2>1, EventCleared, SameDirection
  <2>2. CASE bus = "rx" /\ bus' = "idle"
    <3>1. /\ Count(bus = "tx") = 0 /\ Count(bus' = "tx") = 0
          /\ Count(bus = "rx") = 1 /\ Count(bus' = "rx") = 0
      BY <2>2 DEF Count
    <3>2. Credit' >= Credit + 0
      BY <1>1, EventCleared
    <3>3. /\ TxCredit' >= TxCredit + 0 + Count(bus = "rx") - Count(bus' = "rx")
          /\ RxCredit' >= RxCredit + 0 + Count(bus = "tx") - Count(bus' = "tx")
      BY <3>2, DirectionOn
    <3>4. /\ TxCredit' >= TxCredit + 0 + 1 - 0
          /\ RxCredit' >= RxCredit + 0 + 0 - 0
      BY <3>1, <3>3
    <3>5. \A c, d \in Int : (d >= c + 0 + 1 - 0 => d >= c) /\ (d >= c + 0 + 0 - 0 => d >= c)
      OBVIOUS
    <3> QED
      BY <1>2, <3>4, <3>5 DEF Numeric
  <2> QED
    BY <1>5, <2>1, <2>2
<1>10. aux' + ToSend' <= aux + ToSend /\ aux2' + ToRead' <= aux2 + ToRead
  <2>1. ToSend' = ToSend /\ ToRead = RX_count
    BY <1>1, <1>5 DEF ToSend, ToRead
  <2>2. CASE RX_count = 1
    <3>1. ToRead' = 0
      BY <1>3, <2>2 DEF ToRead
    <3> QED
      BY <1>1, <1>2, <1>3, <2>1, <2>2, <3>1 DEF Numeric
  <2>3. CASE RX_count # 1
    <3>1. ToRead' = RX_count - 1
      BY <1>1, <1>3, <2>3 DEF ToRead
    <3> QED
      BY <1>1, <1>2, <1>3, <2>1, <2>3, <3>1 DEF Numeric
  <2> QED
    BY <2>2, <2>3
<1>11. TxPaid' /\ RxPaid'
  BY <1>9, <1>10, TxPaidOn, RxPaidOn
<1>12. InBudget'
  <2>1. CASE RX_count = 1
    BY <1>1, <1>2, <1>3, <2>1, InBudgetOn DEF Numeric
  <2>2. CASE RX_count # 1
    <3>1. aux2 + RX_count <= Budget(RxCredit)
      BY <1>1 DEF RxPaid, ToRead
    <3>2. \A a, l, b, c \in Int : l > 1 /\ a + l <= b /\ b <= c => a + 1 < c
      OBVIOUS
    <3>3. aux2 + 1 < Budget(cuts + 1)
      <4>1. aux2 \in Int /\ RX_count \in Int /\ RX_count > 1
        BY <1>2, <1>4, <2>2 DEF Numeric
      <4> QED
        BY <3>1, <3>2, <4>1, CreditCap
    <3>4. Budget(cuts + 1)' = Budget(cuts + 1)
      BY <1>1 DEF Budget
    <3> QED
      BY <1>1, <1>3, <2>2, <3>3, <3>4 DEF InBudget
  <2> QED
    BY <2>1, <2>2
<1> QED
  BY <1>6, <1>7, <1>8, <1>11, <1>12

LEMMA IndexInit == Init => IndexInv
<1> SUFFICES ASSUME Init
             PROVE  IndexCore
  BY DEF IndexInv
<1> USE DEF Init
<1>1. OneUser /\ ClosedIsIdle /\ Stages
  BY DEF OneUser, ClosedIsIdle, Stages, Stage
<1>2. TxCounted /\ RxCounted
  BY DEF TxCounted, RxCounted
<1>3. TxCredit = 0 /\ RxCredit = 0
  BY DEF TxCredit, RxCredit, Credit, Count, Sleeps, Asleep
<1>4. ToSend = 0 /\ ToRead = 0
  BY DEF ToSend, ToRead
<1>5. Budget(0) = 0 /\ 0 < Budget(0 + 1)
  BY I2cAssumption DEF Budget
<1>6. TxPaid /\ RxPaid
  BY <1>3, <1>4, <1>5 DEF TxPaid, RxPaid
<1>7. InBudget
  BY <1>5 DEF InBudget
<1> QED
  BY <1>1, <1>2, <1>6, <1>7 DEF IndexCore

LEMMA OverlapStays == TypeOK /\ [Next]_vars /\ ~overlap' => ~overlap
  BY DEF Next, vars, Open, Read, CloseFree, CloseReset, StartTx, StartRx, BusTimeout, WakeTx,
     WakeRx, Cut, AfterTx, AfterRx, ByteArrives, TransferEnds, Nack, IsrTx, IsrRx, IsrDone,
     TypeOK, TypeHistory

LEMMA IndexInductive == TypeOK /\ TypeOK' /\ IndexInv /\ [Next]_vars => IndexInv'
<1> SUFFICES ASSUME TypeOK, TypeOK', IndexInv, [Next]_vars, ~overlap'
             PROVE  IndexCore'
  BY DEF IndexInv
<1>1. IndexCore
  BY OverlapStays DEF IndexInv
<1>2. CASE UNCHANGED vars
  BY <1>1, <1>2 DEF vars, users, mem, driver, chip, IndexCore, OneUser, ClosedIsIdle, Stages, Stage,
     TxCounted, RxCounted, TxPaid, RxPaid, InBudget, TxCredit, RxCredit, Credit, ToSend, ToRead,
     Sleeps, Asleep
<1>3. ASSUME NEW p \in Procs, Open(p)
      PROVE  IndexCore'
  BY <1>1, <1>3, OpenIndex
<1>4. ASSUME NEW p \in Procs, Read(p)
      PROVE  IndexCore'
  BY <1>1, <1>4, ReadIndex
<1>5. ASSUME NEW p \in Procs, CloseFree(p) \/ BusTimeout(p)
      PROVE  IndexCore'
  BY <1>1, <1>5, LeaveIndex
<1>6. ASSUME NEW p \in Procs, CloseReset(p)
      PROVE  IndexCore'
  BY <1>1, <1>6, CloseResetIndex
<1>7. ASSUME NEW p \in Procs, StartTx(p)
      PROVE  IndexCore'
  BY <1>1, <1>7, StartTxIndex
<1>8. ASSUME NEW p \in Procs, StartRx(p)
      PROVE  IndexCore'
  BY <1>1, <1>8, StartRxIndex
<1>9. ASSUME NEW p \in Procs, WakeTx(p) \/ WakeRx(p) \/ Cut(p)
      PROVE  IndexCore'
  <2>1. /\ AfterTx(p) \/ AfterRx(p)
        /\ (condition # 0 /\ cuts' = cuts) \/ (condition = 0 /\ cuts' = cuts + 1)
    BY <1>9 DEF WakeTx, WakeRx, Cut
  <2> QED
    BY <1>1, <2>1, AfterTxIndex, AfterRxIndex
<1>10. CASE ByteArrives \/ TransferEnds \/ Nack
  BY <1>1, <1>10, ByteArrivesIndex, TransferEndsIndex, NackIndex
<1>11. CASE IsrTx \/ IsrRx \/ IsrDone
  BY <1>1, <1>11, IsrTxIndex, IsrRxIndex, IsrDoneIndex
<1> QED
  BY <1>2, <1>3, <1>4, <1>5, <1>6, <1>7, <1>8, <1>9, <1>10, <1>11 DEF Next

\* IndexBound: while one process at a time has the device open, the static indices of
\* driver_isr stay below the room of one answer for every signal that has cut a wait,
\* and one more.  What each wait may add is paid for by it or by the cut that ended it.
THEOREM IndicesAreBounded == Spec => []IndexBound
<1>1. TypeOK /\ IndexInv => IndexBound
  BY DEF IndexInv, IndexCore, InBudget, Budget, IndexBound
<1>2. Init => TypeOK /\ IndexInv
  BY TypeInit, IndexInit
<1>3. TypeOK /\ IndexInv /\ [Next]_vars => (TypeOK /\ IndexInv)'
  BY TypeInductive, IndexInductive
<1> QED
  BY <1>1, <1>2, <1>3, PTL DEF Spec
=============================================================================
