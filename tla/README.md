# Verification of DesafioTecnico2021

TLA+ models of the programs of this repository, checked with TLC on small instances and,
for the main safety properties, proved with TLAPS. Paths below are relative to the
repository; `ClienteServidor/` stands for `Plus/TCP-IP-SensorDeTemp/ClienteServidor/`.

## The system

The repository holds three groups of C programs that share one idea: processes (or a
process and an interrupt handler) exchange a few bytes, and a System V semaphore created
by the same `initsem()` keeps them apart.

| part | source | state | operations | speaks with |
|---|---|---|---|---|
| semaphore set | `src/initsem.c` (the same in `ClienteServidor/`) | kernel: key, value, `sem_otime`; each process: semid, retries | create, find, poll, semop -1/+1, remove | every application |
| CPUtemp (producer) | `src/CPUtemp.c` | shared segment, `f_close` | start, write the temperature, end | the consumer, by segment and semaphore |
| CloudCommunicationApp (consumer) | `src/CloudCommunicationApp.c` | the same, and a Unix socket | start, read, send, recv, end; SIGUSR1 | the producer; the cloud server |
| server, main | `ClienteServidor/Servidor.c`, `Server.c` | segment, set, socket, `f_close`, `f_update` | start, fork the reader, select/accept/fork; SIGINT, SIGUSR1, SIGCHLD | its children, by segment, fork and signals |
| server, reader | `Server_Reader_Child.c`, `ProcesadorEstadistico.c` | buffer of samples, count, size, average | sample, average, publish, reconfigure, end | the driver; the segment |
| server, child of a browser | `ProcesarCliente.c` | two floats | recv, look at the semaphore, read, send | the browser; the segment |
| server, Config | `Config.c`, `config` | four parameters | parse the file | main and reader |
| BMP280 driver | `Plus/TCP-IP-SensorDeTemp/MyDriver/i2c_dev.c` | buffers, counters, `condition`, wait queue | open, read, ISR, release, probe, remove | the reader; the device |
| ultrasonic driver | `Plus/Tesis/Drivers/driver_MIOgpio_PS.c` | echo times and valid flags | open, read, write, release, ISR | robot |
| encoder drivers | `driver_encoder_EMIOgpio_PL_{1,2}.c` | times, count, valid flag | open, read, release, ISR | robot |
| pwm, gpio, compass, video drivers | the other files of `Plus/Tesis/Drivers` | device registers | write, read | robot |
| life of a driver | the same files and `i2c_dev.c` | what it has from the kernel | init, probe, remove, exit | kernel, open files |
| robot, state writer | `Plus/Tesis/Apps/usrSpace_top.c` | `state.txt`, semaphore | read all the sensors, rewrite their lines | drivers; drive, by the file |
| robot, drive | `Plus/Tesis/Apps/usrSpace_drive.c` | `state.txt`, semaphore, angle | read the request, steer | drivers; the state writer |
| small applications, PNG server | the rest of `Plus/Tesis` | none | one read or write | drivers |

### What is hard

* **Interleaving.** Processes race in `initsem` (`initsem.c:11`), the children of
  browsers read a segment the reader writes (`ProcesarCliente.c:39-42`), interrupt
  handlers write what `read` is reading.
* **Failure.** Any process may be killed, between `semget` and the first `semop` or
  while it holds the semaphore. There are some thirty error exits, each of which must
  remove exactly what had been created.
* **Ordering.** `sem_otime` is the only sign that a set is ready; SIGCHLDs merge; a flag
  set by a handler just before `select` wakes nobody.
* **Timeouts and retries.** `MAX_RETRIES` polls in `initsem`; `semop` is not restarted
  after a signal; the waits of the drivers, after which an echo may still arrive and
  meet the next read.
* **Boundaries.** The buffer of samples that grows by five, a 0 as its end mark, an
  average that changes in the middle of a block; a value longer than the line of
  `state.txt` it is written over; a counter of 32 bits.

What makes the parts correct: the set is a lock, is initialised before it is used and
survives its users' deaths (semaphore set); what is created is removed, the lock is held
only around the segment (all applications); an answer that no publication falls into is
made of one, every child is reaped, SIGINT ends everything (server); the mean is of
exactly one block and the buffer holds it (reader); a transfer ends with its own
interrupt and its own bytes, a buffer is not used after it was freed (BMP280 driver); a
distance is that of the echo of its own trigger (ultrasonic); every pulse counts once
and a time is of one block (encoders); who takes the semaphore finds one snapshot in the
file, and the robot is steered by what was last asked for (robot).

`PROJECT.json` lists every hazard at its line, with the properties that cover it.

## Modules

| module | models | built on |
|---|---|---|
| `Mutex` | abstract: locks that are entered and left | |
| `InitSem` | `initsem`, semop, exits, kills, removal | refines `Mutex` |
| `TempShare` | the two programs of `src/` | `InitSem` (INSTANCE) |
| `Servidor` | main, reader and children of the server | |
| `Promedio` | the reader's buffer and average | |
| `I2cDriver` | open, read, release and the interrupt handler of `i2c_dev.c`, and the controller | |
| `DriverLifecycle` | load, probe, removal and unload of a driver, and its open files | |
| `DriverScripts` | what each of the eleven drivers asks for and gives back | used by `DriverLifecycle` |
| `UltrasonicDriver` | open, read, write, release and the interrupt handler of `driver_MIOgpio_PS.c`, and the sensors | |
| `EncoderDriver` | read and the interrupt handler of an encoder, and the wheel | |
| `RobotState` | `usrSpace_top` and `usrSpace_drive` on `state.txt` | `InitSem` (INSTANCE) |
| `InitSem_proofs`, `TempShare_proofs`, `Servidor_proofs`, `I2cDriver_proofs`, `DriverLifecycle_proofs`, `UltrasonicDriver_proofs`, `EncoderDriver_proofs`, `RobotState_proofs` | theorems | those of `TempShare` and `RobotState` on those of `InitSem`; those of `Promedio` are in `Servidor_proofs` |
| `MCInitSem`, `MCTempShare`, `MCI2cDriver`, `MCDriverLifecycle`, `MCUltrasonicDriver`, `MCRobotState` | values of constants for TLC | |

**InitSem.** The kernel's side is `keyed` (the set found under the key), `sets`
(identifiers are never used again), `val` and `otime`. Each process has a point `pc`,
its `semid`, its polls `tries` and its `sb`. One action is one system call:
`SemgetCreates`, `SemgetExists` and `SemgetFails` are the three answers of the first
`semget`; `CreatorReleases`/`CreatorFails` the winner's `semop`; `LookupFinds`/
`LookupFails` the loser's second `semget`; `PollReady`, `PollAgain`, `PollTimeout` its
loop; `Acquire`, `Release` and their failures the uses in the applications; `Exit`,
`ExitRemoving`, `Kill` and `Ipcrm` the ends. What an uninitialised `sb` holds is chosen
once for each process from `SembufFlags`. All call sites ask for one semaphore, so a set
is one number.

**TempShare.** `at` is the place of each program in `main()`; the semaphore variables
only change through actions of `InitSem`. A segment exists while it has its key or
somebody is attached; `shmget` by a consumer of a producer's (smaller) segment fails;
`shmat` on a destroyed segment returns the bad pointer that the test `buffer < 0` lets
pass, and the next use is a `Segfault`. Every exit of the two `main()` is there:
`cleanup` and `exit` are the releases, `RecvFails` is the `exit(1)` that releases
nothing. A `semop` that fails, because the set was removed under it or by IPC_NOWAIT, is
`LockFails`; one that SIGUSR1 interrupts in its wait is `LockInterrupted`. The producer
never enters its loop (`CPUtemp.c:101`), so that what contends for the semaphore is two
consumers.

**Servidor.** A published value is the number of its block, so that a property can say
which publication a field comes from. The two `snprintf` of a publication write over the
old text in place and end it last, while children read it without the lock:
`ReaderOverwritesTemp` and `ReaderOverwritesPres` are what may stand there before their
end (digits of two numbers are `Torn`; an old pressure may stand behind a new
temperature), `ReaderWritesTemp` and `ReaderWritesPres` their end; `ReaderFailsToWrite`
is the `exit(1)` behind either, inside the lock. The two fields that `sscanf` reads are
two steps as well. `undisturbed` is history: the children that have met no publication
since they looked at a semaphore that exists. What a child has read is forgotten when it
ends (`Forget`). `MainFails` is the error path that releases (the same five calls
everywhere); `MainLeaks` is the `exit(1)` of `sigchld_handler` and of `Config`, and a
kill. `top` is the moment between the flags and `select` where a signal wakes nobody.

**Promedio.** `data` is the buffer and the memory behind it, `room` what was allocated;
a 0 stored outside may later read as anything. `pending`, `turn`, `published`, `reduced`
and `overrun` are history, for the properties only. The names of its specification
(`SamplingInit`, `SamplingNext`, `Sampling`) are its own, for it is a part of the
process that `Servidor` calls the reader and the two are read side by side.

**I2cDriver.** A call is cut where it sleeps. `Prepare` is `bmp280_read` up to its first
look at the bus, `StartTx` and `StartRx` what follows a free bus up to the wait,
`BusTimeout` the ten looks at a busy one, `WakeTx` and `WakeRx` the code after a wait,
with everything the caller does until the next sleep: the next command of `bmp280_init`,
`save_calib_param`, the copy to the user. `Cut` is a signal in a wait, after which the
code goes on as if awakened. `driver_release` is cut between the two `kfree`
(`CloseFree`) and the reset of the controller (`CloseReset`). `IsrTx`, `IsrRx` and
`IsrDone` are the branches of `driver_isr`; each clears every latched event, as the
handler does, so that a completion latched while a byte is served is lost by the driver,
not by the controller: `missed` records it, apart from `faults`, the transfers that the
controller never reports. The controller and the sensor (`ByteArrives`, `TransferEnds`,
`Nack`) are external: they do what the driver expects of the registers. A byte is the
command it answers and its position; the bytes from before a `Prepare` are `Junk`, which
is all that a property needs to tell a stale byte from a fresh one. `CNT` keeps eight
bits.

**DriverLifecycle, DriverScripts.** The init, probe, remove and exit functions of the
drivers are lists of requests with their error paths and lists of releases; they are
data in `DriverScripts`, one definition for each function or driver. `DriverLifecycle`
runs them: `Obtain`, `Refuse` and `GoOn` are the answers to a request, `GiveBack` one
release, `Remove` the call of `driver_remove` from `platform_driver_unregister`,
`Registered` the probe from inside the registration. A probe that fails leaves the
module loaded. `held` is what this load has, `lost` what earlier ones left, and a name
or a number that is lost is refused. `free_irq` with a `dev_id` that no handler has
frees nothing. `device_destroy` looks its device up through the class; where that has
been destroyed before (`NoClass`: the error path of every registration, e.g.
`driver_EMIOgpio_PL.c:354-355`) it reads freed memory, and may find the device or leave
it registered. Either way it counts as given back astray (`stray`). Binding a driver by
hand through sysfs is left out.

**UltrasonicDriver.** A time is the trigger whose echo it was taken at, or `Old`: that
is all `OwnEchoes` needs to tell an echo of this read from a late one. `Read` is
`driver_read` up to the first trigger, `Trigger` a pulse on the pin, `Measured` and
`Timeout` the two ends of a wait, `Compute` the three differences. `driver_isr` is its
three blocks, each cut before and after the service of its bit: an edge latched between
`IsrRecords` and `IsrClears` is wiped out with the others, because `set_registers`
writes back all the bits it read. Sensors answer late, or not at all. The right sensor
is the one whose echo the handler calls right; the comments of `driver_open` (lines 317,
323) name the two pins the other way round, and which is true is not in the repository.

**EncoderDriver.** One wheel; the second driver has the same code. A time is the number
of the pulse it was taken at, so a block of n pulses lasts n - 1. The handler looks at
the level of the input when it gets to run (`IsrCounts`), and clears the status
afterwards (`IsrClears`). The read is cut at each variable it shares with the handler:
the flag, the end, the start and the count.

**RobotState.** `state.txt` is a sequence of cells: the words of a line in one cell, a
cell for each character of a value, the newline. One turn of `saveSTATE`'s loop is one
step (`SaveLine`), with the overwriting in place of `fseek` and `fwrite`, so that a
longer value eats the newline as in the code; `off` is `loffset`, which is counted up,
and `pos` where the stream is. An `fwrite` only fills the buffer of the stream: what
cannot be written shows in the `fseek` behind it (line 43), whose result nobody looks
at. `FlushFails` is that: the value is lost, the pass goes on, and the stream is at the
next line or still at this one. `SaveFails` is the `return -1` after a short `fwrite`. A
value shorter than the one it replaces leaves the end of that one in the line
(`shrunk`). That the two programs use the `initsem` of `src/initsem.c` is an assumption:
the `func.h` they include is not in the repository. `Fails` are the exits outside the
lock; `Kill` is a kill anywhere, with the `SEM_UNDO` both pass. Whoever writes the
request into the file is external (`Ask`).

## Runs

| run | instance | shows |
|---|---|---|
| `initsem` | 3 processes, 2 sets, 1 poll, with and without SEM_UNDO and IPC_NOWAIT, two may be killed, `ipcrm` | mutual exclusion, initialisation before use, no lost token, refinement of `Mutex`, nobody waits for ever |
| `tempshare` | a producer and 2 consumers, any two of them at a time, SEM_UNDO, 2 segments, 2 sets | a segment under the key is somebody's to remove; the lock contended, interrupted and removed under a consumer that waits for it: the programs are users of `InitSem`, have the lock only around the segment, and end when the cloud closes |
| `servidor` | 2 browsers, 2 blocks | semaphore sound across kills; what an answer may mix, and that one which met no publication mixes nothing; all children reaped; SIGINT ends the reader |
| `promedio` | first size 1, bucket 2, samples 0, 1, 3, averages 0 to 3, 4 samples kept | mean of exactly one block, samples fit, blocks are published |
| `i2cdriver` | one process, answers of at most 3 bytes, 2 signals, 1 transfer that never completes, completions that the handler clears | whole answers, handler inside live buffers, indices bounded, every other wait ends |
| `lifecycle` | the eleven drivers, 1 open file, any number of loads | registration undone but for a device without its class, nothing left by a clean load, nothing given back twice, registers outlive their handler, an open file keeps the module |
| `ultrasonic` | 2 sensors, tested in another order than they are triggered, 2 processes | a clean read has the echoes of its own triggers |
| `encoder` | blocks of 3 pulses, a counter of 4 values, 8 pulses | every pulse counted once, one block in an answer |
| `robot` | 2 lines and the request, values of 1 to 3 characters on lines with room for 2, kills, errors and lost writes anywhere | one snapshot between two passes, value by value; the request steers in the end |

Three more runs expect a violation, each of what a comment or the Readme says:

| run | property | the code |
|---|---|---|
| `servidor_pair` | `AnswerIsAPair` (`ProcesarCliente.c:41`) | the semaphore is looked at, not taken |
| `servidor_close` | `CloseStopsServer` (`ClienteServidor/Readme:1`) | SIGINT outside `select` is not noticed |
| `lifecycle_irq` | `IrqIsFreed` (`driver_MIOgpio_PS.c:647`) | `free_irq` is given another `dev_id` than `request_irq` |

Other places where the code does not do what is said of it show in the models and have
no run of their own: `CPUtemp` never writes a temperature, for its handler is not
installed and its loop not entered (`CPUtemp.c:2`, `:101`); `driver_open` of the BMP280
returns 0 when `bmp280_init` failed (`i2c_dev.c:497`, `:575`); `driver_read` does not
come back, with a controller that completes every transfer, when the completion is
latched while the handler takes the last byte and is cleared with it (`i2c_dev.c:462`;
`missed` in `WaitEnds`); `device_destroy` in the error path of every registration comes
after the `class_destroy` it depends on (`driver_EMIOgpio_PL.c:354`; `NoClass`); from
the first growth of the buffer on there is no element for the 0 behind the samples
(`Server_Reader_Child.c:129`, `:268`); an ultrasonic read whose waits timed out returns
0 with old times (`driver_MIOgpio_PS.c:372`, `:417`); the speed of the second wheel is
computed from the times of the first (`usrSpace_top.c:310`).

**Bounds.** Two sets are enough for a removal and a new creation under a process that
holds the old identifier; three processes for a winner, a loser and a third that arrives
after the removal. One poll (`MAX_RETRIES`) reaches the ready, the again and the timeout
answers. Two segments show a program attached to a removed one while another starts.
Three programs of which two run at a time (`MaxRunning`) give the producer beside a
consumer and two consumers that wait for each other, one removing the set under the
other. Two browsers and two blocks let an answer fall between two publications, and over
the bytes of one, and let two SIGCHLDs merge. With first size 1 and bucket 2 the buffer
grows once and reaches its end, where the code has 5 and 5. In `I2cDriver` answers of
one, two and three bytes reach the first, a middle and the last byte of a transfer; two
signals let the indices be left half way and go on from there. TLC has one opener: a
second `open` during a transfer restarts the counters of the first, and the model has no
bound for what follows. The proofs hold for all values, and with any number of
processes.

Two sensors are one that is being waited for and one whose late echo disturbs it, in
both orders; two readers are one that is clean and one that is not. Blocks of three
pulses have a first, a middle and a last one, and eight pulses take a counter of four
values round twice. Three lines put a value before another value and before the request;
lengths of one, two and three are a value shorter than its line, one that fits and one
that does not; the set is never removed here, so one is enough. `FlushFails` is not
taken again before the next value is written, nor once a value went where there was no
room for it.

`DriverLifecycle` needs no bound but `MaxFiles`: what matters of a second file is
already said by the first. **Deadlock** is checked except in the runs of `Servidor`,
where the server does stop, and in that of `I2cDriver`, where a transfer that is never
reported leaves its reader asleep (the driver has no timeout there).

**Fairness.** In `InitSem` and `TempShare` a process that runs goes on with its calls
(weak fairness), and a blocked `semop` is served in turn (strong fairness: the kernel
queues the sleepers in order of arrival). In `Servidor` main and the reader go on and a
pending SIGCHLD is delivered; that the reader goes on assumes that the driver answers
its reads. In `RobotState` the programs that run go on and a blocked `semop` is served
in turn, but the compass need not ever answer: `usrSpace_top` asks it again without end
(lines 280-294), outside the semaphore. In `Promedio` the sensor goes on giving samples.
In `I2cDriver` a pending interrupt is served, a transfer goes on and a process whose
wait is over runs. Nobody has to open, read or close the device, to ask for an angle, or
to start, kill or signal a program, connect, answer, or run `ipcrm`.

**Conditions in properties.** `NoLostToken`, `NobodyWaitsForever` and
`CloseEndsConsumer` hold when every user passes SEM_UNDO: the two programs of `src/`
leave `sem_flg` unassigned, and without it a kill in the critical section is final.
`MeanOfBlock` leaves out blocks with a sample equal to 0, which ends the sum, and what
follows an overrun. `BlockIsPublished` leaves out blocks for which the average was set
below the samples already collected: such a block is never published. In
`SegmentHasAnOwner` the ends that leak by their code (the `exit(1)` after `recv`) and
kills are marked by a history variable and set apart. `PressureNearTemperature` speaks
of answers whose two fields are whole numbers of a publication: which digits of a torn
one are whose is abstracted from. `UndisturbedAnswer` speaks of children that met no
publication behind their look at the semaphore, and leaves out a text that a dead reader
did not end. The properties of `DriverLifecycle` name the drivers that are left out and
the refusals after which they do not hold: each is a leak, a double release or a wrong
order that the scripts show at the lines that `PROJECT.json` gives under hazards.
`MeasurementIsWhole` and `HandlerOwnsBuffers` are stated for a `Calm` driver: one
process at a time has the device open and no signal has ended a wait, because nothing in
the driver provides for either (no lock, the results of the waits unused). `WaitEnds`
also lets go a transfer that the controller never reports and one whose report the
handler has cleared (`missed`), and `IndexBound` lets each cut wait add one answer.
`OwnEchoes` is stated for a `clean` read: the sensors were at rest when it began, no
wait of its own timed out, no other process was in the driver, no edge came before the
last was served. What it rules out is that anything *earlier* reaches such a read: late
echoes, lost edges, other readers. `EveryPulseCounts` asks the same of the handler
(`exact`), and `AnswerOfOneBlock` that no interrupt fell between the test of the flag
and the last load (`quiet`); without it the time may be negative or of two blocks.
`OneSnapshot` leaves out the time between a pass that an error, a lost write or a kill
left without a line and the next complete one (`cut`). It looks at whole values:
characters of an older one may stand behind a value only if one of the pass was shorter
than what it replaced (`shrunk`). Both properties of `RobotState` end when a value
outgrows its line (`outgrown`), for `saveSTATE` never compares the lengths.

## Proofs

* `InitSem_proofs`, for any sets of processes and flags, any number of sets and polls,
  from `ConstantsAssumption`: `TypeCorrect`; `LockInvariant` (Spec implies `[]LockInv`).
  Mutual exclusion alone is not inductive: the step of `Acquire` needs that a value of 1
  means that nobody is inside, hence "a process in `cs` leaves value 0"; that needs that
  only one process ever releases a set it has not acquired, hence the parts about
  `creator` and about sets without `otime`. From it `MutualExclusionHolds`,
  `HandshakeHolds` and `NoTokenIsLost`, and `Refinement`: each step maps to a step of
  `Mutex` or to a stutter, under `holder[g] = {p : pc[p] = "cs" /\ semid[p] = g}`. The
  refinement says that the set is a lock whatever is removed, killed or started again.
* `TempShare_proofs`, for any producers, consumers, segments and sets: first
  `ProgramsUseTheSet`, that each step of the two programs is a step of `InitSem` or
  leaves the set alone; then `TypeCorrect`, `SegmentsAreOwned` and `LockAroundShm`, by
  an invariant that ties where a program is in `main()` to what it has of the segment
  (`HasSegment`) and of the semaphore (`SemStage`); and `UsersExcludeEachOther`, mutual
  exclusion of `InitSem` carried over by the first.
* `Servidor_proofs`, for any browsers and blocks: `TypeCorrect`, `SemaphoreIsSound`,
  `PressureIsNearTemperature`, `UndisturbedAnswerIsAPair`. The inductive invariant adds
  that no reader exists before the fork, that the text holds the last publication and of
  the next what has been written by now, down to torn digits (`TextInv`), that a child
  half way through its read has a temperature not newer than the publication in progress
  (`SeenInv`), and that while there is a child that met no publication the reader is
  outside its critical section and the text stands still (`UndisturbedInv`).
* `Servidor_proofs` also says, of `Promedio`, for every first size, bucket, set of
  samples and sequence of averages, from `PromedioAssumption`: `SamplesAlwaysFit`,
  `BufferTyped` and `MeanIsOfBlock`. `ProcesadorIsTotal` is the core of the last: what
  the loop of `ProcesadorEstadistico.c` adds up, from the front of the buffer to the
  first 0, is the total of the block, whatever earlier blocks have left behind that 0.
  The sum of the first k samples and of what the buffer holds from k on is the same for
  every k; that is an induction, which the provers can do when it is put as "a set of
  numbers that has 0 and is closed under successor has them all", here had from the
  well-foundedness of finite subsets (`SetInduction`). The invariant `BlockInv` adds
  that the buffer holds the block as collected and a 0 behind it, until one is stored
  outside (`overrun`).
* `I2cDriver_proofs`, for any processes, commands and lengths, from `I2cAssumption`:
  `TypeCorrect`, `ReadsAreWhole`, `HandlerIsSafe`. Neither property is inductive: the
  last byte of an answer is right only if the handler's index, its count and the
  controller's count agreed when the transfer began. The invariant `Inv` says of a calm
  driver that at most one process is inside, that a process outside a wait leaves
  controller and handler at rest (`Quiet`), and at each wait what has been sent and
  received, byte by byte (`Sending`, `Receiving`).
* `IndicesAreBounded`, in the same module, asks of a calm driver only that one process
  at a time has the device open: however many waits a signal cuts short, an index of the
  handler is below (cuts + 1) lengths of a buffer. A wait that is cut leaves a transfer
  behind whose completion comes early for the next wait, which then leaves its own.
  `Credit` counts, in transfers, what that may still cost: the cuts and the wait that is
  going on, less the completions that have come early. `TxPaid` and `RxPaid` say that an
  index and the bytes it may still be moved by are within `Credit`. The proof needs
  `ReadSendsOneByte`: `driver_read` sends one byte before it receives (`i2c_dev.c:617`).
  If it sent more, a read that begins after a cut one could set the index back in the
  middle of the transmission of the first, and TLC then finds the bound violated after a
  single cut.
* `DriverLifecycle_proofs`, for any number of files, from `LifecycleAssumption`, which
  only gives the scripts their types. Each theorem holds for every set of scripts that
  meets a condition, written down before it: what init registers is undone by each of
  its error paths and by exit, the device before its class in exit (`Undoes`,
  `ClassLast`); exit and remove give back everything (`Clears`); each gives back only
  what its own counterpart obtained, and once (`Owns`, `Tidy`); the interrupt is asked
  for last and freed first (`IrqLast`); the operations name their owner. From these
  follow `NothingStaysRegistered`, `UnloadIsClean`, `NothingIsGivenBackTwice`,
  `HandlerFindsRegisters`, `OwnerKeepsModule`, each with an invariant that says what is
  held, given back or still to be given back at every point of a function (`UndoneInv`,
  `ClearInv`, `OwnInv`, `IrqInv`, `FilesInv`). `DriversQualify` proves of the scripts as
  they are in `DriverScripts` that each driver meets the conditions of the properties
  that name it, and `DriversAreSafe` concludes. `ByClass`, that a device still to be
  destroyed has its class, is what an exit in that order keeps and the error paths do
  not: there the theorems say that a device at most is left (`Unfound`). So a change to
  a driver only has to be held against the conditions.
* `UltrasonicDriver_proofs`, for any sensors, any two orders of them and any processes,
  from `UltrasonicAssumption`: `TypeCorrect` and `EchoesAreOwn`. What a clean read finds
  at `compute` depends on every step since it began, so the invariant `CleanReads` says
  it of each sensor (`ReadInStep`): those before the one being dealt with are measured
  for this read, those after it untouched, and that one is at some step of its echo
  (`InAir`); and that such a read is alone with one edge at most to serve, which the
  handler has not half lost (`ServedIsPending`).
* `EncoderDriver_proofs`, for any block, width of the counter and number of pulses:
  `TypeCorrect`, `PulsesAreCounted`, `AnswersAreOfOneBlock`. `EveryPulseCounts` is
  inductive with `CountedIsLatched`; the answer also takes `TimesOfBlock`, which times
  the variables hold while a block is counted and after it, and `ReadInStep`, that what
  has been loaded is still what there is to load.
* `RobotState_proofs`, for any lines, lengths, angles, sets and retries, from
  `RobotAssumption` (the file has each line once, and an angle behind the request):
  `ProgramsUseTheSet`, `TypeCorrect`, `SnapshotIsOne`, `ProgramsExclude`. The invariant
  says that the lines begin where they did and with the same words until a value
  outgrows its line (`SameLines`), that a pass has written all the lines behind it
  unless an error left one out (`SaveInStep`), that `loffset` is ahead of the stream
  only after such an error (`OffsetAhead`), and that a complete pass has written them
  all (`Saved`), each value up to its newline unless one was shorter. That the end of a
  line is its *first* newline rests on a least element of a nonempty set of positions,
  had from the well-foundedness of finite subsets. `TypeOK` needs `RequestIntact`, that
  what stands behind the words of the request is an angle even if longer values run over
  them. That the two programs are never at the file together is `InitSem`'s mutual
  exclusion, carried over, and `OneSet`, that both have the same set.

Every invariant of every passing run, every action property and the refinement of
`Mutex` are proved. Only model-checked is liveness, which is out of the prover's reach:
`NobodyWaitsForever`, `CloseEndsConsumer`, `EveryZombieReaped`, `CloseStopsReader`,
`BlockIsPublished`, `WaitEnds` and `RequestSteers`; and the three expected violations
are TLC's counterexamples.

## Not modelled

* Formatting and HTML, the compensation formulas of the BMP280 and the calibration of
  the compass (arithmetic on doubles), register programming of clocks, pads, pins and
  video.
* The build artefacts (`*.mod.c`, `*.cmd`, binaries), and `main.c` and `i2c_dev_test.c`,
  earlier versions of the i2c driver.
* The parsing of `Config.c`: four numbers found line by line. What its results do to the
  reader and the server is in `Promedio` and `Servidor`.
* The write of the pwm driver (`driver_pwm_EMIOgpio_PL.c`): it checks its argument, with
  a test that rejects nothing (line 296), and programs the timer; it keeps no state and
  nothing runs beside it. The same holds of the gpio and compass drivers. The probe and
  removal of all of them are in `DriverScripts`.
* The buffers of the ultrasonic and encoder drivers, allocated by open and freed by
  release without a lock: `I2cDriver` models that life for the same code.
* Two servers in one directory: the second fails at `bind` and removes the semaphore of
  the first (`Server.c:51`). Nothing in the code provides for it.
* Drivers bound and unbound by hand through sysfs, and the concurrency of the probes of
  several devices.
* The compass and frame capture applications and the small ones: one program, one
  device, no state that outlives a read or a write. The retries of the compass are in
  `RobotState`.
* The buffers of stdio in `usrSpace_top` and `usrSpace_drive`, but for the write that
  fails in the flush of the `fseek` behind it (`FlushFails`): each pass ends at the end
  of the file, after which stdio reads it again.
