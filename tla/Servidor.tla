------------------------------ MODULE Servidor ------------------------------
(***************************************************************************)
(* The temperature server of src/Plus/TCP-IP-SensorDeTemp/ClienteServidor: *)
(*                                                                         *)
(*   main      Servidor.c and Server.c: starts, forks the reader, waits in *)
(*             select for connections and forks a child for each;          *)
(*   reader    Server_Reader_Child.c: samples the sensor and publishes the *)
(*             average of a block of samples in the shared segment, under  *)
(*             the semaphore (how it averages is in Promedio.tla);         *)
(*   clients   ProcesarCliente.c: one child per browser, which answers     *)
(*             with what the segment holds.                                *)
(*                                                                         *)
(* A published value is the number of its block, 0 when there is none yet. *)
(* Each of the two snprintf of a publication writes over the old text byte *)
(* by byte and ends it last, and children that read without the lock see   *)
(* it in between; the two fields that sscanf reads are two steps as well.  *)
(* External: the kernel's side of fork, wait, signals and System V IPC,    *)
(* the browsers, and the sensor.                                           *)
(***************************************************************************)
EXTENDS Naturals

CONSTANTS
  Clients,    \* the connections there may be at the same time
  MaxBlocks   \* bound: blocks published in a behaviour

ASSUME ServidorAssumption ==
  /\ MaxBlocks \in Nat
  /\ Clients \cap {"main", "reader"} = {}

None    == MaxBlocks + 1   \* a field that the text in the segment does not have
Garbage == MaxBlocks + 2   \* a local that was never assigned
Torn    == MaxBlocks + 3   \* digits of two numbers, or a part of the digits of one

Fields == 0..MaxBlocks

VARIABLES
  main,      \* where Servidor.c and Server.c are, see MainStages
  reader,    \* where Server_Reader_Child.c is, see ReaderStages
  client,    \* where each connection is, see ClientStages
  shm,       \* kernel: the segment, "none", "live" or "removed" (IPC_RMID)
  sem,       \* kernel: the semaphore set, in the same way
  val,       \* kernel: the value of the semaphore
  textT, textP, \* the temperature and the pressure the segment holds
  blocks,    \* blocks published so far
  tempCelsius, presHpa, \* locals of each client's child
  undisturbed, \* history: the children that went on to read a segment whose semaphore
               \* exists, and met no publication since
  f_close,   \* the processes whose SIGINT flag is set
  f_update,  \* the SIGUSR1 flag of main
  sigchld    \* kernel: a SIGCHLD for main is pending (it counts as one)

ipcVars  == <<shm, sem, val, textT, textP, blocks>>
flagVars == <<f_close, f_update>>
seenVars == <<tempCelsius, presHpa, undisturbed>>
vars == <<main, reader, client, ipcVars, seenVars, flagVars, sigchld>>

MainStages == {"shm", "sem", "signals", "forking",   \* start of main()
               "socket",                             \* socket .. listen
               "top", "select", "eintr", "accept", "fork",  \* while(1) of Server()
               "down"}

Dead == {"exited", "killed"}      \* zombies: by exit(), by a signal

ReaderStages == {"none", "start", "loop", "sample", "lock", "temp", "pres", "unlock",
                 "reaped"} \cup Dead

ClientStages == {"none", "queued", "accepted",       \* no child yet
                 "recv", "check", "temp", "pres", "send"} \cup Dead

Forked(c) == client[c] \in {"recv", "check", "temp", "pres", "send"}

TypeOK ==
  /\ main \in MainStages
  /\ reader \in ReaderStages
  /\ client \in [Clients -> ClientStages]
  /\ shm \in {"none", "live", "removed"} /\ sem \in {"none", "live", "removed"}
  /\ val \in 0..1
  /\ textT \in Fields \cup {Torn} /\ textP \in Fields \cup {None, Torn}
  /\ blocks \in 0..MaxBlocks
  /\ tempCelsius \in [Clients -> Fields \cup {Garbage, Torn}]
  /\ presHpa \in [Clients -> Fields \cup {Garbage, Torn}]
  /\ undisturbed \subseteq Clients
  /\ f_close \subseteq {"main", "reader"}
  /\ f_update \in BOOLEAN /\ sigchld \in BOOLEAN

Init ==
  /\ main = "shm" /\ reader = "none"
  /\ client = [c \in Clients |-> "none"]
  /\ shm = "none" /\ sem = "none" /\ val = 0
  /\ textT = 0 /\ textP = None /\ blocks = 0
  /\ tempCelsius = [c \in Clients |-> Garbage] /\ presHpa = [c \in Clients |-> Garbage]
  /\ undisturbed = {}
  /\ f_close = {} /\ f_update = FALSE /\ sigchld = FALSE

\* shmctl(IPC_RMID) and semctl(IPC_RMID), of what there is.
RemoveIpc ==
  /\ shm' = IF shm = "live" THEN "removed" ELSE shm
  /\ sem' = IF sem = "live" THEN "removed" ELSE sem
  /\ UNCHANGED <<val, textT, textP, blocks>>

\* main exits; the connections it had not given to a child are closed.
MainEnds ==
  /\ main' = "down"
  /\ client' = [c \in Clients |-> IF client[c] \in {"queued", "accepted"} THEN "none"
                                  ELSE client[c]]
  /\ sigchld' = FALSE
  /\ UNCHANGED <<reader, seenVars, flagVars>>

\* Every error path of main() and Server(): perror, release, exit(1).
MainFails == MainEnds /\ RemoveIpc

\* exit(1) without releasing anything.
MainLeaks == MainEnds /\ UNCHANGED ipcVars

MainGoto(stage) == /\ main' = stage
                   /\ UNCHANGED <<client, seenVars, sigchld>>

-----------------------------------------------------------------------------
(* main: start *)

\* Mutated form of GetShm: goes on after shmget failed.
GetShm_Unchecked ==
  /\ main = "shm"
  /\ MainGoto("sem")
  /\ shm' \in {"live", "error"}
  /\ UNCHANGED <<sem, val, textT, textP, blocks, reader, flagVars>>

GetShm ==
  /\ main = "shm"
  /\ \/ /\ MainGoto("sem") /\ shm' = "live"
        /\ UNCHANGED <<sem, val, textT, textP, blocks, reader, flagVars>>
     \/ MainFails

\* open and ftok of SemFile, and initsem (InitSem.tla) on a set nobody else uses.
GetSem ==
  /\ main = "sem"
  /\ \/ /\ MainGoto("signals")
        /\ sem' = "live" /\ val' = 1
        /\ UNCHANGED <<shm, textT, textP, blocks, reader, flagVars>>
     \/ MainFails

InstallHandlers ==
  /\ main = "signals"
  /\ \/ MainGoto("forking") /\ UNCHANGED <<ipcVars, reader, flagVars>>
     \/ MainFails

\* The reader starts with a copy of main's f_close.
ForkReader ==
  /\ main = "forking"
  /\ \/ /\ MainGoto("socket")
        /\ reader' = "start"
        /\ f_close' = IF "main" \in f_close THEN {"main", "reader"} ELSE {}
        /\ UNCHANGED <<ipcVars, f_update>>
     \/ MainFails

\* When bind or listen fails the reader is already running.
OpenSocket ==
  /\ main = "socket"
  /\ \/ MainGoto("top") /\ UNCHANGED <<ipcVars, reader, flagVars>>
     \/ MainFails

-----------------------------------------------------------------------------
(* main: the loop of Server() *)

\* From here on main sleeps in select; a handler that runs earlier wakes nobody.
CallSelect ==
  /\ main = "top"
  /\ MainGoto("select")
  /\ UNCHANGED <<ipcVars, reader, flagVars>>

SelectConnection ==
  /\ main = "select"
  /\ \E c \in Clients : client[c] = "queued"
  /\ MainGoto("accept")
  /\ UNCHANGED <<ipcVars, reader, flagVars>>

\* select was interrupted by a handler: the flags are looked at here and nowhere
\* else.  Config exits, releasing nothing, when it does not like the file.
AfterSignal ==
  /\ main = "eintr"
  /\ \/ f_update /\ MainLeaks
     \/ "main" \in f_close /\ MainFails
     \/ /\ "main" \notin f_close
        /\ MainGoto("top")
        /\ f_update' = FALSE
        /\ UNCHANGED <<ipcVars, reader, f_close>>

Accept ==
  /\ main = "accept"
  /\ \/ \E c \in Clients :
          /\ client[c] = "queued"
          /\ client' = [client EXCEPT ![c] = "accepted"]
          /\ main' = "fork"
          /\ UNCHANGED <<ipcVars, reader, seenVars, flagVars, sigchld>>
     \/ MainFails

\* The child restores SIGCHLD and SIGUSR1 to their default action first thing.
ForkClient ==
  /\ main = "fork"
  /\ \/ \E c \in Clients :
          /\ client[c] = "accepted"
          /\ client' = [client EXCEPT ![c] = "recv"]
          /\ main' = "top"
          /\ UNCHANGED <<ipcVars, reader, seenVars, flagVars, sigchld>>
     \/ MainFails

\* The locals of children end with them.
Forget(C) ==
  /\ tempCelsius' = [c \in Clients |-> IF c \in C THEN Garbage ELSE tempCelsius[c]]
  /\ presHpa' = [c \in Clients |-> IF c \in C THEN Garbage ELSE presHpa[c]]
  /\ undisturbed' = undisturbed \ C

Zombies == {c \in Clients : client[c] \in Dead}
           \cup (IF reader \in Dead THEN {"reader"} ELSE {})

\* Mutated form of HandleSigchld: one waitpid for each SIGCHLD, no loop.
HandleSigchld_Once ==
  /\ sigchld
  /\ sigchld' = FALSE
  /\ \E z \in Zombies :
       /\ reader' = IF z = "reader" THEN "reaped" ELSE reader
       /\ client' = [c \in Clients |-> IF c = z THEN "none" ELSE client[c]]
  /\ main' = IF main = "select" THEN "eintr" ELSE main
  /\ UNCHANGED <<ipcVars, seenVars, flagVars>>

\* sigchld_handler, wherever main is: it reaps until there is no zombie left, and
\* exits at the first one that a signal killed.
HandleSigchld ==
  /\ sigchld
  /\ IF reader = "killed" \/ \E c \in Clients : client[c] = "killed"
       THEN MainLeaks
       ELSE /\ sigchld' = FALSE
            /\ reader' = IF reader = "exited" THEN "reaped" ELSE reader
            /\ client' = [c \in Clients |->
                 IF client[c] = "exited" THEN "none" ELSE client[c]]
            /\ main' = IF main = "select" THEN "eintr" ELSE main
            /\ UNCHANGED <<ipcVars, seenVars, flagVars>>

-----------------------------------------------------------------------------
(* reader *)

ReaderGoto(stage) ==
  /\ reader' = stage
  /\ sigchld' = (sigchld \/ (stage \in Dead /\ main # "down"))
  /\ UNCHANGED <<main, client, tempCelsius, presHpa, flagVars>>

\* Opens its file and the driver and allocates its buffers, or exit(1).
ReaderStarts ==
  /\ reader = "start"
  /\ \E stage \in {"loop", "exited"} : ReaderGoto(stage)
  /\ UNCHANGED <<ipcVars, undisturbed>>

\* Mutated form of ReaderTop: f_close is looked at after an interrupted select
\* only, as in the code that is commented out in Server_Reader_Child.c:190-199.
ReaderTop_NoTest ==
  /\ reader = "loop"
  /\ ReaderGoto("sample") /\ UNCHANGED <<ipcVars, undisturbed>>

\* The top of the loop looks at f_close.
ReaderTop ==
  /\ reader = "loop"
  /\ IF "reader" \in f_close
       THEN ReaderGoto("exited") /\ RemoveIpc
       ELSE ReaderGoto("sample") /\ UNCHANGED ipcVars
  /\ UNCHANGED undisturbed

\* A sample that completes a block leads to a publication.  Errors of select, of
\* the driver and of Config end in exit(1), which releases nothing.
ReaderSamples ==
  /\ reader = "sample"
  /\ \/ ReaderGoto("loop")
     \/ blocks < MaxBlocks /\ ReaderGoto("lock")
     \/ ReaderGoto("exited")
  /\ UNCHANGED <<ipcVars, undisturbed>>

\* A publication begins: every child that is reading has met it.
ReaderLocks ==
  /\ reader = "lock"
  /\ IF sem = "live"
       THEN /\ val > 0
            /\ val' = val - 1
            /\ undisturbed' = {}
            /\ ReaderGoto("temp")
       ELSE ReaderGoto("exited") /\ UNCHANGED <<val, undisturbed>>
  /\ UNCHANGED <<shm, sem, textT, textP, blocks>>

\* The first snprintf, before its end: some or all of the new digits, with the rest of
\* the old text behind them, or its first letters lost to a longer number.
ReaderOverwritesTemp ==
  /\ reader = "temp"
  /\ textT' \in {Torn, blocks + 1} /\ textP' \in {textP, None}
  /\ UNCHANGED <<main, reader, client, shm, sem, val, blocks, seenVars, flagVars, sigchld>>

\* Its NUL, the last byte: there is no pressure behind the temperature.
ReaderWritesTemp ==
  /\ reader = "temp"
  /\ textT' = blocks + 1 /\ textP' = None
  /\ ReaderGoto("pres")
  /\ UNCHANGED <<shm, sem, val, blocks, undisturbed>>

\* The second snprintf, before its end: it begins on that NUL, and the old pressure is
\* read again, whole or in part, until the new digits are over it.
ReaderOverwritesPres ==
  /\ reader = "pres"
  /\ textP' \in {None, Torn} \cup ({blocks} \ {0})
  /\ UNCHANGED <<main, reader, client, shm, sem, val, textT, blocks, seenVars, flagVars,
                 sigchld>>

\* Mutated form of ReaderWritesPres: writes the pressure that was averaged last time.
ReaderWritesPres_Previous ==
  /\ reader = "pres"
  /\ textP' = blocks
  /\ blocks' = blocks + 1
  /\ ReaderGoto("unlock")
  /\ UNCHANGED <<shm, sem, val, textT, undisturbed>>

ReaderWritesPres ==
  /\ reader = "pres"
  /\ textP' = blocks + 1
  /\ blocks' = blocks + 1
  /\ ReaderGoto("unlock")
  /\ UNCHANGED <<shm, sem, val, textT, undisturbed>>

\* An snprintf that fails: exit(1) under the semaphore, which SEM_UNDO gives back.
ReaderFailsToWrite ==
  /\ reader \in {"temp", "pres"}
  /\ ReaderGoto("exited")
  /\ val' = IF sem = "live" THEN val + 1 ELSE val
  /\ UNCHANGED <<shm, sem, textT, textP, blocks, undisturbed>>

ReaderUnlocks ==
  /\ reader = "unlock"
  /\ IF sem = "live"
       THEN val' = val + 1 /\ ReaderGoto("loop")
       ELSE UNCHANGED val /\ ReaderGoto("exited")
  /\ UNCHANGED <<shm, sem, textT, textP, blocks, undisturbed>>

ReaderInCs == reader \in {"temp", "pres", "unlock"}

-----------------------------------------------------------------------------
(* clients *)

ClientGoto(c, stage) ==
  /\ client' = [client EXCEPT ![c] = stage]
  /\ sigchld' = (sigchld \/ (stage \in Dead /\ main # "down"))
  /\ UNCHANGED <<main, reader, ipcVars, flagVars>>

Connect(c) ==
  /\ client[c] = "none"
  /\ main \in {"top", "select", "eintr", "accept", "fork"}
  /\ ClientGoto(c, "queued")
  /\ UNCHANGED seenVars

Recv(c) ==
  /\ client[c] = "recv"
  /\ \E stage \in {"check", "exited"} : ClientGoto(c, stage)
  /\ UNCHANGED seenVars

ClientReads(c) ==
  /\ ClientGoto(c, "temp")
  /\ undisturbed' = IF sem = "live" THEN undisturbed \cup {c} ELSE undisturbed

\* Mutated form of CheckSemaphore: reads whatever GETVAL answers.
CheckSemaphore_Untested(c) ==
  /\ client[c] = "check"
  /\ ClientReads(c)
  /\ UNCHANGED <<tempCelsius, presHpa>>

\* GETVAL, which is -1 when the set is gone: only 0 counts as taken.  Then the
\* child answers with what its uninitialised locals hold.
CheckSemaphore(c) ==
  /\ client[c] = "check"
  /\ IF sem = "live" /\ val = 0
       THEN ClientGoto(c, "send") /\ UNCHANGED undisturbed
       ELSE ClientReads(c)
  /\ UNCHANGED <<tempCelsius, presHpa>>

\* sscanf answers EOF on an empty segment, and both are 0.
ReadTemp(c) ==
  /\ client[c] = "temp"
  /\ tempCelsius' = [tempCelsius EXCEPT ![c] = textT]
  /\ IF textT = 0
       THEN presHpa' = [presHpa EXCEPT ![c] = 0] /\ ClientGoto(c, "send")
       ELSE UNCHANGED presHpa /\ ClientGoto(c, "pres")
  /\ UNCHANGED undisturbed

\* Without a second field Prx keeps what the stack held.
ReadPres(c) ==
  /\ client[c] = "pres"
  /\ presHpa' = [presHpa EXCEPT ![c] = IF textP = None THEN Garbage ELSE textP]
  /\ ClientGoto(c, "send")
  /\ UNCHANGED <<tempCelsius, undisturbed>>

\* A browser that is gone costs an error or a SIGPIPE.
Send(c) ==
  /\ client[c] = "send"
  /\ \E stage \in Dead : ClientGoto(c, stage)
  /\ Forget({c})

-----------------------------------------------------------------------------
(* signals *)

\* To the process group (Readme:1, Ctrl-C).  Before its sigaction main would die;
\* in a client's child the handler changes nothing.
SigInt ==
  /\ main \notin {"shm", "sem", "signals"}
  /\ main # "down" \/ reader \notin Dead \cup {"none", "reaped"}
  /\ f_close' = (IF main = "down" THEN {} ELSE {"main"})
                \cup (IF reader \in Dead \cup {"none", "reaped"} THEN {} ELSE {"reader"})
                \cup f_close
  /\ main' = IF main = "select" THEN "eintr" ELSE main
  /\ UNCHANGED <<reader, client, ipcVars, seenVars, f_update, sigchld>>

\* To the process group: main notes it, a client's child dies of it.
SigUsr1 ==
  /\ main \in {"socket", "top", "select", "eintr", "accept", "fork"}
  /\ f_update' = TRUE
  /\ main' = IF main = "select" THEN "eintr" ELSE main
  /\ client' = [c \in Clients |-> IF Forked(c) THEN "killed" ELSE client[c]]
  /\ sigchld' = (sigchld \/ \E c \in Clients : Forked(c))
  /\ Forget({c \in Clients : Forked(c)})
  /\ UNCHANGED <<reader, ipcVars, f_close>>

\* Mutated form of KillReader: sb.sem_flg = 0, the kernel restores nothing.
KillReader_NoUndo ==
  /\ reader \notin Dead \cup {"none", "reaped"}
  /\ ReaderGoto("killed")
  /\ UNCHANGED <<ipcVars, undisturbed>>

\* SIGKILL, or a fault; SEM_UNDO gives the semaphore back.
KillReader ==
  /\ reader \notin Dead \cup {"none", "reaped"}
  /\ ReaderGoto("killed")
  /\ val' = IF ReaderInCs /\ sem = "live" THEN val + 1 ELSE val
  /\ UNCHANGED <<shm, sem, textT, textP, blocks, undisturbed>>

KillMain == main # "down" /\ MainLeaks

-----------------------------------------------------------------------------
MainStep == \/ GetShm \/ GetSem \/ InstallHandlers \/ ForkReader \/ OpenSocket
            \/ CallSelect \/ SelectConnection \/ AfterSignal \/ Accept \/ ForkClient

ReaderStep == \/ ReaderStarts \/ ReaderTop \/ ReaderSamples \/ ReaderLocks
              \/ ReaderWritesTemp \/ ReaderWritesPres \/ ReaderFailsToWrite
              \/ ReaderUnlocks

\* What a child may see of an snprintf that has not ended.
ReaderOverwrites == ReaderOverwritesTemp \/ ReaderOverwritesPres

ClientStep(c) == \/ Recv(c) \/ CheckSemaphore(c) \/ ReadTemp(c) \/ ReadPres(c)
                 \/ Send(c)

Next == \/ MainStep \/ HandleSigchld \/ ReaderStep \/ ReaderOverwrites
        \/ \E c \in Clients : Connect(c) \/ ClientStep(c)
        \/ SigInt \/ SigUsr1 \/ KillReader \/ KillMain

Spec == Init /\ [][Next]_vars

\* main and the reader go on, the sensor answers the reader, and a pending SIGCHLD is
\* delivered.  No browser has to connect or to send a request, and nobody has to send
\* a signal.
Fairness == WF_vars(MainStep) /\ WF_vars(HandleSigchld) /\ WF_vars(ReaderStep)

FairSpec == Spec /\ Fairness

-----------------------------------------------------------------------------
(* Properties *)

\* The semaphore of a set that exists is 0 exactly while the reader publishes, in
\* spite of its death in the middle of it (SEM_UNDO, Servidor.c:55).
LockIntegrity ==
  sem = "live" => val = IF ReaderInCs THEN 0 ELSE 1

\* The children of browsers read without the lock, while the reader writes over the old
\* text, and the fields of their answer may come from two publications.  But a pressure
\* that is a whole number is older than the temperature by one publication at most,
\* however long the child takes between the two.
PressureNearTemperature ==
  \A c \in Clients :
    client[c] = "send" /\ tempCelsius[c] \in Fields /\ presHpa[c] \in Fields
      => presHpa[c] + 1 >= tempCelsius[c]

\* The look at the semaphore is enough while no publication begins behind it: a child that
\* found the set free and met none answers with the two fields of one publication, or with
\* 0 twice before the first, in whatever state earlier ones left the text.  The one way to
\* something else is a reader that died in a publication: SEM_UNDO frees the semaphore in
\* front of a text that nobody ends.
UndisturbedAnswer ==
  \A c \in undisturbed :
    client[c] = "send" => \/ presHpa[c] = tempCelsius[c]
                          \/ reader \in Dead \cup {"reaped"} /\ textP # textT

\* Although SIGCHLDs that meet count as one, main reaps every child.
EveryZombieReaped ==
  \A c \in Clients :
    client[c] \in Dead ~> (client[c] \notin Dead \/ main = "down")

\* SIGINT ends the reader, wherever it is in its loop.
CloseStopsReader ==
  "reader" \in f_close ~> reader \in Dead \cup {"reaped"}

\* "si el semaforo no fue tomado..." (ProcesarCliente.c:41): the child means to read
\* only when nobody is writing, that is to answer with the fields of one block.
AnswerIsAPair ==
  \A c \in Clients :
    client[c] = "send" /\ tempCelsius[c] # Garbage
      => presHpa[c] = tempCelsius[c] /\ tempCelsius[c] # Torn

\* "sudo kill -s sigint -646" (Readme:1): SIGINT ends the server.
CloseStopsServer ==
  "main" \in f_close ~> main = "down"
=============================================================================
