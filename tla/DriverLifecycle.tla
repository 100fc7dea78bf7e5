-------------------------- MODULE DriverLifecycle --------------------------
(***************************************************************************)
(* A module that is loaded, probed and unloaded while programs open its    *)
(* device.  What a driver does is in its scripts (DriverScripts.tla):      *)
(* what it asks the kernel for, in order, with what it gives back when a   *)
(* request is refused, and what it gives back when it is removed.  Here is *)
(* what the kernel does with them.                                         *)
(*                                                                         *)
(* A resource is what a driver asked for ("irq": request_irq with a null   *)
(* dev_id, the only one it uses).  "irqOfIsr" is what free_irq(irq,        *)
(* driver_isr) names, and "zeroCdev", "zeroRegion" what a cleared struct   *)
(* names: nobody ever holds them.  "check" is a test that obtains nothing. *)
(***************************************************************************)
EXTENDS Sequences, Integers

CONSTANTS
  Code,           \* the scripts of each driver
  MaxFiles        \* bound: files open at a time

Names == {"chrdev", "cdev", "class", "device", "driver", "adapter", "client",
          "region1", "region2", "map1", "map2", "map3", "irq"}
Aliases == {"irqOfIsr", "zeroCdev", "zeroRegion"}
Maps == {"map1", "map2", "map3"}

\* What has a name or a number of its own in the kernel, which stays taken while an
\* earlier load has not given it back, and what is given back by that number.
Exclusive == {"class", "device", "driver", "client", "region1", "region2", "irq"}
ByNumber == {"region1", "region2", "irq"}

\* A request and its error paths.
Requests == [res : Names \cup {"check"}, undo : SUBSET Seq(Names \cup Aliases),
             goOn : BOOLEAN]

ASSUME LifecycleAssumption ==
  /\ MaxFiles \in Nat
  /\ Code \in [DOMAIN Code -> [init : Seq(Requests), probe : Seq(Requests),
                              remove : Seq(Names \cup Aliases),
                              exit : Seq(Names \cup Aliases), owner : BOOLEAN]]

VARIABLES
  driver,         \* the driver this is about
  phase,          \* what its code is doing
  step,           \* the request of the script it has reached
  todo,           \* what it is about to give back
  bound,          \* its probe succeeded and its remove has not been called
  held,           \* what this load has from the kernel
  lost,           \* what earlier loads left behind
  refused,        \* history: a request of this load was refused
  initFailed,     \* history: the one refused was in init
  stray,          \* history: what this load gave back without having it
  files           \* the files open on its device

vars == <<driver, phase, step, todo, bound, held, lost, refused, initFailed,
          stray, files>>

Asking == {"init", "probe"}
Giving == {"initFails", "probeFails", "exit"}
Scripts == Code[driver]
Script == IF phase = "init" THEN Scripts.init ELSE Scripts.probe

TypeOK ==
  /\ driver \in DOMAIN Code
  /\ phase \in {"unloaded", "loaded"} \cup Asking \cup Giving
  /\ step \in Nat \ {0} /\ (phase \in Asking => step <= Len(Script) + 1)
  /\ todo \in Seq(Names \cup Aliases) /\ (phase \notin Giving => todo = <<>>)
  /\ bound \in BOOLEAN /\ refused \in BOOLEAN /\ initFailed \in BOOLEAN
  /\ held \subseteq Names /\ lost \subseteq Names
  /\ stray \subseteq Names \cup Aliases
  /\ files \in 0..MaxFiles

Init ==
  /\ driver \in DOMAIN Code
  /\ phase = "unloaded" /\ step = 1 /\ todo = <<>> /\ bound = FALSE
  /\ held = {} /\ lost = {} /\ refused = FALSE /\ initFailed = FALSE
  /\ stray = {} /\ files = 0

-----------------------------------------------------------------------------
(* Asking *)

\* A new load has new variables: it knows nothing of what an earlier one left.
\* What becomes of a file that is still open on a module that is gone is left out.
Insmod ==
  /\ phase = "unloaded" /\ files = 0
  /\ phase' = "init" /\ step' = 1 /\ bound' = FALSE
  /\ lost' = lost \cup held /\ held' = {}
  /\ refused' = FALSE /\ initFailed' = FALSE /\ stray' = {}
  /\ UNCHANGED <<driver, todo, files>>

Request == phase \in Asking /\ step <= Len(Script)

Obtain ==
  /\ Request
  /\ Script[step].res \notin lost \cap Exclusive
  /\ held' = held \cup ({Script[step].res} \ {"check"})
  /\ step' = step + 1
  /\ UNCHANGED <<driver, phase, todo, bound, lost, refused, initFailed, stray, files>>

Refuse ==
  /\ Request
  /\ todo' \in Script[step].undo
  /\ phase' = (IF phase = "init" THEN "initFails" ELSE "probeFails")
  /\ refused' = TRUE /\ initFailed' = (phase = "init")
  /\ UNCHANGED <<driver, step, bound, held, lost, stray, files>>

\* The result is looked at, reported, and not acted upon.
GoOn ==
  /\ Request /\ Script[step].goOn
  /\ step' = step + 1 /\ refused' = TRUE
  /\ UNCHANGED <<driver, phase, todo, bound, held, lost, initFailed, stray, files>>

\* Mutant: the probe goes on where init ended.
Registered_KeepsStep ==
  /\ phase = "init" /\ step > Len(Script)
  /\ phase' = "probe" /\ UNCHANGED step
  /\ UNCHANGED <<driver, todo, bound, held, lost, refused, initFailed, stray, files>>

\* The last request of init registers the driver: the bus calls probe at once if
\* it has such a device.  A client the driver has made itself is there.
Registered ==
  /\ phase = "init" /\ step > Len(Script)
  /\ \/ phase' = "probe" /\ step' = 1
     \/ "client" \notin held /\ phase' = "loaded" /\ UNCHANGED step
  /\ UNCHANGED <<driver, todo, bound, held, lost, refused, initFailed, stray, files>>

Probed ==
  /\ phase = "probe" /\ step > Len(Script)
  /\ phase' = "loaded" /\ bound' = TRUE
  /\ UNCHANGED <<driver, step, todo, held, lost, refused, initFailed, stray, files>>

-----------------------------------------------------------------------------
(* Giving back *)

\* rmmod is refused while a file keeps the module, which needs its owner.
Rmmod ==
  /\ phase = "loaded" /\ (Scripts.owner => files = 0)
  /\ phase' = "exit" /\ todo' = Scripts.exit
  /\ UNCHANGED <<driver, step, bound, held, lost, refused, initFailed, stray, files>>

\* Unregistering a driver first removes it from its device.
Remove ==
  /\ todo # <<>> /\ Head(todo) = "driver" /\ bound
  /\ bound' = FALSE /\ todo' = Scripts.remove \o todo
  /\ UNCHANGED <<driver, phase, step, held, lost, refused, initFailed, stray, files>>

\* device_destroy looks the device up through its class: when class_destroy has freed
\* that, it may find the device or leave it registered.
NoClass == Head(todo) = "device" /\ "class" \notin held

\* Regions and interrupts go by their number, whoever asked for them.
GiveBack ==
  /\ todo # <<>> /\ ~(Head(todo) = "driver" /\ bound)
  /\ todo' = Tail(todo)
  /\ \/ held' = held \ {Head(todo)}
     \/ NoClass /\ UNCHANGED held
  /\ IF Head(todo) \in held /\ ~NoClass
       THEN UNCHANGED <<lost, stray>>
       ELSE lost' = lost \ ({Head(todo)} \cap ByNumber)
            /\ stray' = stray \cup {Head(todo)}
  /\ UNCHANGED <<driver, phase, step, bound, refused, initFailed, files>>

\* A probe that fails is no failure of init: the module stays.
Done ==
  /\ phase \in Giving /\ todo = <<>>
  /\ phase' = (IF phase = "probeFails" THEN "loaded" ELSE "unloaded")
  /\ UNCHANGED <<driver, step, todo, bound, held, lost, refused, initFailed, stray, files>>

-----------------------------------------------------------------------------
(* The programs: the device is there from its creation in init, probed or not *)

Open ==
  /\ files < MaxFiles /\ {"cdev", "device"} \subseteq held
  /\ phase # "unloaded" /\ (phase = "exit" => ~Scripts.owner)
  /\ files' = files + 1
  /\ UNCHANGED <<driver, phase, step, todo, bound, held, lost, refused, initFailed, stray>>

Close ==
  /\ files > 0
  /\ files' = files - 1
  /\ UNCHANGED <<driver, phase, step, todo, bound, held, lost, refused, initFailed, stray>>

Next == Insmod \/ Obtain \/ Refuse \/ GoOn \/ Registered \/ Probed \/ Rmmod
        \/ Remove \/ GiveBack \/ Done \/ Open \/ Close

Spec == Init /\ [][Next]_vars

-----------------------------------------------------------------------------
(* Properties *)

\* Whatever was refused, a module that is gone has no entry left in the tables of
\* the kernel that point into it: number, cdev, class, driver, client, and no device
\* but one that was looked up through a class already destroyed.  It leaves out
\* ov7670_driver2.c, whose probe clears the struct that names them.
RegistrationUndone ==
  phase = "unloaded" /\ driver # "ov7670_2" =>
    held \cap {"chrdev", "cdev", "class", "device", "driver", "client"}
      \subseteq {"device"} \cap stray

\* A load in which nothing was refused leaves nothing, except the reference to the
\* adapter of the i2c drivers and the interrupt free_irq was not told the name of:
\* no order of open, close, rmmod and insmod takes a region away for ever.
CleanUnload ==
  phase = "unloaded" /\ ~refused /\ driver # "ov7670_2" =>
    held \subseteq {"adapter"} \cup {r \in {"irq"} : "irqOfIsr" \in stray}

\* The kernel refused to register the driver, the last request of init.
RegistrationRefused == initFailed /\ Scripts.init[step].res = "driver"

\* No error path and no removal gives back what it does not have, or a device whose
\* class is gone, apart from the interrupt by its wrong name and the device in the
\* error path of platform_driver_register.  driver_tpg.c and driver_vdma.c keep to it
\* while nothing is refused; the others that are left out do not.
NoStrayRelease ==
  \/ driver \in {"emio", "mio", "encoder", "encoder2", "pwm", "compass", "ov7670"}
  \/ driver \in {"tpg", "vdma"} /\ ~refused
  => stray \subseteq {"irqOfIsr"} \cup {r \in {"device"} : RegistrationRefused}

\* driver_isr reads the registers of its device at once: from request_irq until
\* driver_remove calls free_irq, they are mapped.  driver_vdma.c and i2c_dev.c ask
\* for the interrupt first.
HandlerHasRegisters ==
  driver \in {"mio", "encoder", "encoder2"} /\ "irq" \in held /\ "irqOfIsr" \notin stray =>
    {Scripts.probe[i].res : i \in DOMAIN Scripts.probe} \cap Maps \subseteq held

\* The code of a driver that names its owner is there while a file is open, unless
\* its init fails after the device was made.
FilesKeepModule ==
  driver \in {"bmp280", "ov7670_2"} /\ files > 0 /\ ~initFailed => phase # "unloaded"

\* "Free irq" (driver_remove): no handler is left when the module is gone.
IrqIsFreed ==
  driver \in {"mio", "encoder", "encoder2"} /\ phase = "unloaded" => "irq" \notin held

=============================================================================
