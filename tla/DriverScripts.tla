--------------------------- MODULE DriverScripts ---------------------------
(***************************************************************************)
(* What the init, probe, remove and exit functions of each driver ask for  *)
(* and give back.  A request has its resource, the sequences its error     *)
(* paths give back (<<>> is a bare return: one of the two that share a     *)
(* request, platform_get_resource and request_mem_region, or               *)
(* platform_get_irq and request_irq, may have another than the other) and  *)
(* goOn, for a refusal that is only reported.                              *)
(***************************************************************************)
EXTENDS Sequences

Ask(r, undos) == [res |-> r, undo |-> undos, goOn |-> FALSE]
Bare(r) == Ask(r, {<<>>})

-----------------------------------------------------------------------------
(* my_pdrv_init and my_pdrv_remove, the same in all the platform drivers *)

\* Mutated form of Registration: an error path that keeps the class.
Registration_KeepsClass == <<
  Bare("chrdev"),
  Ask("cdev", {<<"chrdev">>}),
  Ask("class", {<<"chrdev", "cdev">>}),
  Ask("device", {<<"chrdev", "cdev">>}),
  Ask("driver", {<<"chrdev", "cdev", "class", "device">>}) >>

Registration == <<
  Bare("chrdev"),
  Ask("cdev", {<<"chrdev">>}),
  Ask("class", {<<"chrdev", "cdev">>}),
  Ask("device", {<<"chrdev", "cdev", "class">>}),
  Ask("driver", {<<"chrdev", "cdev", "class", "device">>}) >>

Withdrawal == <<"driver", "device", "class", "cdev", "chrdev">>

Platform(probe, remove) ==
  [init |-> Registration, probe |-> probe, remove |-> remove,
   exit |-> Withdrawal, owner |-> FALSE]

-----------------------------------------------------------------------------
(* Plus/Tesis/Drivers: gpio, ultrasonic sensor, encoders, pwm, test pattern *)

Emio == Platform(<<Bare("region1"), Bare("map1")>>, <<"map1", "region1">>)

\* Only request_irq undoes what came before it.
MioProbe == <<
  Bare("region1"), Bare("map1"), Bare("region2"), Bare("map2"),
  Ask("irq", {<<>>, <<"map2", "map1", "region2", "region1">>}) >>
Mio == Platform(MioProbe, <<"irqOfIsr", "map2", "map1", "region2", "region1">>)

\* Mutant: the interrupt before the registers.
EncoderProbe_IrqFirst == <<
  Bare("region1"), Ask("irq", {<<"region1">>}), Ask("map1", {<<"irq", "region1">>}) >>
EncoderProbe == <<
  Bare("region1"), Bare("map1"), Ask("irq", {<<"map1", "region1">>}) >>
Encoder == Platform(EncoderProbe, <<"irqOfIsr", "map1", "region1">>)

\* The second wheel's has the same text.
Encoder2 == Platform(EncoderProbe, <<"irqOfIsr", "map1", "region1">>)

PwmProbe == <<Bare("region1"), Bare("map1"), Bare("region2"), Bare("map2")>>

\* Mutants: remove forgets a region; it gives one back twice.
Pwm_KeepsRegion == Platform(PwmProbe, <<"map1", "map2", "region1">>)
Pwm_Twice == Platform(PwmProbe, <<"map1", "map2", "region1", "region1">>)
Pwm == Platform(PwmProbe, <<"map1", "map2", "region1", "region2">>)

\* What request_mem_region says of the second region is only reported.
TpgProbe == <<
  Bare("region1"), Bare("map1"), [Bare("region2") EXCEPT !.goOn = TRUE], Bare("map2")>>
Tpg == Platform(TpgProbe, <<"map1", "region1", "map2", "region2">>)

-----------------------------------------------------------------------------
(* The drivers of the video dma and of the pressure sensor take their own     *)
(* registration back when their probe fails                                   *)

TakeBack == <<"chrdev", "cdev", "class", "device", "driver">>

VdmaProbe == <<
  Ask("irq", {TakeBack}), Bare("region1"), Bare("map1"), Bare("region2"), Bare("map2") >>
Vdma == Platform(VdmaProbe, <<"map1", "region1", "map2", "region2", "irq">>)

\* map1 is the control module, map2 the i2c controller, map3 the clocks; the last
\* request waits for the clock.
Bmp280Probe == <<
  Ask("irq", {TakeBack}),
  Ask("map1", {TakeBack \o <<"irqOfIsr">>}),
  Ask("map2", {TakeBack \o <<"irqOfIsr", "map1">>}),
  Ask("map3", {TakeBack \o <<"irqOfIsr", "map1", "map2">>}),
  Bare("check") >>

Bmp280Init == [Registration EXCEPT ![5] = Ask("driver", {TakeBack})]

\* Mutant: the device does not name its owner.
Bmp280_NoOwner ==
  [init |-> Bmp280Init, probe |-> Bmp280Probe,
   remove |-> <<"irqOfIsr", "map1", "map2", "map3">>,
   exit |-> <<"map1", "map2", "map3", "irq">> \o Withdrawal, owner |-> FALSE]

Bmp280 ==
  [init |-> Bmp280Init, probe |-> Bmp280Probe,
   remove |-> <<"irqOfIsr", "map1", "map2", "map3">>,
   exit |-> <<"map1", "map2", "map3", "irq">> \o Withdrawal, owner |-> TRUE]

-----------------------------------------------------------------------------
(* The drivers of clients of the i2c bus *)

\* The adapter is only put back when it has no client.
ClientInit == <<
  Bare("adapter"), Ask("client", {<<"adapter">>}), Ask("driver", {<<"client">>}) >>
ClientExit == <<"driver", "client">>

\* The probe of these two writes registers and looks at no result.
Compass == [init |-> ClientInit, probe |-> <<>>, remove |-> <<>>,
            exit |-> ClientExit, owner |-> TRUE]
Ov7670 == [init |-> ClientInit, probe |-> <<>>, remove |-> <<>>,
           exit |-> ClientExit, owner |-> TRUE]

\* This one registers a device, looks at the address, and clears the struct with
\* the device: remove gives back what a cleared struct names.
CameraProbe == <<
  Bare("chrdev"),
  Ask("cdev", {<<"chrdev">>}),
  Ask("class", {<<"chrdev", "cdev">>}),
  Ask("device", {<<"chrdev", "cdev", "class">>}),
  Bare("check") >>
Camera == [init |-> ClientInit, probe |-> CameraProbe,
           remove |-> <<"zeroCdev", "zeroRegion">>, exit |-> ClientExit, owner |-> TRUE]

=============================================================================
