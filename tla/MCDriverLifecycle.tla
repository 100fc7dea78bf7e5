------------------------- MODULE MCDriverLifecycle -------------------------
(* All the drivers, one at a time. *)
EXTENDS DriverLifecycle, DriverScripts

MCCode == [emio |-> Emio, mio |-> Mio, encoder |-> Encoder, encoder2 |-> Encoder2,
           pwm |-> Pwm, tpg |-> Tpg, vdma |-> Vdma, bmp280 |-> Bmp280,
           compass |-> Compass, ov7670 |-> Ov7670, ov7670_2 |-> Camera]

=============================================================================
