---------------------------- MODULE MCI2cDriver ----------------------------
(* The commands of i2c_dev.c with answers cut to three bytes. *)
EXTENDS I2cDriver

MCTxLen == [id |-> 1, calib |-> 1, config |-> 2, data |-> 1]
MCRxLen == [id |-> 1, calib |-> 3, config |-> 1, data |-> 2]

=============================================================================
