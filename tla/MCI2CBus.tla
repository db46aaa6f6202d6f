------------------------------ MODULE MCI2CBus ------------------------------
(***************************************************************************)
(* Instances of I2CBus for TLC.  The lengths of the frames and the errors  *)
(* of the bus are chosen here; the cfg files give the sizes and bounds.    *)
(***************************************************************************)
EXTENDS I2CBus

\* Frames that break off early and frames of an accessory message.
AccessoryLens == {0, 1, 2}

\* Only complete accessory messages.
CompleteLens == {2}

AllErrors     == {"AF", "ARLO", "BERR"}
NoArbitration == {"AF", "BERR"}
NoErrors      == {}
=============================================================================
