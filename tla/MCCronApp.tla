----------------------------- MODULE MCCronApp -----------------------------
(* Instances of CronApp for TLC: the model values of the .cfg files. *)
EXTENDS CronApp
=============================================================================
