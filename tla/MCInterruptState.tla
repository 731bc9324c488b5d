------------------------- MODULE MCInterruptState -------------------------
(* TLC instance of InterruptState: up to three waves, up to three Ctrl-C. *)
EXTENDS InterruptState

===========================================================================
