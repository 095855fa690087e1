----------------------------- MODULE MCLifecycle -----------------------------
(* Model-checking instance of Lifecycle.  Faults is given in each .cfg:    *)
(* both faults for the shutdown run, none or "hang" for the runs that show *)
(* what goes wrong without any fault or with a hung process().            *)
EXTENDS Lifecycle
=============================================================================
