------------------------------ MODULE MCMainWindow ------------------------------
(***************************************************************************)
(* The main window with two FPGAs, each of which publishes two events.     *)
(***************************************************************************)
EXTENDS MainWindow

MCMasks == {{1}, {2}}

================================================================================
