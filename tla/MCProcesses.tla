------------------------------ MODULE MCProcesses ------------------------------
(***************************************************************************)
(* The instance of Processes for TLC: what a configuration file cannot     *)
(* say.                                                                    *)
(***************************************************************************)
EXTENDS Processes

MCSize == <<1, 3, 1, 2, 1>>
================================================================================
