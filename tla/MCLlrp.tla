-------------------------------- MODULE MCLlrp --------------------------------
(***************************************************************************)
(* Instances of LlrpReader for model checking; all constants are numbers   *)
(* and sets of strings, given in MCLlrp.cfg and MCLlrpSilent.cfg.          *)
(***************************************************************************)
EXTENDS LlrpReader
=============================================================================
