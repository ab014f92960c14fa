-------------------------------- MODULE Tables --------------------------------
(***************************************************************************)
(* Tables of rows under names, put together.  The operators :> and @@ of   *)
(* the module TLC would do as well, but the prover has no definition for   *)
(* them.                                                                   *)
(***************************************************************************)

(* One row under several names.                                            *)
Each(names, row) == [n \in names |-> row]

(* The rows of f and of g; under a name of both, f's.                      *)
f ++ g == [n \in DOMAIN f \cup DOMAIN g |-> IF n \in DOMAIN f THEN f[n] ELSE g[n]]
===============================================================================
