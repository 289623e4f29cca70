---------------------------- MODULE MCParamStore ----------------------------
(* Small instances of ParamStore for TLC.                                  *)
EXTENDS ParamStoreRefines

CONSTANTS v0, v1, v2

(* A factory table that differs from zeroed parameters.                    *)
MCFactory == [f \in Field |-> v1]
=============================================================================
