-------------------------- MODULE ParamStoreRefines --------------------------
(* The two partitions with their counters implement DurableParams.         *)
EXTENDS ParamStore

CONSTANT NoUpdate

ASSUME NoUpdateDistinct == NoUpdate \notin Params

storedBar == BootParams
pendingBar == IF lock \in Task THEN Intended ELSE NoUpdate

D == INSTANCE DurableParams WITH stored <- storedBar, pending <- pendingBar

(* Power losses included, every step of the tasks, of tls_param_init and   *)
(* of the flash driver either changes nothing a later boot could see or    *)
(* applies the update in progress as a whole, and no call returns OK       *)
(* before that.  (Without failing allocations, without factory resets and  *)
(* before modify_count wraps.)                                             *)
ImplementsDurableParams == D!Spec
=============================================================================
