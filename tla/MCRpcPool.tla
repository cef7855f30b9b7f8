------------------------------ MODULE MCRpcPool ------------------------------
(* Small instances of RpcPool for TLC. *)
EXTENDS RpcPool

(* The shipped cooldown is 5 s; a request may take three attempts of 10 s  *)
(* and their backoff.  What matters is that a call can outlast a cooldown. *)
CONSTANTS t1, t2
MCCallers == {t1, t2}
=============================================================================
