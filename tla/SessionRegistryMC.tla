-------------------------- MODULE SessionRegistryMC --------------------------
(* SessionRegistry on a small instance.                                    *)
EXTENDS SessionRegistry

(* The calls are interchangeable: what holds of one holds of every other,  *)
(* and one is three times cheaper to follow than three.                    *)
Caller == CHOOSE t \in Task : TRUE

(* That call returns, whatever the others do: CallsReturn for one task.    *)
CallReturns == Returns(Caller)

=============================================================================
