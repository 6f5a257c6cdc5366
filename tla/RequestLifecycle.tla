--------------------------- MODULE RequestLifecycle ---------------------------
(***************************************************************************)
(* What the console promises about the status of translation requests,     *)
(* whatever its concurrent users do: a request appears exported or in      *)
(* error, only an exported one is ever closed, closed and error are final  *)
(* but for the deletion, and a deleted request never comes back.           *)
(***************************************************************************)
CONSTANT RequestId

VARIABLE status

Status == {"NONE", "EXPORTED", "ERROR", "CLOSED", "DELETED"}

LifecycleTypeOK == status \in [RequestId -> Status]

LifecycleInit == status = [r \in RequestId |-> "NONE"]

Become(r, s) == status' = [status EXCEPT ![r] = s]

Create(r) == status[r] = "NONE" /\ \E s \in {"EXPORTED", "ERROR"} : Become(r, s)
Close(r)  == status[r] = "EXPORTED" /\ Become(r, "CLOSED")
Delete(r) == status[r] \in {"EXPORTED", "ERROR", "CLOSED"} /\ Become(r, "DELETED")

LifecycleNext == \E r \in RequestId : Create(r) \/ Close(r) \/ Delete(r)

LifecycleSpec == LifecycleInit /\ [][LifecycleNext]_status
==============================================================================
