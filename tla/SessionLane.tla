----------------------------- MODULE SessionLane -----------------------------
(* The mutation queue, instantiated with names of its own: the handlers that *)
(* other modules model (approvals, stops, sends) each run as one of its      *)
(* tasks, and what it promises can so be stated and proved beside them.      *)
CONSTANTS Resources, Exclusive, MaxTasks, MaxCancels
VARIABLES next, barrier, resources, generation, entries, phase, name, deps, born, aborted,
          notified, calls, result, drains

Lane == INSTANCE ResourceMutationQueue

ASSUME LaneAssumption == Lane!QueueAssumption

LaneSpec == Lane!Spec
FairLaneSpec == Lane!FairSpec

(* A task begins after the earlier ones it conflicts with (#enqueue, #run).  *)
InOrder == Lane!InOrder

(* Every task that ended completed, failed or was told of its cancellation,  *)
(* once (#run, cancelAll, #notifyCancelled).                                 *)
AccountedOnce == Lane!AccountedOnce

(* drain resolves when everything enqueued before it has settled.            *)
DrainIsComplete == Lane!DrainIsComplete

(* Every task and every drain settles, whatever failed or was cancelled.     *)
EverythingSettles == Lane!EverythingSettles
==============================================================================
