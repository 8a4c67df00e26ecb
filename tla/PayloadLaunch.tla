---------------------------- MODULE PayloadLaunch ----------------------------
(***************************************************************************)
(* What one execute of the holder promises, without processes: the lease   *)
(* is given up only when nothing of the payload is left or the watch was   *)
(* blind to one of its descendants, a payload that ran is never taken for  *)
(* one that was never launched, and a lease that is not given up is never  *)
(* given up later.                                                         *)
(***************************************************************************)
VARIABLES
    child,    \* lease.json child: what the holder has written of the payload
    payload,  \* the truth: "none", "waiting", "running", "unborn" or "gone"
    hidden    \* the watch cannot see one of the payload's descendants

launchVars == <<child, payload, hidden>>

Move(from, to) == child \in from /\ child' = to /\ UNCHANGED <<payload, hidden>>

Start == Move({"uncertain"}, "starting")
NoChild == payload = "none" /\ Move({"starting"}, "uncertain")
Record == Move({"starting"}, "running")
SpawnFailed == payload = "unborn" /\ Move({"starting"}, "spawn-failed")
Finish ==
    /\ payload \in {"unborn", "gone"} \/ hidden
    /\ \E outcome \in {"exited", "timeout"} : Move({"running"}, outcome)
Retain == Move({"starting", "running"}, "supervision-uncertain")

Payload(from, to) == payload = from /\ payload' = to /\ UNCHANGED <<child, hidden>>
Spawn == child = "starting" /\ Payload("none", "waiting")
Quit == Payload("waiting", "unborn")
Go == child \in {"starting", "running"} /\ Payload("waiting", "running")
End == Payload("running", "gone")
Hide == payload = "running" /\ hidden' = TRUE /\ UNCHANGED <<child, payload>>

Init == child = "uncertain" /\ payload = "none" /\ hidden = FALSE

Next ==
    \/ Start \/ NoChild \/ Record \/ SpawnFailed \/ Finish \/ Retain
    \/ Spawn \/ Quit \/ Go \/ End \/ Hide

Spec == Init /\ [][Next]_launchVars
=============================================================================
