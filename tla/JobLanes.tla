------------------------------ MODULE JobLanes ------------------------------
(***************************************************************************)
(* The router between the lanes: a leased job goes to the courier's or the *)
(* restock lane when planJob names a founder-plane lane that is built, and *)
(* to a turn on a customer's thread, or to nobody, otherwise.              *)
(***************************************************************************)
EXTENDS LaneRuns, FollowUpRuns

LaneOf == [courier_intervention |-> "courier", restock_check |-> "restock"]

ForEventLane == Plan.lane = "founder_plane"

\* The half the job is not for stands still.
JobInit ==
    /\ Init /\ FollowUpInit
    /\ IF ForEventLane THEN lane = LaneOf[job.kind] /\ turnMode = "shadow"
       ELSE lane = "courier" /\ parcel.scan = "none"

JobNext ==
    \/ ForEventLane /\ Next /\ UNCHANGED followUpVars
    \/ ~ForEventLane /\ FollowUpNext /\ UNCHANGED vars

JobSpec == JobInit /\ [][JobNext]_<<vars, followUpVars>>
=============================================================================
