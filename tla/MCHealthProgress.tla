-------------------------- MODULE MCHealthProgress ---------------------------
(* The failure mark of an endpoint in the end, under the fairness of               *)
(* EndpointHealth's FairSpec.  part says which of three instances runs.           *)
EXTENDS Integers

CONSTANTS Parts

VARIABLES
  part,
  row, snap, lane, hs, owner, seen, verdicts, warned, surprised, healthFaults,
  switches   \* EndpointHealth

healthVars == <<row, snap, lane, hs, owner, seen, verdicts, warned, surprised, healthFaults,
                switches>>

\* One worker and two deliveries of an endpoint that fails and recovers; one write fails.
Recovers == INSTANCE EndpointHealth WITH
  Workers <- {"w1"}, Handlers <- {"h1", "h2"}, DisableAfter <- 2, MaxAge <- 2, Quarantines <- FALSE,
  Notifies <- FALSE, MaxFaults <- 1, MaxSwitches <- 0,
  faults <- healthFaults

\* Two workers deliver to it in turn; one write fails.
Dead == INSTANCE EndpointHealth WITH
  Workers <- {"w1", "w2"}, Handlers <- {"h1"}, DisableAfter <- 1, MaxAge <- 1, Quarantines <- FALSE,
  Notifies <- FALSE, MaxFaults <- 1, MaxSwitches <- 0,
  faults <- healthFaults

\* One worker; one write fails, and the owner turns the endpoint on again, or off and on.
\* (Its Handlers and MaxAge are those of Dead, so one formula serves both.)
Switched == INSTANCE EndpointHealth WITH
  Workers <- {"w1"}, Handlers <- {"h1"}, DisableAfter <- 1, MaxAge <- 1, Quarantines <- FALSE,
  Notifies <- FALSE, MaxFaults <- 1, MaxSwitches <- 2,
  faults <- healthFaults

ASSUME ProgressSizes ==
  /\ Recovers!HealthAssumption /\ Dead!HealthAssumption /\ Switched!HealthAssumption

\* The component that runs leaves the others alone.
InRecovers ==
  /\ part = "recovers"
  /\ UNCHANGED part
InDead ==
  /\ part = "dead"
  /\ UNCHANGED part
InSwitched ==
  /\ part = "switched"
  /\ UNCHANGED part

MCInit ==
  /\ part \in Parts
  /\ CASE part = "recovers" -> Recovers!Init [] part = "dead" -> Dead!Init [] OTHER -> Switched!Init
MCNext ==
  \/ InRecovers /\ Recovers!Next
  \/ InDead /\ Dead!Next
  \/ InSwitched /\ Switched!Next
MCVars == <<part, healthVars>>

\* The instance that runs takes the steps its own FairSpec promises.
Running(r, d, s) == (part = "recovers" /\ r) \/ (part = "dead" /\ d) \/ (part = "switched" /\ s)
MCFairSpec ==
  /\ MCInit /\ [][MCNext]_MCVars
  /\ WF_healthVars(Running(Recovers!Tick, Dead!Tick, Switched!Tick))
  /\ WF_healthVars(Running(Recovers!StartOver, Dead!StartOver, Switched!StartOver))
  /\ WF_healthVars(Running(\E w \in {"w1"} : Recovers!Begin("h1", w),
                           \E w \in {"w1", "w2"} : Dead!Begin("h1", w),
                           \E w \in {"w1"} : Switched!Begin("h1", w)))
  /\ WF_healthVars(Running(Recovers!Respond("h1"), Dead!Respond("h1"), Switched!Respond("h1")))
  /\ WF_healthVars(Running(Recovers!Finish("h1"), Dead!Finish("h1"), Switched!Finish("h1")))
  /\ WF_healthVars(Running(\E w \in {"w1"} : Recovers!Begin("h2", w), FALSE, FALSE))
  /\ WF_healthVars(Running(Recovers!Respond("h2"), FALSE, FALSE))
  /\ WF_healthVars(Running(Recovers!Finish("h2"), FALSE, FALSE))
  /\ WF_healthVars(Running(Recovers!Refresh("w1"), Dead!Refresh("w1"), Switched!Refresh("w1")))
  /\ WF_healthVars(Running(FALSE, Dead!Refresh("w2"), FALSE))

------------------------------------------------------------------------------
(* An endpoint that only succeeds again loses its failure mark for good,   *)
(* whichever worker saw which delivery and whatever write failed. One that *)
(* only fails is switched off in the end, whoever sees the failures,       *)
(* whatever write failed and however the owner switches it, unless from    *)
(* some moment on all deliveries belong to workers whose lane is marked as *)
(* having switched it off already (applyHealthTransitions, MarkDisabled).  *)
MarkFollowsHealth ==
  /\ (part = "recovers" => Recovers!RecoveryClears)
  /\ (part # "recovers" => Dead!DeadIsDisabledUnlessMarked)
==============================================================================
