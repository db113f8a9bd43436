------------------------------ MODULE MCServices ------------------------------
(***************************************************************************)
(* Model-checking instance of ten components that share no state.  Their   *)
(* product would say no more than each of them does, so an initial state   *)
(* chooses the component whose steps are taken; all the others rest in     *)
(* their initial states.                                                   *)
(***************************************************************************)
EXTENDS MachineAuth, NodeEvidence, RouteReach, RouteAuth, PairingCodes,
        RateLimiter, OperatorSessions, DirectRoutes, UpgradeRunner,
        BackupRestore

VARIABLE part   \* the component that moves

Parts == {"auth", "evidence", "reach", "routeauth", "codes",
          "limiter", "sessions", "routes", "upgrade", "backup"}

ServicesInit ==
  /\ part \in Parts
  /\ Init /\ EvInit /\ RtInit /\ RaInit /\ PcInit
  /\ RlInit /\ OsInit /\ DrInit /\ UpInit /\ BrInit
  /\ part = "reach" \/ rt.mode = "direct"

ServicesNext ==
  \/ /\ part = "auth" /\ Next
     /\ UNCHANGED <<evVars, rtVars, raVars, pcVars, rlVars, osVars, drVars, upVars, brVars, part>>
  \/ /\ part = "evidence" /\ EvNext
     /\ UNCHANGED <<vars, rtVars, raVars, pcVars, rlVars, osVars, drVars, upVars, brVars, part>>
  \/ /\ part = "reach" /\ RtNext
     /\ UNCHANGED <<vars, evVars, raVars, pcVars, rlVars, osVars, drVars, upVars, brVars, part>>
  \/ /\ part = "routeauth" /\ RaNext
     /\ UNCHANGED <<vars, evVars, rtVars, pcVars, rlVars, osVars, drVars, upVars, brVars, part>>
  \/ /\ part = "codes" /\ PcNext
     /\ UNCHANGED <<vars, evVars, rtVars, raVars, rlVars, osVars, drVars, upVars, brVars, part>>
  \/ /\ part = "limiter" /\ RlNext
     /\ UNCHANGED <<vars, evVars, rtVars, raVars, pcVars, osVars, drVars, upVars, brVars, part>>
  \/ /\ part = "sessions" /\ OsNext
     /\ UNCHANGED <<vars, evVars, rtVars, raVars, pcVars, rlVars, drVars, upVars, brVars, part>>
  \/ /\ part = "routes" /\ DrNext
     /\ UNCHANGED <<vars, evVars, rtVars, raVars, pcVars, rlVars, osVars, upVars, brVars, part>>
  \/ /\ part = "upgrade" /\ UpNext
     /\ UNCHANGED <<vars, evVars, rtVars, raVars, pcVars, rlVars, osVars, drVars, brVars, part>>
  \/ /\ part = "backup" /\ BrNext
     /\ UNCHANGED <<vars, evVars, rtVars, raVars, pcVars, rlVars, osVars, drVars, upVars, part>>

ServicesVars == <<part, vars, evVars, rtVars, raVars, pcVars, rlVars,
                  osVars, drVars, upVars, brVars>>

ServicesSpec == ServicesInit /\ [][ServicesNext]_ServicesVars

(* Reachability alone, for the run with fairness.                          *)
ReachSpec == ServicesInit /\ part = "reach" /\ [][ServicesNext]_ServicesVars /\ RtFairness

(* A node that passes everything, one without its frontend, one upgraded.  *)
MCReports ==
  LET passed == [identity |-> "v1", runtime |-> "pass", settings |-> "pass",
                 web |-> "pass", outcome |-> "pass"]
  IN {passed, [passed EXCEPT !.identity = "v2"],
      [passed EXCEPT !.settings = "skip", !.web = "fail", !.outcome = "fail"]}
=============================================================================
