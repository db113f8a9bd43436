-------------------------- MODULE OperatorSessions --------------------------
(***************************************************************************)
(* Browser sessions of operators (registry.mjs, server.mjs): bootstrapped  *)
(* by a login or by a verified pairing code, kept alive by requests within *)
(* a hard limit, ended by logout or by time, and audited by the sweep.     *)
(***************************************************************************)
EXTENDS Naturals, FiniteSets

CONSTANTS Principals,
          SessionTTL, SessionIdle,      \* 12 h and 30 min
          MaxSessionIds, MaxSessionNow  \* bounds: sessions and clock

ASSUME SessionAssumption ==
  {SessionTTL, SessionIdle, MaxSessionIds, MaxSessionNow} \subseteq Nat \ {0}

VARIABLES osNow,
          osSessions,  \* browser_sessions, by session id
          osExpired    \* session.expired audit rows, by session id

osVars == <<osNow, osSessions, osExpired>>

SessionIds == DOMAIN osSessions

OsInit == osNow = 1 /\ osSessions = <<>> /\ osExpired = <<>>

-----------------------------------------------------------------------------
(* bootstrapSession: always a new session, for the admitted principal.     *)
BootstrapSession(p) ==
  LET id == Cardinality(SessionIds) + 1
  IN /\ id <= MaxSessionIds
     /\ osSessions' = [i \in SessionIds \cup {id} |->
          IF i # id THEN osSessions[i]
          ELSE [principal |-> p, created |-> osNow, expires |-> osNow + SessionTTL,
                idle |-> osNow + SessionIdle, revoked |-> FALSE, audited |-> FALSE]]
     /\ osExpired' = [i \in SessionIds \cup {id} |-> IF i = id THEN 0 ELSE osExpired[i]]
     /\ UNCHANGED osNow

(* The test validateSession makes before it slides the idle limit.         *)
ValidSession(s) == ~s.revoked /\ s.expires > osNow /\ s.idle > osNow

(* Mutant: a request renews the session as a whole.                        *)
Renewed(s) == [s EXCEPT !.idle = osNow + SessionIdle, !.expires = osNow + SessionTTL]

Slid(s) == [s EXCEPT !.idle = osNow + SessionIdle]

(* Mutant: the session is kept alive before it is looked at.               *)
ManagementRequestSlidesFirst(p, id) ==
  /\ ~osSessions[id].revoked
  /\ osSessions' = [osSessions EXCEPT ![id] = Slid(@)]
  /\ UNCHANGED <<osNow, osExpired>>

(* Any management request of principal p with this cookie: the idle limit  *)
(* slides before the principal is compared, so a refused request of        *)
(* another principal keeps the session alive too.                          *)
ManagementRequest(p, id) ==
  /\ ValidSession(osSessions[id])
  /\ osSessions' = [osSessions EXCEPT ![id] = Slid(@)]
  /\ UNCHANGED <<osNow, osExpired>>

(* POST /hub/session/logout: validated, of its own principal, with the     *)
(* CSRF token; endSession stamps revoked_at.                               *)
Logout(p, id) ==
  /\ ValidSession(osSessions[id]) /\ osSessions[id].principal = p
  /\ osSessions' = [osSessions EXCEPT ![id] = [Slid(@) EXCEPT !.revoked = TRUE]]
  /\ UNCHANGED <<osNow, osExpired>>

(* Mutant: the marker is not looked at.                                    *)
ExpirableAgain(s) == ~s.revoked /\ (s.expires <= osNow \/ s.idle <= osNow)

(* The sessions a sweep writes an expiry for.                              *)
Expirable(s) == ~s.revoked /\ ~s.audited /\ (s.expires <= osNow \/ s.idle <= osNow)

SessionSweep ==
  /\ osSessions' = [i \in SessionIds |->
       IF Expirable(osSessions[i]) THEN [osSessions[i] EXCEPT !.audited = TRUE] ELSE osSessions[i]]
  /\ osExpired' = [i \in SessionIds |->
       osExpired[i] + (IF Expirable(osSessions[i]) THEN 1 ELSE 0)]
  /\ UNCHANGED osNow

SessionTick == osNow < MaxSessionNow /\ osNow' = osNow + 1 /\ UNCHANGED <<osSessions, osExpired>>

OsNext ==
  \/ \E p \in Principals : BootstrapSession(p)
  \/ \E p \in Principals, id \in SessionIds : ManagementRequest(p, id) \/ Logout(p, id)
  \/ SessionSweep \/ SessionTick

OsSpec == OsInit /\ [][OsNext]_osVars

-----------------------------------------------------------------------------
(* An audit row is written once for a session that ran out, never for one  *)
(* that was logged out in time, and never for one that can still be used   *)
(* (RFC-0007: every expired session is audited exactly once).              *)
ExpiryAuditedOnce ==
  \A id \in SessionIds :
    LET s == osSessions[id]
    IN /\ osExpired[id] = (IF s.audited THEN 1 ELSE 0)
       /\ s.audited => ~s.revoked /\ ~ValidSession(s)

(* A session that ended stays ended, whatever requests still carry it.     *)
EndedStaysEnded ==
  [][\A id \in SessionIds : ~ValidSession(osSessions[id]) => ~ValidSession(osSessions[id])']_osVars

(* No activity keeps a session usable beyond the absolute limit counted    *)
(* from its bootstrap (RFC-0007: hard absolute expiry).                    *)
HardLimitHolds ==
  \A id \in SessionIds :
    ValidSession(osSessions[id]) => osNow < osSessions[id].created + SessionTTL

(* Sessions end for good: requests, logouts and sweeps leave none beyond   *)
(* its hard limit, none that comes back, and no expiry without its one     *)
(* audit row.                                                              *)
SessionsEnd == [](HardLimitHolds /\ ExpiryAuditedOnce) /\ EndedStaysEnded
=============================================================================
