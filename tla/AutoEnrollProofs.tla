-------------------------- MODULE AutoEnrollProofs --------------------------
(***************************************************************************)
(* For every set of agents and of measured boot states, and every number   *)
(* of attempts and disturbances: type correctness, the poll thread never   *)
(* misses a report it counted on, and auto-enrollment is trust on first    *)
(* use.                                                                    *)
(***************************************************************************)
EXTENDS AutoEnroll, TLAPS

LEMMA InitTypeOK == Init => TypeOK
  BY NoneAssumption, BoundsAssumption DEF Init, TypeOK, MaybeState

LEMMA NextTypeOK == TypeOK /\ [Next]_vars => TypeOK'
<1> SUFFICES ASSUME TypeOK, [Next]_vars PROVE TypeOK'
  OBVIOUS
<1> USE NoneAssumption, BoundsAssumption DEF TypeOK, MaybeState
<1> USE DEF vars, daemonVars, serverVars, agentVars, historyVars, Disturb, EndCycle
<1>1. CASE DaemonStart BY <1>1 DEF DaemonStart
<1>2. CASE DaemonStop BY <1>2 DEF DaemonStop
<1>3. CASE QueryRegistrar BY <1>3 DEF QueryRegistrar
<1>4. CASE QueryVerifier BY <1>4 DEF QueryVerifier
<1>5. CASE Snapshot BY <1>5 DEF Snapshot, Ready, NextUuid
<1>6. ASSUME NEW a \in Agents, Pick(a) PROVE TypeOK'
  BY <1>6 DEF Pick, PendingReport
<1>7. CASE Add BY <1>7 DEF Add, TenantAdd, NextUuid
<1>8. CASE AddRaises BY <1>8 DEF AddRaises
<1>9. CASE Cleanup BY <1>9 DEF Cleanup
<1>10. ASSUME NEW a \in Agents, Register(a) PROVE TypeOK'
  BY <1>10 DEF Register
<1>11. ASSUME NEW a \in Agents, RestartAgent(a) PROVE TypeOK'
  BY <1>11 DEF RestartAgent
<1>12. ASSUME NEW a \in Agents, Reboot(a) PROVE TypeOK'
  BY <1>12 DEF Reboot
<1>13. ASSUME NEW a \in Agents, StartReport(a) PROVE TypeOK'
  BY <1>13 DEF StartReport
<1>14. ASSUME NEW a \in Agents, Post(a) PROVE TypeOK'
  BY <1>14 DEF Post
<1>15. ASSUME NEW a \in Agents, FetchCert(a) PROVE TypeOK'
  BY <1>15 DEF FetchCert
<1>16. ASSUME NEW a \in Agents, FetchDenied(a) PROVE TypeOK'
  BY <1>16 DEF FetchDenied, GivesUp
<1>17. ASSUME NEW a \in Agents, RequestFails(a) PROVE TypeOK'
  BY <1>17 DEF RequestFails
<1>18. ASSUME NEW a \in Agents, AttestationFails(a) PROVE TypeOK'
  BY <1>18 DEF AttestationFails
<1>19. ASSUME NEW a \in Agents, RemoveFromVerifier(a) PROVE TypeOK'
  <2>1. deleted' \in SUBSET Agents
    BY <1>19 DEF RemoveFromVerifier
  <2>2. removing' \in [uuid: Agents, ok: BOOLEAN]
    <3>1. CASE removing' = [uuid |-> a, ok |-> TRUE]
      BY <3>1
    <3>2. CASE removing' = [uuid |-> a, ok |-> FALSE]
      BY <3>2
    <3>3. QED BY <3>1, <3>2, <1>19 DEF RemoveFromVerifier
  <2>3. verifier' \in [Agents -> MaybeState] /\ failed' \in SUBSET Agents
    BY <1>19 DEF RemoveFromVerifier
  <2>4. QED BY <1>19, <2>1, <2>2, <2>3 DEF RemoveFromVerifier
<1>20. CASE RemoveFromRegistrar BY <1>20 DEF RemoveFromRegistrar
<1>21. CASE RemoveAborts BY <1>21 DEF RemoveAborts
<1>22. CASE UNCHANGED vars BY <1>22
<1>23. QED
  BY <1>1, <1>2, <1>3, <1>4, <1>5, <1>6, <1>7, <1>8, <1>9, <1>10, <1>11,
     <1>12, <1>13, <1>14, <1>15, <1>16, <1>17, <1>18, <1>19, <1>20, <1>21,
     <1>22 DEF Next, PollThread, ReportService

\* Every variable keeps its type.
THEOREM TypeCorrect == Spec => []TypeOK
<1>1. QED BY InitTypeOK, NextTypeOK, PTL DEF Spec

-----------------------------------------------------------------------------
(***************************************************************************)
(* The inductive invariant.  Every copy of a report (pending, in the poll  *)
(* thread's hand, enrolled) is one its agent vouched for; what the thread  *)
(* still has to enroll is in the dictionary and in its registrar snapshot; *)
(* and the two history variables agree with the snapshots in hand.         *)
(***************************************************************************)

InCycle == pc \in {"QueryVerifier", "Snapshot", "Pick", "Add", "Cleanup"}

ReportsVouched ==
  \A a \in Agents : agent_reports[a] # None => agent_reports[a] \in accepted[a]

EnrolledVouched ==
  \A a \in Agents : verifier[a] # None => verifier[a] \in accepted[a]

InHandVouched ==
  pc = "Add" => uuid \in Agents /\ uuid \in registered /\ report \in accepted[uuid]

ReadyPending ==
  pc \in {"Pick", "Add"} =>
    \A a \in ready : agent_reports[a] # None /\ a \in registered

DoomedUnseen ==
  \A a \in Agents : age[a] = "doomed" => InCycle /\ a \notin registered

SteadySeen ==
  \A a \in steady :
    /\ InCycle /\ a \in registered
    /\ pc = "QueryVerifier" => verifier[a] = None
    /\ pc # "QueryVerifier" => a \notin enrolled

IInv ==
  /\ TypeOK
  /\ ReportsVouched /\ EnrolledVouched /\ InHandVouched
  /\ ReadyPending
  /\ DoomedUnseen /\ SteadySeen

LEMMA InitIInv == Init => IInv
  BY InitTypeOK DEF Init, IInv, ReportsVouched, EnrolledVouched, InHandVouched,
     ReadyPending, DoomedUnseen, SteadySeen

LEMMA NextIInv == IInv /\ [Next]_vars => IInv'
<1> SUFFICES ASSUME IInv, [Next]_vars PROVE IInv'
  OBVIOUS
<1> USE NoneAssumption DEF IInv, ReportsVouched, EnrolledVouched, InHandVouched,
      ReadyPending, DoomedUnseen, SteadySeen, InCycle
<1> USE DEF TypeOK, MaybeState
<1> USE DEF vars, daemonVars, serverVars, agentVars, historyVars, EndCycle
<1>0. TypeOK'
  BY NextTypeOK
<1>1. CASE DaemonStart BY <1>0, <1>1 DEF DaemonStart
<1>2. CASE DaemonStop BY <1>0, <1>2 DEF DaemonStop
<1>3. CASE QueryRegistrar BY <1>0, <1>3 DEF QueryRegistrar
<1>4. CASE QueryVerifier BY <1>0, <1>4 DEF QueryVerifier
<1>5. CASE Snapshot BY <1>0, <1>5 DEF Snapshot, Ready, reported, NextUuid
<1>6. ASSUME NEW a \in Agents, Pick(a) PROVE IInv'
  BY <1>0, <1>6 DEF Pick, PendingReport
<1>7. CASE Add BY <1>0, <1>7 DEF Add, TenantAdd, NextUuid
<1>8. CASE AddRaises BY <1>0, <1>8 DEF AddRaises
<1>9. CASE Cleanup BY <1>0, <1>9 DEF Cleanup, StaleReport
<1>10. ASSUME NEW a \in Agents, Register(a) PROVE IInv'
  BY <1>0, <1>10 DEF Register
<1>11. ASSUME NEW a \in Agents, RestartAgent(a) PROVE IInv'
  BY <1>0, <1>11 DEF RestartAgent
<1>12. ASSUME NEW a \in Agents, Reboot(a) PROVE IInv'
  BY <1>0, <1>12 DEF Reboot
<1>13. ASSUME NEW a \in Agents, StartReport(a) PROVE IInv'
  BY <1>0, <1>13 DEF StartReport
<1>14. ASSUME NEW a \in Agents, Post(a) PROVE IInv'
  BY <1>0, <1>14 DEF Post
<1>15. ASSUME NEW a \in Agents, FetchCert(a) PROVE IInv'
  BY <1>0, <1>15 DEF FetchCert
<1>16. ASSUME NEW a \in Agents, FetchDenied(a) PROVE IInv'
  BY <1>0, <1>16 DEF FetchDenied
<1>17. ASSUME NEW a \in Agents, RequestFails(a) PROVE IInv'
  BY <1>0, <1>17 DEF RequestFails
<1>18. ASSUME NEW a \in Agents, AttestationFails(a) PROVE IInv'
  BY <1>0, <1>18 DEF AttestationFails
<1>19. ASSUME NEW a \in Agents, RemoveFromVerifier(a) PROVE IInv'
  BY <1>0, <1>19 DEF RemoveFromVerifier
<1>20. CASE RemoveFromRegistrar BY <1>0, <1>20 DEF RemoveFromRegistrar
<1>21. CASE RemoveAborts BY <1>0, <1>21 DEF RemoveAborts
<1>22. CASE UNCHANGED vars BY <1>0, <1>22
<1>23. QED
  BY <1>1, <1>2, <1>3, <1>4, <1>5, <1>6, <1>7, <1>8, <1>9, <1>10, <1>11,
     <1>12, <1>13, <1>14, <1>15, <1>16, <1>17, <1>18, <1>19, <1>20, <1>21,
     <1>22 DEF Next, PollThread, ReportService

THEOREM IInvAlways == Spec => []IInv
BY InitIInv, NextIInv, PTL DEF Spec

\* The KeyError of line 449 cannot happen.
THEOREM NoKeyError == Spec => []ReadyHaveReports
<1>1. IInv => ReadyHaveReports
  BY DEF IInv, ReadyPending, ReadyHaveReports
<1>2. QED BY <1>1, IInvAlways, PTL

-----------------------------------------------------------------------------
(***************************************************************************)
(* The cleanup, and the refinement.                                        *)
(***************************************************************************)

\* Only the cleanup and the end of the process empty an entry of agent_reports.
LEMMA WhoDropsReports ==
  ASSUME IInv, [Next]_vars, NEW a \in Agents,
         agent_reports[a] # None, agent_reports'[a] = None
  PROVE  DaemonStop \/ (Cleanup /\ StaleReport(a))
<1>1. CASE Cleanup
  BY <1>1 DEF Cleanup
<1>2. ASSUME NEW b \in Agents, Post(b) PROVE FALSE
  BY <1>2, NoneAssumption DEF Post, IInv, TypeOK, MaybeState
<1>3. ASSUME agent_reports' = agent_reports PROVE FALSE
  BY <1>3
<1>4. QED
  BY <1>1, <1>2, <1>3 DEF Next, vars, PollThread, ReportService, DaemonStart,
     QueryRegistrar, QueryVerifier, Snapshot, Pick, Add, AddRaises, Register,
     RestartAgent, Reboot, StartReport, FetchCert, FetchDenied, RequestFails,
     AttestationFails, RemoveFromVerifier, RemoveFromRegistrar, RemoveAborts

\* The cleanup never takes the pending report of an agent that stayed
\* registered and unenrolled since the registrar answered.
THEOREM CleanupKeepsSteady == Spec => SteadyReportsKept
<1>1. IInv /\ [Next]_vars =>
        [\A a \in steady : agent_reports[a] # None /\ pc # "Down" /\ pc' # "Down"
           => agent_reports'[a] # None]_vars
  <2> SUFFICES ASSUME IInv, [Next]_vars, NEW a \in steady,
                      agent_reports[a] # None, pc # "Down", pc' # "Down",
                      agent_reports'[a] = None
               PROVE  FALSE
    OBVIOUS
  <2>1. a \in Agents
    BY DEF IInv, TypeOK
  <2>2. CASE DaemonStop
    BY <2>2 DEF DaemonStop
  <2>3. CASE Cleanup /\ StaleReport(a)
    BY <2>3 DEF Cleanup, StaleReport, IInv, SteadySeen
  <2>4. QED BY <2>1, <2>2, <2>3, WhoDropsReports
<1>2. QED BY <1>1, IInvAlways, PTL DEF Spec, SteadyReportsKept

\* Only Add enrolls, and it enrolls the report in hand.
LEMMA WhoEnrolls ==
  ASSUME IInv, [Next]_vars, NEW a \in Agents, verifier[a] = None, verifier'[a] # None
  PROVE  Add /\ TenantAdd(uuid, report) /\ uuid = a
<1>1. CASE Add
  BY <1>1 DEF Add, TenantAdd, IInv, TypeOK
<1>2. ASSUME NEW b \in Agents, RemoveFromVerifier(b) PROVE FALSE
  BY <1>2 DEF RemoveFromVerifier, IInv, TypeOK
<1>3. ASSUME verifier' = verifier PROVE FALSE
  BY <1>3
<1>4. QED
  BY <1>1, <1>2, <1>3 DEF Next, vars, serverVars, PollThread, ReportService,
     DaemonStart, DaemonStop, QueryRegistrar, QueryVerifier, Snapshot, Pick,
     AddRaises, Cleanup, Register, RestartAgent, Reboot, StartReport, Post,
     FetchCert, FetchDenied, RequestFails, AttestationFails,
     RemoveFromRegistrar, RemoveAborts

\* A report that a poll saw outlive its registration is never enrolled.
THEOREM DoomedReportsUnused == Spec => DoomedNeverEnrolled
<1>1. IInv /\ [Next]_vars =>
        [\A a \in Agents : age[a] = "doomed" /\ verifier[a] = None
           => verifier'[a] = None]_vars
  <2> SUFFICES ASSUME IInv, [Next]_vars, NEW a \in Agents, age[a] = "doomed",
                      verifier[a] = None, verifier'[a] # None
               PROVE  FALSE
    OBVIOUS
  <2>1. Add /\ uuid = a
    BY WhoEnrolls
  <2>2. a \in registered /\ a \notin registered
    BY <2>1 DEF Add, IInv, InHandVouched, DoomedUnseen
  <2>3. QED BY <2>2
<1>2. QED BY <1>1, IInvAlways, PTL DEF Spec, DoomedNeverEnrolled

\* Every step of the daemon, the agents and the operator boots, vouches,
\* pins, unpins or changes nothing that trust on first use is about.
LEMMA StepRefines == IInv /\ [Next]_vars => [Tofu!Next]_(Tofu!vars)
<1> SUFFICES ASSUME IInv, [Next]_vars PROVE [Tofu!Next]_(Tofu!vars)
  OBVIOUS
<1> USE DEF Tofu!vars
<1>1. ASSUME NEW a \in Agents, Reboot(a) PROVE Tofu!Next
  <2>1. PICK s \in States : boot' = [boot EXCEPT ![a] = s]
    BY <1>1 DEF Reboot
  <2>2. Tofu!Boot(a, s)
    BY <1>1, <2>1 DEF Reboot, serverVars, Tofu!Boot
  <2>3. QED BY <2>2 DEF Tofu!Next
<1>2. ASSUME NEW a \in Agents, Post(a) PROVE Tofu!Next
  <2>1. Tofu!Vouch(a)
    BY <1>2 DEF Post, serverVars, Tofu!Vouch
  <2>2. QED BY <2>1 DEF Tofu!Next
<1>3. CASE Add
  <2>1. CASE TenantAdd(uuid, report)
    <3>1. uuid \in Agents /\ report \in accepted[uuid] /\ report \in States
      BY <1>3 DEF Add, IInv, InHandVouched, TypeOK
    <3>2. Tofu!Pin(uuid, report)
      BY <1>3, <2>1, <3>1 DEF Add, TenantAdd, agentVars, historyVars, Tofu!Pin
    <3>3. QED BY <3>1, <3>2 DEF Tofu!Next
  <2>2. CASE UNCHANGED verifier
    BY <1>3, <2>2 DEF Add, agentVars, historyVars
  <2>3. QED BY <1>3, <2>1, <2>2 DEF Add
<1>4. ASSUME NEW a \in Agents, RemoveFromVerifier(a) PROVE [Tofu!Next]_(Tofu!vars)
  <2>1. CASE verifier' = [verifier EXCEPT ![a] = None]
    <3>1. Tofu!Unpin(a)
      BY <1>4, <2>1 DEF RemoveFromVerifier, agentVars, Tofu!Unpin
    <3>2. QED BY <3>1 DEF Tofu!Next
  <2>2. CASE UNCHANGED verifier
    BY <1>4, <2>2 DEF RemoveFromVerifier, agentVars
  <2>3. QED BY <1>4, <2>1, <2>2 DEF RemoveFromVerifier
<1>5. CASE UNCHANGED <<boot, accepted, verifier>>
  BY <1>5
<1>6. QED
  BY <1>1, <1>2, <1>3, <1>4, <1>5 DEF Next, vars, serverVars, agentVars,
     historyVars, PollThread, ReportService, DaemonStart, DaemonStop,
     QueryRegistrar, QueryVerifier, Snapshot, Pick, AddRaises, Cleanup,
     Register, RestartAgent, StartReport, FetchCert, FetchDenied,
     RequestFails, AttestationFails, RemoveFromRegistrar, RemoveAborts

\* Auto-enrollment implements trust on first use.
THEOREM TrustOnFirstUse == Spec => ImplementsTofu
<1>1. Init => Tofu!Init
  BY DEF Init, Tofu!Init
<1>2. QED
  BY <1>1, StepRefines, IInvAlways, PTL DEF Spec, ImplementsTofu, Tofu!Spec

-----------------------------------------------------------------------------
(***************************************************************************)
(* When a removed agent is back.  attestation-ctl remove deletes at the    *)
(* verifier first and at the registrar second; only an enrollment between  *)
(* the two outlives the command, and only a report at hand makes one.      *)
(***************************************************************************)

\* The daemon holds a report of a, or is about to enroll it.
InHand(a) == agent_reports[a] # None \/ a \in ready \/ (pc = "Add" /\ uuid = a)

\* A removal begins while the daemon has the agent in hand, or the agent reports
\* between the two DELETEs.
Hasty ==
  \E a \in Agents :
    \/ RemoveFromVerifier(a) /\ InHand(a)
    \/ removing # None /\ removing.uuid = a /\ Post(a)

UnhurriedSpec == Init /\ [][Next /\ ~Hasty]_vars

\* The agent a removal has gone half-way with is out of everyone's hands.
HalfRemoved ==
  removing # None /\ removing.ok =>
    verifier[removing.uuid] = None /\ ~InHand(removing.uuid)

RemovedGone == \A a \in removed : a \notin registrar /\ verifier[a] = None

RemovalInv == HalfRemoved /\ RemovedGone

LEMMA InitRemovalInv == Init => RemovalInv
BY DEF Init, RemovalInv, HalfRemoved, RemovedGone

LEMMA NextRemovalInv == IInv /\ RemovalInv /\ [Next /\ ~Hasty]_vars => RemovalInv'
<1> SUFFICES ASSUME IInv, RemovalInv, [Next /\ ~Hasty]_vars PROVE RemovalInv'
  OBVIOUS
<1> USE NoneAssumption DEF RemovalInv, HalfRemoved, RemovedGone, InHand
<1>t. TypeOK
  BY DEF IInv
<1>n. removing # None => removing.uuid \in Agents
  BY <1>t DEF TypeOK
<1>1. CASE DaemonStop
  BY <1>1, <1>n DEF DaemonStop, EndCycle, serverVars
<1>2. CASE Snapshot
  BY <1>2, <1>n DEF Snapshot, Ready, reported, NextUuid, serverVars, historyVars
<1>3. ASSUME NEW a \in Agents, Pick(a) PROVE RemovalInv'
  BY <1>3, <1>n DEF Pick, serverVars, historyVars
<1>4. CASE Add
  <2>1. uuid \in Agents
    BY <1>4 DEF Add, IInv, InHandVouched
  <2>2. \A a \in Agents : a # uuid \/ a \in removed => verifier'[a] = verifier[a]
    BY <1>4, <1>t DEF Add, TenantAdd, TypeOK
  <2>3. UNCHANGED <<registrar, removing, removed, ready, agent_reports>> /\ pc' # "Add"
    BY <1>4 DEF Add, NextUuid, historyVars
  <2>4. HalfRemoved'
    <3>1. ASSUME removing # None, removing.ok
          PROVE  removing.uuid # uuid /\ verifier[removing.uuid] = None
      BY <1>4, <3>1 DEF Add
    <3> QED
      BY <2>2, <2>3, <3>1, <1>n
  <2>5. RemovedGone'
    BY <2>2, <2>3, <1>t DEF TypeOK
  <2> QED
    BY <2>4, <2>5
<1>5. CASE AddRaises \/ Cleanup
  BY <1>5, <1>n, <1>t DEF AddRaises, Cleanup, EndCycle, serverVars, TypeOK
<1>6. ASSUME NEW a \in Agents, Register(a) PROVE RemovalInv'
  BY <1>6, <1>t DEF Register, daemonVars
<1>7. ASSUME NEW a \in Agents, Post(a), ~Hasty PROVE RemovalInv'
  <2>1. removing # None => removing.uuid # a
    BY <1>7 DEF Hasty
  <2> QED
    BY <1>7, <2>1, <1>n, <1>t DEF Post, daemonVars, serverVars, TypeOK
<1>8. ASSUME NEW a \in Agents, RemoveFromVerifier(a), ~Hasty PROVE RemovalInv'
  <2>1. ~InHand(a)
    BY <1>8 DEF Hasty
  <2> QED
    BY <1>8, <2>1, <1>t DEF RemoveFromVerifier, daemonVars, TypeOK
<1>9. CASE RemoveFromRegistrar
  BY <1>9, <1>n, <1>t DEF RemoveFromRegistrar, TypeOK
<1>10. CASE RemoveAborts
  BY <1>10 DEF RemoveAborts, serverVars, historyVars
<1>11. ASSUME UNCHANGED <<agent_reports, ready, uuid, registrar, verifier, removing, removed>>,
              pc' = pc \/ pc' # "Add"
       PROVE  RemovalInv'
  BY <1>11
<1>12. QED
  BY <1>1, <1>2, <1>3, <1>4, <1>5, <1>6, <1>7, <1>8, <1>9, <1>10, <1>11 DEF Next, vars,
     daemonVars, serverVars, agentVars, historyVars, PollThread, ReportService, DaemonStart,
     QueryRegistrar, QueryVerifier, RestartAgent, Reboot, StartReport, FetchCert,
     FetchDenied, RequestFails, AttestationFails

\* The boundary of the race: an agent whose removal was not hasty has no enrollment left,
\* whatever polls, restarts and registrations surround it.
THEOREM UnhurriedRemovalHolds == UnhurriedSpec => []RemovedStaysRemoved
<1>1. Init => IInv /\ RemovalInv
  BY InitIInv, InitRemovalInv
<1>2. IInv /\ RemovalInv /\ [Next /\ ~Hasty]_vars => IInv' /\ RemovalInv'
  BY NextIInv, NextRemovalInv
<1>3. RemovalInv => RemovedStaysRemoved
  BY DEF RemovalInv, RemovedGone, RemovedStaysRemoved
<1>4. QED
  BY <1>1, <1>2, <1>3, PTL DEF UnhurriedSpec
=============================================================================
