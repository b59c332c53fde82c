----------------------------- MODULE AutoEnroll -----------------------------
(***************************************************************************)
(* The auto-enrollment daemon (keylime-auto-enroll.py) together with what  *)
(* it talks to: the registrar and the verifier it polls, the agents whose  *)
(* report service POSTs to it, and the operator's attestation-ctl.         *)
(*                                                                         *)
(* The daemon is two threads that share the dictionary agent_reports.  The *)
(* poll thread works from snapshots: it reads the registrar, then the      *)
(* verifier, then (under the lock) the set of reported uuids, enrolls, and *)
(* cleans up by the snapshots of the start of the cycle.  Between any two  *)
(* of its steps the HTTP thread may store a report, an agent may register  *)
(* or reboot, and the operator may delete records.                         *)
(*                                                                         *)
(* A measured boot state is a member of States: two boots have the same    *)
(* member when the verifier's policy does not tell them apart.             *)
(***************************************************************************)
EXTENDS Integers

CONSTANTS
  Agents,           \* agent UUIDs (hashes of the EK, they survive reboots)
  States,           \* measured boot states
  None,             \* no report, no enrollment, no removal in progress
  MaxAttempts,      \* GET /v1/cert attempts of one service run (60 in the code)
  MaxDisturbances   \* bound on reboots, faults and operator commands

ASSUME NoneAssumption == None \notin States
ASSUME BoundsAssumption == MaxAttempts \in Nat \ {0} /\ MaxDisturbances \in Nat

VARIABLES
  \* --- the daemon
  pc,               \* where the poll thread is; "Down" when there is no process
  registered,       \* local: answer of the registrar at the cycle's start
  enrolled,         \* local: answer of the verifier
  ready,            \* local: uuids this cycle has still to enroll
  uuid,             \* local: the uuid being enrolled
  report,           \* local: its report, read under the lock, used after it
  agent_reports,    \* shared: the pending report of each uuid, or None
  \* --- the services it talks to
  registrar,        \* uuids the registrar knows
  verifier,         \* reference state each uuid is enrolled with, or None
  failed,           \* enrolled uuids whose attestation failed
  \* --- the agents
  boot,             \* measured boot state of the running boot
  started,          \* agents whose keylime-agent has registered since it started
  agent_data,       \* agents with an agent_data.json (kept across reboots)
  svc,              \* keylime-report-measured-boot-state.service
  attempt,          \* its failed GETs of the certificate
  \* --- the operator
  removing,         \* attestation-ctl remove between its two DELETEs
  \* --- bound, and history read by the properties only
  disturbances,
  accepted,         \* states ever stored for each uuid
  age,              \* whether the pending report outlived its registration
  steady,           \* registered and not enrolled since the registrar answered
  deleted,          \* enrollment deleted by the operator during this boot
  removed           \* removed, no DELETE failed, and not registered again

daemonVars  == <<pc, registered, enrolled, ready, uuid, report>>
serverVars  == <<registrar, verifier, failed>>
agentVars   == <<boot, started, agent_data, svc, attempt>>
historyVars == <<accepted, age, steady, deleted, removed>>
vars == <<daemonVars, agent_reports, serverVars, agentVars, removing,
          disturbances, historyVars>>

MaybeState == States \union {None}

\* Every step that is nobody's duty draws on one bounded budget.
Disturb == disturbances < MaxDisturbances /\ disturbances' = disturbances + 1

TypeOK ==
  /\ pc \in {"Down", "QueryRegistrar", "QueryVerifier", "Snapshot", "Pick",
             "Add", "Cleanup"}
  /\ registered \in SUBSET Agents
  /\ enrolled \in SUBSET Agents
  /\ ready \in SUBSET Agents
  /\ uuid \in Agents \union {None}
  /\ report \in MaybeState
  /\ agent_reports \in [Agents -> MaybeState]
  /\ registrar \in SUBSET Agents
  /\ verifier \in [Agents -> MaybeState]
  /\ failed \in SUBSET Agents
  /\ boot \in [Agents -> States]
  /\ started \in SUBSET Agents
  /\ agent_data \in SUBSET Agents
  /\ svc \in [Agents -> {"Off", "Post", "Fetch", "Failed", "Done"}]
  /\ attempt \in [Agents -> 0 .. MaxAttempts - 1]
  /\ removing \in [uuid: Agents, ok: BOOLEAN] \union {None}
  /\ disturbances \in 0 .. MaxDisturbances
  /\ accepted \in [Agents -> SUBSET States]
  /\ age \in [Agents -> {"fresh", "stale", "doomed"}]
  /\ steady \in SUBSET Agents
  /\ deleted \in SUBSET Agents
  /\ removed \in SUBSET Agents

Init ==
  /\ pc = "Down"
  /\ registered = {} /\ enrolled = {} /\ ready = {}
  /\ uuid = None /\ report = None
  /\ agent_reports = [a \in Agents |-> None]
  /\ registrar = {}
  /\ verifier = [a \in Agents |-> None]
  /\ failed = {}
  /\ boot \in [Agents -> States]
  /\ started = {} /\ agent_data = {}
  /\ svc = [a \in Agents |-> "Off"]
  /\ attempt = [a \in Agents |-> 0]
  /\ removing = None
  /\ disturbances = 0
  /\ accepted = [a \in Agents |-> {}]
  /\ age = [a \in Agents |-> "fresh"]
  /\ steady = {} /\ deleted = {} /\ removed = {}

-----------------------------------------------------------------------------
(***************************************************************************)
(* The poll thread.                                                        *)
(***************************************************************************)

\* The locals are dead once a cycle ends, is abandoned or the process dies.
EndCycle ==
  /\ registered' = {} /\ enrolled' = {} /\ ready' = {}
  /\ uuid' = None /\ report' = None

DaemonStart ==
  /\ pc = "Down"
  /\ pc' = "QueryRegistrar"
  /\ UNCHANGED <<registered, enrolled, ready, uuid, report, agent_reports,
                 serverVars, agentVars, removing, disturbances, historyVars>>

\* Crash, kill or redeployment; agent_reports lives in memory only.
DaemonStop ==
  /\ pc # "Down"
  /\ Disturb
  /\ pc' = "Down"
  /\ EndCycle
  /\ agent_reports' = [a \in Agents |-> None]
  /\ age' = [a \in Agents |-> "fresh"]
  /\ steady' = {}
  /\ UNCHANGED <<serverVars, agentVars, removing, accepted, deleted, removed>>

\* get_registered_uuids: every failure is reported as the empty set.
QueryRegistrar ==
  /\ pc = "QueryRegistrar"
  /\ \/ /\ registered' = registrar
        /\ steady' = {a \in registrar : verifier[a] = None}
        /\ age' = [a \in Agents |->
                     IF age[a] = "stale" /\ a \notin registrar
                       THEN "doomed" ELSE age[a]]
        /\ UNCHANGED disturbances
     \/ /\ Disturb
        /\ registered' = {}
        /\ steady' = {}
        /\ UNCHANGED age
  /\ pc' = "QueryVerifier"
  /\ UNCHANGED <<enrolled, ready, uuid, report, agent_reports, serverVars,
                 agentVars, removing, accepted, deleted, removed>>

\* get_enrolled_uuids: the same.
QueryVerifier ==
  /\ pc = "QueryVerifier"
  /\ \/ /\ enrolled' = {a \in Agents : verifier[a] # None}
        /\ UNCHANGED disturbances
     \/ /\ Disturb
        /\ enrolled' = {}
  /\ pc' = "Snapshot"
  /\ UNCHANGED <<registered, ready, uuid, report, agent_reports, serverVars,
                 agentVars, removing, historyVars>>

NextUuid(remaining) == IF remaining = {} THEN "Cleanup" ELSE "Pick"

reported == {a \in Agents : agent_reports[a] # None}

ReadyUnreported == registered \ enrolled   \* mutant: any new agent is ready

Ready == (registered \ enrolled) \intersect reported

Snapshot ==
  /\ pc = "Snapshot"
  /\ ready' = Ready
  /\ pc' = NextUuid(ready')
  /\ UNCHANGED <<registered, enrolled, uuid, report, agent_reports,
                 serverVars, agentVars, removing, disturbances, historyVars>>

\* mutant: the loop enrolls some pending report, not this uuid's
PendingReportAny(a) == agent_reports[CHOOSE b \in reported : TRUE]

PendingReport(a) == agent_reports[a]

\* One iteration of the loop over sorted(ready), up to the lock's release.
\* UUIDs are hashes: any order may be the sorted one.
Pick(a) ==
  /\ pc = "Pick"
  /\ a \in ready
  /\ ready' = ready \ {a}
  /\ uuid' = a
  /\ report' = PendingReport(a)
  /\ pc' = "Add"
  /\ UNCHANGED <<registered, enrolled, agent_reports, serverVars, agentVars,
                 removing, disturbances, historyVars>>

\* keylime_tenant -c add: refused on conflict and for unknown agents.
TenantAdd(a, refstate) ==
  /\ a \in registrar
  /\ verifier[a] = None
  /\ verifier' = [verifier EXCEPT ![a] = refstate]
  /\ failed' = failed \ {a}

\* enroll_agent with the report read before; its result is not used.
Add ==
  /\ pc = "Add"
  /\ \/ /\ TenantAdd(uuid, report)
        /\ UNCHANGED disturbances
     \/ /\ uuid \notin registrar \/ verifier[uuid] # None
        /\ UNCHANGED <<verifier, failed, disturbances>>
     \/ /\ Disturb
        /\ UNCHANGED <<verifier, failed>>
  /\ pc' = NextUuid(ready)
  /\ uuid' = None /\ report' = None
  /\ UNCHANGED <<registered, enrolled, ready, agent_reports, registrar,
                 agentVars, removing, historyVars>>

\* enroll_agent raises (no temporary file, no keylime_tenant): the rest of
\* the cycle, its cleanup included, is skipped.
AddRaises ==
  /\ pc = "Add"
  /\ Disturb
  /\ pc' = "QueryRegistrar"
  /\ EndCycle
  /\ age' = [a \in Agents |-> IF age[a] = "doomed" THEN "stale" ELSE age[a]]
  /\ steady' = {}
  /\ UNCHANGED <<agent_reports, serverVars, agentVars, removing, accepted,
                 deleted, removed>>

StaleReportAll(a) == TRUE                    \* mutant: clear the dictionary
StaleReportEnrolled(a) == a \in enrolled     \* mutant: removed agents forgotten

\* What the cleanup deletes: decided by the snapshots, not by the services.
StaleReport(a) == a \in enrolled \/ a \notin registered

Cleanup ==
  /\ pc = "Cleanup"
  /\ agent_reports' = [a \in Agents |->
                         IF StaleReport(a) THEN None ELSE agent_reports[a]]
  /\ age' = [a \in Agents |-> IF StaleReport(a) THEN "fresh" ELSE age[a]]
  /\ steady' = {}
  /\ pc' = "QueryRegistrar"
  /\ EndCycle
  /\ UNCHANGED <<serverVars, agentVars, removing, disturbances, accepted,
                 deleted, removed>>

PollThread ==
  \/ QueryRegistrar \/ QueryVerifier \/ Snapshot
  \/ \E a \in Agents : Pick(a)
  \/ Add \/ AddRaises \/ Cleanup

-----------------------------------------------------------------------------
(***************************************************************************)
(* The agents: keylime-agent registers once per start; the report service  *)
(* is started when agent_data.json exists, also by an earlier boot.        *)
(***************************************************************************)

Register(a) ==
  /\ a \notin started
  /\ started' = started \union {a}
  /\ registrar' = registrar \union {a}
  /\ agent_data' = agent_data \union {a}
  /\ removed' = removed \ {a}
  /\ UNCHANGED <<daemonVars, agent_reports, verifier, failed, boot, svc,
                 attempt, removing, disturbances, accepted, age, steady,
                 deleted>>

\* keylime-agent exits and systemd starts it again.
RestartAgent(a) ==
  /\ a \in started
  /\ Disturb
  /\ started' = started \ {a}
  /\ UNCHANGED <<daemonVars, agent_reports, serverVars, boot, agent_data, svc,
                 attempt, removing, historyVars>>

Reboot(a) ==
  /\ Disturb
  /\ \E s \in States : boot' = [boot EXCEPT ![a] = s]
  /\ started' = started \ {a}
  /\ svc' = [svc EXCEPT ![a] = "Off"]
  /\ attempt' = [attempt EXCEPT ![a] = 0]
  /\ deleted' = deleted \ {a}
  /\ UNCHANGED <<daemonVars, agent_reports, serverVars, agent_data, removing,
                 accepted, age, steady, removed>>

\* systemd starts the service, or restarts it 10 s after a failure.
StartReport(a) ==
  /\ \/ svc[a] = "Off" /\ a \in agent_data
     \/ svc[a] = "Failed"
  /\ svc' = [svc EXCEPT ![a] = "Post"]
  /\ UNCHANGED <<daemonVars, agent_reports, serverVars, boot, started,
                 agent_data, attempt, removing, disturbances, historyVars>>

\* The POST and do_POST, which stores the report whatever was there before.
\* The answer may get lost on the way back.
Post(a) ==
  /\ svc[a] = "Post"
  /\ pc # "Down"
  /\ agent_reports' = [agent_reports EXCEPT ![a] = boot[a]]
  /\ accepted' = [accepted EXCEPT ![a] = @ \union {boot[a]}]
  /\ age' = [age EXCEPT ![a] = "fresh"]
  /\ \/ svc' = [svc EXCEPT ![a] = "Fetch"] /\ UNCHANGED disturbances
     \/ Disturb /\ svc' = [svc EXCEPT ![a] = "Failed"]
  /\ UNCHANGED <<daemonVars, serverVars, boot, started, agent_data, attempt,
                 removing, steady, deleted, removed>>

IsAttestedAlways(a) == TRUE   \* mutant: certificates for everybody

IsAttested(a) == verifier[a] # None /\ a \notin failed

\* GET /v1/cert answers 200: the service has done its work for this boot.
FetchCert(a) ==
  /\ svc[a] = "Fetch"
  /\ pc # "Down"
  /\ IsAttested(a)
  /\ svc' = [svc EXCEPT ![a] = "Done"]
  /\ attempt' = [attempt EXCEPT ![a] = 0]
  /\ UNCHANGED <<daemonVars, agent_reports, serverVars, boot, started,
                 agent_data, removing, disturbances, historyVars>>

GivesUpLate(a) == attempt[a] = MaxAttempts   \* mutant: one request too many

GivesUp(a) == attempt[a] + 1 = MaxAttempts

\* GET /v1/cert answers 403, also when the verifier cannot be asked.
FetchDenied(a) ==
  /\ svc[a] = "Fetch"
  /\ pc # "Down"
  /\ \/ ~IsAttested(a) /\ UNCHANGED disturbances
     \/ IsAttested(a) /\ Disturb
  /\ IF GivesUp(a)
       THEN /\ svc' = [svc EXCEPT ![a] = "Failed"]
            /\ attempt' = [attempt EXCEPT ![a] = 0]
       ELSE /\ attempt' = [attempt EXCEPT ![a] = @ + 1]
            /\ UNCHANGED svc
  /\ UNCHANGED <<daemonVars, agent_reports, serverVars, boot, started,
                 agent_data, removing, historyVars>>

\* Connection refused, for the POST or the GET, or any status but 200 and
\* 403 (a certificate that cannot be issued): exit 1.
RequestFails(a) ==
  /\ svc[a] \in {"Post", "Fetch"}
  /\ \/ pc = "Down" /\ UNCHANGED disturbances
     \/ pc # "Down" /\ Disturb
  /\ svc' = [svc EXCEPT ![a] = "Failed"]
  /\ attempt' = [attempt EXCEPT ![a] = 0]
  /\ UNCHANGED <<daemonVars, agent_reports, serverVars, boot, started,
                 agent_data, removing, historyVars>>

ReportService(a) ==
  StartReport(a) \/ Post(a) \/ FetchCert(a) \/ FetchDenied(a) \/ RequestFails(a)

-----------------------------------------------------------------------------
(***************************************************************************)
(* The verifier judges an enrolled agent by its reference state, and the   *)
(* operator removes agents: DELETE at the verifier, then at the registrar. *)
(***************************************************************************)

AttestationFails(a) ==
  /\ a \in started
  /\ verifier[a] # None
  /\ verifier[a] # boot[a]
  /\ a \notin failed
  /\ failed' = failed \union {a}
  /\ UNCHANGED <<daemonVars, agent_reports, registrar, verifier, agentVars,
                 removing, disturbances, historyVars>>

\* The first DELETE, of an enrollment or of none (404); any other HTTP error is
\* printed, and the command goes on.
RemoveFromVerifier(a) ==
  /\ removing = None
  /\ Disturb
  /\ \/ /\ verifier' = [verifier EXCEPT ![a] = None]
        /\ failed' = failed \ {a}
        /\ deleted' = IF verifier[a] # None THEN deleted \union {a} ELSE deleted
        /\ removing' = [uuid |-> a, ok |-> TRUE]
     \/ /\ UNCHANGED <<verifier, failed, deleted>>
        /\ removing' = [uuid |-> a, ok |-> FALSE]
  /\ UNCHANGED <<daemonVars, agent_reports, registrar, agentVars, accepted,
                 age, steady, removed>>

RemoveFromRegistrar ==
  /\ removing # None
  /\ LET a == removing.uuid IN
       /\ registrar' = registrar \ {a}
       /\ age' = IF agent_reports[a] # None /\ age[a] = "fresh"
                   THEN [age EXCEPT ![a] = "stale"] ELSE age
       /\ steady' = steady \ {a}
       /\ removed' = IF removing.ok THEN removed \union {a} ELSE removed
  /\ removing' = None
  /\ UNCHANGED <<daemonVars, agent_reports, verifier, failed, agentVars,
                 disturbances, accepted, deleted>>

\* The second DELETE fails, or the first could not connect and the command
\* died: also what keylime_tenant -c delete leaves behind.
RemoveAborts ==
  /\ removing # None
  /\ removing' = None
  /\ UNCHANGED <<daemonVars, agent_reports, serverVars, agentVars,
                 disturbances, historyVars>>

-----------------------------------------------------------------------------
Next ==
  \/ DaemonStart \/ DaemonStop \/ PollThread
  \/ \E a \in Agents :
       \/ Register(a) \/ RestartAgent(a) \/ Reboot(a)
       \/ ReportService(a)
       \/ AttestationFails(a)
       \/ RemoveFromVerifier(a)
  \/ RemoveFromRegistrar \/ RemoveAborts

(***************************************************************************)
(* The daemon's threads keep running, systemd (re)starts the daemon, the   *)
(* agent and the report service, and a request gets an answer.  Nobody     *)
(* owes a disturbance, an attestation failure or the end of a removal.     *)
(***************************************************************************)
Fairness ==
  /\ WF_vars(DaemonStart)
  /\ WF_vars(PollThread)
  /\ \A a \in Agents : WF_vars(Register(a)) /\ WF_vars(ReportService(a))

Spec == Init /\ [][Next]_vars /\ Fairness

-----------------------------------------------------------------------------
(***************************************************************************)
(* Safety.                                                                 *)
(***************************************************************************)

\* The loop over ready never meets a uuid without a report: line 449 cannot
\* raise KeyError, although the lock is released between lines 434 and 448
\* and the HTTP thread writes to the dictionary in between.
ReadyHaveReports == pc = "Pick" => \A a \in ready : agent_reports[a] # None

\* An agent that has been registered and not enrolled since the registrar
\* answered keeps its pending report through the cleanup of lines 459-462.
SteadyReportsKept ==
  [][\A a \in steady : agent_reports[a] # None /\ pc # "Down" /\ pc' # "Down"
       => agent_reports'[a] # None]_vars

\* A report of a removed agent that the registrar's answer already showed
\* gone is never enrolled, however the agent re-registers in mid-cycle; only
\* a cycle that dies of an exception breaks the promise of lines 454-458.
DoomedNeverEnrolled ==
  [][\A a \in Agents : age[a] = "doomed" /\ verifier[a] = None
       => verifier'[a] = None]_vars

\* Trust on first use, whatever is lost, wiped, raced or restarted: the
\* report that is enrolled was posted by that very agent, from the boot it
\* describes, and no later report moves an enrollment.
Tofu == INSTANCE TofuEnrollment
          WITH running <- boot, vouched <- accepted, pinned <- verifier
ImplementsTofu == Tofu!Spec

(***************************************************************************)
(* Liveness.                                                               *)
(***************************************************************************)

\* A registered agent is enrolled in the end: lost reports, wiped reports, daemon
\* restarts and deleted enrollments are made good by the report service, which
\* does not finish before it sees the agent attested.  Once it is done in a boot
\* (RemainAfterExit), an enrollment the operator deletes stays deleted.
EventuallyEnrolled ==
  \A a \in Agents : (a \in registrar) ~>
    (verifier[a] # None \/ a \notin registrar \/ (a \in deleted /\ svc[a] = "Done"))

\* No report stays in memory for ever: it is enrolled and dropped, or dropped
\* because its agent is gone.
ReportsDrain ==
  \A a \in Agents : (agent_reports[a] # None) ~> (agent_reports[a] = None)

-----------------------------------------------------------------------------
(***************************************************************************)
(* What comments and documents say and the code does not keep.             *)
(***************************************************************************)

\* attestation-ctl.py:344, "Remove agent from verifier and registrar": after a
\* removal without an error (each DELETE removed the agent or met none) the agent
\* has no enrollment left.
RemovedStaysRemoved == \A a \in removed : verifier[a] = None
=============================================================================
