------------------------------ MODULE Attestation ------------------------------
(***************************************************************************)
(* A machine and the verifier that attests it in the push model.  The      *)
(* machine boots, reports the state it measured, is enrolled with it, and  *)
(* pushes a quote and its event log again and again.  The verifier reads   *)
(* the reference state, replays the log, applies the policy and writes the *)
(* result into the agent's row.                                            *)
(*                                                                         *)
(* The verifier maps each table by two ORM classes that do not see each    *)
(* other's writes.  Keylime itself is modelled from what the patches of    *)
(* this repository say of it and change in it: a loaded object may stay as *)
(* it was loaded for as long as the verifier runs.                         *)
(***************************************************************************)
EXTENDS MeasuredBoot

CONSTANTS
    Setups,           \* firmware, keys and image of the machine
    FirmwareApp,      \* the digest of an application in the firmware
    Ids,              \* primary keys of policies
    MaxDisturbances   \* bound on failures, restarts and what people change

Setup == [crtms : Seq(Digests),
          blobs : Seq([pcr : Pcrs, digest : Digests]),
          uki : Digests, on : BOOLEAN, keys : [KeyVars -> SUBSET Signatures],
          rest : SUBSET (Pcrs \X STRING), repeated : SUBSET (Pcrs \X STRING)]

ASSUME SetupsAssumption == Setups \subseteq Setup /\ FirmwareApp \in Digests
ASSUME BoundAssumption == MaxDisturbances \in Nat

VARIABLES
    setup,            \* what the machine would boot now
    running,          \* the boot it is in: {} or one element of Boots
    extended,         \* the PCRs userspace has extended in this boot
    reported,         \* the boot it last reported: {} or one element
    enrolled,         \* the agent has a row in verifiermain
    accept,           \* its accept_attestations
    evaluation,       \* the result of its last attestation
    policyId,         \* its mb_policy_id
    mbpolicies,       \* the boot whose reference state is in each row
    loadedPolicy,     \* the same as the model framework loaded it
    loadedAccept,     \* accept_attestations as loaded: {} or one value
    stage,            \* where the verifier is with an attestation
    evidence,         \* the boot the evidence is from
    quoted,           \* the PCRs extended when it was taken
    refstate,         \* the boot whose reference state is used
    replaced,         \* history: the row was deleted during this attestation
    disturbances

machine == <<setup, running, extended, reported>>
row     == <<enrolled, accept, evaluation, policyId, mbpolicies>>
loaded  == <<loadedPolicy, loadedAccept>>
attest  == <<stage, evidence, quoted, refstate>>
vars == <<machine, row, loaded, attest, replaced, disturbances>>

\* "menu": an application of the firmware, such as its boot menu, ran first.
Boots == Setups \X {"direct", "menu"}

Image(s)    == [pcr |-> 4, digest |-> s.uki, resident |-> FALSE]
BootMenu    == [pcr |-> 4, digest |-> FirmwareApp, resident |-> TRUE]
LogOf(boot) ==
    LET s == boot[1]
    IN  [crtms |-> s.crtms, blobs |-> s.blobs,
         apps |-> IF boot[2] = "menu" THEN <<BootMenu, Image(s)>> ELSE <<Image(s)>>,
         on |-> s.on, keys |-> s.keys, rest |-> s.rest, repeated |-> s.repeated]

Init ==
    /\ setup \in Setups
    /\ running = {}
    /\ extended = {}
    /\ reported = {}
    /\ enrolled = FALSE
    /\ accept = FALSE
    /\ evaluation = "none"
    /\ policyId \in Ids
    /\ mbpolicies = [i \in Ids |-> {}]
    /\ loadedPolicy = [i \in Ids |-> {}]
    /\ loadedAccept = {}
    /\ stage = "idle"
    /\ evidence = {}
    /\ quoted = {}
    /\ refstate = {}
    /\ replaced = FALSE
    /\ disturbances = 0

Disturb ==
    /\ disturbances < MaxDisturbances
    /\ disturbances' = disturbances + 1

-----------------------------------------------------------------------------
(* The machine. *)

Boot(entry) ==
    /\ running' = {<<setup, entry>>}
    /\ extended' = {}
    /\ UNCHANGED <<setup, reported, row, loaded, attest, replaced>>

BootDirect == Boot("direct") /\ UNCHANGED disturbances

BootByMenu == Boot("menu") /\ Disturb

\* A new image, firmware, or key, for the next boot.
ChangeSetup ==
    /\ Disturb
    /\ \E s \in Setups \ {setup} : setup' = s
    /\ UNCHANGED <<running, extended, reported, row, loaded, attest, replaced>>

\* mutant: systemd's measurement of a partition table, as firmware's into PCR 5
RuntimePcrsWithGpt == {5, 9, 11}

\* systemd-tpm2-setup extends PCR 9 and systemd-pcrphase PCR 11, here in one step.
RuntimePcrs == {9, 11}

ExtendAtRuntime ==
    /\ running # {}
    /\ extended = {}
    /\ extended' = RuntimePcrs
    /\ UNCHANGED <<setup, running, reported, row, loaded, attest, replaced, disturbances>>

\* report-measured-boot-state
Report ==
    /\ running # {}
    /\ reported' = running
    /\ UNCHANGED <<setup, running, extended, row, loaded, attest, replaced, disturbances>>

-----------------------------------------------------------------------------
(* The tenant and the monitor, through the legacy mapping. *)

\* keylime_tenant -c add --mb_refstate: the new policy may get the id of an old one.
Add ==
    /\ ~enrolled
    /\ reported # {}
    /\ enrolled' = TRUE
    /\ accept' = TRUE
    /\ evaluation' = "none"
    /\ policyId' \in Ids
    /\ mbpolicies' = [mbpolicies EXCEPT ![policyId'] = reported]
    /\ UNCHANGED <<machine, loaded, attest, replaced, disturbances>>

Delete ==
    /\ enrolled
    /\ Disturb
    /\ enrolled' = FALSE
    /\ evaluation' = "none"
    /\ mbpolicies' = [mbpolicies EXCEPT ![policyId] = {}]
    /\ replaced' = TRUE
    /\ UNCHANGED <<machine, accept, policyId, loaded, attest>>

\* push_agent_monitor: no attestation came in time.
Timeout ==
    /\ enrolled
    /\ Disturb
    /\ accept' = FALSE
    /\ UNCHANGED <<machine, enrolled, evaluation, policyId, mbpolicies, loaded, attest, replaced>>

-----------------------------------------------------------------------------
(* The attestation, through the model framework. *)

\* Evidence arrives; the agent and its policy are loaded unless they have been.
\* A timed out agent is let in.
Receive ==
    /\ stage = "idle"
    /\ running # {} /\ enrolled
    /\ stage' = "received"
    /\ evidence' = running
    /\ quoted' = extended
    /\ replaced' = FALSE
    /\ loadedAccept' \in {{accept}, IF loadedAccept = {} THEN {accept} ELSE loadedAccept}
    /\ loadedPolicy' \in
         {[loadedPolicy EXCEPT ![policyId] = p] :
            p \in {mbpolicies[policyId],
                   IF loadedPolicy[policyId] = {} THEN mbpolicies[policyId] ELSE loadedPolicy[policyId]}}
    /\ UNCHANGED <<machine, row, refstate, disturbances>>

\* mutant: the object the model framework has loaded
UefiRefStateLoaded == loadedPolicy[policyId]

\* uefi_ref_state: a SELECT past both mappings, else the loaded object.
UefiRefState ==
    IF mbpolicies[policyId] # {} THEN mbpolicies[policyId] ELSE loadedPolicy[policyId]

ReadPolicy ==
    /\ stage = "received"
    /\ refstate' = UefiRefState
    /\ stage' = "judging"
    /\ UNCHANGED <<machine, row, loaded, evidence, quoted, replaced, disturbances>>

Passes ==
    \E r \in refstate, b \in evidence :
        Replays(quoted) /\ Accepts(Refstate(LogOf(r)), LogOf(b))

\* mutant: the assignment through the model framework alone, a no-op if the
\* loaded value was TRUE
AcceptWrittenByModel == IF loadedAccept = {TRUE} THEN accept ELSE TRUE

\* A direct UPDATE beside the assignment.
AcceptWritten == TRUE

Pass ==
    /\ stage = "judging" /\ enrolled
    /\ Passes
    /\ evaluation' = "pass"
    /\ accept' = AcceptWritten
    /\ loadedAccept' = {TRUE}
    /\ stage' = "idle" /\ quoted' = {} /\ refstate' = {}
    /\ UNCHANGED <<machine, enrolled, policyId, mbpolicies, loadedPolicy,
                   evidence, replaced, disturbances>>

Fail ==
    /\ stage = "judging" /\ enrolled
    /\ ~Passes
    /\ evaluation' = "fail"
    /\ stage' = "idle" /\ quoted' = {} /\ refstate' = {}
    /\ UNCHANGED <<machine, enrolled, accept, policyId, mbpolicies, loaded,
                   evidence, replaced, disturbances>>

\* There is no row to write the result to.
Dropped ==
    /\ stage = "judging" /\ ~enrolled
    /\ stage' = "idle" /\ quoted' = {} /\ refstate' = {}
    /\ UNCHANGED <<machine, row, loaded, evidence, replaced, disturbances>>

Restart ==
    /\ Disturb
    /\ stage' = "idle" /\ quoted' = {} /\ refstate' = {}
    /\ loadedPolicy' = [i \in Ids |-> {}]
    /\ loadedAccept' = {}
    /\ evidence' = {}
    /\ UNCHANGED <<machine, row, replaced>>

Attest == Receive \/ ReadPolicy \/ Pass \/ Fail \/ Dropped

Next ==
    \/ BootDirect \/ BootByMenu \/ ChangeSetup \/ ExtendAtRuntime \/ Report
    \/ Add \/ Delete \/ Timeout
    \/ Attest \/ Restart

Spec == Init /\ [][Next]_vars

\* A running agent pushes evidence and the verifier finishes what it received;
\* nothing is fair about people, reboots and enrollment.
FairSpec == Spec /\ WF_vars(Attest)

-----------------------------------------------------------------------------
TypeOK ==
    /\ setup \in Setups
    /\ running \subseteq Boots
    /\ extended \subseteq {9, 11}
    /\ reported \subseteq Boots
    /\ enrolled \in BOOLEAN
    /\ accept \in BOOLEAN
    /\ evaluation \in {"none", "pass", "fail"}
    /\ policyId \in Ids
    /\ mbpolicies \in [Ids -> SUBSET Boots]
    /\ loadedPolicy \in [Ids -> SUBSET Boots]
    /\ loadedAccept \subseteq BOOLEAN
    /\ stage \in {"idle", "received", "judging"}
    /\ evidence \subseteq Boots
    /\ quoted \subseteq {9, 11}
    /\ refstate \subseteq Boots
    /\ replaced \in BOOLEAN
    /\ disturbances \in 0..MaxDisturbances

Status == IF accept /\ evaluation = "pass" THEN "PASS" ELSE "FAIL"

\* A setup as good as the enrolled one, said of the machine and not of its log:
\* the same CRTM, firmware and image, and nothing new is trusted or no longer revoked.
AsGoodAs(s, e) ==
    /\ s.on
    /\ s.crtms # <<>> /\ e.crtms # <<>> /\ s.crtms[1] = e.crtms[1]
    /\ Len(s.blobs) = Len(e.blobs)
    /\ \A i \in DOMAIN s.blobs : s.blobs[i].digest = e.blobs[i].digest
    /\ s.uki = e.uki
    /\ \A v \in {"pk", "kek", "db"} : s.keys[v] \subseteq e.keys[v]
    /\ e.keys["dbx"] \subseteq s.keys["dbx"]

\* The row holds the verdict on the evidence the verifier has, of this enrollment.
Current == enrolled /\ ~replaced /\ stage = "idle" /\ evidence # {}
AboutGood == \A b \in evidence, e \in mbpolicies[policyId] : AsGoodAs(b[1], e[1])

\* A pass means that the machine runs the firmware, keys and image it is enrolled
\* with now, whatever policies it had before (docs.md, "Attestation Policy";
\* uefi_ref_state).
PassMeansPinned == evaluation = "pass" /\ Current => AboutGood

\* A machine as good as the enrolled one never fails, whatever userspace extends
\* and whatever is revoked later, unless its log has a form the policy refuses.
GoodMachinesPass ==
    evaluation = "fail" /\ Current /\ AboutGood => \E b \in evidence : ~Regular(LogOf(b))

\* debug-measured-boot-state, run with the enrolled reference state in the boot that failed,
\* shows a difference, unless the log has a form the policy refuses (diff_refstates).
FailuresExplained ==
    evaluation = "fail" /\ Current =>
        \A b \in evidence, e \in mbpolicies[policyId] :
            Regular(LogOf(b)) => Diff(Refstate(LogOf(e)), Refstate(LogOf(b))) # {}

\* debug-measured-boot-state lists events and shows the difference of reference states:
\* what it marks in the list is in the difference, and the difference in the list but for
\* firmware blobs that are gone, also when the boot menu ran first (print_event_summary).
SummaryAgrees ==
    \A b \in running, r \in reported :
        LET old    == Refstate(LogOf(r))
            failed == FailedEvents(old, LogOf(b))
            diff   == Diff(old, Refstate(LogOf(b)))
        IN  Len(b[1].crtms) = 1 =>
                /\ failed \subseteq diff
                /\ diff \cap {"scrtm", "uki"} \subseteq failed
                /\ "firmware" \in diff \ failed => Len(b[1].blobs) < Len(r[1].blobs)

\* It raises no alarm on a machine as it was reported, however both boots came about
\* and whatever userspace has extended since, when it sees the whole log of that, and
\* unless the firmware says more than once what no PCR has (cmd_diagnose).
NoFalseAlarm ==
    \A b \in running, r \in reported :
        b[1] = r[1] /\ <<0, "EV_NO_ACTION">> \notin b[1].repeated =>
            Diagnose(Refstate(LogOf(r)), LogOf(b), extended, extended) = 0

\* An agent that timed out recovers by attesting (patch 0004, and the subtest
\* "Push-mode timeout recovery").
GoodAndUp ==
    /\ enrolled
    /\ \E b \in running : Regular(LogOf(b)) /\ \A e \in mbpolicies[policyId] : AsGoodAs(b[1], e[1])
RecoversFromTimeout == <>[]GoodAndUp => <>[](Status = "PASS")
=============================================================================
