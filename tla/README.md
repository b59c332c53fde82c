# A TLA+ model of NixOS Android Builder

NixOS Android Builder produces signed disk images that boot a machine which
builds Android, and an attestation server that hands secrets only to machines
whose measured boot it recognises. Most of the repository is Nix, evaluated once;
what runs afterwards is a set of small Python and shell programs that keep state
on disks, in TPMs and in each other's databases. This directory models those
programs in TLA+, checks them with TLC on small instances, and proves the central
results for every value of the constants with TLAPS.

`PROJECT.json` lists the components, the runs, the properties with the mutated
definition that breaks each of them, the source lines behind every definition,
the hazards of the code and the theorems.

## 1. The system and its parts

| Component | Source | State it keeps | What is hard about it |
|---|---|---|---|
| Auto-enrollment daemon | `modules/lib/scripts/keylime-auto-enroll.py` | pending reports (memory), agent certificates (disk) | a poll thread working from snapshots races the HTTP thread, the registrar, the verifier and the operator; reports are lost on restart |
| Report service | `packages/measured-boot-state/report-measured-boot-state.py`, `modules/keylime-agent.nix` | none but its progress | lost answers, bounded retry, systemd restarts |
| attestation-ctl | `packages/attestation-ctl` | none | a removal is two calls to two services |
| Git gate | `modules/lib/scripts/keylime-git-auth.py`, `modules/lib/keylime-shared.nix` | none | every request of a clone asks the verifier again; failing closed |
| TLS generator | `modules/lib/scripts/keylime-generate-certs.py` | the PKI on disk | not atomic; the next run looks at one file |
| Keylime patches | `packages/keylime/*.patch` | verifier tables, mapped twice by the ORM | an attribute written through the wrong mapping is not written |
| Measured boot library, policy and diagnosis | `packages/measured-boot-library`, `packages/keylime-measured-boot-policy`, `packages/measured-boot-state` | none (pure) | three programs must read the same event log the same way |
| Disk image tool | `packages/disk-installer/configure-disk-image.py` | files on the ESP, and on the ESP of the image inside the image | several steps, a partial failure leaves some of the files; a setting is read by another program, on another machine, from one of two places |
| Boot: Secure Boot enrollment, repart, LUKS | `modules/secure-boot.nix`, `modules/image.nix` | firmware variables, partitions, TPM-sealed keys | reboots and power cuts between steps; a unit that runs or not depending on a file it deletes |
| Installer | `packages/disk-installer/run.sh` | the target disk | power cuts; partitions found by label, disks by names that change from boot to boot |
| Artifact storage | `modules/artifact-storage.sh` | a labelled partition | the look for the label and mkfs are two steps; formatting must not hit artifacts of earlier builds |
| Unattended build | `modules/unattended.sh` | progress of the steps | the sequence goes on after an error of a step, so the later steps must be safe after any failure |
| FHS environment | `packages/fhsenv/fhsenv.py` | what it has seen and copied, during one build | the order of `glob` is the file system's; name clashes between paths and between bin and lib |

How they interact. An agent machine boots; its keylime agent registers with the
*registrar* and writes `agent_data.json`; a path unit then starts the *report
service*, which POSTs the measured boot state to the *daemon* and then asks it for
a certificate until the *verifier* lists the agent as attested. The daemon polls the
registrar and the verifier and calls `keylime_tenant -c add` for agents that are
registered, not enrolled and have a report pending. The operator removes agents
with *attestation-ctl*. The certificate opens the *git gate*, which asks the
verifier again for each request. All of them use the PKI the *TLS generator* left
on disk. Before all this, the *disk image tool* put keys and settings on the image,
the *installer* on the image copied its payload to the disk the setting names, and
the *boot* chain enrolled the keys and sealed the disk keys against PCR 7. Each boot
of the machine then makes a new build partition, finds or formats the *artifact
storage* and runs the *unattended build*, in the *FHS environment* that was merged
when the image was made. When an attestation fails, an operator compares a log with
the reference state by the *diagnosis*.

## 2. Modules

### AutoEnroll, TofuEnrollment, AutoEnrollProofs

`AutoEnroll` composes the daemon's two threads with the registrar, the verifier,
the report service of every agent and one attestation-ctl.

* *Poll thread.* `pc` walks `QueryRegistrar`, `QueryVerifier`, `Snapshot`, then
  `Pick` and `Add` for each ready uuid, then `Cleanup`. `registered`, `enrolled`,
  `ready`, `uuid` and `report` are the locals of `main`. Each lock region and each
  call to another service is one step, so everything else interleaves exactly where
  the code lets go of the lock or waits. The two sleeps change nothing and are left out.
  `AddRaises` is an exception out of `enroll_agent`, which skips the cleanup.
* *HTTP thread.* `Post` is `do_POST` with its lock region; `FetchCert`,
  `FetchDenied` and `RequestFails` are the answers to the certificate request.
* *Report service.* `svc` is `Off`, `Post`, `Fetch`, `Failed` or `Done`; `attempt`
  counts its refused GETs. `StartReport` is the path unit, which fires on an
  `agent_data.json` of an earlier boot as well, and the restart after a failure.
* *Services.* `registrar` and `verifier` are modelled from their use: `add` is
  refused for an unknown agent and on a conflict. `failed` are the agents whose
  state the verifier found different from their reference state.
* *Operator.* `RemoveFromVerifier` and `RemoveFromRegistrar` are the two DELETEs;
  `RemoveAborts` is the second one failing, or never sent. It is also what
  `keylime_tenant -c delete` leaves.
* *History.* `accepted`, `age`, `steady`, `deleted` and `removed` are read by no
  guard of the system. `age` tells whether the pending report has outlived its
  registration (`stale`) and whether a poll has seen that (`doomed`).

`TofuEnrollment` is the promise of docs.md, "Trust Model": an agent is pinned to a
state it vouched for itself while running it, and the pin only moves by an
administrator taking it away.

| Run | Instance | Shows |
|---|---|---|
| `enroll_safety` | 2 agents, 2 states, 1 attempt, 2 disturbances, symmetric | types; the loop over `ready` never misses a report; AutoEnroll implements TofuEnrollment |
| `enroll_history` | 1 agent, 2 states, 2 attempts, 4 disturbances | `SteadyReportsKept`, `DoomedNeverEnrolled`: what a cleanup by old snapshots still guarantees; every registered agent is enrolled, unless it is removed, or its enrollment is deleted after its report service was done (`EventuallyEnrolled`); no report stays for ever (`ReportsDrain`) |
| `remove_race` | 1 agent, 3 disturbances | *violation*: a removal without an error leaves the agent enrolled |

*Bounds.* `MaxDisturbances` bounds the steps nobody owes: reboots, agent restarts,
failing calls, lost answers, daemon stops and removals; everything else is unbounded.
Two are enough for a removal with a new registration, or a failing query with a
restart; four for the longest story told here (a removal, the reboot after it, an
exception and another removal). A report that arrives while its agent is being removed
is used for the agent's next registration: no statement of the repository excludes it, and
`DoomedNeverEnrolled` says how far the cleanup prevents it. Agents meet only in the loop over `ready` and in the
snapshots, for which two suffice. `MaxAttempts` is 60 in the code; one and two
distinguish the first, an inner and the last attempt.

*Fairness.* Weak fairness of the poll thread, of the daemon's start (systemd restarts it
on failure, an administrator after a stop), of each agent's registration and of its
report service. Nothing is fair about disturbances, attestation failures or the
end of a removal. A failing query is a disturbance, so the assumption is that
failures stop, never that they do not happen.

*Proved* (`AutoEnrollProofs`, for every set of agents and states, every number of
attempts and disturbances, from `NoneAssumption` and `BoundsAssumption`):
`TypeCorrect`, `NoKeyError`, `CleanupKeepsSteady`, `DoomedReportsUnused` and
`TrustOnFirstUse`. The invariant `IInv` follows each copy of a report: the pending
one, the one in the thread's hand and the enrolled one are all states their agent
has vouched for (`ReportsVouched`, `InHandVouched`, `EnrolledVouched`); each uuid
still to be enrolled has a pending report and is in the registrar snapshot
(`ReadyPending`), which holds because only the poll thread empties entries of the
dictionary (`WhoDropsReports`); and the history agrees with the snapshots
(`DoomedUnseen`, `SteadySeen`). None of the listed properties is inductive alone: an
enrollment is justified by a report read two steps earlier.

`UnhurriedRemovalHolds` is the boundary of `remove_race`: `UnhurriedSpec` leaves out
exactly the steps `Hasty` names (a removal that begins while the daemon holds a
report of the agent, lists it in `ready` or is adding it; a report posted between the two
DELETEs), and in it `RemovedStaysRemoved` holds. Its invariant `RemovalInv`
says that an agent whose removal is half-way is in nobody's hands. All other
interleavings, restarts and registrations are harmless.

### TlsPki, TrustRoot, TlsPkiProofs

The PKI that `keylime-generate-certs.py` leaves on disk, and the five services that
load parts of it. A file is the number of the generator run whose CA key it carries
or was signed with; 0 is a file that exists and was never filled.

* *Generator.* `Activate` is the test for `ca-cert.pem`; `WriteFile` writes the eight
  files of `Written` in the order of the calls of openssl; `Finish` removes the
  requests. `GenerationFails` and `PowerCut` stop it at each file, with the file
  unchanged or empty.
* *Services.* `job` is the systemd job of each daemon, `Requiring` the units whose job
  fails with the generator's, `Checked` and `LoadedAtStart` what each one looks for
  and loads. `MakeContext` is the lazily made client context of the auto-enrollment
  daemon and of the git gate. `loaded` holds the runs of the files in memory.
* *Agents.* `CopyCa` is the administrator copying the CA to the agents.

`TrustRoot` is what mutual TLS needs of all this: one root of trust, established
once, never replaced, and the only one any party trusts. `ImplementsTrustRoot` maps the
root to `ca-cert`, and what a party trusts to what it has loaded (`Trusted`).

| Run | Instance | Shows |
|---|---|---|
| `tls` | 3 disturbances | the files, the services and the copy of the agents are one root of trust (`ImplementsTrustRoot`); a written certificate stays (`CertificatesKept`); after a complete generation all services come up (`GeneratedServes`) |
| `tls_partial` | 1 disturbance | *violation*: the unit is active with half a PKI after one interruption |

*Bounds.* Only disturbances are bounded. Three allow an interrupted generation, a
second one, and a crash of a service after it. *Fairness*: systemd runs queued jobs
and openssl terminates; an administrator's `ManualStart` and all failures are not fair.

*Proved*: `TypeCorrect`, `NeverTwoPkis`, `NeverOverwritten` for every number of
disturbances. A service can only hold files of a run whose CA certificate was
written, and once `ca-cert` is present no later run starts, so there is at most one
such run: the invariant relates `step`, `run` and `of` file by file.
`RefinesTrustRoot` follows step by step: writing `ca-cert` is `Establish`, whatever
loads files is `Trust`, and crashes and power cuts are `Forget`.

Three theorems are about the finding. `CompleteUnlessCutShort`: unless a generation is
interrupted between the call for the CA certificate and the last file
(`CutShort`), the unit is active only with the whole PKI. `CutShortIsForGood`: after such
an interruption no activation, reboot or restart completes it. `CompleteForGood`: a
complete PKI stays complete.

### GitGate, GitGateProofs

From an attested machine to a clone. The daemon makes a key pair (`GetCert`,
`MakeKey`, `SignCert`, `Reply`) and the report service writes it to `/run`. `write_text`
empties a file and then fills it, so each file takes two steps (`OpenCert`, `WriteCert`,
`OpenKey`, `WriteKey`), and a service stopped in between leaves an empty file, beside a
filled one from before, until it has run again. A PEM file is absent, empty, or the
number of its pair.

`HasCredentials` is what `keylime-git-clone` and TLS need of the two files. A machine may
run several clones, and git fetches over dumb HTTP with several requests at a time, so a
machine's requests are counted: `sent` are those nginx has asked `keylime-git-auth`
about, `allowed` those the verifier has vouched for whose file is not served yet.
`Request` is a further one, as long as a connection is free (`Connections`; nginx has 64
for all machines, the model so many for each); `Auth` and `AuthFails` are the answers
200, 403 and 503, `Serve` the file. The verifier enrolls, passes, fails and deletes
agents at any time. `DaemonDies`, `ServiceRestarts` and `Reboot` interrupt everything.
`owed` and `late` are history: the requests allowed when an agent was turned down, and
the files served to it since.

| Run | Instance | Shows |
|---|---|---|
| `git` | 2 agents, 2 connections each, 1 disturbance | after a revocation no more files than had been vouched for before it (`RevocationBites`); the two files in `/run`, when both are filled, belong together, and a service that is done leaves none empty (`CredentialsMatch`); credentials arrive again after each reboot (`CredentialsArrive`) |
| `git_empty_cert` | 1 agent, 1 disturbance | *violation*: an empty certificate is cached for ever |

*Bounds.* With two connections one request is allowed while another one waits for its
answer, or both are allowed when the verifier turns the machine down.
The HTTP server of the daemon handles one request at a time, so two agents are
enough for one waiting behind another. *Fairness*: processes that can go on do;
`GetCert` is strongly fair, because the service asks again and again while others hold
the server. Users, the verifier and failures are not fair.

*Proved*: `TypeCorrect`, `GateCloses`, `PairsMatch` for every number of agents,
connections and disturbances. `GateCloses` rests on `LateBounded`: what is still allowed
and what was served since the revocation add up to at most what was owed, as every later
question gets a 403 or a 503. `PairsMatch` needs `SavedInOrder` (which of the two files
are filled at which point of the service) and that a pair is never made twice for an
agent whose first pair was handed out: `Cached` holds from then on. `PairsForGood` is that
fact about steps: neither file of a pair that has a certificate ever changes.
`DoneMeansSaved` is the safety half of `CredentialsArrive`: a service that is `Done` has
saved both files, or was sent an empty certificate.

About the finding, `EmptyIsForGood` says that an empty certificate stays empty and gives no
credentials, and `ProvisionedUnlessCut` that nothing else has this effect: in
`UncutSpec`, where openssl x509 is never cut short but everything else may die, every
service that finishes leaves credentials.

### DiskImage, SecureBoot, SecureBootProofs

`DiskImage` is `configure-disk-image sign`. A command has a set `todo` of steps and
takes them in the order of `Earlier`: sign the installer's UKI, sign the payload's
UKI, make `KEYS`, copy the three update bundles. `StepFails` ends it at any of them,
before or during the write, `CannotSign` when the UKI was damaged before. `exit` is
what the command reported. sbsign appends signatures, so a UKI has a set of
signers. Contents are the keystore they come from.

`SecureBoot` extends it with the machine: `Install` writes the image to the disk (by
hand, or by the installer on the image when the firmware starts it), `PowerOn` lets
the firmware accept the UKI, `ensure` to `remove` are the steps of
ensure-secure-boot-enrollment and enroll-secure-boot, `Repart` and `Unlock` are the
persistent partitions. `pcr7` is the value of the Secure Boot variables when the boot
began, and `sealed` the value the partitions unlock with.

What systemd and the firmware do is taken from how the code uses them: a failing unit that is
only ordered before another one does not stop it, so `Alarm` goes on to `halted` or to
`repart`; a reboot cancels the units that wait; a variable written in this boot shows
in PCR 7 of the next one. `sound` and `alarmed` are history: the machine was prepared as
the user guide says and nobody touched firmware or disk since; an error was shown.

| Run | Instance | Shows |
|---|---|---|
| `boot` | 2 keystores, 2 commands, 2 disturbances | success with `--auto-enroll` means a complete image (`SuccessIsEnrollable`); enrollment never locks the machine out (`NeverLockedOut`); the partitions of a machine that showed no error unlock in every boot (`DataStaysReachable`); a prepared machine comes up with Secure Boot (`ComesUpSecured`) |
| `boot_disabled` | 1 command, 1 disturbance | *violation*: without `KEYS` a machine with Secure Boot disabled boots to the end |

*Bounds.* Two keystores and two commands allow an interrupted command with one
keystore and a second command with another; two disturbances allow a failure in the tool and
a power cut in the boot, or two of either. Deadlock is not checked: an operator with no
commands left and a machine that is off and empty is a state the system may stop in.
*Fairness*: a started boot goes on and somebody switches the machine on again.

*Proved* (`SecureBootProofs`, for every set of keystores and every bound):
`TypeCorrect`, `SuccessMeansEnrollable`, `EnrollmentKeepsStarting` and
`PartitionsUnlock`. The inductive invariant has a part per argument: `Progress` (what a
running command has done is complete for the steps not in `todo`), `BundlesUntilEnrolled`
(a sound machine in setup mode has the bundles of a signer, until the platform key is
in), `EnrollsInSetup` (the steps of enrollment run in setup mode, with what
earlier steps wrote), `BootedWith` (PCR 7 is the firmware's value except between
enrollment and reboot) and `SealedEnrolled` (partitions are sealed after enrollment).
`DataStaysReachable` is not inductive alone because the partitions are sealed in one
boot and unlocked in another.

`RunsSecured` is the safety half of `ComesUpSecured`: a sound machine without an error
is beyond the check only with Secure Boot enabled. `UpAsSealed` holds whatever is
done to the firmware: a machine that is up has the PCR 7 its partitions were created with.
`DisabledShowsUnlessSkipped` is the boundary of the finding: in `CheckedSpec`, where the
check is not skipped while Secure Boot is disabled, a machine goes on with Secure Boot
disabled only after it has shown an error.

### MeasuredBoot, Attestation, AttestationProofs

`MeasuredBoot` has no state. It holds the readings of an event log: the
library's (`Refstate`, `Diff`), the diagnosis' (below) and the policy's (`Accepts`, split into `Regular`,
what a log must look like, and `Matches`, what is compared with the reference
state), and which PCRs the log is replayed for (`PcrsToCheck`, patch 0002). A log
is kept by kind of event, because neither program looks at the order of events of
different kinds; lists of firmware blobs keep their order, signature lists are
sets, as `_diff_sig_list` and Keylime's subset tests take them.

`Attestation` puts them into the push model. A machine has a setup (firmware, keys,
image), boots it directly or by an application of the firmware, and extends PCRs 9
and 11 at run time. The tenant adds it with the state of one of its boots and
deletes it, the monitor times it out; both write through one ORM mapping. An
attestation is three steps (`Receive`, `ReadPolicy`, `Pass` or `Fail`) through the
other mapping, whose objects (`loadedPolicy`, `loadedAccept`) are as old as the
verifier likes, as the patches 0003 and 0004 describe. Keylime's own code is not in
the repository: the model has what the patches change and say of it.

The diagnosis is `debug-measured-boot-state`. `Mismatches` replays the firmware's log and
systemd's log of userspace (`seen`: the PCRs it has) and compares with the TPM;
`FailedEvents` are the events its list marks as different from the reference state;
`Diagnose` is the exit code. Files it cannot read (exit code 1) are left out.
`Phantoms` is a property of the code worth knowing: the replay extends a PCR by every
`EV_NO_ACTION` event but the header, which no TPM does, so a firmware with a second one
makes PCR 0 differ for ever; `NoFalseAlarm` excepts it. Nor can the list mark a blob
that is gone at the end, which `SummaryAgrees` excepts. A log whose form the policy
refuses (Secure Boot off, an unknown event) fails the attestation with an empty
difference, and a boot by way of the firmware's menu is counted by the policy and
skipped by the library.

| Variable | In the code |
|---|---|
| `setup`, `running`, `extended` | the machine, its boot and the PCRs userspace extended |
| `reported` | the boot of the reference state the tenant is given |
| `enrolled`, `accept`, `evaluation`, `policyId` | row of `verifiermain` |
| `mbpolicies` | the table, by id; ids are used again |
| `loadedPolicy`, `loadedAccept` | objects of the model framework |
| `stage`, `evidence`, `quoted`, `refstate` | one attestation; its evidence stays known until the next |
| `replaced` | history: the row was deleted during the attestation |

| Run | Instance | Shows |
|---|---|---|
| `attestation` | 7 setups, 1 policy id, 2 disturbances | a pass is about the firmware, keys and image enrolled now (`PassMeansPinned`); a machine as good as the enrolled one fails only when its log has a form the policy refuses (`GoodMachinesPass`); the diagnosis shows every other failure (`FailuresExplained`); the list of events and the difference of reference states tell the same story (`SummaryAgrees`); a machine as it was reported raises no alarm (`NoFalseAlarm`); a timed out agent recovers (`RecoversFromTimeout`) |

*Bounds.* A good machine failing by a stale reference state needs a deletion and a
changed machine between two enrollments, which are the two disturbances; a single id
is used again each time. A pass by a stale one needs a third, the way back to the
first setup: that is left to the theorem, which has no bound. The setups differ from the usual one in the image, in the order of the blobs,
by a blob fewer, by a revoked signature, by a trusted one, and in repeated events.

*Fairness.* Weak fairness of the attestation only: a running agent pushes every
two seconds (`quote_interval`) and the verifier answers. Reboots, enrollment and
the tenant are not fair, and `RecoversFromTimeout` assumes that the machine stays
up, good and enrolled from some point on.

*Statements.* `AsGoodAs` is said of machines, not of logs: same CRTM, blobs and
image, no new signature in PK, KEK and db, none missing in dbx. `Current` limits
the three verdict properties to the time between a verdict and the next evidence
and to rows not deleted meanwhile: an attestation that overlaps a deletion and a new
enrollment may write the verdict on the old state to the new row, until the next one.

*Proofs.* `PolicyMeansAsGood` is the core: for two boots, of which the second has a
log of a form the policy takes, the policy accepts the second by the library's
reference state of the first exactly if the second machine is as good as the first.
It rests on `UkiFound` (the library finds the image behind the firmware's
application), `FirmwareEqual` and `CrtmEqual`. `NoDifferenceAccepted` says the same
of the diff. Two consequences for whoever runs the server: `SameSetupAccepted` (as long as
firmware, keys and image stay, every regular boot is accepted, whichever way the reported one
went) and `ReenrollingNarrows` (to enroll a machine again from a boot that was accepted
never widens what is accepted, however often it is done). The invariant adds to the three properties `Singles` (a set of boots
never has two) and `Bookkeeping` (the row of an enrolled agent has a reference
state; an attestation not overtaken by a deletion uses that of the row).
`PassStep` and `FailStep` carry the verdicts, `OtherStep` all other actions.
`SummaryIsRight` and `AlarmsAreTrue` are invariants because they hold in every state
of the right types: `OneByOne` compares the lists of blobs position by position
(`BlobByBlob` for the list of a log against the one of a reference state), and the
rest is a case per field. They hold for logs of
any form, but that `SummaryAgrees` asks for one CRTM event.

### Installer, BuildMachine, EphemeralBuilds, BuildMachineProofs

From the settings on an image to the artifacts of a build. Disks keep what is on
them; the names by which a machine sees them (`name`) are given anew in each boot, a
setting is a name, and a partition is found by its label, so with two disks of a
kind `\E` chooses which one is found (`Visible`).

| Variable | In the code |
|---|---|
| `kind` | what a disk holds: something else, an installer image, a payload (complete or not), an artifact storage |
| `esp` | `install_target`, `storage_target`, `attestation-server.json` on the ESP, and on the ESP of the payload inside an installer image |
| `build` | the build partition: the boot whose key opens it and the boots whose data is in it |
| `stored` | the directories of an artifact storage: the run that made it, the boots the outputs are from |
| `pc`, `target`, `chosen`, `source` | installer or machine, and the device it is about to overwrite |
| `booted`, `repart`, `prepare`, `opened`, `step` | find-boot-disk, systemd-repart, prepare-artifact-storage, cryptsetup, the unattended step |
| `guard` | USBGuard: not (or not yet) running, running, or switched off by `disable-usb-guard` |
| `asked`, `kept`, `looked`, `failed` | history: the last settings reported written, the one a failing mdel left in place, the disks seen when the label was looked for, the steps that failed |

* *Disk image tool.* `Set` is set-target, set-storage and set-attestation-server with
  the ESP each of them writes to (`EspFor`), `SetFails` a failing mcopy, which may have
  removed the old file and is reported. `DeleteFails` is a failing mdel, which is not:
  set-storage prints that the menu will ask, and the old `storage_target` stays. `Shown` is what status prints.
* *Installer.* `ConfiguredTarget`, `MenuTarget`, `NoDiskToInstall` and
  `InstallRefused` are the part of run.sh before ddrescue; `StartCopy` to
  `FinishCopy` or `CopyFails` the overwriting. `Appear` is a disk that comes up late.
* *Initrd.* `Repart` resets the build partition on the disk of the booted store with
  the key of this boot, `RepartFails` leaves it; `OpenBuild` is systemd-cryptsetup, by label.
  `StorageFound`, `StorageTarget`, `Format` and `StorageFails` are
  prepare-artifact-storage; mkfs refuses a disk in use.
* *Unattended.* `Build`, `CopyOutputs`, `Lock` and `DisableUsbGuard` are the default
  steps, `StepFails` any of them having done part of its work in the open partition. `script` without `-e`
  exits with 0, so the next step follows in either case. USBGuard is a service of the
  running system and nothing waits for it: `guard` is down when a boot begins, `UsbGuard`
  starts it at any point after the initrd, or stops it when it crashes, and it may still
  be down when the steps run. `disable-usb-guard` stops it first, so it is off when the
  rest of that step fails.
* `PowerCut` stops everything, `Shutdown` and `Poweroff` are the orderly ends.

`EphemeralBuilds` is the promise of docs.md without disks, keys or labels: a run
begins with an empty place to work (`Begin`), leaves only its own things there
(`Produce`), hands over outputs under its own number (`HandOver`), and nothing archived is
overwritten while there is something to hand over (`Overwrite`). `ImplementsEphemeral`
maps the place to work to the data of the open partition (`Work`) and the archive to
the directories on all disks (`Archive`).

| Run | Instance | Shows |
|---|---|---|
| `machine` | 3 disks, 3 names, 1 server, 3 boots, 1 command, 2 disturbances, symmetric in disks and names | an open build partition holds data of this boot only (`BuildIsEphemeral`); the boots are ephemeral builds, their artifacts of one boot each (`ImplementsEphemeral`); a setting reported written, or the one a failing mdel left in its place, is what its reader finds (`SettingsArrive`) and, for the storage, what is formatted (`StorageAsAsked`); the steps do not switch USBGuard off with the build partition open, unless the lock failed (`GuardedUntilLocked`); the menu spares the installer (`SourceSpared`); no boot loses artifacts it could see (`ArtifactsKept`) |

*Bounds.* Three disks are an installer, a machine's disk and a storage, or two of a
kind and one more. Three boots are an installation, a build that ends anywhere, and
the boot after it; one command is a setting that travels through them (commands do not
depend on each other, except by overwriting, and the theorems have no bound); a failing
mdel counts as a disturbance instead. Two
disturbances are, for example, a failing repart after a power cut, or a late disk
and a failing step. Disks and names are interchangeable: no order among them is used,
and every setting is possible for each. Deadlock is not checked: a machine without boots or commands
left stays off. There is no fairness because every property is a safety property:
people switch the machine on when they like.

*Proved* (`BuildMachineProofs`, for every set of disks, names and servers and every
bound): `TypeCorrect`, `NoTraceOfBuilds`, `NoMixedArtifacts`,
`SettingsReachTheMachine`, `InstallerNotOverwritten`, `StorageWhereAsked`,
`GuardOutlastsBuild`, `ArtifactsSurvive` and `ImplementsEphemeralBuilds`. The invariant adds to the properties:
`Phases` (what is unset in which part of a boot), `Keys` (no key is of a later boot,
and a partition with this boot's key has only its data: the number of a boot is used
once, and repart writes key and reset together), `Artifacts` (each directory is of
one boot, what makes `CopyOutputs` right because the partition is `BuildIsEphemeral`),
`Guards` (no step before `usb` switches the guard off, and none reaches it with the
partition open unless the lock failed), `Naming` (two disks never share
a name), `Menus` (a menu's choice is a disk other than one found by the label),
`Reads` (a setting is where its reader looks: needed because `StartCopy` moves the
payload's ESP) and `Formats` (between the look and mkfs, the target is the setting of a
payload that was visible, and no artifact storage was).

The refinement needs one more part, `Fresh`: until a boot is up, a partition it has the
key of is empty. `StepKinds` sorts the steps by what they do to builds and archives, and
one lemma per kind finds the step of the contract: opening and resetting a partition are
the same step as closing it, because it is empty. `ContractKeepsArtifactsPure` shows that
the contract is strong enough: that artifacts are of one boot follows from it alone.

What the model shows besides, and nothing in the repository excludes:

* status of an installer image reads `storage_target` from the installer's ESP, set-storage
  writes it to the payload's (`configure-disk-image.py:317`): `SettingsArrive` excepts it;
* a failing mdel is not noticed (`configure-disk-image.py:445`): set-storage reports that
  the menu will ask, and a machine from that image formats the disk of the old setting. The
  properties speak of `Expected`, which is the old setting after a `DeleteFails`;
* USBGuard is not running when the initrd opens the build partition, and the builder is
  neither ordered after it nor requires it (`unattended.nix:101-136`). So
  `GuardedUntilLocked` speaks only of what the steps do to it, and does not say that the
  open partition is guarded;
* when lock-var-lib-build fails, USBGuard is stopped with the build data open, and
  `/run/fatal-error` is written but never shown, as the sequence goes on (`unattended.sh:50`);
* an artifact storage that comes up after the look for its label may be formatted when
  the setting names it (`artifact-storage.sh:60`): `ArtifactsKept` is about disks that were seen;
* with a second installer attached, the menu may leave out that one instead of the one
  booted: `SourceSpared` excepts it.

### FhsEnv, FhsEnvProofs

The merge of `build-fhsenv`. A turn is the visit to `bin` or `lib` of one store path;
the queue is the pins followed by the closure. `Path.glob("**/*")` yields a directory
before what is in it and otherwise in the order of the file system, so `Yields` takes any name
whose directory is done. `MakeDirectory`, `Collide`, `Ignore` and `Copy` are
the branches of the loop's body; `Abort` is the exception of mkdir or copy, or the
assertion that the output is free. A file is known by the store path it is from, so
patchelf's work on the copy is part of it; glob is that of Python 3.13, which does
not enter symlinks to directories.

The second half of the module says what the merge promises without its order of work:
`MergedDirs`, `MergedFiles` (of each name the first file in the order of turns),
`Clash` (the inputs that have no merge). A store path is any member of `Shapes`.

| Run | Instance | Shows |
|---|---|---|
| `fhs` | 2 store paths, the second pinned or not; each with up to two of a directory, a name in it and a name beside it, of all kinds, in bin and in lib | the output is a function of the inputs (`Merged`); a build fails exactly for a clash (`FailsOnClash`); pins win (`PinsWin`); a lost file is in the log or a pin's (`LossesReported`) |

*Bounds.* Two paths, one of them twice in the queue when it is pinned, give a
first, a second and a repeated turn; two entries are what collides, and a directory
with a name in it and one beside it are all relations of two names. Deadlock is not checked
because a build ends.

*Proved* (`FhsEnvProofs`, for every list of store paths, pins and shapes): `TypeCorrect`,
`MergeIsDetermined`, `FailureIsJustified`, `PinsOverride` and `LossesAreReported`. The
invariant says what the turns done so far, and the entries of this one that are no
longer in `todo`, have left: `SeenSoFar`, `MadeSoFar`, `CopiedSoFar`,
`WarnedSoFar` and `NoClashSoFar`; `CopiedWon` adds that a copied file is its name's first.
The turns are linearly ordered, which is what makes the first file of a name unique.
`MergeAdvances` is the action property behind termination: each step visits one entry less,
goes to the next turn or ends the build, and an ended build takes no step.

Consequences of the code that the definitions spell out: `seen` is one dictionary for
`bin` and `lib`, so a file of `lib` is dropped for one of the same relative name in
`bin`; a symlink out of the store that was seen first keeps a later regular file of its name
out; a symlink to a directory becomes an empty directory.

## 3. Findings

| Run | What |
|---|---|
| `remove_race` | the poll thread enrolls from its snapshot an agent that attestation-ctl is removing, between its two DELETEs |
| `tls_partial` | `ca-cert.pem` alone decides that the PKI exists |
| `git_empty_cert` | an empty certificate is taken for a cached one |
| `boot_disabled` | the check of Secure Boot depends on a directory that enrollment removes |

`PROJECT.json` quotes the line of the documentation each of them contradicts. Each
has a theorem that says exactly what the failure depends on, by proving the
violated statement, or what it is for, once one kind of step is left out or did not happen:
`UnhurriedRemovalHolds`, `CompleteUnlessCutShort`, `ProvisionedUnlessCut` and
`DisabledShowsUnlessSkipped`. What a run shows in one trace, these show to be the only way.

## 4. What is proved and what is only checked

Every safety property of a passing run has a theorem, the refinements `ImplementsTofu`,
`ImplementsTrustRoot` and `ImplementsEphemeral` too; the list with the statements is in `PROJECT.json`.
The theorems hold for every value of the constants under the assumptions named in
the modules: the special values are outside the sets they extend, and the bounds are natural
numbers.

Only model-checked: `EventuallyEnrolled`, `ReportsDrain`, `GeneratedServes`,
`CredentialsArrive`, `ComesUpSecured` and `RecoversFromTimeout` (liveness under fairness is out of the
prover's reach), and the violations. Of some of them the part that is safety is proved:
`DoneMeansSaved` and `ProvisionedUnlessCut` for `CredentialsArrive`, `RunsSecured` for
`ComesUpSecured`, `CompleteForGood` for the premise of `GeneratedServes`.

## 5. What is not modelled

`PROJECT.json` lists every part with its reason.

* *No behaviour after evaluation*: NixOS options, packaging, images for development,
  system-manager's declarations, documentation and tests.
* *The work itself*: the Android commands and the branch selector (repo, lunch, a dialog;
  their own state is one file), the contents of keys, hashes and certificates, patchelf.
* *One condition or one file, no interleaving*: the initialisation of the git repository,
  the parser patch, which replaces a test of stderr by one of the exit code.
* *Other ways to the same state*: the signing scripts (what they leave is what
  `DiskImage` leaves), the credential storage (files sealed to PCR 7, as the partitions of
  `SecureBoot` are).
* *Time*: certificates expire after `certLifetime` days, and the existing `ca-cert.pem`
  keeps the generator from renewing them. A model with a clock would restate this line.
* *The agent patch* reads the firmware's event log once, at the agent's start. The log does
  not change during a boot and the agent does not outlive it, so the log of an attestation is
  that of the running boot, which is what `Receive` takes.

## 6. Plan

Done: enrollment, PKI, git gate, Secure Boot, attestation with its diagnosis, the
machine from the settings to the artifacts, the FHS environment. Left:

1. *Attestation and daemon.* The registrar's part of a new key, and the composition with
   AutoEnroll: an attestation passes only against the state of the current enrollment,
   from the report on; TofuEnrollment extended by the verdicts.
2. *Diagnosis beside a running system*: systemd writes its log while it is read.
3. *Proofs.* A contract of the verifier (a verdict is about the pin of its time) that
   `Attestation` implements; the safety halves of `EventuallyEnrolled` and
   `RecoversFromTimeout`.
