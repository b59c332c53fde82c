----------------------------- MODULE MeasuredBoot -----------------------------
(***************************************************************************)
(* Two programs read the event log of a boot on their own: the library     *)
(* measured_boot_state makes a reference state of it on the machine, and   *)
(* the verifier's policy "uki" judges the logs of later boots by that      *)
(* reference state.                                                        *)
(*                                                                         *)
(* A log is kept by kind of event, each kind in its order: neither program *)
(* looks at the order of events of different kinds.                        *)
(*    crtms    the digests of the EV_S_CRTM_VERSION events                 *)
(*    blobs    the EV_EFI_PLATFORM_FIRMWARE_BLOB(2) events, PCR and digest *)
(*    apps     the EV_EFI_BOOT_SERVICES_APPLICATION events; "resident"     *)
(*             are those whose device path is in the firmware              *)
(*    on       the SecureBoot variable                                     *)
(*    keys     PK, KEK, db and dbx                                         *)
(*    rest     the other events, as PCR and type                           *)
(*    repeated those of the rest that occur more than once                 *)
(***************************************************************************)
EXTENDS Integers, Sequences

CONSTANTS
    Digests,    \* of firmware and applications
    Signatures, \* in the Secure Boot variables
    Missing     \* an event that is not in the log

ASSUME MissingAssumption == Missing \notin Digests

KeyVars == {"pk", "kek", "db", "dbx"}
Pcrs == 0..15

Log == [crtms : Seq(Digests),
        blobs : Seq([pcr : Pcrs, digest : Digests]),
        apps : Seq([pcr : Pcrs, digest : Digests, resident : BOOLEAN]),
        on : BOOLEAN,
        keys : [KeyVars -> SUBSET Signatures],
        rest : SUBSET (Pcrs \X STRING),
        repeated : SUBSET (Pcrs \X STRING)]

-----------------------------------------------------------------------------
(* The library. *)

\* get_scrtm: the first such event.
Scrtm(log) == IF log.crtms = <<>> THEN Missing ELSE log.crtms[1]

\* get_platform_firmware: from all PCRs.
Firmware(log) == [i \in DOMAIN log.blobs |-> log.blobs[i].digest]

\* get_uki_digest: the first application in PCR 4 that is not the firmware's.
Candidates(log) == {i \in DOMAIN log.apps : log.apps[i].pcr = 4 /\ ~log.apps[i].resident}
Uki(log) ==
    IF Candidates(log) = {} THEN Missing
    ELSE log.apps[CHOOSE i \in Candidates(log) : \A j \in Candidates(log) : i <= j].digest

\* create_refstate
Refstate(log) == [scrtm |-> Scrtm(log), firmware |-> Firmware(log),
                  keys |-> log.keys, uki |-> Uki(log)]

\* mutant: the lists of blobs are compared as sets, like those of signatures
DiffAsSets(old, new) ==
       {v \in KeyVars : old.keys[v] # new.keys[v]}
       \cup {f \in {"uki"} : old.uki # new.uki}
       \cup {f \in {"scrtm"} : old.scrtm # new.scrtm}
       \cup {f \in {"firmware"} :
               {old.firmware[i] : i \in DOMAIN old.firmware}
                 # {new.firmware[i] : i \in DOMAIN new.firmware}}

\* diff_refstates: the fields that changed.
Diff(old, new) ==
       {v \in KeyVars : old.keys[v] # new.keys[v]}
       \cup {f \in {"uki"} : old.uki # new.uki}
       \cup {f \in {"scrtm"} : old.scrtm # new.scrtm}
       \cup {f \in {"firmware"} : old.firmware # new.firmware}

-----------------------------------------------------------------------------
(* debug-measured-boot-state, on a machine where userspace has extended the *)
(* PCRs ext, and "seen" are those in the log systemd keeps of it.           *)

\* replay_pcrs with no event in it gives a PCR no value, and it is not compared.
LoggedPcrs(log) ==
       {p \in {0} : log.crtms # <<>>}
       \cup {log.blobs[i].pcr : i \in DOMAIN log.blobs}
       \cup {log.apps[i].pcr : i \in DOMAIN log.apps}
       \cup {7} \cup {e[1] : e \in log.rest}

\* It extends by an EV_NO_ACTION event as by any other, the TPM does not; the
\* first one, the header of the log, has no digests.
Phantoms(log) == {p \in {0} : <<0, "EV_NO_ACTION">> \in log.repeated}

PolicyPcrs == {0, 1, 2, 3, 4, 5, 7, 9, 11}

\* mutant: the replay is of the firmware's log alone
MismatchesOfFirmware(log, seen, ext) ==
    (PolicyPcrs \cap LoggedPcrs(log) \cap ext) \cup Phantoms(log)

\* print_pcr_comparison of the replay with the TPM.
Mismatches(log, seen, ext) ==
    {p \in PolicyPcrs \cap (LoggedPcrs(log) \cup seen) : (p \in seen) # (p \in ext)}
       \cup Phantoms(log)

\* cmd_diagnose, with a log and a reference state it can read: its exit code.
Diagnose(ref, log, seen, ext) ==
    IF Mismatches(log, seen, ext) = {} /\ Diff(ref, Refstate(log)) = {} THEN 0 ELSE 2

\* mutant: the firmware's own applications are compared as well
FailedEventsOfAll(ref, log) ==
       {f \in {"scrtm"} : \E i \in DOMAIN log.crtms : log.crtms[i] # ref.scrtm}
       \cup {f \in {"firmware"} :
               \E i \in DOMAIN log.blobs :
                  ~(i \in DOMAIN ref.firmware /\ log.blobs[i].digest = ref.firmware[i])}
       \cup {f \in {"uki"} : \E i \in DOMAIN log.apps : log.apps[i].digest # ref.uki}

\* print_event_summary marks each event of the log that is not the pinned one,
\* firmware blobs by their position; what is missing in the log it cannot mark.
FailedEvents(ref, log) ==
       {f \in {"scrtm"} : \E i \in DOMAIN log.crtms : log.crtms[i] # ref.scrtm}
       \cup {f \in {"firmware"} :
               \E i \in DOMAIN log.blobs :
                  ~(i \in DOMAIN ref.firmware /\ log.blobs[i].digest = ref.firmware[i])}
       \cup {f \in {"uki"} :
               \E i \in DOMAIN log.apps : ~log.apps[i].resident /\ log.apps[i].digest # ref.uki}

-----------------------------------------------------------------------------
(* The policy. *)

\* The events the dispatcher accepts, and those it accepts once.
Once == {<<0, "EV_NO_ACTION">>, <<5, "EV_EFI_GPT_EVENT">>, <<7, "EV_EFI_VARIABLE_AUTHORITY">>}
Handled ==
       Once
       \cup {0, 2} \X {"EV_POST_CODE"}
       \cup {1} \X {"EV_PLATFORM_CONFIG_FLAGS", "EV_EFI_VARIABLE_BOOT", "EV_EFI_VARIABLE_BOOT2",
                    "EV_EFI_HANDOFF_TABLES", "EV_EFI_HANDOFF_TABLES2", "EV_CPU_MICROCODE"}
       \cup {2} \X {"EV_EFI_BOOT_SERVICES_DRIVER"}
       \cup {1, 4, 5, 6} \X {"EV_EFI_ACTION"}
       \cup {9} \X {"EV_EVENT_TAG"} \cup {11} \X {"EV_IPL"}
       \cup Pcrs \X {"EV_SEPARATOR"}

BlobPcrs == {0, 2}

\* What the policy asks of a log whatever the reference state is: one CRTM
\* version, one application, Secure Boot, and no event it has no entry for.
Regular(log) ==
    /\ Len(log.crtms) = 1
    /\ \A i \in DOMAIN log.blobs : log.blobs[i].pcr \in BlobPcrs
    /\ Len(log.apps) = 1 /\ log.apps[1].pcr = 4
    /\ log.on
    /\ log.rest \subseteq Handled
    /\ log.repeated \cap Once = {}

\* mutant: the list of allowed signatures is not compared
KeysMatchNotDb(ref, log) ==
    /\ \A v \in {"pk", "kek"} : log.keys[v] \subseteq ref.keys[v]
    /\ ref.keys["dbx"] \subseteq log.keys["dbx"]

\* What it compares with the reference state: nothing new may be trusted and
\* nothing revoked forgotten, and firmware and image are the same.
KeysMatch(ref, log) ==
    /\ \A v \in {"pk", "kek", "db"} : log.keys[v] \subseteq ref.keys[v]
    /\ ref.keys["dbx"] \subseteq log.keys["dbx"]

Matches(ref, log) ==
    /\ log.crtms[1] = ref.scrtm
    /\ Firmware(log) = ref.firmware
    /\ log.apps[1].digest = ref.uki
    /\ KeysMatch(ref, log)

Accepts(ref, log) == Regular(log) /\ Matches(ref, log)

-----------------------------------------------------------------------------
(* The replay of the log against the quote. *)

\* MEASUREDBOOT_PCRS of Keylime's configuration.
MeasuredBootPcrs == 0..9 \cup {11, 12, 13, 14, 15}

\* get_relevant_pcrs of the policy.
RelevantPcrs == {0, 1, 2, 3, 4, 5, 7}

\* mb_pcrs_to_check: an empty set means no restriction.
PcrsToCheck ==
    IF RelevantPcrs = {} THEN MeasuredBootPcrs ELSE MeasuredBootPcrs \cap RelevantPcrs

\* A log replays to the quoted values of all PCRs but those extended since.
Replays(extended) == PcrsToCheck \cap extended = {}
=============================================================================
