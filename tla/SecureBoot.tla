------------------------------ MODULE SecureBoot ------------------------------
(***************************************************************************)
(* From the image to a running machine: the image is written to a disk,    *)
(* the initrd of the first boot enrolls the keystore on the ESP into the   *)
(* firmware and reboots, systemd-repart creates the persistent partitions  *)
(* and seals them to PCR 7, and every later boot unseals them.  Power may  *)
(* fail at every point.                                                    *)
(*                                                                         *)
(* The firmware and systemd are modelled from how modules/secure-boot.nix  *)
(* and modules/image.nix use them.  PCR 7 is the Secure Boot configuration *)
(* the machine was started with: a change to the variables shows in the    *)
(* next boot.                                                              *)
(***************************************************************************)
EXTENDS DiskImage

VARIABLES
    disk,               \* the image on the machine's disk
    fw,                 \* the Secure Boot variables of the firmware
    pcr7,               \* their value when this boot began
    sealed,             \* the PCR 7 the persistent partitions unlock with; {}: there are none
    pc,                 \* how far the boot is
    sound,              \* history: the disk was to become a secure machine
    alarmed             \* history: an error was shown since it was written

machineVars == <<disk, fw, pcr7, sealed, pc, sound, alarmed>>
vars == <<toolVars, disturbances, machineVars>>

Disks == [state : {"empty", "partial", "written"},
          signers : SUBSET Keystores, broken : BOOLEAN,
          keydir : BOOLEAN, keys : [KeyFiles -> Bundles]]
Firmware == [pk : Keystores \cup {NoFile}, kek : Keystores \cup {NoFile},
             db : SUBSET Keystores, on : BOOLEAN]

\* "ensure" to "remove" are steps of ensure-secure-boot-enrollment.
Points == {"off", "refused", "ensure", "db.auth", "KEK.auth", "PK.auth", "remove",
           "halted", "repart", "unlock", "locked", "up"}

TypeOK ==
    /\ ToolTypeOK
    /\ disturbances \in 0..MaxDisturbances
    /\ disk \in Disks
    /\ fw \in Firmware
    /\ pcr7 \in Firmware
    /\ sealed \subseteq Firmware
    /\ pc \in Points
    /\ sound \in BOOLEAN
    /\ alarmed \in BOOLEAN

Mode(v) == IF v.pk = NoFile THEN "setup" ELSE IF v.on THEN "enabled" ELSE "disabled"

\* The firmware starts a UKI: any in setup mode or without Secure Boot, else
\* one with a signature in db.
Starts(v, by, isBroken) == ~isBroken /\ (Mode(v) = "enabled" => by \cap v.db # {})

NoKeys == [f \in KeyFiles |-> NoFile]

Init ==
    /\ ToolInit
    /\ disturbances = 0
    /\ disk = [state |-> "empty", signers |-> {}, broken |-> FALSE,
               keydir |-> FALSE, keys |-> NoKeys]
    /\ \/ fw = [pk |-> NoFile, kek |-> NoFile, db |-> {}, on |-> TRUE]
       \/ \E k \in Keystores : fw = [pk |-> k, kek |-> k, db |-> {k}, on |-> TRUE]
    /\ pcr7 = fw
    /\ sealed = {}
    /\ pc = "off"
    /\ sound = FALSE
    /\ alarmed = FALSE

-----------------------------------------------------------------------------
\* A machine that was prepared as the user guide says: a complete image, and
\* a firmware in setup mode or one that knows a keystore that signed it.
Prepared ==
    /\ Enrollable
    /\ fw.on
    /\ Mode(fw) = "enabled" => signers[PayloadEsp] \cap fw.db # {}

\* The image is written to the disk, by hand or by the installer on the image,
\* which the firmware must start.  The new partition table has no persistent
\* partitions.
Install ==
    /\ pc = "off" /\ ~Running
    /\ layout = "installer" => Starts(fw, signers["outer"], "outer" \in broken)
    /\ disk' = [state |-> "written", signers |-> signers[PayloadEsp],
                broken |-> PayloadEsp \in broken, keydir |-> keydir, keys |-> keys]
    /\ sealed' = {}
    /\ sound' = Prepared
    /\ alarmed' = FALSE
    /\ UNCHANGED <<toolVars, disturbances, fw, pcr7, pc>>

\* The copy is cut short, or ddrescue gives up.
InstallFails ==
    /\ Disturb
    /\ pc = "off" /\ ~Running
    /\ layout = "installer" => Starts(fw, signers["outer"], "outer" \in broken)
    /\ disk' = [disk EXCEPT !.state = "partial"]
    /\ sound' = FALSE
    /\ UNCHANGED <<toolVars, fw, pcr7, sealed, pc, alarmed>>

PowerOn ==
    /\ pc = "off"
    /\ disk.state = "written"
    /\ pcr7' = fw
    /\ pc' = IF Starts(fw, disk.signers, disk.broken) THEN "ensure" ELSE "refused"
    /\ UNCHANGED <<toolVars, disturbances, disk, fw, sealed, sound, alarmed>>

-----------------------------------------------------------------------------
\* The unit fails: emergency.target shows the error.  The unit is ordered
\* before systemd-repart and not required by it, so the boot may go on beside it.
Alarm ==
    /\ alarmed' = TRUE
    /\ pc' \in {"halted", "repart"}
    /\ UNCHANGED <<toolVars, disk, fw, pcr7, sealed, sound>>

\* AssertPathExists=/boot/KEYS: without the directory the unit does not run.
CheckSkipped ==
    /\ pc = "ensure" /\ ~disk.keydir
    /\ pc' = "repart"
    /\ UNCHANGED <<toolVars, disturbances, disk, fw, pcr7, sealed, sound, alarmed>>

SecureBootActive ==
    /\ pc = "ensure" /\ disk.keydir
    /\ Mode(fw) = "enabled"
    /\ pc' = "repart"
    /\ UNCHANGED <<toolVars, disturbances, disk, fw, pcr7, sealed, sound, alarmed>>

SecureBootDisabled ==
    /\ pc = "ensure" /\ disk.keydir
    /\ Mode(fw) = "disabled"
    /\ UNCHANGED disturbances
    /\ Alarm

\* mutant: the platform key is installed before the allowed signatures
NextStepPlatformFirst(p) ==
    CASE p = "ensure" -> "PK.auth" [] p = "PK.auth" -> "KEK.auth"
      [] p = "KEK.auth" -> "db.auth" [] p = "db.auth" -> "remove" [] p = "remove" -> "off"

\* mutant: the boot goes on without the reboot
NextStepNoReboot(p) ==
    CASE p = "ensure" -> "db.auth" [] p = "db.auth" -> "KEK.auth"
      [] p = "KEK.auth" -> "PK.auth" [] p = "PK.auth" -> "remove" [] p = "remove" -> "repart"

\* enroll-secure-boot: db, then KEK, then PK, which ends setup mode, then KEYS is
\* removed and the machine rebooted.  The waiting units conflict with the
\* shutdown and do not run meanwhile.
NextStep(p) ==
    CASE p = "ensure" -> "db.auth" [] p = "db.auth" -> "KEK.auth"
      [] p = "KEK.auth" -> "PK.auth" [] p = "PK.auth" -> "remove" [] p = "remove" -> "off"

StartEnrollment ==
    /\ pc = "ensure" /\ disk.keydir
    /\ Mode(fw) = "setup"
    /\ pc' = NextStep(pc)
    /\ UNCHANGED <<toolVars, disturbances, disk, fw, pcr7, sealed, sound, alarmed>>

\* mutant: a bundle is used when it is there
UsableIfThere(f) == disk.keys[f] # NoFile

Usable(f) == disk.keys[f] \in Keystores

\* mutant: the allowed signatures are not extended
WrittenNotDb(f, k) ==
    CASE f = "db.auth" -> fw
      [] f = "KEK.auth" -> [fw EXCEPT !.kek = k]
      [] f = "PK.auth" -> [fw EXCEPT !.pk = k]

\* The variables with the bundle f of k: db is extended, the others replaced.
Written(f, k) ==
    CASE f = "db.auth" -> [fw EXCEPT !.db = @ \cup {k}]
      [] f = "KEK.auth" -> [fw EXCEPT !.kek = k]
      [] f = "PK.auth" -> [fw EXCEPT !.pk = k]

\* efi-updatevar with one bundle.
Enroll(f) ==
    /\ pc = f
    /\ Usable(f)
    /\ fw' = Written(f, disk.keys[f])
    /\ pc' = NextStep(f)
    /\ UNCHANGED <<toolVars, disturbances, disk, pcr7, sealed, sound, alarmed>>

\* A bundle is missing or damaged: set -e ends both scripts.
CannotEnroll(f) ==
    /\ pc = f
    /\ ~Usable(f)
    /\ UNCHANGED disturbances
    /\ Alarm

\* The firmware refuses a variable, or a command before it fails.
EnrollFails ==
    /\ Disturb
    /\ pc \in KeyFiles
    /\ Alarm

RemoveKeys ==
    /\ pc = "remove"
    /\ disk' = [disk EXCEPT !.keydir = FALSE, !.keys = NoKeys]
    /\ pc' = NextStep(pc)
    /\ UNCHANGED <<toolVars, disturbances, fw, pcr7, sealed, sound, alarmed>>

\* Power fails in rm -rf: some of the bundles are left.
RemoveCut ==
    /\ Disturb
    /\ pc = "remove"
    /\ \E rest \in SUBSET KeyFiles :
          disk' = [disk EXCEPT !.keys = [f \in KeyFiles |-> IF f \in rest THEN disk.keys[f] ELSE NoFile]]
    /\ pc' = "off"
    /\ UNCHANGED <<toolVars, fw, pcr7, sealed, sound, alarmed>>

-----------------------------------------------------------------------------
\* systemd-repart creates the persistent partitions the disk does not have, and
\* replaces the build partition, whose key was made in this boot and is kept
\* nowhere.
Repart ==
    /\ pc = "repart"
    /\ sealed' = IF sealed = {} THEN {pcr7} ELSE sealed
    /\ pc' = "unlock"
    /\ UNCHANGED <<toolVars, disturbances, disk, fw, pcr7, sound, alarmed>>

\* systemd-cryptsetup unseals with the TPM or waits for a passphrase nobody has.
Unlock ==
    /\ pc = "unlock"
    /\ pc' = IF pcr7 \in sealed THEN "up" ELSE "locked"
    /\ UNCHANGED <<toolVars, disturbances, disk, fw, pcr7, sealed, sound, alarmed>>

Shutdown ==
    /\ pc \in {"up", "halted", "locked", "refused"}
    /\ pc' = "off"
    /\ UNCHANGED <<toolVars, disturbances, disk, fw, pcr7, sealed, sound, alarmed>>

PowerCut ==
    /\ Disturb
    /\ pc # "off"
    /\ pc' = "off"
    /\ UNCHANGED <<toolVars, disk, fw, pcr7, sealed, sound, alarmed>>

\* In the firmware menu: keys cleared, all or the platform key alone, or Secure
\* Boot switched.  docs.md: the partitions become inaccessible.
ChangeFirmware ==
    /\ Disturb
    /\ pc = "off"
    /\ \/ fw' = [fw EXCEPT !.pk = NoFile]
       \/ fw' = [fw EXCEPT !.pk = NoFile, !.kek = NoFile, !.db = {}]
       \/ fw' = [fw EXCEPT !.on = ~@]
    /\ sound' = FALSE
    /\ UNCHANGED <<toolVars, disk, pcr7, sealed, pc, alarmed>>

Boot ==
    \/ PowerOn
    \/ CheckSkipped
    \/ SecureBootActive
    \/ SecureBootDisabled
    \/ StartEnrollment
    \/ \E f \in KeyFiles : Enroll(f) \/ CannotEnroll(f)
    \/ RemoveKeys
    \/ Repart
    \/ Unlock

MachineStep ==
    \/ Install
    \/ InstallFails
    \/ Boot
    \/ EnrollFails
    \/ RemoveCut
    \/ Shutdown
    \/ PowerCut
    \/ ChangeFirmware

Next == (Tool /\ UNCHANGED machineVars) \/ MachineStep

Spec == Init /\ [][Next]_vars

\* Somebody switches the machine on again; a started boot goes on.
FairSpec == Spec /\ WF_vars(Boot)

-----------------------------------------------------------------------------
\* Enrolling never locks the machine out: from the moment the platform key is
\* in, the firmware accepts the UKI on the disk, wherever power or the firmware
\* fails in between (enroll-secure-boot writes db before PK).
NeverLockedOut ==
    sound /\ Mode(fw) # "setup" => Starts(fw, disk.signers, disk.broken)

\* The persistent partitions of a machine that showed no error unlock in every
\* boot: they are created once, after the last change to PCR 7, and a KEYS
\* directory left by a power cut does not enroll a second time
\* (ensure-secure-boot-enrollment before systemd-repart, the reboot after it).
DataStaysReachable == sound /\ ~alarmed /\ pc = "unlock" => pcr7 \in sealed

\* A prepared machine comes up with Secure Boot enabled, unless an error was
\* shown or somebody changes firmware or disk.
ComesUpSecured ==
    sound /\ ~alarmed ~> (pc = "up" /\ Mode(pcr7) = "enabled") \/ ~sound \/ alarmed

\* docs.md: "If it is disabled or in any unknown mode, we halt the machine".
DisabledHalts == pc = "up" => Mode(pcr7) # "disabled"
=============================================================================
