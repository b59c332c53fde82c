--------------------------- MODULE SecureBootProofs ---------------------------
(***************************************************************************)
(* A prepared machine is never locked out and keeps its partitions,        *)
(* wherever signing, installing or enrolling is interrupted.               *)
(***************************************************************************)
EXTENDS SecureBoot, TLAPS

\* What a command that was asked for bundles has left on the ESP so far.
Progress ==
    /\ "payload" \notin todo => keystore \in signers[PayloadEsp] /\ PayloadEsp \notin broken
    /\ "KEYS" \notin todo => keydir
    /\ \A f \in KeyFiles \ todo : keys[f] = keystore

ToolInv ==
    /\ ~Running => todo = {}
    /\ Running => keystore \in Keystores
    /\ exit = "enrolling" => Progress
    /\ SuccessIsEnrollable

\* Enrolling happens in setup mode, until the platform key is in.
EnrollsInSetup ==
    /\ pc \in KeyFiles => Mode(fw) = "setup"
    /\ pc = "remove" => Mode(fw) # "setup"

\* As long as a machine is in setup mode it has the bundles of a keystore that
\* signed its UKI; that keystore is in db before its PK is written.
BundlesUntilEnrolled ==
    sound =>
        /\ ~disk.broken
        /\ fw.on
        /\ Mode(fw) = "setup" =>
              /\ disk.keydir
              /\ \E k \in disk.signers :
                    /\ disk.keys = [f \in KeyFiles |-> k]
                    /\ pc \in {"KEK.auth", "PK.auth"} => k \in fw.db
        /\ Mode(fw) # "setup" => disk.signers \cap fw.db # {}

\* PCR 7 is that of the firmware, but in a boot that enrolls.
BootedWith ==
    /\ pc = "ensure" => pcr7 = fw
    /\ pc \in {"repart", "unlock"} /\ ~alarmed => pcr7 = fw

\* Without an error, the partitions are sealed when enrollment is over.
SealedEnrolled ==
    sound /\ ~alarmed =>
        /\ pc \in {"repart", "unlock"} => Mode(fw) # "setup"
        /\ sealed \subseteq {fw}
        /\ Mode(fw) = "setup" => sealed = {}
        /\ pc = "unlock" => sealed # {}

MachineInv ==
    /\ EnrollsInSetup
    /\ BundlesUntilEnrolled
    /\ BootedWith
    /\ SealedEnrolled

IInv == TypeOK /\ ToolInv /\ MachineInv

-----------------------------------------------------------------------------
LEMMA Strings ==
    /\ "db.auth" \in KeyFiles /\ "KEK.auth" \in KeyFiles /\ "PK.auth" \in KeyFiles
    /\ PayloadEsp \in Esps
    /\ KeyFiles \subseteq Steps /\ "KEYS" \notin KeyFiles /\ "payload" \notin KeyFiles
BY DEF KeyFiles, PayloadEsp, Esps, Steps

\* A command that is asked for bundles takes every step on the payload.
LEMMA SignStepsFacts ==
    ASSUME NEW i \in BOOLEAN, NEW p \in BOOLEAN, NEW a \in BOOLEAN
    PROVE  /\ SignSteps(i, p, a) \subseteq Steps
           /\ a /\ (p \/ ~i) => {"payload", "KEYS"} \cup KeyFiles \subseteq SignSteps(i, p, a)
BY DEF SignSteps, Steps, KeyFiles

\* The type invariant is inductive over the commands.
LEMMA ToolTypes ==
    ASSUME TypeOK, ToolInv, Tool
    PROVE  ToolTypeOK' /\ disturbances' \in 0..MaxDisturbances
<1> USE LimitsAssumption DEF TypeOK, ToolTypeOK
<1>1. CASE \E k \in Keystores, i, p, a \in BOOLEAN : Sign(k, i, p, a)
  BY <1>1, SignStepsFacts DEF Sign, Exits
<1>2. ASSUME NEW step, NEW esp \in Esps, SignUki(step, esp) \/ CannotSign(step, esp)
      PROVE  ToolTypeOK' /\ disturbances' \in 0..MaxDisturbances
  <2>1. CASE SignUki(step, esp)
    <3>1. keystore \in Keystores
      BY <2>1 DEF SignUki, IsNext, ToolInv
    <3> QED
      BY <2>1, <3>1 DEF SignUki
  <2>2. CASE CannotSign(step, esp)
    BY <2>2 DEF CannotSign, ErrorExit, Exits
  <2> QED
    BY <1>2, <2>1, <2>2
<1>3. CASE MakeKeysDir
  BY <1>3 DEF MakeKeysDir
<1>4. ASSUME NEW f \in KeyFiles, CopyKey(f)
      PROVE  ToolTypeOK' /\ disturbances' \in 0..MaxDisturbances
  BY <1>4 DEF CopyKey, Bundles
<1>5. CASE CommandSucceeds
  BY <1>5 DEF CommandSucceeds, Exits
<1>6. CASE StepFails
  <2>1. broken' \subseteq Esps
    BY <1>6, Strings DEF StepFails, Esps
  <2>2. Damaged \in Bundles
    BY DEF Bundles
  <2>3. keys' \in [KeyFiles -> Bundles]
    BY <1>6, <2>2 DEF StepFails
  <2>4. disturbances' \in 0..MaxDisturbances
    BY <1>6 DEF StepFails, Disturb
  <2> QED
    BY <1>6, <2>1, <2>3, <2>4 DEF StepFails, ErrorExit, Exits
<1>7. "outer" \in Esps
  BY DEF Esps
<1> HIDE DEF TypeOK, ToolTypeOK
<1> QED
  BY <1>1, <1>2, <1>3, <1>4, <1>5, <1>6, <1>7, Strings DEF Tool, ToolStep

\* The commands keep what sign promises.
LEMMA ToolKeeps ==
    ASSUME TypeOK, ToolInv, Tool
    PROVE  ToolInv'
<1> USE DEF ToolInv, Running, Progress
<1>t. PayloadEsp \in Esps /\ signers \in [Esps -> SUBSET Keystores] /\ todo \subseteq Steps
      /\ keys \in [KeyFiles -> Bundles]
  BY Strings DEF TypeOK, ToolTypeOK
<1>1. CASE \E k \in Keystores, i, p, a \in BOOLEAN : Sign(k, i, p, a)
  <2> PICK k \in Keystores, i \in BOOLEAN, p \in BOOLEAN, a \in BOOLEAN : Sign(k, i, p, a)
    BY <1>1
  <2>1. exit' = "enrolling" => {"payload", "KEYS"} \cup KeyFiles \subseteq todo'
    BY SignStepsFacts DEF Sign
  <2>2. exit' # "enroll" /\ keystore' \in Keystores /\ exit' \in {"running", "enrolling"}
    BY DEF Sign
  <2> QED
    BY <2>1, <2>2 DEF SuccessIsEnrollable
<1>2. ASSUME NEW step \in {"installer", "payload"}, NEW esp \in Esps, SignUki(step, esp),
             step = "payload" => esp = PayloadEsp
      PROVE  ToolInv'
  <2>1. Running /\ exit' = exit /\ keystore' = keystore /\ PayloadEsp' = PayloadEsp
    BY <1>2 DEF SignUki, IsNext, PayloadEsp
  <2>2. keystore \in signers[PayloadEsp] => keystore \in signers'[PayloadEsp]
    BY <1>2, <1>t DEF SignUki
  <2>3. step = "payload" => keystore \in signers'[PayloadEsp] /\ PayloadEsp \notin broken
    BY <1>2, <1>t DEF SignUki
  <2> QED
    BY <1>2, <2>1, <2>2, <2>3 DEF SignUki, SuccessIsEnrollable, KeyFiles
<1>3. CASE MakeKeysDir
  BY <1>3, Strings DEF MakeKeysDir, IsNext, PayloadEsp, SuccessIsEnrollable
<1>4. ASSUME NEW f \in KeyFiles, CopyKey(f)
      PROVE  ToolInv'
  <2>1. Running /\ exit' = exit /\ keystore' = keystore /\ PayloadEsp' = PayloadEsp
    BY <1>4 DEF CopyKey, IsNext, PayloadEsp
  <2>2. \A g \in KeyFiles : keys'[g] = IF g = f THEN keystore ELSE keys[g]
    BY <1>4, <1>t DEF CopyKey
  <2> QED
    BY <1>4, <2>1, <2>2, Strings DEF CopyKey, SuccessIsEnrollable
<1>5. CASE CommandSucceeds
  <2>1. PayloadEsp' = PayloadEsp /\ todo' = {}
    BY <1>5 DEF CommandSucceeds, PayloadEsp
  <2>2. CASE exit = "enrolling"
    <3>1. keystore \in signers[PayloadEsp] /\ PayloadEsp \notin broken /\ keydir
      BY <1>5, <2>2 DEF CommandSucceeds
    <3>2. keys = [f \in KeyFiles |-> keystore]
      BY <1>5, <2>2, <1>t DEF CommandSucceeds
    <3>3. Enrollable'
      BY <1>5, <2>1, <3>1, <3>2 DEF CommandSucceeds, Enrollable
    <3> QED
      BY <1>5, <2>1, <2>2, <3>3 DEF CommandSucceeds, SuccessIsEnrollable
  <2> QED
    BY <1>5, <2>1, <2>2 DEF CommandSucceeds, SuccessIsEnrollable
<1>6. ASSUME NEW step, NEW esp, CannotSign(step, esp)
      PROVE  ToolInv'
  BY <1>6 DEF CannotSign, ErrorExit, SuccessIsEnrollable
<1>7. CASE StepFails
  BY <1>7 DEF StepFails, ErrorExit, SuccessIsEnrollable
<1>8. "outer" \in Esps
  BY DEF Esps
<1> HIDE DEF ToolInv
<1> QED
  BY <1>1, <1>2, <1>3, <1>4, <1>5, <1>6, <1>7, <1>8, <1>t DEF Tool, ToolStep

-----------------------------------------------------------------------------
\* The type invariant is inductive over the machine's steps.
LEMMA MachineTypes ==
    ASSUME TypeOK, MachineStep \/ UNCHANGED vars
    PROVE  TypeOK'
<1> USE LimitsAssumption, Strings DEF TypeOK
<1>1. UNCHANGED toolVars => ToolTypeOK'
  BY DEF toolVars, ToolTypeOK
<1>2. UNCHANGED disturbances \/ Disturb => disturbances' \in 0..MaxDisturbances
  BY DEF Disturb
<1>3. fw \in Firmware /\ disk \in Disks
  OBVIOUS
<1>4. CASE UNCHANGED vars
  BY <1>4, <1>1, <1>2 DEF vars, machineVars
<1>5. CASE Install
  <2>1. disk' \in Disks
    BY <1>5 DEF Install, Disks, ToolTypeOK
  <2>2. sound' \in BOOLEAN
    BY <1>5 DEF Install, Prepared, Enrollable, Mode, Firmware
  <2> QED
    BY <1>5, <1>1, <1>2, <2>1, <2>2 DEF Install
<1>6. CASE InstallFails
  <2>1. disk' \in Disks
    BY <1>6, <1>3 DEF InstallFails, Disks
  <2> QED
    BY <1>6, <1>1, <1>2, <2>1 DEF InstallFails
<1>7. CASE PowerOn
  BY <1>7, <1>1, <1>2 DEF PowerOn, Points
<1>8. CASE CheckSkipped \/ SecureBootActive
  BY <1>8, <1>1, <1>2 DEF CheckSkipped, SecureBootActive, Points
<1>9. CASE SecureBootDisabled \/ EnrollFails \/ \E f \in KeyFiles : CannotEnroll(f)
  BY <1>9, <1>1, <1>2 DEF SecureBootDisabled, EnrollFails, CannotEnroll, Alarm, Points
<1>10. CASE StartEnrollment
  BY <1>10, <1>1, <1>2 DEF StartEnrollment, NextStep, Points
<1>11. ASSUME NEW f \in KeyFiles, Enroll(f)
       PROVE  TypeOK'
  <2>1. disk.keys[f] \in Keystores
    BY <1>11 DEF Enroll, Usable
  <2>2. fw' \in Firmware
    BY <1>11, <1>3, <2>1 DEF Enroll, Written, Firmware, KeyFiles
  <2>3. pc' \in Points
    BY <1>11 DEF Enroll, NextStep, KeyFiles, Points
  <2> QED
    BY <1>11, <1>1, <1>2, <2>2, <2>3 DEF Enroll
<1>12. CASE RemoveKeys
  <2>1. NoKeys \in [KeyFiles -> Bundles]
    BY DEF NoKeys, Bundles
  <2>2. disk' \in Disks
    BY <1>12, <1>3, <2>1 DEF RemoveKeys, Disks
  <2> QED
    BY <1>12, <1>1, <1>2, <2>2 DEF RemoveKeys, NextStep, Points
<1>13. CASE RemoveCut
  <2>1. disk' \in Disks
    BY <1>13, <1>3 DEF RemoveCut, Disks, Bundles
  <2> QED
    BY <1>13, <1>1, <1>2, <2>1 DEF RemoveCut, Points
<1>14. CASE Repart
  BY <1>14, <1>1, <1>2 DEF Repart, Points
<1>15. CASE Unlock \/ Shutdown \/ PowerCut
  BY <1>15, <1>1, <1>2 DEF Unlock, Shutdown, PowerCut, Points
<1>16. CASE ChangeFirmware
  <2>1. fw' \in Firmware
    BY <1>16, <1>3 DEF ChangeFirmware, Firmware
  <2> QED
    BY <1>16, <1>1, <1>2, <2>1 DEF ChangeFirmware
<1> HIDE DEF TypeOK
<1> QED
  BY <1>4, <1>5, <1>6, <1>7, <1>8, <1>9, <1>10, <1>11, <1>12, <1>13, <1>14, <1>15, <1>16
     DEF MachineStep, Boot

LEMMA MachineKeepsTool ==
    ASSUME ToolInv, UNCHANGED toolVars
    PROVE  ToolInv'
BY DEF ToolInv, toolVars, Running, Progress, PayloadEsp, SuccessIsEnrollable, Enrollable

\* An error, wherever it comes from, leaves disk and firmware.
LEMMA AlarmKeeps ==
    ASSUME MachineInv, Alarm
    PROVE  MachineInv'
BY DEF MachineInv, Alarm, EnrollsInSetup, BundlesUntilEnrolled, BootedWith, SealedEnrolled,
       KeyFiles, Mode

\* The machine's steps keep what the boots rely on.
LEMMA MachineKeeps ==
    ASSUME TypeOK, ToolInv, MachineInv, MachineStep \/ UNCHANGED vars
    PROVE  MachineInv'
<1> USE Strings DEF MachineInv, EnrollsInSetup, BundlesUntilEnrolled, BootedWith,
        SealedEnrolled, Mode
<1>t. fw \in Firmware /\ disk \in Disks /\ pc \in Points
  BY DEF TypeOK
<1>1. CASE UNCHANGED vars
  BY <1>1 DEF vars, machineVars
<1>2. CASE Install
  <2>1. pc' = "off" /\ fw' = fw /\ sealed' = {}
    BY <1>2 DEF Install
  <2>2. sound' => /\ Enrollable /\ fw.on
                  /\ fw.pk # NoFile => signers[PayloadEsp] \cap fw.db # {}
    BY <1>2 DEF Install, Prepared
  <2>3. /\ disk'.signers = signers[PayloadEsp] /\ disk'.keydir = keydir
        /\ disk'.keys = keys /\ disk'.broken = (PayloadEsp \in broken)
    BY <1>2 DEF Install
  <2>4. EnrollsInSetup'
    BY <2>1 DEF KeyFiles
  <2>5. BundlesUntilEnrolled'
    BY <2>1, <2>2, <2>3 DEF Enrollable
  <2> QED
    BY <2>1, <2>4, <2>5
<1>3. CASE InstallFails \/ ChangeFirmware
  BY <1>3 DEF InstallFails, ChangeFirmware, KeyFiles
<1>4. CASE PowerOn
  BY <1>4 DEF PowerOn, KeyFiles
<1>5. CASE CheckSkipped
  BY <1>5 DEF CheckSkipped, KeyFiles
<1>6. CASE SecureBootActive
  BY <1>6 DEF SecureBootActive, KeyFiles
<1>7. CASE SecureBootDisabled \/ EnrollFails \/ \E f \in KeyFiles : CannotEnroll(f)
  BY <1>7, AlarmKeeps DEF SecureBootDisabled, EnrollFails, CannotEnroll
<1>8. CASE StartEnrollment
  BY <1>8 DEF StartEnrollment, NextStep, KeyFiles
<1>9. CASE Enroll("db.auth")
  BY <1>9, <1>t DEF Enroll, Usable, Written, NextStep, KeyFiles, Firmware
<1>10. CASE Enroll("KEK.auth")
  BY <1>10, <1>t DEF Enroll, Usable, Written, NextStep, KeyFiles, Firmware
<1>11. CASE Enroll("PK.auth")
  <2>1. pc = "PK.auth" /\ Mode(fw) = "setup" /\ pc' = "remove" /\ disk' = disk
        /\ UNCHANGED <<sealed, sound, alarmed>>
    BY <1>11 DEF Enroll, NextStep
  <2>2. fw' = [fw EXCEPT !.pk = disk.keys["PK.auth"]] /\ disk.keys["PK.auth"] \in Keystores
    BY <1>11 DEF Enroll, Usable, Written
  <2>3. fw'.pk # NoFile /\ fw'.db = fw.db /\ fw'.on = fw.on
    BY <2>2, <1>t, KeystoresAssumption DEF Firmware
  <2> QED
    BY <2>1, <2>3 DEF KeyFiles
<1>12. CASE RemoveKeys
  <2>1. pc = "remove" /\ pc' = "off" /\ disk'.signers = disk.signers /\ disk'.broken = disk.broken
    BY <1>12, <1>t DEF RemoveKeys, NextStep, Disks
  <2> QED
    BY <1>12, <2>1 DEF RemoveKeys, KeyFiles
<1>13. CASE RemoveCut
  <2>1. pc = "remove" /\ pc' = "off" /\ disk'.signers = disk.signers /\ disk'.broken = disk.broken
    BY <1>13, <1>t DEF RemoveCut, Disks
  <2> QED
    BY <1>13, <2>1 DEF RemoveCut, KeyFiles
<1>14. CASE Repart
  BY <1>14 DEF Repart, KeyFiles
<1>15. CASE Unlock \/ Shutdown \/ PowerCut
  BY <1>15 DEF Unlock, Shutdown, PowerCut, KeyFiles
<1>16. \A f \in KeyFiles : f = "db.auth" \/ f = "KEK.auth" \/ f = "PK.auth"
  BY DEF KeyFiles
<1> HIDE DEF MachineInv
<1> QED
  BY <1>1, <1>2, <1>3, <1>4, <1>5, <1>6, <1>7, <1>8, <1>9, <1>10, <1>11, <1>12, <1>13,
     <1>14, <1>15, <1>16 DEF MachineStep, Boot

-----------------------------------------------------------------------------
LEMMA InitIInv == Init => IInv
<1>1. ASSUME Init
      PROVE  ToolTypeOK
  <2>1. ToolInit /\ 0 \in 0..MaxCommands
    BY <1>1, LimitsAssumption DEF Init
  <2>2. /\ signers \in [Esps -> SUBSET Keystores]
        /\ keys \in [KeyFiles -> Bundles]
    BY <2>1 DEF ToolInit, Bundles
  <2> QED
    BY <2>1, <2>2 DEF ToolInit, ToolTypeOK, Exits
<1>2. ASSUME Init
      PROVE  disk \in Disks /\ fw \in Firmware
  <2>1. NoKeys \in [KeyFiles -> Bundles]
    BY DEF NoKeys, Bundles
  <2>2. disk \in Disks
    BY <1>1, <1>2, <2>1 DEF Init, Disks
  <2>3. \A k \in Keystores :
           [pk |-> k, kek |-> k, db |-> {k}, on |-> TRUE] \in Firmware
    BY DEF Firmware
  <2>4. [pk |-> NoFile, kek |-> NoFile, db |-> {}, on |-> TRUE] \in Firmware
    BY DEF Firmware
  <2>5. fw \in Firmware
    BY <1>2, <2>3, <2>4 DEF Init
  <2> QED
    BY <2>2, <2>5
<1>3. Init => TypeOK
  <2>1. 0 \in 0..MaxDisturbances
    BY LimitsAssumption
  <2> QED
    BY <1>1, <1>2, <2>1 DEF Init, TypeOK, Points
<1>4. Init => ToolInv
  BY DEF Init, ToolInit, ToolInv, Running, SuccessIsEnrollable
<1>5. Init => MachineInv
  BY DEF Init, MachineInv, EnrollsInSetup, BundlesUntilEnrolled, BootedWith,
         SealedEnrolled, KeyFiles
<1> QED
  BY <1>3, <1>4, <1>5 DEF IInv

LEMMA StepIInv == IInv /\ [Next]_vars => IInv'
<1> SUFFICES ASSUME IInv, [Next]_vars
             PROVE  IInv'
  OBVIOUS
<1>t. TypeOK /\ ToolInv /\ MachineInv
  BY DEF IInv
<1>1. CASE Tool /\ UNCHANGED machineVars
  <2>1. TypeOK'
    BY <1>1, <1>t, ToolTypes DEF TypeOK, machineVars
  <2>2. MachineInv'
    BY <1>1, <1>t DEF machineVars, MachineInv, EnrollsInSetup, BundlesUntilEnrolled,
                      BootedWith, SealedEnrolled, Mode
  <2> QED
    BY <1>1, <1>t, <2>1, <2>2, ToolKeeps DEF IInv
<1>2. CASE MachineStep \/ UNCHANGED vars
  <2>1. UNCHANGED toolVars
    BY <1>2 DEF MachineStep, Boot, vars, Install, InstallFails, PowerOn, CheckSkipped,
                SecureBootActive, SecureBootDisabled, StartEnrollment, Enroll,
                CannotEnroll, EnrollFails, Alarm, RemoveKeys, RemoveCut, Repart, Unlock,
                Shutdown, PowerCut, ChangeFirmware
  <2> QED
    BY <1>2, <1>t, <2>1, MachineTypes, MachineKeeps, MachineKeepsTool DEF IInv
<1> QED
  BY <1>1, <1>2 DEF Next, MachineStep

\* The invariant holds in every reachable state.
THEOREM Inductive == Spec => []IInv
BY InitIInv, StepIInv, PTL DEF Spec

\* Every variable of the tool and of the machine keeps its type.
THEOREM TypeCorrect == Spec => []TypeOK
<1>1. IInv => TypeOK
  BY DEF IInv
<1> QED
  BY <1>1, Inductive, PTL

\* sign never reports success for an image that is not complete, for any
\* number of keystores, commands and failures.
THEOREM SuccessMeansEnrollable == Spec => []SuccessIsEnrollable
<1>1. IInv => SuccessIsEnrollable
  BY DEF IInv, ToolInv
<1> QED
  BY <1>1, Inductive, PTL

\* A prepared machine is never locked out by its own enrollment.
THEOREM EnrollmentKeepsStarting == Spec => []NeverLockedOut
<1>1. IInv => NeverLockedOut
  BY DEF IInv, MachineInv, BundlesUntilEnrolled, NeverLockedOut, Starts, Mode
<1> QED
  BY <1>1, Inductive, PTL

\* Its partitions unlock in every boot, unless an error was shown.
THEOREM PartitionsUnlock == Spec => []DataStaysReachable
<1>1. IInv => DataStaysReachable
  BY DEF IInv, MachineInv, SealedEnrolled, BootedWith, DataStaysReachable
<1> QED
  BY <1>1, Inductive, PTL

-----------------------------------------------------------------------------
(***************************************************************************)
(* What a boot that passes the check amounts to.  That it gets there is    *)
(* liveness and stays with TLC; that what gets there is secured is not.    *)
(***************************************************************************)

\* A boot beyond the check of ensure-secure-boot-enrollment.
Beyond == {"repart", "unlock", "up"}

SecuredBeyond == sound /\ ~alarmed /\ pc \in Beyond => Mode(pcr7) = "enabled"

\* One value of PCR 7, and beyond unlocking it is that of this boot.
SealedOnce ==
    /\ \E v : sealed \in {{}, {v}}
    /\ pc = "up" => pcr7 \in sealed

\* The check does not run, and would have found Secure Boot disabled.
Unchecked == CheckSkipped /\ Mode(fw) = "disabled"

CheckedSpec == Init /\ [][Next /\ ~Unchecked]_vars

DisabledShown == pc \in Beyond /\ Mode(pcr7) = "disabled" => alarmed

\* Steps that do not take a boot beyond the check.
LEMMA NotBeyond ==
    ASSUME IInv, [Next]_vars
    PROVE  \/ pc' \notin Beyond
           \/ alarmed' /\ Alarm
           \/ CheckSkipped \/ SecureBootActive \/ Repart \/ Unlock
           \/ UNCHANGED machineVars
<1>1. ASSUME NEW f \in KeyFiles, Enroll(f)
      PROVE  pc' \notin Beyond
  BY <1>1 DEF Enroll, NextStep, KeyFiles, Beyond
<1>2. CASE Install \/ InstallFails \/ PowerOn \/ Shutdown \/ PowerCut \/ ChangeFirmware \/ RemoveCut
  BY <1>2 DEF Install, InstallFails, PowerOn, Shutdown, PowerCut, ChangeFirmware, RemoveCut, Beyond
<1>3. CASE StartEnrollment \/ RemoveKeys
  BY <1>3 DEF StartEnrollment, RemoveKeys, NextStep, Beyond
<1>4. CASE SecureBootDisabled \/ EnrollFails \/ \E f \in KeyFiles : CannotEnroll(f)
  BY <1>4 DEF SecureBootDisabled, EnrollFails, CannotEnroll, Alarm
<1>5. CASE UNCHANGED vars
  BY <1>5 DEF vars
<1> QED
  BY <1>1, <1>2, <1>3, <1>4, <1>5 DEF Next, MachineStep, Boot

\* The partitions are sealed by the one step of systemd-repart, and lost to a new image.
LEMMA SealingSteps ==
    ASSUME [Next]_vars
    PROVE  sealed' = sealed \/ Repart \/ (Install /\ sealed' = {} /\ pc' = "off")
BY DEF Next, MachineStep, Boot, vars, machineVars, Install, InstallFails, PowerOn, CheckSkipped,
       SecureBootActive, SecureBootDisabled, StartEnrollment, Enroll, CannotEnroll, EnrollFails,
       Alarm, RemoveKeys, RemoveCut, Unlock, Shutdown, PowerCut, ChangeFirmware

\* A prepared machine that has shown no error is beyond the check only with Secure Boot
\* enabled: its partitions are never created, unlocked or used without.
THEOREM RunsSecured == Spec => []SecuredBeyond
<1>1. Init => SecuredBeyond
  BY DEF Init, SecuredBeyond
<1>2. IInv /\ SecuredBeyond /\ [Next]_vars => SecuredBeyond'
  <2> SUFFICES ASSUME IInv, SecuredBeyond, [Next]_vars
               PROVE  SecuredBeyond'
    OBVIOUS
  <2> USE DEF SecuredBeyond, Beyond
  <2>1. CASE CheckSkipped
    BY <2>1 DEF CheckSkipped, IInv, MachineInv, BundlesUntilEnrolled, BootedWith, Mode
  <2>2. CASE SecureBootActive
    BY <2>2 DEF SecureBootActive, IInv, MachineInv, BootedWith
  <2>3. CASE Repart \/ Unlock
    BY <2>3 DEF Repart, Unlock, Mode
  <2>4. CASE UNCHANGED machineVars
    BY <2>4 DEF machineVars, Mode
  <2> QED
    BY <2>1, <2>2, <2>3, <2>4, NotBeyond
<1> QED
  BY <1>1, <1>2, Inductive, PTL DEF Spec

\* Whatever happens to the firmware, a machine that is up was started with the one
\* Secure Boot configuration its partitions were created with: to disable Secure Boot
\* on a machine in use, its partitions have to be given up.
THEOREM UpAsSealed == Spec => [](pc = "up" => sealed = {pcr7})
<1>1. Init => SealedOnce
  BY DEF Init, SealedOnce
<1>2. IInv /\ SealedOnce /\ [Next]_vars => SealedOnce'
  <2> SUFFICES ASSUME IInv, SealedOnce, [Next]_vars
               PROVE  SealedOnce'
    OBVIOUS
  <2> USE DEF SealedOnce
  <2>1. CASE Repart
    BY <2>1 DEF Repart
  <2>2. CASE Install /\ sealed' = {} /\ pc' = "off"
    BY <2>2
  <2>3. CASE sealed' = sealed
    <3>1. CASE pc' = "up"
      <4>1. Unlock \/ UNCHANGED machineVars
        BY <3>1, NotBeyond DEF Beyond, CheckSkipped, SecureBootActive, Alarm, Repart
      <4> QED
        BY <2>3, <4>1 DEF Unlock, machineVars
    <3> QED
      BY <2>3, <3>1
  <2> QED
    BY <2>1, <2>2, <2>3, SealingSteps
<1>3. SealedOnce => (pc = "up" => sealed = {pcr7})
  BY DEF SealedOnce
<1> QED
  BY <1>1, <1>2, <1>3, Inductive, PTL DEF Spec

\* The boundary of DisabledHalts: a machine gets beyond the check with Secure Boot
\* disabled and without an error only where the check is skipped, for want of the
\* KEYS directory that the machine's own enrollment removed.
THEOREM DisabledShowsUnlessSkipped == CheckedSpec => []DisabledShown
<1>1. Init => IInv /\ DisabledShown
  <2>1. Init => IInv
    BY InitIInv
  <2> QED
    BY <2>1 DEF Init, DisabledShown, Beyond
<1>2. IInv /\ DisabledShown /\ [Next /\ ~Unchecked]_vars => IInv' /\ DisabledShown'
  <2> SUFFICES ASSUME IInv, DisabledShown, [Next /\ ~Unchecked]_vars
               PROVE  IInv' /\ DisabledShown'
    OBVIOUS
  <2>1. IInv'
    BY StepIInv
  <2> USE DEF DisabledShown, Beyond
  <2>2. ASSUME CheckSkipped PROVE DisabledShown'
    <3>1. Mode(fw) # "disabled"
      BY <2>2 DEF Unchecked, CheckSkipped, vars, machineVars
    <3> QED
      BY <2>2, <3>1 DEF CheckSkipped, IInv, MachineInv, BootedWith
  <2>3. ASSUME SecureBootActive PROVE DisabledShown'
    BY <2>3 DEF SecureBootActive, IInv, MachineInv, BootedWith
  <2>4. ASSUME Repart \/ Unlock PROVE DisabledShown'
    BY <2>4 DEF Repart, Unlock, Mode
  <2>5. ASSUME UNCHANGED machineVars PROVE DisabledShown'
    BY <2>5 DEF machineVars, Mode
  <2>6. DisabledShown'
    BY <2>2, <2>3, <2>4, <2>5, NotBeyond
  <2> QED
    BY <2>1, <2>6
<1> QED
  BY <1>1, <1>2, PTL DEF CheckedSpec
=============================================================================
