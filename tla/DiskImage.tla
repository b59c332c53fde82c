------------------------------ MODULE DiskImage ------------------------------
(***************************************************************************)
(* configure-disk-image sign: the tool that signs the unified kernel image *)
(* (UKI) of a disk image and copies the Secure Boot update bundles beside  *)
(* it, from where the booted machine enrolls them into its firmware.       *)
(*                                                                         *)
(* An image is either the payload alone or an installer that carries the   *)
(* payload in a partition: "outer" is the EFI system partition (ESP) of    *)
(* the image, "nested" the one of the payload in an installer.  A command  *)
(* is a sequence of writes to these partitions, any of which may fail; the *)
(* command then ends with an error and keeps what it has written.          *)
(*                                                                         *)
(* Contents are abstracted to the keystore they come from.  sbsign adds a  *)
(* signature to those a UKI has, so a UKI has a set of signers.            *)
(***************************************************************************)
EXTENDS Naturals

CONSTANTS
    Keystores,          \* the keystores an operator signs with
    NoFile, Damaged,    \* a missing file; one whose writing was cut short
    MaxCommands,        \* bound on the commands an operator runs
    MaxDisturbances     \* bound on failures, power cuts and firmware changes

ASSUME KeystoresAssumption ==
    /\ NoFile \notin Keystores /\ Damaged \notin Keystores
    /\ NoFile # Damaged
ASSUME LimitsAssumption == MaxCommands \in Nat /\ MaxDisturbances \in Nat

VARIABLES
    layout,             \* "payload" or "installer"
    signers,            \* per ESP: the keystores that have signed its UKI
    broken,             \* the ESPs whose UKI was cut short
    keydir,             \* the payload's ESP has a directory KEYS
    keys,               \* KEYS: per update bundle, its keystore
    keystore,           \* the keystore of the running command
    todo,               \* the steps left of the running command
    exit,               \* what the last command reported
    commands, disturbances

toolVars == <<layout, signers, broken, keydir, keys, keystore, todo, exit, commands>>

Esps == {"outer", "nested"}
PayloadEsp == IF layout = "installer" THEN "nested" ELSE "outer"

KeyFiles == {"PK.auth", "KEK.auth", "db.auth"}
Bundles == Keystores \cup {NoFile, Damaged}
Steps == {"installer", "payload", "KEYS"} \cup KeyFiles

\* "enroll": a signature and bundles of one keystore were asked for and the
\* command succeeded; "ok": another command did.
Exits == {"running", "enrolling", "enroll", "ok", "error"}

ToolTypeOK ==
    /\ layout \in {"payload", "installer"}
    /\ signers \in [Esps -> SUBSET Keystores]
    /\ broken \subseteq Esps
    /\ keydir \in BOOLEAN
    /\ keys \in [KeyFiles -> Bundles]
    /\ keystore \in Keystores \cup {NoFile}
    /\ todo \subseteq Steps
    /\ exit \in Exits
    /\ commands \in 0..MaxCommands

ToolInit ==
    /\ layout \in {"payload", "installer"}
    /\ signers = [e \in Esps |-> {}]
    /\ broken = {}
    /\ keydir = FALSE
    /\ keys = [f \in KeyFiles |-> NoFile]
    /\ keystore = NoFile
    /\ todo = {}
    /\ exit = "ok"
    /\ commands = 0

Disturb ==
    /\ disturbances < MaxDisturbances
    /\ disturbances' = disturbances + 1

-----------------------------------------------------------------------------
Running == exit \in {"running", "enrolling"}

\* What sign does for its options --installer, --payload and --auto-enroll.
\* Without an installer, --installer alone asks for nothing.
SignSteps(onlyInstaller, onlyPayload, autoEnroll) ==
    LET payload == onlyPayload \/ ~onlyInstaller IN
       {s \in {"installer"} : layout = "installer" /\ (onlyInstaller \/ ~onlyPayload)}
       \cup {s \in {"payload"} : payload}
       \cup {s \in {"KEYS"} \cup KeyFiles : payload /\ autoEnroll}

\* The steps sign takes before one.
Earlier(step) ==
    CASE step = "installer" -> {}
      [] step = "payload" -> {"installer"}
      [] step = "KEYS" -> {"installer", "payload"}
      [] step = "PK.auth" -> {"installer", "payload", "KEYS"}
      [] step = "KEK.auth" -> {"installer", "payload", "KEYS", "PK.auth"}
      [] step = "db.auth" -> {"installer", "payload", "KEYS", "PK.auth", "KEK.auth"}

IsNext(step) == step \in todo /\ Earlier(step) \cap todo = {}

\* The operator starts configure-disk-image sign.
Sign(k, onlyInstaller, onlyPayload, autoEnroll) ==
    /\ ~Running
    /\ commands < MaxCommands
    /\ commands' = commands + 1
    /\ keystore' = k
    /\ todo' = SignSteps(onlyInstaller, onlyPayload, autoEnroll)
    /\ exit' = IF autoEnroll /\ (onlyPayload \/ ~onlyInstaller) THEN "enrolling" ELSE "running"
    /\ UNCHANGED <<layout, signers, broken, keydir, keys, disturbances>>

\* The UKI is extracted, signed and written back.
SignUki(step, esp) ==
    /\ IsNext(step) /\ esp \notin broken
    /\ signers' = [signers EXCEPT ![esp] = @ \cup {keystore}]
    /\ todo' = todo \ {step}
    /\ UNCHANGED <<layout, broken, keydir, keys, keystore, exit, commands, disturbances>>

\* mmd, whose result nobody looks at: it may exist already.
MakeKeysDir ==
    /\ IsNext("KEYS")
    /\ keydir' = TRUE
    /\ todo' = todo \ {"KEYS"}
    /\ UNCHANGED <<layout, signers, broken, keys, keystore, exit, commands, disturbances>>

CopyKey(f) ==
    /\ IsNext(f)
    /\ keys' = [keys EXCEPT ![f] = keystore]
    /\ todo' = todo \ {f}
    /\ UNCHANGED <<layout, signers, broken, keydir, keystore, exit, commands, disturbances>>

CommandSucceeds ==
    /\ Running /\ todo = {}
    /\ exit' = IF exit = "enrolling" THEN "enroll" ELSE "ok"
    /\ keystore' = NoFile
    /\ UNCHANGED <<layout, signers, broken, keydir, keys, todo, commands, disturbances>>

\* mutant: a bundle that cannot be copied is not an error
ErrorExitIgnored == exit

\* The exit status after a failed step, whose exception ends the command: every
\* result but mmd's is checked.
ErrorExit == "error"

\* sbsign does not accept a damaged UKI.
CannotSign(step, esp) ==
    /\ IsNext(step) /\ esp \in broken
    /\ exit' = ErrorExit
    /\ todo' = {}
    /\ keystore' = NoFile
    /\ UNCHANGED <<layout, signers, broken, keydir, keys, commands, disturbances>>

\* A step fails or the operator interrupts it, before or while it writes.
\* A bundle missing in the keystore is the failure before.
StepFails ==
    /\ Disturb
    /\ \/ /\ todo # {}
          /\ UNCHANGED <<broken, keys>>
       \/ /\ IsNext("installer")
          /\ broken' = broken \cup {"outer"}
          /\ UNCHANGED keys
       \/ /\ IsNext("payload")
          /\ broken' = broken \cup {PayloadEsp}
          /\ UNCHANGED keys
       \/ \E f \in KeyFiles :
          /\ IsNext(f)
          /\ keys' = [keys EXCEPT ![f] = Damaged]
          /\ UNCHANGED broken
    /\ exit' = ErrorExit
    /\ todo' = {}
    /\ keystore' = NoFile
    /\ UNCHANGED <<layout, signers, keydir, commands>>

ToolStep ==
    \/ SignUki("installer", "outer")
    \/ SignUki("payload", PayloadEsp)
    \/ MakeKeysDir
    \/ \E f \in KeyFiles : CopyKey(f)
    \/ CommandSucceeds
    \/ CannotSign("installer", "outer")
    \/ CannotSign("payload", PayloadEsp)

Tool ==
    \/ \E k \in Keystores, onlyInstaller, onlyPayload, autoEnroll \in BOOLEAN :
          Sign(k, onlyInstaller, onlyPayload, autoEnroll)
    \/ ToolStep
    \/ StepFails

-----------------------------------------------------------------------------
\* A machine in setup mode that boots this payload enrolls a keystore that
\* has signed it.
Enrollable ==
    /\ PayloadEsp \notin broken
    /\ keydir
    /\ \E k \in signers[PayloadEsp] : keys = [f \in KeyFiles |-> k]

\* When sign reports success for a payload with --auto-enroll, the image is
\* complete: the UKI is signed and the three bundles beside it are of the same
\* keystore, whatever earlier commands with other keystores were interrupted
\* and left behind (cmd_sign, copy_secureboot_keys).
SuccessIsEnrollable == exit = "enroll" => Enrollable
=============================================================================
