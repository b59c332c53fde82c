---------------------------- MODULE BuildMachine ----------------------------
(***************************************************************************)
(* A machine that boots an installed payload: the initrd makes a new       *)
(* encrypted build partition on the disk of its store and prepares         *)
(* the artifact storage, and the unattended build runs its steps.  Power   *)
(* may fail everywhere, steps may fail, and several disks may carry the    *)
(* labels by which partitions are found.                                   *)
(*                                                                         *)
(* A key of a build partition is kept nowhere but in memory; it is known   *)
(* by the number of the boot that made it.                                 *)
(***************************************************************************)
EXTENDS Installer, Sequences

VARIABLES
    booted,             \* the disk on which dm-verity found the store, {} or one
    repart,             \* systemd-repart: "waits", "ran", "failed"
    prepare,            \* prepare-artifact-storage: "waits", "format", "ready"
    looked,             \* history: the disks it could see when it looked for the label
    opened,             \* the disk whose build partition is open, {} or one
    guard,              \* USBGuard: "on", "down" before it is started or when it
                        \* has died, or "off", stopped for good
    step,               \* the unattended step to be run
    failed              \* history: the steps that failed in this boot

runVars == <<booted, repart, prepare, looked, opened, guard, step, failed>>
vars == <<diskVars, bootVars, commands, disturbances, runVars>>

Points == {"off", "choose", "confirm", "copying", "done", "error", "initrd", "up"}

\* mutant: the guard is stopped as soon as the outputs are copied
StepsGuardFirst == <<"build", "copy", "usb", "lock", "shell">>

\* The default steps: fetch to measure-source write to the build partition;
\* copy-android-outputs, lock-var-lib-build, disable-usb-guard and the shell.
Steps == <<"build", "copy", "lock", "usb", "shell">>

TypeOK ==
    /\ InstallerTypeOK
    /\ pc \in Points
    /\ booted \subseteq Disks
    /\ repart \in {"waits", "ran", "failed"}
    /\ prepare \in {"waits", "format", "ready"}
    /\ looked \subseteq Disks
    /\ opened \subseteq Disks
    /\ guard \in {"down", "on", "off"}
    /\ step \in 1..5
    /\ failed \subseteq {"build", "copy", "lock", "usb", "shell"}

\* What is in memory only.
RunInit ==
    /\ booted = {}
    /\ repart = "waits"
    /\ prepare = "waits"
    /\ looked = {}
    /\ opened = {}
    /\ guard = "down"
    /\ step = 1
    /\ failed = {}

Init == InstallerInit /\ RunInit

TurnOff ==
    /\ pc' = "off"
    /\ name' = [d \in Disks |-> Unseen]
    /\ target' = Unset
    /\ chosen' = FALSE
    /\ source' = {}
    /\ booted' = {}
    /\ repart' = "waits"
    /\ prepare' = "waits"
    /\ looked' = {}
    /\ opened' = {}
    /\ guard' = "down"
    /\ step' = 1
    /\ failed' = {}
    /\ UNCHANGED <<boots, commands>>

\* A person switches off at the end or at an error, which fatal-error shows.
Shutdown ==
    /\ pc \in {"done", "error"}
    /\ TurnOff
    /\ UNCHANGED <<diskVars, disturbances>>

\* Also for a machine that waits for a passphrase nobody has.
PowerCut ==
    /\ pc # "off"
    /\ Disturb
    /\ TurnOff
    /\ UNCHANGED diskVars

-----------------------------------------------------------------------------
(* The initrd. *)

StartSystem(d) ==
    /\ kind[d] = "system"
    /\ Start(d)
    /\ pc' = "initrd"
    /\ booted' = {d}
    /\ UNCHANGED <<diskVars, target, chosen, source, commands, disturbances, repart, prepare,
                   looked, opened, guard, step, failed>>

\* mutant: the key is the same in each boot
DiskKeyKept == 1

\* generate-disk-key: from /dev/urandom, into the memory of the initrd.
DiskKey == boots

\* find-boot-disk follows dm-verity to the disk of the store; systemd-repart
\* resets the build partition there.
Repart(d) ==
    /\ pc = "initrd"
    /\ repart = "waits"
    /\ d \in booted
    /\ build' = [build EXCEPT ![d] = [key |-> DiskKey, data |-> {}]]
    /\ repart' = "ran"
    /\ UNCHANGED <<kind, esp, stored, asked, kept, bootVars, commands, disturbances, booted,
                   prepare, looked, opened, guard, step, failed>>

\* It fails before it has touched the partition: the units after it go on.
RepartFails ==
    /\ pc = "initrd"
    /\ repart = "waits"
    /\ Disturb
    /\ repart' = "failed"
    /\ UNCHANGED <<diskVars, bootVars, commands, booted, prepare, looked, opened, guard, step,
                   failed>>

\* systemd-cryptsetup opens what has the label var-lib-build with the key of this
\* boot.  With another key it asks for a passphrase.
OpenBuild(d) ==
    /\ pc = "initrd"
    /\ repart # "waits"
    /\ opened = {}
    /\ d \in Visible("system")
    /\ build[d].key = DiskKey
    /\ opened' = {d}
    /\ UNCHANGED <<diskVars, bootVars, commands, disturbances, booted, repart, prepare, looked,
                   guard, step, failed>>

\* by-label/artifacts exists: nothing to do.
StorageFound ==
    /\ pc = "initrd"
    /\ prepare = "waits"
    /\ Visible("storage") # {}
    /\ prepare' = "ready"
    /\ looked' = Seen
    /\ UNCHANGED <<diskVars, bootVars, commands, disturbances, booted, repart, opened, guard,
                   step, failed>>

\* mutant: a configured device is formatted in each boot
NoStorageIgnored == TRUE

NoStorage == Visible("storage") = {}

\* The device to format: that of /boot/storage_target, or one from a menu.
StorageTarget ==
    /\ pc = "initrd"
    /\ prepare = "waits"
    /\ NoStorage
    /\ \E c \in Visible("system") :
          LET v == esp[c]["outer"]["storage_target"] IN
             \/ v # Unset /\ target' = v /\ chosen' = FALSE
             \/ v = Unset /\ chosen' = TRUE /\ \E d \in Menu("system") : target' = name[d]
    /\ looked' = Seen
    /\ prepare' = "format"
    /\ UNCHANGED <<diskVars, name, boots, pc, source, commands, disturbances, booted, repart,
                   opened, guard, step, failed>>

\* mkfs.ext4 refuses a device in use.
InUse == booted \cup opened

Format(d) ==
    /\ pc = "initrd"
    /\ prepare = "format"
    /\ name[d] = target
    /\ d \notin InUse
    /\ kind' = [kind EXCEPT ![d] = "storage"]
    /\ esp' = [esp EXCEPT ![d] = NoEsps]
    /\ build' = [build EXCEPT ![d] = NoBuild]
    /\ stored' = [stored EXCEPT ![d] = {}]
    /\ asked' = [asked EXCEPT ![d] = NothingAsked]
    /\ kept' = [kept EXCEPT ![d] = NothingAsked]
    /\ prepare' = "ready"
    /\ UNCHANGED <<bootVars, commands, disturbances, booted, repart, looked, opened, guard, step,
                   failed>>

\* No disk for the menu, no such device, or mkfs refuses it or is told to, when
\* it finds something on it.
StorageFails ==
    /\ pc = "initrd"
    /\ \/ prepare = "waits" /\ NoStorage /\ Menu("system") = {}
             /\ \E c \in Visible("system") : esp[c]["outer"]["storage_target"] = Unset
       \/ prepare = "format"
    /\ pc' = "error"
    /\ UNCHANGED <<diskVars, name, boots, target, chosen, source, commands, disturbances, runVars>>

SwitchRoot ==
    /\ pc = "initrd"
    /\ opened # {}
    /\ prepare = "ready"
    /\ pc' = "up"
    /\ UNCHANGED <<diskVars, name, boots, target, chosen, source, commands, disturbances, runVars>>

-----------------------------------------------------------------------------
(* USBGuard and unattended.sh *)

\* A service of stage 2 that nothing waits for: it comes up at any time, and may die
\* and be restarted.
UsbGuard ==
    /\ pc = "up"
    /\ guard # "off"
    /\ guard' \in {"down", "on"} \ {guard}
    /\ UNCHANGED <<diskVars, bootVars, commands, disturbances, booted, repart, prepare, looked,
                   opened, step, failed>>

\* The next step is run whatever became of this one: script exits with 0.
Goes(s) == pc = "up" /\ Steps[step] = s
NextStep == step' = step + 1

Build(d) ==
    /\ Goes("build")
    /\ d \in opened
    /\ build' = [build EXCEPT ![d].data = @ \cup {boots}]
    /\ NextStep
    /\ UNCHANGED <<kind, esp, stored, asked, kept, bootVars, commands, disturbances, booted, repart,
                   prepare, looked, opened, guard, failed>>

\* copy-android-outputs makes a new directory in the storage.
Stored(t, outputs) == stored[t] \cup {[run |-> boots, from |-> outputs]}

CopyOutputs(d, t) ==
    /\ Goes("copy")
    /\ d \in opened
    /\ t \in Visible("storage")
    /\ stored' = [stored EXCEPT ![t] = Stored(t, build[d].data)]
    /\ NextStep
    /\ UNCHANGED <<kind, esp, build, asked, kept, bootVars, commands, disturbances, booted, repart,
                   prepare, looked, opened, guard, failed>>

\* lock-var-lib-build: unmounted, closed, and the key slot destroyed.
Lock(d) ==
    /\ Goes("lock")
    /\ d \in opened
    /\ opened' = {}
    /\ build' = [build EXCEPT ![d].key = 0]
    /\ NextStep
    /\ UNCHANGED <<kind, esp, stored, asked, kept, bootVars, commands, disturbances, booted, repart,
                   prepare, looked, guard, failed>>

\* systemctl stop usbguard, then all devices are authorized.
DisableUsbGuard ==
    /\ Goes("usb")
    /\ guard' = "off"
    /\ NextStep
    /\ UNCHANGED <<diskVars, bootVars, commands, disturbances, booted, repart, prepare, looked,
                   opened, failed>>

\* A step fails; a build or a copy may have done part of its work, the lock may have
\* closed the partition without destroying the slot, and USBGuard may be stopped.
StepFails ==
    /\ Disturb
    /\ pc = "up" /\ Steps[step] # "shell"
    /\ \/ /\ Goes("build")
          /\ \E o \in opened : build' = [build EXCEPT ![o].data = @ \cup {boots}]
          /\ UNCHANGED <<stored, opened, guard>>
       \/ /\ Goes("copy")
          /\ \E o \in opened, t \in Visible("storage") : \E part \in SUBSET build[o].data :
                stored' = [stored EXCEPT ![t] = Stored(t, part)]
          /\ UNCHANGED <<build, opened, guard>>
       \/ Goes("lock") /\ opened' = {} /\ UNCHANGED <<build, stored, guard>>
       \/ Goes("usb") /\ guard' = "off" /\ UNCHANGED <<build, stored, opened>>
       \/ UNCHANGED <<build, stored, opened, guard>>
    /\ failed' = failed \cup {Steps[step]}
    /\ NextStep
    /\ UNCHANGED <<kind, esp, asked, kept, bootVars, commands, booted, repart, prepare, looked>>

\* start-shell-and-shutdown, or the power-off after the last step.
Poweroff ==
    /\ Goes("shell")
    /\ TurnOff
    /\ UNCHANGED <<diskVars, disturbances>>

RunStep ==
    \/ StorageFound
    \/ StorageTarget
    \/ StorageFails
    \/ SwitchRoot
    \/ RepartFails
    \/ UsbGuard
    \/ DisableUsbGuard
    \/ Poweroff
    \/ Shutdown
    \/ PowerCut
    \/ StepFails
    \/ \E d \in Disks :
          \/ StartSystem(d) \/ Repart(d) \/ OpenBuild(d) \/ Format(d)
          \/ Build(d) \/ Lock(d)
          \/ \E t \in Disks : CopyOutputs(d, t)

Next ==
    \/ (ToolStep \/ InstallerStep \/ \E d \in Disks : Appear(d)) /\ UNCHANGED runVars
    \/ RunStep

Spec == Init /\ [][Next]_vars

-----------------------------------------------------------------------------
\* docs.md: "no trace of build inputs or artifacts should remain after a build".
\* What is in the partition a boot has open is of this boot, although the partition
\* is found by a label that other disks may carry, repart may fail, and an
\* earlier boot may have ended anywhere.
BuildIsEphemeral == \A d \in opened : build[d].data \subseteq {boots}

\* docs.md: "or to introduce impurities between different builds".  A directory of
\* the artifact storage holds the outputs of one boot, also when steps
\* before copy-android-outputs have failed.
ArtifactsOfOneBoot ==
    \A d \in Disks : \A s \in stored[d] : s.from \subseteq {s.run}

\* The boots of the machine are ephemeral builds: what is in reach is what is in
\* the open partition, and the archive is the directories on all disks.  A boot
\* opens its partition empty, what it hands over is filed under this boot
\* (BuildIsEphemeral and ArtifactsOfOneBoot follow), and no disk is overwritten
\* once there is something to hand over (image.nix, copy-android-outputs).
Work == UNION {build[d].data : d \in opened}
Archive == UNION {stored[d] : d \in Disks}
Ephemeral == INSTANCE EphemeralBuilds WITH run <- boots, work <- Work, archive <- Archive
ImplementsEphemeral == Ephemeral!Spec

\* Artifacts are lost to a boot of the machine only when their disk came up after
\* the script had looked for the label, however names change between boots
\* and whatever is configured (artifact-storage.sh).
ArtifactsKept == [][\A d \in looked : stored[d] \subseteq stored'[d]]_vars

\* What the operator said with set-storage is what a machine does, through the
\* installer and the boots: with the labels of one payload in the machine, the
\* device that is formatted is the configured one, or one chosen in the menu; where an
\* mdel has failed unnoticed it is still the one that was to be removed.
StorageAsAsked ==
    prepare = "format" =>
       \A d \in booted : Visible("system") = {d} /\ asked[d]["storage_target"] # {}
          => (IF chosen THEN Unset ELSE target) \in Expected(d, "storage_target")

\* The steps switch USBGuard off, also by a disable-usb-guard that fails half way, while
\* a build partition is open only when lock-var-lib-build has failed (unattended.sh goes
\* on).  That USBGuard was ever up before is not promised.
GuardedUntilLocked == guard = "off" /\ opened # {} => "lock" \in failed
=============================================================================
