------------------------------ MODULE Installer ------------------------------
(***************************************************************************)
(* The settings that configure-disk-image writes on an image and the disk  *)
(* installer that reads them.  Disks keep what is on them; the names under *)
(* which a machine sees them are given anew in each boot, and a setting is *)
(* a name.  The partitions of an image are found by their labels, so with  *)
(* two disks of the same kind any of them may be the one that is found.    *)
(***************************************************************************)
EXTENDS Naturals

CONSTANTS
    Disks,              \* of the machine and of the operator
    Names,              \* device names such as /dev/sda
    Servers,            \* attestation servers
    Unset,              \* no setting: the user is asked, no server
    Unseen,             \* the name of a disk that is not (yet) there
    MaxBoots, MaxCommands, MaxDisturbances

ASSUME NamesAssumption ==
    /\ Unset \notin Names \cup Servers
    /\ Unseen \notin Names \cup Servers \cup {Unset}
ASSUME LimitsAssumption ==
    MaxBoots \in Nat /\ MaxCommands \in Nat /\ MaxDisturbances \in Nat

VARIABLES
    kind,               \* what each disk is
    esp,                \* the files of its EFI system partitions
    build,              \* its build partition: the boot whose key opens it, and
                        \* the boots whose build data is in it
    stored,             \* the directories of an artifact storage
    name,               \* the device names of this boot
    boots,              \* the number of this boot
    pc,                 \* where installer or machine are
    target,             \* the device the installer or mkfs is to overwrite
    chosen,             \* it was chosen in a menu
    source,             \* the disk the installer copies from, {} or one
    asked,              \* history: per disk and file, the last setting that
                        \* the tool reported written, {} or one
    kept,               \* history: the setting that a failing mdel has left in
                        \* its place, unnoticed, {} or one
    commands, disturbances

diskVars == <<kind, esp, build, stored, asked, kept>>
bootVars == <<name, boots, pc, target, chosen, source>>

Kinds == {"other", "installer", "partial", "system", "storage"}
Images == {"installer", "system"}
Esps == {"outer", "nested"}
Files == {"install_target", "storage_target", "attestation-server.json"}
Values == Names \cup Servers \cup {Unset}
Settings(f) == {Unset} \cup IF f = "attestation-server.json" THEN Servers ELSE Names

NoFiles == [f \in Files |-> Unset]
NoEsps == [e \in Esps |-> NoFiles]
NoBuild == [key |-> 0, data |-> {}]
NothingAsked == [f \in Files |-> {}]

InstallerTypeOK ==
    /\ kind \in [Disks -> Kinds]
    /\ esp \in [Disks -> [Esps -> [Files -> Values]]]
    /\ build \in [Disks -> [key : Nat, data : SUBSET Nat]]
    /\ stored \in [Disks -> SUBSET [run : Nat, from : SUBSET Nat]]
    /\ asked \in [Disks -> [Files -> SUBSET Values]]
    /\ kept \in [Disks -> [Files -> SUBSET Values]]
    /\ name \in [Disks -> Names \cup {Unseen}]
    /\ boots \in Nat
    /\ target \in Values
    /\ chosen \in BOOLEAN
    /\ source \subseteq Disks
    /\ commands \in Nat
    /\ disturbances \in 0..MaxDisturbances

\* Some disks have been flashed with an image.
InstallerInit ==
    /\ kind \in [Disks -> Images \cup {"other"}]
    /\ esp = [d \in Disks |-> NoEsps]
    /\ build = [d \in Disks |-> NoBuild]
    /\ stored = [d \in Disks |-> {}]
    /\ asked = [d \in Disks |-> NothingAsked]
    /\ kept = [d \in Disks |-> NothingAsked]
    /\ name = [d \in Disks |-> Unseen]
    /\ boots = 0
    /\ pc = "off"
    /\ target = Unset
    /\ chosen = FALSE
    /\ source = {}
    /\ commands = 0
    /\ disturbances = 0

Disturb ==
    /\ disturbances < MaxDisturbances
    /\ disturbances' = disturbances + 1

-----------------------------------------------------------------------------
(* configure-disk-image set-target, set-storage, set-attestation-server. *)

PayloadEsp(d) == IF kind[d] = "installer" THEN "nested" ELSE "outer"

\* mutant: the settings of the payload are written beside the installer's
EspForOuter(d, f) == "outer"

\* The ESP a setting is written to.
EspFor(d, f) == IF f = "install_target" THEN "outer" ELSE PayloadEsp(d)

Command(d) ==
    /\ pc = "off"
    /\ kind[d] \in Images
    /\ UNCHANGED <<kind, build, stored, bootVars>>

\* MaxCommands bounds the commands, but for an mdel that fails, which Disturb bounds.
Counted ==
    /\ commands < MaxCommands
    /\ commands' = commands + 1

Set(d, f, v) ==
    /\ Command(d)
    /\ Counted
    /\ f = "attestation-server.json" => v # Unset
    /\ esp' = [esp EXCEPT ![d][EspFor(d, f)][f] = v]
    /\ asked' = [asked EXCEPT ![d][f] = {v}]
    /\ kept' = [kept EXCEPT ![d][f] = {}]
    /\ UNCHANGED disturbances

\* mcopy fails: the old file is there, or gone, and the command reports an error.
SetFails(d, f) ==
    /\ Command(d)
    /\ Counted
    /\ Disturb
    /\ \/ UNCHANGED esp
       \/ esp' = [esp EXCEPT ![d][EspFor(d, f)][f] = Unset]
    /\ asked' = [asked EXCEPT ![d][f] = {}]
    /\ kept' = [kept EXCEPT ![d][f] = {}]

\* set-storage select: mdel fails to remove storage_target, and the command reports
\* that the menu is configured.  (If there is none, it does what Set does.)
DeleteFails(d) ==
    LET f == "storage_target" IN
    /\ Command(d)
    /\ Disturb
    /\ esp[d][EspFor(d, f)][f] # Unset
    /\ asked' = [asked EXCEPT ![d][f] = {Unset}]
    /\ kept' = [kept EXCEPT ![d][f] = {esp[d][EspFor(d, f)][f]}]
    /\ UNCHANGED <<esp, commands>>

\* What status shows of a setting: for an installer, storage_target is read
\* from the installer's ESP.
Shown(d, f) ==
    IF f = "attestation-server.json" THEN esp[d][PayloadEsp(d)][f] ELSE esp[d]["outer"][f]

-----------------------------------------------------------------------------
(* The names of a boot. *)

Seen == {d \in Disks : name[d] # Unseen}

\* The disks whose partitions carry the labels of an image; those of a payload
\* are there before it is complete.
Visible(k) == {d \in Seen : kind[d] = k \/ (k = "system" /\ kind[d] = "partial")}

\* The disks that are there when the machine is switched on, under any names.
Namings ==
    {n \in [Disks -> Names \cup {Unseen}] :
        \A d, e \in Disks : n[d] = n[e] /\ n[d] # Unseen => d = e}

\* The firmware boots a disk.
Start(d) ==
    /\ pc = "off"
    /\ boots < MaxBoots
    /\ boots' = boots + 1
    /\ name' \in Namings
    /\ name'[d] # Unseen

\* A disk that is slow to come up, or is plugged in.
Appear(d) ==
    /\ Disturb
    /\ pc # "off"
    /\ name[d] = Unseen
    /\ \E n \in Names \ {name[e] : e \in Disks} : name' = [name EXCEPT ![d] = n]
    /\ UNCHANGED <<diskVars, boots, pc, target, chosen, source, commands>>

-----------------------------------------------------------------------------
(* run.sh in the initrd of the installer. *)

StartInstaller(d) ==
    /\ kind[d] = "installer"
    /\ Start(d)
    /\ pc' = "choose"
    /\ UNCHANGED <<diskVars, target, chosen, source, commands, disturbances>>

\* /boot/install_target names a device, which must be there.
ConfiguredTarget ==
    /\ pc = "choose"
    /\ \E c \in Visible("installer") :
          /\ target' = esp[c]["outer"]["install_target"]
          /\ target' # Unset
    /\ chosen' = FALSE
    /\ pc' = IF \E d \in Seen : name[d] = target' THEN "confirm" ELSE "error"
    /\ UNCHANGED <<diskVars, name, boots, source, commands, disturbances>>

\* mutant: the menu shows all disks
MenuAll(k) == Seen

\* mutant: the menu shows the disks that were seen in earlier boots
MenuUnseen(k) == Disks

\* The disks a menu offers: all but the one found by the label of a disk of
\* this kind.
Menu(k) == UNION {Seen \ {own} : own \in Visible(k)}

MenuTarget ==
    /\ pc = "choose"
    /\ \E c \in Visible("installer") : esp[c]["outer"]["install_target"] = Unset
    /\ \E d \in Menu("installer") : target' = name[d]
    /\ chosen' = TRUE
    /\ pc' = "confirm"
    /\ UNCHANGED <<diskVars, name, boots, source, commands, disturbances>>

NoDiskToInstall ==
    /\ pc = "choose"
    /\ Menu("installer") = {}
    /\ \E c \in Visible("installer") : esp[c]["outer"]["install_target"] = Unset
    /\ pc' = "error"
    /\ UNCHANGED <<diskVars, name, boots, target, chosen, source, commands, disturbances>>

\* The user cancels, or the disk is too small.
InstallRefused ==
    /\ pc = "confirm"
    /\ pc' = "error"
    /\ UNCHANGED <<diskVars, name, boots, target, chosen, source, commands, disturbances>>

\* mutant: the payload of the medium that was booted keeps its own settings
CarriedNone(s) == NoEsps

\* The payload's ESP comes along with the payload.
Carried(s) == [NoEsps EXCEPT !["outer"] = esp[s]["nested"]]

\* ddrescue starts to overwrite the target with the payload.
StartCopy(s, d) ==
    /\ pc = "confirm"
    /\ s \in Visible("installer")
    /\ name[d] = target
    /\ kind' = [kind EXCEPT ![d] = "partial"]
    /\ esp' = [esp EXCEPT ![d] = Carried(s)]
    /\ asked' = [asked EXCEPT ![d] = [asked[s] EXCEPT !["install_target"] = {}]]
    /\ kept' = [kept EXCEPT ![d] = [kept[s] EXCEPT !["install_target"] = {}]]
    /\ build' = [build EXCEPT ![d] = NoBuild]
    /\ stored' = [stored EXCEPT ![d] = {}]
    /\ source' = {s}
    /\ pc' = "copying"
    /\ UNCHANGED <<name, boots, target, chosen, commands, disturbances>>

FinishCopy(d) ==
    /\ pc = "copying"
    /\ name[d] = target
    /\ kind' = [kind EXCEPT ![d] = "system"]
    /\ pc' = "done"
    /\ UNCHANGED <<esp, build, stored, asked, kept, name, boots, target, chosen, source, commands,
                   disturbances>>

\* ddrescue fails on the way, or sgdisk after it.
CopyFails(d) ==
    /\ Disturb
    /\ pc = "copying"
    /\ name[d] = target
    /\ \E k \in {"partial", "system"} : kind' = [kind EXCEPT ![d] = k]
    /\ pc' = "error"
    /\ UNCHANGED <<esp, build, stored, asked, kept, name, boots, target, chosen, source,
                   commands>>

ToolStep ==
    \E d \in Disks :
       \/ \E f \in Files : SetFails(d, f) \/ \E v \in Settings(f) : Set(d, f, v)
       \/ DeleteFails(d)

InstallerStep ==
    \/ ConfiguredTarget
    \/ MenuTarget
    \/ NoDiskToInstall
    \/ InstallRefused
    \/ \E s, d \in Disks : StartCopy(s, d)
    \/ \E d \in Disks : StartInstaller(d) \/ FinishCopy(d) \/ CopyFails(d)

-----------------------------------------------------------------------------
\* The ESP that is /boot where a setting is read: the installer's for
\* install_target, the payload's for the others.
ReadFrom(d, f) == IF kind[d] = "installer" /\ f # "install_target" THEN "nested" ELSE "outer"

\* The setting to be found after the commands of the operator: the last one reported
\* written, or the one an mdel was to remove that failed.
Expected(d, f) == IF kept[d][f] # {} THEN kept[d][f] ELSE asked[d][f]

\* What the tool reported written is what its reader finds, in the image and on
\* every disk the payload was installed to, unless a later command reported a failure
\* or an unnoticed failure of mdel left the earlier storage_target; and it is what
\* status shows, but for the storage_target of an installer
\* (cmd_set_target, cmd_set_storage, cmd_set_attestation_server, run.sh, cmd_status).
SettingsArrive ==
    \A d \in Disks, f \in Files :
       asked[d][f] # {} =>
          /\ kind[d] \in Images \cup {"partial"} => esp[d][ReadFrom(d, f)][f] \in Expected(d, f)
          /\ kind[d] \in Images =>
                \/ Shown(d, f) \in Expected(d, f)
                \/ kind[d] = "installer" /\ f = "storage_target"

\* A disk chosen in the installer's menu is not the one being installed from,
\* unless a second installer is attached, whose label may be found instead
\* (select_disk with own_disk, and by-partlabel/payload).
SourceSpared ==
    pc = "copying" /\ chosen =>
       \A s \in source : name[s] # target \/ Visible("installer") \ {s} # {}
=============================================================================
