-------------------------- MODULE BuildMachineProofs --------------------------
(***************************************************************************)
(* The build partition is ephemeral, artifacts are kept and pure, and the  *)
(* settings of the operator reach the machine, for all disks and names and *)
(* any number of boots.                                                    *)
(***************************************************************************)
EXTENDS BuildMachine, TLAPS

\* Without a payload running, its state is that of a machine switched off.
Phases ==
    /\ pc \in {"off", "choose", "confirm", "copying", "done"} => RunInit
    /\ pc \in {"initrd", "up"} => boots > 0
    /\ pc # "up" => step = 1 /\ guard = "down" /\ failed = {}

\* Keys are made in order: only this boot has the key of its number, and a
\* partition with this key has been reset in this boot.
Keys ==
    /\ \A d \in Disks : build[d].key <= boots
    /\ boots > 0 => \A d \in Disks : build[d].key = boots => build[d].data \subseteq {boots}
    /\ \A d \in opened : build[d].key = boots /\ boots > 0

Artifacts ==
    /\ ArtifactsOfOneBoot
    /\ \A d \in Disks : stored[d] # {} => kind[d] = "storage"

\* The guard is switched off in the fourth step, after the lock.
Guards ==
    /\ step <= 4 => guard # "off"
    /\ step > 3 /\ opened # {} => "lock" \in failed

\* A name is that of one disk, and the disk of this boot has one.
Naming ==
    /\ \A d, e \in Disks : name[d] = name[e] /\ name[d] # Unseen => d = e
    /\ \A d \in booted : name[d] # Unseen /\ kind[d] = "system"

\* A menu of the installer leaves out an installer.
Menus ==
    /\ pc = "confirm" /\ chosen => \E own \in Visible("installer") : name[own] # target
    /\ pc = "copying" => source \subseteq Seen
    /\ pc = "copying" => \A d \in Disks : name[d] = target => kind[d] = "partial"
    /\ pc = "copying" => \E d \in Seen : name[d] = target
    /\ SourceSpared

\* Each setting is, where it is read, the one reported, or the one mdel has left.
Reads ==
    \A d \in Disks, f \in Files : kind[d] \in Images \cup {"partial"} /\ asked[d][f] # {}
       => esp[d][ReadFrom(d, f)][f] \in Expected(d, f)

Formats ==
    /\ prepare = "format" => \A d \in looked : kind[d] # "storage"
    /\ StorageAsAsked

\* The conjuncts of TypeOK, in groups.
SettingsTypes ==
    /\ esp \in [Disks -> [Esps -> [Files -> Values]]]
    /\ asked \in [Disks -> [Files -> SUBSET Values]]
    /\ kept \in [Disks -> [Files -> SUBSET Values]]
DiskTypes ==
    kind \in [Disks -> Kinds] /\ stored \in [Disks -> SUBSET [run : Nat, from : SUBSET Nat]]
BuildTypes == build \in [Disks -> [key : Nat, data : SUBSET Nat]]
BootTypes ==
    /\ name \in [Disks -> Names \cup {Unseen}] /\ boots \in Nat
    /\ target \in Values /\ chosen \in BOOLEAN /\ source \subseteq Disks
    /\ commands \in Nat /\ disturbances \in 0..MaxDisturbances
RunTypes ==
    /\ pc \in Points /\ booted \subseteq Disks /\ looked \subseteq Disks /\ opened \subseteq
        Disks
    /\ repart \in {"waits", "ran", "failed"} /\ prepare \in {"waits", "format", "ready"}
    /\ guard \in {"down", "on", "off"} /\ step \in 1..5
    /\ failed \subseteq {"build", "copy", "lock", "usb", "shell"}

IInv ==
    TypeOK /\ Phases /\ Keys /\ Artifacts /\ Guards /\ Naming /\ Menus /\ Formats
        /\ Reads

-----------------------------------------------------------------------------
LEMMA StepFacts ==
    /\ Len(Steps) = 5 /\ Steps[1] = "build" /\ Steps[2] = "copy" /\ Steps[3] = "lock"
    /\ Steps[4] = "usb" /\ Steps[5] = "shell"
BY DEF Steps

\* The phases of a boot.
LEMMA PhasesKept ==
    ASSUME TypeOK, Phases, [Next]_vars
    PROVE  Phases'
<1> USE DEF vars, diskVars, bootVars, runVars, TypeOK, InstallerTypeOK, Phases, RunInit
<1>1. ASSUME NEW d \in Disks, NEW f \in Files, NEW v \in Settings(f), Set(d, f, v), UNCHANGED
             runVars
      PROVE  Phases'
  BY <1>1 DEF Set, Command, Counted
<1>2. ASSUME NEW d \in Disks, NEW f \in Files, SetFails(d, f), UNCHANGED runVars PROVE Phases'
  BY <1>2 DEF SetFails, Command, Counted, Disturb
<1>3. ASSUME NEW s \in Disks, NEW d \in Disks, StartCopy(s, d), UNCHANGED runVars PROVE Phases'
  BY <1>3 DEF StartCopy
<1>4. ASSUME NEW d \in Disks, NEW t \in Disks, CopyOutputs(d, t) PROVE Phases'
  BY <1>4 DEF CopyOutputs, Goes, NextStep, Stored
<1>5. ASSUME NEW d \in Disks, StartInstaller(d), UNCHANGED runVars PROVE Phases'
  BY <1>5 DEF StartInstaller, Start
<1>6. ASSUME NEW d \in Disks, FinishCopy(d), UNCHANGED runVars PROVE Phases'
  BY <1>6 DEF FinishCopy
<1>7. ASSUME NEW d \in Disks, CopyFails(d), UNCHANGED runVars PROVE Phases'
  BY <1>7 DEF CopyFails, Disturb
<1>8. ASSUME NEW d \in Disks, StartSystem(d) PROVE Phases'
  BY <1>8 DEF StartSystem, Start
<1>9. ASSUME NEW d \in Disks, Repart(d) PROVE Phases'
  BY <1>9 DEF Repart, DiskKey
<1>10. ASSUME NEW d \in Disks, OpenBuild(d) PROVE Phases'
  BY <1>10 DEF OpenBuild, DiskKey
<1>11. ASSUME NEW d \in Disks, Format(d) PROVE Phases'
  BY <1>11 DEF Format, InUse
<1>12. ASSUME NEW d \in Disks, Build(d) PROVE Phases'
  BY <1>12 DEF Build, Goes, NextStep
<1>13. ASSUME NEW d \in Disks, Lock(d) PROVE Phases'
  BY <1>13 DEF Lock, Goes, NextStep
<1>14. CASE StepFails
  BY <1>14 DEF StepFails, Disturb, NextStep, Goes
<1>15. ASSUME NEW d \in Disks, Appear(d), UNCHANGED runVars PROVE Phases'
  BY <1>15 DEF Appear, Disturb
<1>16. CASE ConfiguredTarget /\ UNCHANGED runVars
  BY <1>16 DEF ConfiguredTarget
<1>17. CASE MenuTarget /\ UNCHANGED runVars
  BY <1>17 DEF MenuTarget
<1>18. CASE NoDiskToInstall /\ UNCHANGED runVars
  BY <1>18 DEF NoDiskToInstall
<1>19. CASE InstallRefused /\ UNCHANGED runVars
  BY <1>19 DEF InstallRefused
<1>20. CASE StorageFound
  BY <1>20 DEF StorageFound
<1>21. CASE StorageTarget
  BY <1>21 DEF StorageTarget, NoStorage
<1>22. CASE StorageFails
  BY <1>22 DEF StorageFails, NoStorage
<1>23. CASE SwitchRoot
  BY <1>23 DEF SwitchRoot
<1>24. CASE RepartFails
  BY <1>24 DEF RepartFails, Disturb
<1>25. CASE DisableUsbGuard
  BY <1>25 DEF DisableUsbGuard, Goes, NextStep
<1>26. CASE Poweroff
  BY <1>26 DEF Poweroff, Goes, TurnOff
<1>27. CASE Shutdown
  BY <1>27 DEF Shutdown, TurnOff
<1>28. CASE PowerCut
  BY <1>28 DEF PowerCut, Disturb, TurnOff
<1>29. CASE UNCHANGED vars
  BY <1>29
<1>30. ASSUME NEW d \in Disks, DeleteFails(d), UNCHANGED runVars PROVE Phases'
  BY <1>30 DEF DeleteFails, Command, Disturb
<1>31. CASE UsbGuard
  BY <1>31 DEF UsbGuard
<1> HIDE DEF diskVars, bootVars, runVars, TypeOK, InstallerTypeOK, Phases, RunInit
<1> QED
  BY <1>1, <1>2, <1>3, <1>4, <1>5, <1>6, <1>7, <1>8, <1>9, <1>10, <1>11, <1>12, <1>13, <1>14,
      <1>15, <1>16, <1>17, <1>18, <1>19, <1>20, <1>21, <1>22, <1>23, <1>24, <1>25, <1>26,
      <1>27, <1>28, <1>29, <1>30, <1>31 DEF Next, ToolStep, InstallerStep, RunStep

\* What the keys of the build partitions open.
LEMMA KeysKept ==
    ASSUME TypeOK, Phases, Keys, [Next]_vars
    PROVE  Keys'
<1> USE DEF vars, diskVars, bootVars, runVars, TypeOK, InstallerTypeOK, Phases, RunInit, Keys,
        NoBuild
<1>1. ASSUME NEW d \in Disks, NEW f \in Files, NEW v \in Settings(f), Set(d, f, v), UNCHANGED
             runVars
      PROVE  Keys'
  BY <1>1 DEF Set, Command, Counted
<1>2. ASSUME NEW d \in Disks, NEW f \in Files, SetFails(d, f), UNCHANGED runVars PROVE Keys'
  BY <1>2 DEF SetFails, Command, Counted, Disturb
<1>3. ASSUME NEW s \in Disks, NEW d \in Disks, StartCopy(s, d), UNCHANGED runVars PROVE Keys'
  BY <1>3 DEF StartCopy
<1>4. ASSUME NEW d \in Disks, NEW t \in Disks, CopyOutputs(d, t) PROVE Keys'
  BY <1>4 DEF CopyOutputs, Goes, NextStep, Stored
<1>5. ASSUME NEW d \in Disks, StartInstaller(d), UNCHANGED runVars PROVE Keys'
  BY <1>5 DEF StartInstaller, Start
<1>6. ASSUME NEW d \in Disks, FinishCopy(d), UNCHANGED runVars PROVE Keys'
  BY <1>6 DEF FinishCopy
<1>7. ASSUME NEW d \in Disks, CopyFails(d), UNCHANGED runVars PROVE Keys'
  BY <1>7 DEF CopyFails, Disturb
<1>8. ASSUME NEW d \in Disks, StartSystem(d) PROVE Keys'
  BY <1>8 DEF StartSystem, Start
<1>9. ASSUME NEW d \in Disks, Repart(d) PROVE Keys'
  BY <1>9 DEF Repart, DiskKey
<1>10. ASSUME NEW d \in Disks, OpenBuild(d) PROVE Keys'
  BY <1>10 DEF OpenBuild, DiskKey
<1>11. ASSUME NEW d \in Disks, Format(d) PROVE Keys'
  BY <1>11 DEF Format, InUse
<1>12. ASSUME NEW d \in Disks, Build(d) PROVE Keys'
  BY <1>12 DEF Build, Goes, NextStep
<1>13. ASSUME NEW d \in Disks, Lock(d) PROVE Keys'
  BY <1>13 DEF Lock, Goes, NextStep
<1>14. CASE StepFails
  <2>1. /\ boots' = boots /\ opened' \subseteq opened
        /\ \/ build' = build
           \/ \E o \in opened : build' = [build EXCEPT ![o].data = @ \cup {boots}]
    BY <1>14 DEF StepFails, Goes
  <2>2. CASE build' = build
    BY <2>1, <2>2
  <2>3. ASSUME NEW o \in opened, build' = [build EXCEPT ![o].data = @ \cup {boots}] PROVE Keys'
    BY <2>1, <2>3
  <2> QED BY <2>1, <2>2, <2>3
<1>15. ASSUME NEW d \in Disks, Appear(d), UNCHANGED runVars PROVE Keys'
  BY <1>15 DEF Appear, Disturb
<1>16. CASE ConfiguredTarget /\ UNCHANGED runVars
  BY <1>16 DEF ConfiguredTarget
<1>17. CASE MenuTarget /\ UNCHANGED runVars
  BY <1>17 DEF MenuTarget
<1>18. CASE NoDiskToInstall /\ UNCHANGED runVars
  BY <1>18 DEF NoDiskToInstall
<1>19. CASE InstallRefused /\ UNCHANGED runVars
  BY <1>19 DEF InstallRefused
<1>20. CASE StorageFound
  BY <1>20 DEF StorageFound
<1>21. CASE StorageTarget
  BY <1>21 DEF StorageTarget, NoStorage
<1>22. CASE StorageFails
  BY <1>22 DEF StorageFails, NoStorage
<1>23. CASE SwitchRoot
  BY <1>23 DEF SwitchRoot
<1>24. CASE RepartFails
  BY <1>24 DEF RepartFails, Disturb
<1>25. CASE DisableUsbGuard
  BY <1>25 DEF DisableUsbGuard, Goes, NextStep
<1>26. CASE Poweroff
  BY <1>26 DEF Poweroff, Goes, TurnOff
<1>27. CASE Shutdown
  BY <1>27 DEF Shutdown, TurnOff
<1>28. CASE PowerCut
  BY <1>28 DEF PowerCut, Disturb, TurnOff
<1>29. CASE UNCHANGED vars
  BY <1>29
<1>30. ASSUME NEW d \in Disks, DeleteFails(d), UNCHANGED runVars PROVE Keys'
  BY <1>30 DEF DeleteFails, Command, Disturb
<1>31. CASE UsbGuard
  BY <1>31 DEF UsbGuard
<1> HIDE DEF diskVars, bootVars, runVars, TypeOK, InstallerTypeOK, Phases, RunInit, Keys,
         NoBuild
<1> QED
  BY <1>1, <1>2, <1>3, <1>4, <1>5, <1>6, <1>7, <1>8, <1>9, <1>10, <1>11, <1>12, <1>13, <1>14,
      <1>15, <1>16, <1>17, <1>18, <1>19, <1>20, <1>21, <1>22, <1>23, <1>24, <1>25, <1>26,
      <1>27, <1>28, <1>29, <1>30, <1>31 DEF Next, ToolStep, InstallerStep, RunStep

\* Where artifacts come from.
LEMMA ArtifactsPure ==
    ASSUME TypeOK, Phases, Keys, Menus, Artifacts, [Next]_vars
    PROVE  Artifacts'
<1> USE DEF vars, diskVars, bootVars, runVars, TypeOK, InstallerTypeOK, Keys, Artifacts,
        ArtifactsOfOneBoot, Visible, Seen, Menus
<1>1. ASSUME NEW d \in Disks, NEW f \in Files, NEW v \in Settings(f), Set(d, f, v), UNCHANGED
             runVars
      PROVE  Artifacts'
  BY <1>1 DEF Set, Command, Counted
<1>2. ASSUME NEW d \in Disks, NEW f \in Files, SetFails(d, f), UNCHANGED runVars
      PROVE  Artifacts'
  BY <1>2 DEF SetFails, Command, Counted, Disturb
<1>3. ASSUME NEW s \in Disks, NEW d \in Disks, StartCopy(s, d), UNCHANGED runVars
      PROVE  Artifacts'
  BY <1>3 DEF StartCopy
<1>4. ASSUME NEW d \in Disks, NEW t \in Disks, CopyOutputs(d, t) PROVE Artifacts'
  BY <1>4 DEF CopyOutputs, Goes, NextStep, Stored
<1>5. ASSUME NEW d \in Disks, StartInstaller(d), UNCHANGED runVars PROVE Artifacts'
  BY <1>5 DEF StartInstaller, Start
<1>6. ASSUME NEW d \in Disks, FinishCopy(d), UNCHANGED runVars PROVE Artifacts'
  BY <1>6 DEF FinishCopy
<1>7. ASSUME NEW d \in Disks, CopyFails(d), UNCHANGED runVars PROVE Artifacts'
  BY <1>7 DEF CopyFails, Disturb
<1>8. ASSUME NEW d \in Disks, StartSystem(d) PROVE Artifacts'
  BY <1>8 DEF StartSystem, Start
<1>9. ASSUME NEW d \in Disks, Repart(d) PROVE Artifacts'
  BY <1>9 DEF Repart, DiskKey
<1>10. ASSUME NEW d \in Disks, OpenBuild(d) PROVE Artifacts'
  BY <1>10 DEF OpenBuild, DiskKey
<1>11. ASSUME NEW d \in Disks, Format(d) PROVE Artifacts'
  BY <1>11 DEF Format, InUse
<1>12. ASSUME NEW d \in Disks, Build(d) PROVE Artifacts'
  BY <1>12 DEF Build, Goes, NextStep
<1>13. ASSUME NEW d \in Disks, Lock(d) PROVE Artifacts'
  BY <1>13 DEF Lock, Goes, NextStep
<1>14. CASE StepFails
  <2>1. CASE stored' = stored
    BY <1>14, <2>1 DEF StepFails
  <2>2. CASE \E o \in opened, t \in Visible("storage") : \E part \in SUBSET build[o].data :
                stored' = [stored EXCEPT ![t] = Stored(t, part)]
    <3>1. PICK o \in opened, t \in Visible("storage") : \E part \in SUBSET build[o].data :
                stored' = [stored EXCEPT ![t] = Stored(t, part)]
      BY <2>2
    <3>2. PICK part \in SUBSET build[o].data : stored' = [stored EXCEPT ![t] = Stored(t, part)]
      BY <3>1
    <3>3. part \subseteq {boots} /\ kind' = kind /\ t \in Disks /\ kind[t] = "storage"
      BY <1>14, <3>2 DEF StepFails
    <3>4. \A e \in Disks : \A x \in stored'[e] : x \in stored[e] \/ x = [run |-> boots, from
          |-> part]
      BY <3>2 DEF Stored
    <3>5. \A e \in Disks : stored'[e] # {} => stored[e] # {} \/ e = t
      BY <3>2
    <3>6. ASSUME NEW e \in Disks, NEW x \in stored'[e] PROVE x.from \subseteq {x.run}
      <4>1. CASE x \in stored[e]
        BY <4>1
      <4>2. CASE x = [run |-> boots, from |-> part]
        BY <3>3, <4>2
      <4> QED BY <3>4, <4>1, <4>2
    <3> QED BY <3>3, <3>5, <3>6
  <2> QED BY <1>14, <2>1, <2>2 DEF StepFails
<1>15. ASSUME NEW d \in Disks, Appear(d), UNCHANGED runVars PROVE Artifacts'
  BY <1>15 DEF Appear, Disturb
<1>16. CASE ConfiguredTarget /\ UNCHANGED runVars
  BY <1>16 DEF ConfiguredTarget
<1>17. CASE MenuTarget /\ UNCHANGED runVars
  BY <1>17 DEF MenuTarget
<1>18. CASE NoDiskToInstall /\ UNCHANGED runVars
  BY <1>18 DEF NoDiskToInstall
<1>19. CASE InstallRefused /\ UNCHANGED runVars
  BY <1>19 DEF InstallRefused
<1>20. CASE StorageFound
  BY <1>20 DEF StorageFound
<1>21. CASE StorageTarget
  BY <1>21 DEF StorageTarget, NoStorage
<1>22. CASE StorageFails
  BY <1>22 DEF StorageFails, NoStorage
<1>23. CASE SwitchRoot
  BY <1>23 DEF SwitchRoot
<1>24. CASE RepartFails
  BY <1>24 DEF RepartFails, Disturb
<1>25. CASE DisableUsbGuard
  BY <1>25 DEF DisableUsbGuard, Goes, NextStep
<1>26. CASE Poweroff
  BY <1>26 DEF Poweroff, Goes, TurnOff
<1>27. CASE Shutdown
  BY <1>27 DEF Shutdown, TurnOff
<1>28. CASE PowerCut
  BY <1>28 DEF PowerCut, Disturb, TurnOff
<1>29. CASE UNCHANGED vars
  BY <1>29
<1>30. ASSUME NEW d \in Disks, DeleteFails(d), UNCHANGED runVars PROVE Artifacts'
  BY <1>30 DEF DeleteFails, Command, Disturb
<1>31. CASE UsbGuard
  BY <1>31 DEF UsbGuard
<1> HIDE DEF diskVars, bootVars, runVars, TypeOK, InstallerTypeOK, Keys, Artifacts,
         ArtifactsOfOneBoot, Visible, Seen, Menus
<1> QED
  BY <1>1, <1>2, <1>3, <1>4, <1>5, <1>6, <1>7, <1>8, <1>9, <1>10, <1>11, <1>12, <1>13, <1>14,
      <1>15, <1>16, <1>17, <1>18, <1>19, <1>20, <1>21, <1>22, <1>23, <1>24, <1>25, <1>26,
      <1>27, <1>28, <1>29, <1>30, <1>31 DEF Next, ToolStep, InstallerStep, RunStep

\* How the steps succeed each other.
LEMMA GuardsKept ==
    ASSUME TypeOK, Phases, Guards, [Next]_vars
    PROVE  Guards'
<1> USE StepFacts DEF vars, diskVars, bootVars, runVars, TypeOK, InstallerTypeOK, Phases,
        RunInit, Guards
<1>1. ASSUME NEW d \in Disks, NEW f \in Files, NEW v \in Settings(f), Set(d, f, v), UNCHANGED
             runVars
      PROVE  Guards'
  BY <1>1 DEF Set, Command, Counted
<1>2. ASSUME NEW d \in Disks, NEW f \in Files, SetFails(d, f), UNCHANGED runVars PROVE Guards'
  BY <1>2 DEF SetFails, Command, Counted, Disturb
<1>3. ASSUME NEW s \in Disks, NEW d \in Disks, StartCopy(s, d), UNCHANGED runVars PROVE Guards'
  BY <1>3 DEF StartCopy
<1>4. ASSUME NEW d \in Disks, NEW t \in Disks, CopyOutputs(d, t) PROVE Guards'
  BY <1>4 DEF CopyOutputs, Goes, NextStep, Stored
<1>5. ASSUME NEW d \in Disks, StartInstaller(d), UNCHANGED runVars PROVE Guards'
  BY <1>5 DEF StartInstaller, Start
<1>6. ASSUME NEW d \in Disks, FinishCopy(d), UNCHANGED runVars PROVE Guards'
  BY <1>6 DEF FinishCopy
<1>7. ASSUME NEW d \in Disks, CopyFails(d), UNCHANGED runVars PROVE Guards'
  BY <1>7 DEF CopyFails, Disturb
<1>8. ASSUME NEW d \in Disks, StartSystem(d) PROVE Guards'
  BY <1>8 DEF StartSystem, Start
<1>9. ASSUME NEW d \in Disks, Repart(d) PROVE Guards'
  BY <1>9 DEF Repart, DiskKey
<1>10. ASSUME NEW d \in Disks, OpenBuild(d) PROVE Guards'
  BY <1>10 DEF OpenBuild, DiskKey
<1>11. ASSUME NEW d \in Disks, Format(d) PROVE Guards'
  BY <1>11 DEF Format, InUse
<1>12. ASSUME NEW d \in Disks, Build(d) PROVE Guards'
  BY <1>12 DEF Build, Goes, NextStep
<1>13. ASSUME NEW d \in Disks, Lock(d) PROVE Guards'
  BY <1>13 DEF Lock, Goes, NextStep
<1>14. CASE StepFails
  BY <1>14 DEF StepFails, Disturb, NextStep, Goes
<1>15. ASSUME NEW d \in Disks, Appear(d), UNCHANGED runVars PROVE Guards'
  BY <1>15 DEF Appear, Disturb
<1>16. CASE ConfiguredTarget /\ UNCHANGED runVars
  BY <1>16 DEF ConfiguredTarget
<1>17. CASE MenuTarget /\ UNCHANGED runVars
  BY <1>17 DEF MenuTarget
<1>18. CASE NoDiskToInstall /\ UNCHANGED runVars
  BY <1>18 DEF NoDiskToInstall
<1>19. CASE InstallRefused /\ UNCHANGED runVars
  BY <1>19 DEF InstallRefused
<1>20. CASE StorageFound
  BY <1>20 DEF StorageFound
<1>21. CASE StorageTarget
  BY <1>21 DEF StorageTarget, NoStorage
<1>22. CASE StorageFails
  BY <1>22 DEF StorageFails, NoStorage
<1>23. CASE SwitchRoot
  BY <1>23 DEF SwitchRoot
<1>24. CASE RepartFails
  BY <1>24 DEF RepartFails, Disturb
<1>25. CASE DisableUsbGuard
  BY <1>25 DEF DisableUsbGuard, Goes, NextStep
<1>26. CASE Poweroff
  BY <1>26 DEF Poweroff, Goes, TurnOff
<1>27. CASE Shutdown
  BY <1>27 DEF Shutdown, TurnOff
<1>28. CASE PowerCut
  BY <1>28 DEF PowerCut, Disturb, TurnOff
<1>29. CASE UNCHANGED vars
  BY <1>29
<1>30. ASSUME NEW d \in Disks, DeleteFails(d), UNCHANGED runVars PROVE Guards'
  BY <1>30 DEF DeleteFails, Command, Disturb
<1>31. CASE UsbGuard
  BY <1>31 DEF UsbGuard
<1> HIDE DEF diskVars, bootVars, runVars, TypeOK, InstallerTypeOK, Phases, RunInit, Guards
<1> QED
  BY <1>1, <1>2, <1>3, <1>4, <1>5, <1>6, <1>7, <1>8, <1>9, <1>10, <1>11, <1>12, <1>13, <1>14,
      <1>15, <1>16, <1>17, <1>18, <1>19, <1>20, <1>21, <1>22, <1>23, <1>24, <1>25, <1>26,
      <1>27, <1>28, <1>29, <1>30, <1>31 DEF Next, ToolStep, InstallerStep, RunStep

\* Names in a boot.
LEMMA NamingKept ==
    ASSUME TypeOK, Phases, Naming, [Next]_vars
    PROVE  Naming'
<1> USE DEF vars, diskVars, bootVars, runVars, TypeOK, InstallerTypeOK, Phases, RunInit,
        Naming, Namings
<1>1. ASSUME NEW d \in Disks, NEW f \in Files, NEW v \in Settings(f), Set(d, f, v), UNCHANGED
             runVars
      PROVE  Naming'
  BY <1>1 DEF Set, Command, Counted
<1>2. ASSUME NEW d \in Disks, NEW f \in Files, SetFails(d, f), UNCHANGED runVars PROVE Naming'
  BY <1>2 DEF SetFails, Command, Counted, Disturb
<1>3. ASSUME NEW s \in Disks, NEW d \in Disks, StartCopy(s, d), UNCHANGED runVars PROVE Naming'
  BY <1>3 DEF StartCopy
<1>4. ASSUME NEW d \in Disks, NEW t \in Disks, CopyOutputs(d, t) PROVE Naming'
  BY <1>4 DEF CopyOutputs, Goes, NextStep, Stored
<1>5. ASSUME NEW d \in Disks, StartInstaller(d), UNCHANGED runVars PROVE Naming'
  BY <1>5 DEF StartInstaller, Start
<1>6. ASSUME NEW d \in Disks, FinishCopy(d), UNCHANGED runVars PROVE Naming'
  BY <1>6 DEF FinishCopy
<1>7. ASSUME NEW d \in Disks, CopyFails(d), UNCHANGED runVars PROVE Naming'
  BY <1>7 DEF CopyFails, Disturb
<1>8. ASSUME NEW d \in Disks, StartSystem(d) PROVE Naming'
  BY <1>8 DEF StartSystem, Start
<1>9. ASSUME NEW d \in Disks, Repart(d) PROVE Naming'
  BY <1>9 DEF Repart, DiskKey
<1>10. ASSUME NEW d \in Disks, OpenBuild(d) PROVE Naming'
  BY <1>10 DEF OpenBuild, DiskKey
<1>11. ASSUME NEW d \in Disks, Format(d) PROVE Naming'
  BY <1>11 DEF Format, InUse
<1>12. ASSUME NEW d \in Disks, Build(d) PROVE Naming'
  BY <1>12 DEF Build, Goes, NextStep
<1>13. ASSUME NEW d \in Disks, Lock(d) PROVE Naming'
  BY <1>13 DEF Lock, Goes, NextStep
<1>14. CASE StepFails
  BY <1>14 DEF StepFails, Disturb, NextStep, Goes
<1>15. ASSUME NEW d \in Disks, Appear(d), UNCHANGED runVars PROVE Naming'
  BY <1>15 DEF Appear, Disturb
<1>16. CASE ConfiguredTarget /\ UNCHANGED runVars
  BY <1>16 DEF ConfiguredTarget
<1>17. CASE MenuTarget /\ UNCHANGED runVars
  BY <1>17 DEF MenuTarget
<1>18. CASE NoDiskToInstall /\ UNCHANGED runVars
  BY <1>18 DEF NoDiskToInstall
<1>19. CASE InstallRefused /\ UNCHANGED runVars
  BY <1>19 DEF InstallRefused
<1>20. CASE StorageFound
  BY <1>20 DEF StorageFound
<1>21. CASE StorageTarget
  BY <1>21 DEF StorageTarget, NoStorage
<1>22. CASE StorageFails
  BY <1>22 DEF StorageFails, NoStorage
<1>23. CASE SwitchRoot
  BY <1>23 DEF SwitchRoot
<1>24. CASE RepartFails
  BY <1>24 DEF RepartFails, Disturb
<1>25. CASE DisableUsbGuard
  BY <1>25 DEF DisableUsbGuard, Goes, NextStep
<1>26. CASE Poweroff
  BY <1>26 DEF Poweroff, Goes, TurnOff
<1>27. CASE Shutdown
  BY <1>27 DEF Shutdown, TurnOff
<1>28. CASE PowerCut
  BY <1>28 DEF PowerCut, Disturb, TurnOff
<1>29. CASE UNCHANGED vars
  BY <1>29
<1>30. ASSUME NEW d \in Disks, DeleteFails(d), UNCHANGED runVars PROVE Naming'
  BY <1>30 DEF DeleteFails, Command, Disturb
<1>31. CASE UsbGuard
  BY <1>31 DEF UsbGuard
<1> HIDE DEF diskVars, bootVars, runVars, TypeOK, InstallerTypeOK, Phases, RunInit, Naming,
         Namings
<1> QED
  BY <1>1, <1>2, <1>3, <1>4, <1>5, <1>6, <1>7, <1>8, <1>9, <1>10, <1>11, <1>12, <1>13, <1>14,
      <1>15, <1>16, <1>17, <1>18, <1>19, <1>20, <1>21, <1>22, <1>23, <1>24, <1>25, <1>26,
      <1>27, <1>28, <1>29, <1>30, <1>31 DEF Next, ToolStep, InstallerStep, RunStep

\* What the installer's menu leaves out.
LEMMA MenusKept ==
    ASSUME TypeOK, Naming, Menus, [Next]_vars
    PROVE  Menus'
<1> USE NamesAssumption DEF vars, diskVars, bootVars, runVars, TypeOK, InstallerTypeOK, Values,
        Naming, Menus, SourceSpared, Visible, Seen, Menu
<1>1. ASSUME NEW d \in Disks, NEW f \in Files, NEW v \in Settings(f), Set(d, f, v), UNCHANGED
             runVars
      PROVE  Menus'
  BY <1>1 DEF Set, Command, Counted
<1>2. ASSUME NEW d \in Disks, NEW f \in Files, SetFails(d, f), UNCHANGED runVars PROVE Menus'
  BY <1>2 DEF SetFails, Command, Counted, Disturb
<1>3. ASSUME NEW s \in Disks, NEW d \in Disks, StartCopy(s, d), UNCHANGED runVars PROVE Menus'
  BY <1>3 DEF StartCopy
<1>4. ASSUME NEW d \in Disks, NEW t \in Disks, CopyOutputs(d, t) PROVE Menus'
  BY <1>4 DEF CopyOutputs, Goes, NextStep, Stored
<1>5. ASSUME NEW d \in Disks, StartInstaller(d), UNCHANGED runVars PROVE Menus'
  BY <1>5 DEF StartInstaller, Start
<1>6. ASSUME NEW d \in Disks, FinishCopy(d), UNCHANGED runVars PROVE Menus'
  BY <1>6 DEF FinishCopy
<1>7. ASSUME NEW d \in Disks, CopyFails(d), UNCHANGED runVars PROVE Menus'
  BY <1>7 DEF CopyFails, Disturb
<1>8. ASSUME NEW d \in Disks, StartSystem(d) PROVE Menus'
  BY <1>8 DEF StartSystem, Start
<1>9. ASSUME NEW d \in Disks, Repart(d) PROVE Menus'
  BY <1>9 DEF Repart, DiskKey
<1>10. ASSUME NEW d \in Disks, OpenBuild(d) PROVE Menus'
  BY <1>10 DEF OpenBuild, DiskKey
<1>11. ASSUME NEW d \in Disks, Format(d) PROVE Menus'
  BY <1>11 DEF Format, InUse
<1>12. ASSUME NEW d \in Disks, Build(d) PROVE Menus'
  BY <1>12 DEF Build, Goes, NextStep
<1>13. ASSUME NEW d \in Disks, Lock(d) PROVE Menus'
  BY <1>13 DEF Lock, Goes, NextStep
<1>14. CASE StepFails
  BY <1>14 DEF StepFails, Disturb, NextStep, Goes
<1>15. ASSUME NEW d \in Disks, Appear(d), UNCHANGED runVars PROVE Menus'
  BY <1>15 DEF Appear, Disturb
<1>16. CASE ConfiguredTarget /\ UNCHANGED runVars
  BY <1>16 DEF ConfiguredTarget
<1>17. CASE MenuTarget /\ UNCHANGED runVars
  BY <1>17 DEF MenuTarget
<1>18. CASE NoDiskToInstall /\ UNCHANGED runVars
  BY <1>18 DEF NoDiskToInstall
<1>19. CASE InstallRefused /\ UNCHANGED runVars
  BY <1>19 DEF InstallRefused
<1>20. CASE StorageFound
  BY <1>20 DEF StorageFound
<1>21. CASE StorageTarget
  BY <1>21 DEF StorageTarget, NoStorage
<1>22. CASE StorageFails
  BY <1>22 DEF StorageFails, NoStorage
<1>23. CASE SwitchRoot
  BY <1>23 DEF SwitchRoot
<1>24. CASE RepartFails
  BY <1>24 DEF RepartFails, Disturb
<1>25. CASE DisableUsbGuard
  BY <1>25 DEF DisableUsbGuard, Goes, NextStep
<1>26. CASE Poweroff
  BY <1>26 DEF Poweroff, Goes, TurnOff
<1>27. CASE Shutdown
  BY <1>27 DEF Shutdown, TurnOff
<1>28. CASE PowerCut
  BY <1>28 DEF PowerCut, Disturb, TurnOff
<1>29. CASE UNCHANGED vars
  BY <1>29
<1>30. ASSUME NEW d \in Disks, DeleteFails(d), UNCHANGED runVars PROVE Menus'
  BY <1>30 DEF DeleteFails, Command, Disturb
<1>31. CASE UsbGuard
  BY <1>31 DEF UsbGuard
<1> HIDE DEF diskVars, bootVars, runVars, TypeOK, InstallerTypeOK, Values, Naming, Menus,
         SourceSpared, Visible, Seen, Menu
<1> QED
  BY <1>1, <1>2, <1>3, <1>4, <1>5, <1>6, <1>7, <1>8, <1>9, <1>10, <1>11, <1>12, <1>13, <1>14,
      <1>15, <1>16, <1>17, <1>18, <1>19, <1>20, <1>21, <1>22, <1>23, <1>24, <1>25, <1>26,
      <1>27, <1>28, <1>29, <1>30, <1>31 DEF Next, ToolStep, InstallerStep, RunStep

\* What is to be formatted.
LEMMA FormatsKept ==
    ASSUME TypeOK, Phases, Naming, Formats, Reads, [Next]_vars
    PROVE  Formats'
<1> USE NamesAssumption DEF vars, diskVars, bootVars, runVars, TypeOK, InstallerTypeOK, Phases,
        RunInit, Naming, Formats, StorageAsAsked, Visible, Seen, Reads, ReadFrom, Expected, Files,
        Images
<1>1. ASSUME NEW d \in Disks, NEW f \in Files, NEW v \in Settings(f), Set(d, f, v), UNCHANGED
             runVars
      PROVE  Formats'
  BY <1>1 DEF Set, Command, Counted
<1>2. ASSUME NEW d \in Disks, NEW f \in Files, SetFails(d, f), UNCHANGED runVars PROVE Formats'
  BY <1>2 DEF SetFails, Command, Counted, Disturb
<1>3. ASSUME NEW s \in Disks, NEW d \in Disks, StartCopy(s, d), UNCHANGED runVars PROVE Formats'
  BY <1>3 DEF StartCopy
<1>4. ASSUME NEW d \in Disks, NEW t \in Disks, CopyOutputs(d, t) PROVE Formats'
  BY <1>4 DEF CopyOutputs, Goes, NextStep, Stored
<1>5. ASSUME NEW d \in Disks, StartInstaller(d), UNCHANGED runVars PROVE Formats'
  BY <1>5 DEF StartInstaller, Start
<1>6. ASSUME NEW d \in Disks, FinishCopy(d), UNCHANGED runVars PROVE Formats'
  BY <1>6 DEF FinishCopy
<1>7. ASSUME NEW d \in Disks, CopyFails(d), UNCHANGED runVars PROVE Formats'
  BY <1>7 DEF CopyFails, Disturb
<1>8. ASSUME NEW d \in Disks, StartSystem(d) PROVE Formats'
  BY <1>8 DEF StartSystem, Start
<1>9. ASSUME NEW d \in Disks, Repart(d) PROVE Formats'
  BY <1>9 DEF Repart, DiskKey
<1>10. ASSUME NEW d \in Disks, OpenBuild(d) PROVE Formats'
  BY <1>10 DEF OpenBuild, DiskKey
<1>11. ASSUME NEW d \in Disks, Format(d) PROVE Formats'
  BY <1>11 DEF Format, InUse
<1>12. ASSUME NEW d \in Disks, Build(d) PROVE Formats'
  BY <1>12 DEF Build, Goes, NextStep
<1>13. ASSUME NEW d \in Disks, Lock(d) PROVE Formats'
  BY <1>13 DEF Lock, Goes, NextStep
<1>14. CASE StepFails
  BY <1>14 DEF StepFails, Disturb, NextStep, Goes
<1>15. ASSUME NEW d \in Disks, Appear(d), UNCHANGED runVars PROVE Formats'
  <2>1. Visible("system") \subseteq Visible("system")' /\ booted \subseteq Visible("system")
    BY <1>15 DEF Appear
  <2>2. UNCHANGED <<diskVars, runVars, target, chosen>>
    BY <1>15 DEF Appear
  <2>3. ASSUME NEW e \in booted, Visible("system")' = {e} PROVE Visible("system") = {e}
    BY <2>1, <2>3
  <2>4. (prepare = "format" => \A e \in looked : kind[e] # "storage")'
    BY <2>2
  <2>5. StorageAsAsked'
    <3> HIDE DEF Visible
    <3> QED BY <2>2, <2>3
  <2> QED BY <2>4, <2>5
<1>16. CASE ConfiguredTarget /\ UNCHANGED runVars
  BY <1>16 DEF ConfiguredTarget
<1>17. CASE MenuTarget /\ UNCHANGED runVars
  BY <1>17 DEF MenuTarget
<1>18. CASE NoDiskToInstall /\ UNCHANGED runVars
  BY <1>18 DEF NoDiskToInstall
<1>19. CASE InstallRefused /\ UNCHANGED runVars
  BY <1>19 DEF InstallRefused
<1>20. CASE StorageFound
  BY <1>20 DEF StorageFound
<1>21. CASE StorageTarget
  <2>1. PICK c \in Visible("system") :
           LET v == esp[c]["outer"]["storage_target"] IN
              \/ v # Unset /\ target' = v /\ chosen' = FALSE
              \/ v = Unset /\ chosen' = TRUE /\ \E d \in Menu("system") : target' = name[d]
    BY <1>21 DEF StorageTarget
  <2>2. (IF chosen' THEN Unset ELSE target') = esp[c]["outer"]["storage_target"]
    BY <2>1
  <2>3. UNCHANGED <<diskVars, name, booted>> /\ looked' = Seen /\ Visible("storage") = {}
    BY <1>21 DEF StorageTarget, NoStorage
  <2>4. ASSUME NEW d \in booted, Visible("system") = {d}, asked[d]["storage_target"] # {}
        PROVE  esp[c]["outer"]["storage_target"] \in Expected(d, "storage_target")
    <3>1. c = d /\ d \in Disks /\ kind[d] = "system"
      BY <2>4
    <3>2. ReadFrom(d, "storage_target") = "outer"
      BY <3>1
    <3> HIDE DEF ReadFrom, Expected
    <3> QED BY <2>4, <3>1, <3>2
  <2>5. StorageAsAsked'
    <3>1. Visible("system")' = Visible("system")
      BY <2>3
    <3>2. SUFFICES ASSUME NEW d \in booted', Visible("system")' = {d},
          asked'[d]["storage_target"] # {}
                   PROVE  (IF chosen' THEN Unset ELSE target') \in Expected(d, "storage_target")'
      OBVIOUS
    <3>3. d \in booted /\ Visible("system") = {d} /\ asked' = asked /\ kept' = kept
      BY <2>3, <3>1, <3>2
    <3>4. esp[c]["outer"]["storage_target"] \in Expected(d, "storage_target")
      BY <2>4, <3>2, <3>3
    <3> HIDE DEF Visible, TypeOK, InstallerTypeOK, Formats, Reads
    <3> QED BY <2>2, <3>3, <3>4
  <2>6. (prepare = "format" => \A d \in looked : kind[d] # "storage")'
    BY <2>3
  <2> QED BY <2>5, <2>6
<1>22. CASE StorageFails
  BY <1>22 DEF StorageFails, NoStorage
<1>23. CASE SwitchRoot
  BY <1>23 DEF SwitchRoot
<1>24. CASE RepartFails
  BY <1>24 DEF RepartFails, Disturb
<1>25. CASE DisableUsbGuard
  BY <1>25 DEF DisableUsbGuard, Goes, NextStep
<1>26. CASE Poweroff
  BY <1>26 DEF Poweroff, Goes, TurnOff
<1>27. CASE Shutdown
  BY <1>27 DEF Shutdown, TurnOff
<1>28. CASE PowerCut
  BY <1>28 DEF PowerCut, Disturb, TurnOff
<1>29. CASE UNCHANGED vars
  BY <1>29
<1>30. ASSUME NEW d \in Disks, DeleteFails(d), UNCHANGED runVars PROVE Formats'
  BY <1>30 DEF DeleteFails, Command, Disturb
<1>31. CASE UsbGuard
  <2>1. UNCHANGED <<diskVars, name, booted, prepare, looked, target, chosen>>
    BY <1>31 DEF UsbGuard
  <2> QED BY <2>1
<1> HIDE DEF diskVars, bootVars, runVars, TypeOK, InstallerTypeOK, Phases, RunInit, Naming,
         Formats, StorageAsAsked, Visible, Seen, Reads, ReadFrom, Expected, Files, Images
<1> QED
  BY <1>1, <1>2, <1>3, <1>4, <1>5, <1>6, <1>7, <1>8, <1>9, <1>10, <1>11, <1>12, <1>13, <1>14,
      <1>15, <1>16, <1>17, <1>18, <1>19, <1>20, <1>21, <1>22, <1>23, <1>24, <1>25, <1>26,
      <1>27, <1>28, <1>29, <1>30, <1>31 DEF Next, ToolStep, InstallerStep, RunStep

\* Settings and the files they are in.
LEMMA SettingsKept ==
    ASSUME TypeOK, Menus, Reads, [Next]_vars
    PROVE  Reads'
<1> USE DEF vars, diskVars, bootVars, runVars, TypeOK, InstallerTypeOK, Reads, ReadFrom,
        Expected, PayloadEsp, EspFor, Files, Images, Esps, Carried, NothingAsked, Visible, Seen,
        Menus
<1>0. ASSUME UNCHANGED <<kind, esp, asked, kept>> PROVE Reads'
  BY <1>0
<1>1. ASSUME NEW d \in Disks, NEW f \in Files, NEW v \in Settings(f), Set(d, f, v), UNCHANGED
             runVars
      PROVE  Reads'
  <2>1. /\ asked' = [asked EXCEPT ![d][f] = {v}] /\ kind' = kind
        /\ kept' = [kept EXCEPT ![d][f] = {}]
        /\ esp' = [esp EXCEPT ![d][EspFor(d, f)][f] = v]
    BY <1>1 DEF Set, Command, Counted
  <2>2. ASSUME NEW e \in Disks, NEW p \in Esps, NEW g \in Files, e # d \/ g # f
        PROVE  /\ esp'[e][p][g] = esp[e][p][g] /\ asked'[e][g] = asked[e][g]
               /\ Expected(e, g)' = Expected(e, g)
    BY <2>1, <2>2
  <2>3. EspFor(d, f) \in Esps /\ EspFor(d, f) = ReadFrom(d, f)
    <3>1. kind[d] \in {"installer", "system"}
      BY <1>1 DEF Set, Command
    <3> QED BY <3>1
  <2>4. esp'[d][EspFor(d, f)][f] = v /\ Expected(d, f)' = {v}
    <3> HIDE DEF EspFor, ReadFrom
    <3> QED BY <2>1, <2>3
  <2>5. \A e \in Disks, g \in Files : ReadFrom(e, g) \in Esps /\ ReadFrom(e, g)' = ReadFrom(e,
        g)
    BY <2>1
  <2>6. ASSUME NEW e \in Disks, NEW g \in Files, kind'[e] \in Images \cup {"partial"},
               asked'[e][g] # {}
        PROVE  esp'[e][ReadFrom(e, g)'][g] \in Expected(e, g)'
    <3>1. CASE e = d /\ g = f
      <4> HIDE DEF ReadFrom, EspFor, Expected
      <4> QED BY <2>3, <2>4, <2>5, <3>1
    <3>2. CASE e # d \/ g # f
      <4>1. /\ esp'[e][ReadFrom(e, g)][g] = esp[e][ReadFrom(e, g)][g]
            /\ asked'[e][g] = asked[e][g] /\ Expected(e, g)' = Expected(e, g)
        <5>1. ReadFrom(e, g) \in Esps
          BY <2>5
        <5> HIDE DEF ReadFrom, Expected, Esps, TypeOK, InstallerTypeOK, Reads
        <5>2. asked'[e][g] = asked[e][g] /\ Expected(e, g)' = Expected(e, g)
          BY <2>2, <3>2, <5>1
        <5>3. esp'[e][ReadFrom(e, g)][g] = esp[e][ReadFrom(e, g)][g]
          BY <2>2, <3>2, <5>1
        <5> QED BY <5>2, <5>3
      <4>2. esp[e][ReadFrom(e, g)][g] \in Expected(e, g)
        <5> HIDE DEF ReadFrom, Expected
        <5> QED BY <2>1, <2>6, <4>1
      <4> HIDE DEF ReadFrom, Expected
      <4> QED BY <2>5, <4>1, <4>2
    <3> QED BY <3>1, <3>2
  <2> HIDE DEF ReadFrom, Expected
  <2> QED BY <2>6
<1>2. ASSUME NEW d \in Disks, NEW f \in Files, SetFails(d, f), UNCHANGED runVars PROVE Reads'
  <2>1. /\ asked' = [asked EXCEPT ![d][f] = {}] /\ kind' = kind
        /\ kept' = [kept EXCEPT ![d][f] = {}]
    BY <1>2 DEF SetFails, Command, Counted
  <2>2. ASSUME NEW e \in Disks, NEW g \in Files, e # d \/ g # f
        PROVE  /\ \A p \in Esps : esp'[e][p][g] = esp[e][p][g]
               /\ asked'[e][g] = asked[e][g] /\ Expected(e, g)' = Expected(e, g)
    <3>1. \A p \in Esps : esp'[e][p][g] = esp[e][p][g]
      <4>1. CASE UNCHANGED esp
        BY <4>1
      <4>2. CASE esp' = [esp EXCEPT ![d][EspFor(d, f)][f] = Unset]
        BY <2>2, <4>2
      <4> QED BY <1>2, <4>1, <4>2 DEF SetFails
    <3> QED BY <2>1, <2>2, <3>1
  <2>3. \A e \in Disks, g \in Files : ReadFrom(e, g) \in Esps /\ ReadFrom(e, g)' = ReadFrom(e,
        g)
    BY <2>1
  <2>4. asked'[d][f] = {}
    BY <2>1
  <2>5. ASSUME NEW e \in Disks, NEW g \in Files,
               kind'[e] \in Images \cup {"partial"}, asked'[e][g] # {}
        PROVE  esp'[e][ReadFrom(e, g)'][g] \in Expected(e, g)'
    <3>1. e # d \/ g # f
      BY <2>4, <2>5
    <3>2. ReadFrom(e, g) \in Esps
      BY <2>3
    <3> HIDE DEF ReadFrom, Expected
    <3>3. asked'[e][g] = asked[e][g] /\ Expected(e, g)' = Expected(e, g)
      BY <2>2, <3>1
    <3>4. esp'[e][ReadFrom(e, g)][g] = esp[e][ReadFrom(e, g)][g]
      <4> HIDE DEF Esps, TypeOK, InstallerTypeOK, Reads
      <4> QED BY <2>2, <3>1, <3>2
    <3> QED BY <2>1, <2>3, <2>5, <3>3, <3>4
  <2> HIDE DEF ReadFrom, Expected
  <2> QED BY <2>5
<1>3. ASSUME NEW s \in Disks, NEW d \in Disks, StartCopy(s, d), UNCHANGED runVars PROVE Reads'
  <2>1. kind[s] = "installer" /\ kind' = [kind EXCEPT ![d] = "partial"]
    BY <1>3 DEF StartCopy
  <2>2. ASSUME NEW e \in Disks \ {d}
        PROVE  esp'[e] = esp[e] /\ asked'[e] = asked[e] /\ kept'[e] = kept[e]
               /\ kind'[e] = kind[e]
    BY <1>3 DEF StartCopy
  <2>3. ASSUME NEW g \in Files \ {"install_target"}
        PROVE  /\ esp'[d]["outer"][g] = esp[s]["nested"][g]
               /\ asked'[d][g] = asked[s][g] /\ kept'[d][g] = kept[s][g]
    <3>1. esp' = [esp EXCEPT ![d] = Carried(s)]
          /\ asked' = [asked EXCEPT ![d] = [asked[s] EXCEPT !["install_target"] = {}]]
          /\ kept' = [kept EXCEPT ![d] = [kept[s] EXCEPT !["install_target"] = {}]]
      BY <1>3 DEF StartCopy
    <3>2. esp'[d] = Carried(s)
      BY <3>1
    <3>3. Carried(s)["outer"] = esp[s]["nested"]
      BY DEF NoEsps
    <3>4. /\ asked'[d] = [asked[s] EXCEPT !["install_target"] = {}]
          /\ kept'[d] = [kept[s] EXCEPT !["install_target"] = {}]
      BY <3>1
    <3> QED BY <3>2, <3>3, <3>4
  <2>4. ASSUME NEW e \in Disks, NEW g \in Files,
               kind'[e] \in Images \cup {"partial"}, asked'[e][g] # {}
        PROVE  esp'[e][ReadFrom(e, g)'][g] \in Expected(e, g)'
    <3>0. asked'[d]["install_target"] = {}
      BY <1>3 DEF StartCopy
    <3>1. CASE e = d
      <4>0. g # "install_target"
        BY <2>4, <3>0, <3>1
      <4>1. ReadFrom(e, g)' = "outer" /\ ReadFrom(s, g) = "nested"
        BY <2>1, <3>1, <4>0
      <4>2. esp[s]["nested"][g] \in Expected(s, g)
        BY <2>1, <2>3, <2>4, <3>1, <4>0, <4>1
      <4> QED BY <2>3, <3>1, <4>0, <4>1, <4>2
    <3>2. CASE e # d
      <4>1. ReadFrom(e, g)' = ReadFrom(e, g) /\ kind'[e] = kind[e] /\ esp'[e] = esp[e] /\
            asked'[e] = asked[e] /\ kept'[e] = kept[e]
        BY <2>2, <3>2
      <4> QED BY <2>4, <4>1
    <3> QED BY <3>1, <3>2
  <2> HIDE DEF ReadFrom, Expected
  <2> QED BY <2>4
<1>4. ASSUME NEW d \in Disks, NEW t \in Disks, CopyOutputs(d, t) PROVE Reads'
  <2>1. UNCHANGED <<kind, esp, asked, kept>>
    BY <1>4 DEF CopyOutputs
  <2> QED BY <1>0, <2>1
<1>5. ASSUME NEW d \in Disks, StartInstaller(d), UNCHANGED runVars PROVE Reads'
  BY <1>5 DEF StartInstaller, Start
<1>6. ASSUME NEW d \in Disks, FinishCopy(d), UNCHANGED runVars PROVE Reads'
  BY <1>6 DEF FinishCopy
<1>7. ASSUME NEW d \in Disks, CopyFails(d), UNCHANGED runVars PROVE Reads'
  <2>1. /\ UNCHANGED <<esp, asked, kept>>
        /\ \A e \in Disks : \/ kind'[e] = kind[e]
                            \/ kind[e] = "partial" /\ kind'[e] \in {"partial", "system"}
    BY <1>7 DEF CopyFails
  <2>2. \A e \in Disks, g \in Files : ReadFrom(e, g)' = ReadFrom(e, g)
    BY <2>1
  <2>3. \A e \in Disks, g \in Files : Expected(e, g)' = Expected(e, g)
    BY <2>1
  <2> HIDE DEF ReadFrom, Expected
  <2> QED BY <2>1, <2>2, <2>3
<1>8. ASSUME NEW d \in Disks, StartSystem(d) PROVE Reads'
  BY <1>8 DEF StartSystem, Start
<1>9. ASSUME NEW d \in Disks, Repart(d) PROVE Reads'
  BY <1>9 DEF Repart, DiskKey
<1>10. ASSUME NEW d \in Disks, OpenBuild(d) PROVE Reads'
  BY <1>10 DEF OpenBuild, DiskKey
<1>11. ASSUME NEW d \in Disks, Format(d) PROVE Reads'
  BY <1>11 DEF Format, InUse
<1>12. ASSUME NEW d \in Disks, Build(d) PROVE Reads'
  BY <1>12 DEF Build, Goes, NextStep
<1>13. ASSUME NEW d \in Disks, Lock(d) PROVE Reads'
  BY <1>13 DEF Lock, Goes, NextStep
<1>14. CASE StepFails
  BY <1>14 DEF StepFails, Disturb, NextStep, Goes
<1>15. ASSUME NEW d \in Disks, Appear(d), UNCHANGED runVars PROVE Reads'
  BY <1>15 DEF Appear, Disturb
<1>16. CASE ConfiguredTarget /\ UNCHANGED runVars
  BY <1>16 DEF ConfiguredTarget
<1>17. CASE MenuTarget /\ UNCHANGED runVars
  BY <1>17 DEF MenuTarget
<1>18. CASE NoDiskToInstall /\ UNCHANGED runVars
  BY <1>18 DEF NoDiskToInstall
<1>19. CASE InstallRefused /\ UNCHANGED runVars
  BY <1>19 DEF InstallRefused
<1>20. CASE StorageFound
  BY <1>20 DEF StorageFound
<1>21. CASE StorageTarget
  BY <1>21 DEF StorageTarget, NoStorage
<1>22. CASE StorageFails
  BY <1>22 DEF StorageFails, NoStorage
<1>23. CASE SwitchRoot
  BY <1>23 DEF SwitchRoot
<1>24. CASE RepartFails
  BY <1>24 DEF RepartFails, Disturb
<1>25. CASE DisableUsbGuard
  BY <1>25 DEF DisableUsbGuard, Goes, NextStep
<1>26. CASE Poweroff
  BY <1>26 DEF Poweroff, Goes, TurnOff
<1>27. CASE Shutdown
  BY <1>27 DEF Shutdown, TurnOff
<1>28. CASE PowerCut
  BY <1>28 DEF PowerCut, Disturb, TurnOff
<1>29. CASE UNCHANGED vars
  BY <1>29
<1>30. ASSUME NEW d \in Disks, DeleteFails(d), UNCHANGED runVars PROVE Reads'
  <2> DEFINE f == "storage_target"
  <2>1. /\ asked' = [asked EXCEPT ![d][f] = {Unset}] /\ kind' = kind /\ esp' = esp
        /\ kept' = [kept EXCEPT ![d][f] = {esp[d][EspFor(d, f)][f]}]
    BY <1>30 DEF DeleteFails, Command
  <2>2. EspFor(d, f) = ReadFrom(d, f)
    <3>1. kind[d] \in {"installer", "system"}
      BY <1>30 DEF DeleteFails, Command
    <3> QED BY <3>1
  <2>3. Expected(d, f)' = {esp[d][ReadFrom(d, f)][f]}
    <3>1. f \in Files
      OBVIOUS
    <3> HIDE DEF EspFor, ReadFrom, f
    <3>2. kept'[d][f] = {esp[d][ReadFrom(d, f)][f]}
      BY <2>1, <2>2, <3>1
    <3> QED BY <3>2
  <2>4. ASSUME NEW e \in Disks, NEW g \in Files, e # d \/ g # f
        PROVE  asked'[e][g] = asked[e][g] /\ Expected(e, g)' = Expected(e, g)
    BY <2>1, <2>4
  <2>5. \A e \in Disks, g \in Files : ReadFrom(e, g)' = ReadFrom(e, g)
    BY <2>1
  <2>6. ASSUME NEW e \in Disks, NEW g \in Files, kind'[e] \in Images \cup {"partial"},
               asked'[e][g] # {}
        PROVE  esp'[e][ReadFrom(e, g)'][g] \in Expected(e, g)'
    <3> HIDE DEF ReadFrom, EspFor, Expected, f
    <3>1. CASE e = d /\ g = f
      BY <2>1, <2>3, <2>5, <3>1
    <3>2. CASE e # d \/ g # f
      BY <2>1, <2>4, <2>5, <2>6, <3>2
    <3> QED BY <3>1, <3>2
  <2> HIDE DEF ReadFrom, Expected
  <2> QED BY <2>6
<1>31. CASE UsbGuard
  BY <1>31 DEF UsbGuard
<1> HIDE DEF diskVars, bootVars, runVars, TypeOK, InstallerTypeOK, Reads, ReadFrom,
         Expected, PayloadEsp, EspFor, Files, Images, Esps, Carried, NothingAsked, Visible, Seen,
         Menus
<1> QED
  BY <1>1, <1>2, <1>3, <1>4, <1>5, <1>6, <1>7, <1>8, <1>9, <1>10, <1>11, <1>12, <1>13, <1>14,
      <1>15, <1>16, <1>17, <1>18, <1>19, <1>20, <1>21, <1>22, <1>23, <1>24, <1>25, <1>26,
      <1>27, <1>28, <1>29, <1>30, <1>31 DEF Next, ToolStep, InstallerStep, RunStep

\* Types.
LEMMA TypesOfSettings ==
    ASSUME TypeOK, [Next]_vars
    PROVE  SettingsTypes'
<1> USE LimitsAssumption, NamesAssumption, StepFacts DEF vars, diskVars, bootVars, runVars,
        TypeOK, InstallerTypeOK, Values, Kinds, Esps, Files, NoFiles, NoEsps, NoBuild,
        NothingAsked, Visible, Seen, Menu, Namings, Images, Carried, RunInit, Points,
        SettingsTypes
<1>1. ASSUME NEW d \in Disks, NEW f \in Files, NEW v \in Settings(f), Set(d, f, v), UNCHANGED
             runVars
      PROVE  SettingsTypes'
  <2>1. v \in Values /\ EspFor(d, f) \in Esps
    BY DEF Settings, EspFor, PayloadEsp
  <2>2. /\ esp' = [esp EXCEPT ![d][EspFor(d, f)][f] = v]
        /\ asked' = [asked EXCEPT ![d][f] = {v}] /\ kept' = [kept EXCEPT ![d][f] = {}]
    BY <1>1 DEF Set
  <2>3. esp' \in [Disks -> [Esps -> [Files -> Values]]]
    <3> DEFINE p == EspFor(d, f)
               files == [esp[d][p] EXCEPT ![f] = v]
               esps == [esp[d] EXCEPT ![p] = files]
    <3>1. files \in [Files -> Values]
      BY <2>1
    <3>2. esps \in [Esps -> [Files -> Values]]
      <4> HIDE DEF files, p
      <4> QED BY <2>1, <3>1
    <3>3. esp' = [esp EXCEPT ![d] = esps]
      BY <2>2
    <3> HIDE DEF esps
    <3> QED BY <3>2, <3>3
  <2>4. /\ asked' \in [Disks -> [Files -> SUBSET Values]]
        /\ kept' \in [Disks -> [Files -> SUBSET Values]]
    BY <2>1, <2>2
  <2> QED BY <2>3, <2>4
<1>2. ASSUME NEW d \in Disks, NEW f \in Files, SetFails(d, f), UNCHANGED runVars
      PROVE  SettingsTypes'
  <2>1. EspFor(d, f) \in Esps
    BY DEF EspFor, PayloadEsp
  <2>2. /\ esp' = esp \/ esp' = [esp EXCEPT ![d][EspFor(d, f)][f] = Unset]
        /\ asked' = [asked EXCEPT ![d][f] = {}] /\ kept' = [kept EXCEPT ![d][f] = {}]
    BY <1>2 DEF SetFails
  <2>3. esp' \in [Disks -> [Esps -> [Files -> Values]]]
    <3> DEFINE p == EspFor(d, f)
               files == [esp[d][p] EXCEPT ![f] = Unset]
               esps == [esp[d] EXCEPT ![p] = files]
    <3>1. files \in [Files -> Values]
      BY <2>1
    <3>2. esps \in [Esps -> [Files -> Values]]
      <4> HIDE DEF files, p
      <4> QED BY <2>1, <3>1
    <3>3. esp' = esp \/ esp' = [esp EXCEPT ![d] = esps]
      BY <2>2
    <3> HIDE DEF esps
    <3> QED BY <3>2, <3>3
  <2>4. /\ asked' \in [Disks -> [Files -> SUBSET Values]]
        /\ kept' \in [Disks -> [Files -> SUBSET Values]]
    BY <2>2
  <2> QED BY <2>3, <2>4
<1>3. ASSUME NEW s \in Disks, NEW d \in Disks, StartCopy(s, d), UNCHANGED runVars
      PROVE  SettingsTypes'
  BY <1>3 DEF StartCopy
<1>4. ASSUME NEW d \in Disks, NEW t \in Disks, CopyOutputs(d, t) PROVE SettingsTypes'
  BY <1>4 DEF CopyOutputs, Goes, NextStep, Stored
<1>5. ASSUME NEW d \in Disks, StartInstaller(d), UNCHANGED runVars PROVE SettingsTypes'
  BY <1>5 DEF StartInstaller, Start
<1>6. ASSUME NEW d \in Disks, FinishCopy(d), UNCHANGED runVars PROVE SettingsTypes'
  BY <1>6 DEF FinishCopy
<1>7. ASSUME NEW d \in Disks, CopyFails(d), UNCHANGED runVars PROVE SettingsTypes'
  BY <1>7 DEF CopyFails, Disturb
<1>8. ASSUME NEW d \in Disks, StartSystem(d) PROVE SettingsTypes'
  BY <1>8 DEF StartSystem, Start
<1>9. ASSUME NEW d \in Disks, Repart(d) PROVE SettingsTypes'
  BY <1>9 DEF Repart, DiskKey
<1>10. ASSUME NEW d \in Disks, OpenBuild(d) PROVE SettingsTypes'
  BY <1>10 DEF OpenBuild, DiskKey
<1>11. ASSUME NEW d \in Disks, Format(d) PROVE SettingsTypes'
  BY <1>11 DEF Format, InUse
<1>12. ASSUME NEW d \in Disks, Build(d) PROVE SettingsTypes'
  BY <1>12 DEF Build, Goes, NextStep
<1>13. ASSUME NEW d \in Disks, Lock(d) PROVE SettingsTypes'
  BY <1>13 DEF Lock, Goes, NextStep
<1>14. CASE StepFails
  BY <1>14 DEF StepFails, Disturb, NextStep, Goes
<1>15. ASSUME NEW d \in Disks, Appear(d), UNCHANGED runVars PROVE SettingsTypes'
  BY <1>15 DEF Appear, Disturb
<1>16. CASE ConfiguredTarget /\ UNCHANGED runVars
  BY <1>16 DEF ConfiguredTarget
<1>17. CASE MenuTarget /\ UNCHANGED runVars
  BY <1>17 DEF MenuTarget
<1>18. CASE NoDiskToInstall /\ UNCHANGED runVars
  BY <1>18 DEF NoDiskToInstall
<1>19. CASE InstallRefused /\ UNCHANGED runVars
  BY <1>19 DEF InstallRefused
<1>20. CASE StorageFound
  BY <1>20 DEF StorageFound
<1>21. CASE StorageTarget
  BY <1>21 DEF StorageTarget, NoStorage
<1>22. CASE StorageFails
  BY <1>22 DEF StorageFails, NoStorage
<1>23. CASE SwitchRoot
  BY <1>23 DEF SwitchRoot
<1>24. CASE RepartFails
  BY <1>24 DEF RepartFails, Disturb
<1>25. CASE DisableUsbGuard
  BY <1>25 DEF DisableUsbGuard, Goes, NextStep
<1>26. CASE Poweroff
  BY <1>26 DEF Poweroff, Goes, TurnOff
<1>27. CASE Shutdown
  BY <1>27 DEF Shutdown, TurnOff
<1>28. CASE PowerCut
  BY <1>28 DEF PowerCut, Disturb, TurnOff
<1>29. CASE UNCHANGED vars
  BY <1>29
<1>30. ASSUME NEW d \in Disks, DeleteFails(d), UNCHANGED runVars PROVE SettingsTypes'
  <2>1. esp[d][EspFor(d, "storage_target")]["storage_target"] \in Values
    BY DEF EspFor, PayloadEsp
  <2>2. /\ esp' = esp
        /\ asked' = [asked EXCEPT ![d]["storage_target"] = {Unset}]
        /\ kept' = [kept EXCEPT ![d]["storage_target"] =
                      {esp[d][EspFor(d, "storage_target")]["storage_target"]}]
    BY <1>30 DEF DeleteFails
  <2>3. Unset \in Values /\ "storage_target" \in Files
    OBVIOUS
  <2> HIDE DEF EspFor, Values, Files
  <2> QED BY <2>1, <2>2, <2>3
<1>31. CASE UsbGuard
  BY <1>31 DEF UsbGuard
<1> HIDE DEF diskVars, bootVars, runVars, TypeOK, InstallerTypeOK, Values, Kinds, Esps, Files,
         NoFiles, NoEsps, NoBuild, NothingAsked, Visible, Seen, Menu, Namings, Images, Carried,
         RunInit, Points, SettingsTypes
<1> QED
  BY <1>1, <1>2, <1>3, <1>4, <1>5, <1>6, <1>7, <1>8, <1>9, <1>10, <1>11, <1>12, <1>13, <1>14,
      <1>15, <1>16, <1>17, <1>18, <1>19, <1>20, <1>21, <1>22, <1>23, <1>24, <1>25, <1>26,
      <1>27, <1>28, <1>29, <1>30, <1>31 DEF Next, ToolStep, InstallerStep, RunStep

\* Types.
LEMMA TypesOfDisks ==
    ASSUME TypeOK, [Next]_vars
    PROVE  DiskTypes'
<1> USE LimitsAssumption, NamesAssumption, StepFacts DEF vars, diskVars, bootVars, runVars,
        TypeOK, InstallerTypeOK, Values, Kinds, Esps, Files, NoFiles, NoEsps, NoBuild,
        NothingAsked, Visible, Seen, Menu, Namings, Images, Carried, RunInit, Points, DiskTypes
<1>1. ASSUME NEW d \in Disks, NEW f \in Files, NEW v \in Settings(f), Set(d, f, v), UNCHANGED
             runVars
      PROVE  DiskTypes'
  BY <1>1 DEF Set, Command, Counted
<1>2. ASSUME NEW d \in Disks, NEW f \in Files, SetFails(d, f), UNCHANGED runVars
      PROVE  DiskTypes'
  BY <1>2 DEF SetFails, Command, Counted, Disturb
<1>3. ASSUME NEW s \in Disks, NEW d \in Disks, StartCopy(s, d), UNCHANGED runVars
      PROVE  DiskTypes'
  BY <1>3 DEF StartCopy
<1>4. ASSUME NEW d \in Disks, NEW t \in Disks, CopyOutputs(d, t) PROVE DiskTypes'
  BY <1>4 DEF CopyOutputs, Goes, NextStep, Stored
<1>5. ASSUME NEW d \in Disks, StartInstaller(d), UNCHANGED runVars PROVE DiskTypes'
  BY <1>5 DEF StartInstaller, Start
<1>6. ASSUME NEW d \in Disks, FinishCopy(d), UNCHANGED runVars PROVE DiskTypes'
  BY <1>6 DEF FinishCopy
<1>7. ASSUME NEW d \in Disks, CopyFails(d), UNCHANGED runVars PROVE DiskTypes'
  BY <1>7 DEF CopyFails, Disturb
<1>8. ASSUME NEW d \in Disks, StartSystem(d) PROVE DiskTypes'
  BY <1>8 DEF StartSystem, Start
<1>9. ASSUME NEW d \in Disks, Repart(d) PROVE DiskTypes'
  BY <1>9 DEF Repart, DiskKey
<1>10. ASSUME NEW d \in Disks, OpenBuild(d) PROVE DiskTypes'
  BY <1>10 DEF OpenBuild, DiskKey
<1>11. ASSUME NEW d \in Disks, Format(d) PROVE DiskTypes'
  BY <1>11 DEF Format, InUse
<1>12. ASSUME NEW d \in Disks, Build(d) PROVE DiskTypes'
  BY <1>12 DEF Build, Goes, NextStep
<1>13. ASSUME NEW d \in Disks, Lock(d) PROVE DiskTypes'
  BY <1>13 DEF Lock, Goes, NextStep
<1>14. CASE StepFails
  <2>1. CASE stored' = stored
    BY <1>14, <2>1 DEF StepFails
  <2>2. CASE \E o \in opened, t \in Visible("storage") : \E part \in SUBSET build[o].data :
                stored' = [stored EXCEPT ![t] = Stored(t, part)]
    <3>1. PICK o \in opened, t \in Visible("storage") : \E part \in SUBSET build[o].data :
                stored' = [stored EXCEPT ![t] = Stored(t, part)]
      BY <2>2
    <3>2. PICK part \in SUBSET build[o].data : stored' = [stored EXCEPT ![t] = Stored(t, part)]
      BY <3>1
    <3>3. part \in SUBSET Nat /\ kind' = kind
      BY <1>14 DEF StepFails
    <3>4. Stored(t, part) \in SUBSET [run : Nat, from : SUBSET Nat]
      <4>1. [run |-> boots, from |-> part] \in [run : Nat, from : SUBSET Nat]
        BY <3>3
      <4>2. stored[t] \in SUBSET [run : Nat, from : SUBSET Nat]
        OBVIOUS
      <4> QED BY <4>1, <4>2 DEF Stored
    <3> QED BY <3>2, <3>3, <3>4
  <2> QED BY <1>14, <2>1, <2>2 DEF StepFails
<1>15. ASSUME NEW d \in Disks, Appear(d), UNCHANGED runVars PROVE DiskTypes'
  BY <1>15 DEF Appear, Disturb
<1>16. CASE ConfiguredTarget /\ UNCHANGED runVars
  BY <1>16 DEF ConfiguredTarget
<1>17. CASE MenuTarget /\ UNCHANGED runVars
  BY <1>17 DEF MenuTarget
<1>18. CASE NoDiskToInstall /\ UNCHANGED runVars
  BY <1>18 DEF NoDiskToInstall
<1>19. CASE InstallRefused /\ UNCHANGED runVars
  BY <1>19 DEF InstallRefused
<1>20. CASE StorageFound
  BY <1>20 DEF StorageFound
<1>21. CASE StorageTarget
  BY <1>21 DEF StorageTarget, NoStorage
<1>22. CASE StorageFails
  BY <1>22 DEF StorageFails, NoStorage
<1>23. CASE SwitchRoot
  BY <1>23 DEF SwitchRoot
<1>24. CASE RepartFails
  BY <1>24 DEF RepartFails, Disturb
<1>25. CASE DisableUsbGuard
  BY <1>25 DEF DisableUsbGuard, Goes, NextStep
<1>26. CASE Poweroff
  BY <1>26 DEF Poweroff, Goes, TurnOff
<1>27. CASE Shutdown
  BY <1>27 DEF Shutdown, TurnOff
<1>28. CASE PowerCut
  BY <1>28 DEF PowerCut, Disturb, TurnOff
<1>29. CASE UNCHANGED vars
  BY <1>29
<1>30. ASSUME NEW d \in Disks, DeleteFails(d), UNCHANGED runVars PROVE DiskTypes'
  BY <1>30 DEF DeleteFails, Command, Disturb
<1>31. CASE UsbGuard
  BY <1>31 DEF UsbGuard
<1> HIDE DEF diskVars, bootVars, runVars, TypeOK, InstallerTypeOK, Values, Kinds, Esps, Files,
         NoFiles, NoEsps, NoBuild, NothingAsked, Visible, Seen, Menu, Namings, Images, Carried,
         RunInit, Points, DiskTypes
<1> QED
  BY <1>1, <1>2, <1>3, <1>4, <1>5, <1>6, <1>7, <1>8, <1>9, <1>10, <1>11, <1>12, <1>13, <1>14,
      <1>15, <1>16, <1>17, <1>18, <1>19, <1>20, <1>21, <1>22, <1>23, <1>24, <1>25, <1>26,
      <1>27, <1>28, <1>29, <1>30, <1>31 DEF Next, ToolStep, InstallerStep, RunStep

\* Types.
LEMMA TypesOfBuild ==
    ASSUME TypeOK, [Next]_vars
    PROVE  BuildTypes'
<1> USE LimitsAssumption, NamesAssumption, StepFacts DEF vars, diskVars, bootVars, runVars,
        TypeOK, InstallerTypeOK, Values, Kinds, Esps, Files, NoFiles, NoEsps, NoBuild,
        NothingAsked, Visible, Seen, Menu, Namings, Images, Carried, RunInit, Points, BuildTypes
<1>1. ASSUME NEW d \in Disks, NEW f \in Files, NEW v \in Settings(f), Set(d, f, v), UNCHANGED
             runVars
      PROVE  BuildTypes'
  BY <1>1 DEF Set, Command, Counted
<1>2. ASSUME NEW d \in Disks, NEW f \in Files, SetFails(d, f), UNCHANGED runVars
      PROVE  BuildTypes'
  BY <1>2 DEF SetFails, Command, Counted, Disturb
<1>3. ASSUME NEW s \in Disks, NEW d \in Disks, StartCopy(s, d), UNCHANGED runVars
      PROVE  BuildTypes'
  BY <1>3 DEF StartCopy
<1>4. ASSUME NEW d \in Disks, NEW t \in Disks, CopyOutputs(d, t) PROVE BuildTypes'
  BY <1>4 DEF CopyOutputs, Goes, NextStep, Stored
<1>5. ASSUME NEW d \in Disks, StartInstaller(d), UNCHANGED runVars PROVE BuildTypes'
  BY <1>5 DEF StartInstaller, Start
<1>6. ASSUME NEW d \in Disks, FinishCopy(d), UNCHANGED runVars PROVE BuildTypes'
  BY <1>6 DEF FinishCopy
<1>7. ASSUME NEW d \in Disks, CopyFails(d), UNCHANGED runVars PROVE BuildTypes'
  BY <1>7 DEF CopyFails, Disturb
<1>8. ASSUME NEW d \in Disks, StartSystem(d) PROVE BuildTypes'
  BY <1>8 DEF StartSystem, Start
<1>9. ASSUME NEW d \in Disks, Repart(d) PROVE BuildTypes'
  BY <1>9 DEF Repart, DiskKey
<1>10. ASSUME NEW d \in Disks, OpenBuild(d) PROVE BuildTypes'
  BY <1>10 DEF OpenBuild, DiskKey
<1>11. ASSUME NEW d \in Disks, Format(d) PROVE BuildTypes'
  BY <1>11 DEF Format, InUse
<1>12. ASSUME NEW d \in Disks, Build(d) PROVE BuildTypes'
  <2>1. build' = [build EXCEPT ![d] = [build[d] EXCEPT !.data = build[d].data \cup {boots}]]
    BY <1>12 DEF Build
  <2>2. [build[d] EXCEPT !.data = build[d].data \cup {boots}] \in [key : Nat, data : SUBSET Nat]
    <3>1. build[d] \in [key : Nat, data : SUBSET Nat] /\ boots \in Nat
      OBVIOUS
    <3> QED BY <3>1
  <2> QED BY <2>1, <2>2
<1>13. ASSUME NEW d \in Disks, Lock(d) PROVE BuildTypes'
  <2>1. build' = [build EXCEPT ![d] = [build[d] EXCEPT !.key = 0]]
    BY <1>13 DEF Lock
  <2>2. [build[d] EXCEPT !.key = 0] \in [key : Nat, data : SUBSET Nat]
    <3>1. build[d] \in [key : Nat, data : SUBSET Nat] /\ boots \in Nat
      OBVIOUS
    <3> QED BY <3>1
  <2> QED BY <2>1, <2>2
<1>14. CASE StepFails
  <2>1. \/ build' = build
        \/ \E o \in opened :
              build' = [build EXCEPT ![o] = [build[o] EXCEPT !.data = build[o].data \cup {boots}]]
    BY <1>14 DEF StepFails
  <2>2. ASSUME NEW o \in opened
        PROVE  [build[o] EXCEPT !.data = build[o].data \cup {boots}]
                  \in [key : Nat, data : SUBSET Nat]
    <3>1. build[o] \in [key : Nat, data : SUBSET Nat] /\ boots \in Nat
      OBVIOUS
    <3> QED BY <3>1
  <2>3. ASSUME NEW o \in opened,
               build' = [build EXCEPT ![o] = [build[o] EXCEPT !.data = build[o].data \cup {boots}]]
        PROVE  BuildTypes'
    <3>1. o \in Disks
      OBVIOUS
    <3> QED BY <2>2, <2>3, <3>1
  <2>4. CASE build' = build
    BY <2>4
  <2> QED BY <2>1, <2>3, <2>4
<1>15. ASSUME NEW d \in Disks, Appear(d), UNCHANGED runVars PROVE BuildTypes'
  BY <1>15 DEF Appear, Disturb
<1>16. CASE ConfiguredTarget /\ UNCHANGED runVars
  BY <1>16 DEF ConfiguredTarget
<1>17. CASE MenuTarget /\ UNCHANGED runVars
  BY <1>17 DEF MenuTarget
<1>18. CASE NoDiskToInstall /\ UNCHANGED runVars
  BY <1>18 DEF NoDiskToInstall
<1>19. CASE InstallRefused /\ UNCHANGED runVars
  BY <1>19 DEF InstallRefused
<1>20. CASE StorageFound
  BY <1>20 DEF StorageFound
<1>21. CASE StorageTarget
  BY <1>21 DEF StorageTarget, NoStorage
<1>22. CASE StorageFails
  BY <1>22 DEF StorageFails, NoStorage
<1>23. CASE SwitchRoot
  BY <1>23 DEF SwitchRoot
<1>24. CASE RepartFails
  BY <1>24 DEF RepartFails, Disturb
<1>25. CASE DisableUsbGuard
  BY <1>25 DEF DisableUsbGuard, Goes, NextStep
<1>26. CASE Poweroff
  BY <1>26 DEF Poweroff, Goes, TurnOff
<1>27. CASE Shutdown
  BY <1>27 DEF Shutdown, TurnOff
<1>28. CASE PowerCut
  BY <1>28 DEF PowerCut, Disturb, TurnOff
<1>29. CASE UNCHANGED vars
  BY <1>29
<1>30. ASSUME NEW d \in Disks, DeleteFails(d), UNCHANGED runVars PROVE BuildTypes'
  BY <1>30 DEF DeleteFails, Command, Disturb
<1>31. CASE UsbGuard
  BY <1>31 DEF UsbGuard
<1> HIDE DEF diskVars, bootVars, runVars, TypeOK, InstallerTypeOK, Values, Kinds, Esps, Files,
         NoFiles, NoEsps, NoBuild, NothingAsked, Visible, Seen, Menu, Namings, Images, Carried,
         RunInit, Points, BuildTypes
<1> QED
  BY <1>1, <1>2, <1>3, <1>4, <1>5, <1>6, <1>7, <1>8, <1>9, <1>10, <1>11, <1>12, <1>13, <1>14,
      <1>15, <1>16, <1>17, <1>18, <1>19, <1>20, <1>21, <1>22, <1>23, <1>24, <1>25, <1>26,
      <1>27, <1>28, <1>29, <1>30, <1>31 DEF Next, ToolStep, InstallerStep, RunStep

\* Types.
LEMMA TypesOfBoot ==
    ASSUME TypeOK, [Next]_vars
    PROVE  BootTypes'
<1> USE LimitsAssumption, NamesAssumption, StepFacts DEF vars, diskVars, bootVars, runVars,
        TypeOK, InstallerTypeOK, Values, Kinds, Esps, Files, NoFiles, NoEsps, NoBuild,
        NothingAsked, Visible, Seen, Menu, Namings, Images, Carried, RunInit, Points, BootTypes
<1>1. ASSUME NEW d \in Disks, NEW f \in Files, NEW v \in Settings(f), Set(d, f, v), UNCHANGED
             runVars
      PROVE  BootTypes'
  BY <1>1 DEF Set, Command, Counted
<1>2. ASSUME NEW d \in Disks, NEW f \in Files, SetFails(d, f), UNCHANGED runVars
      PROVE  BootTypes'
  BY <1>2 DEF SetFails, Command, Counted, Disturb
<1>3. ASSUME NEW s \in Disks, NEW d \in Disks, StartCopy(s, d), UNCHANGED runVars
      PROVE  BootTypes'
  BY <1>3 DEF StartCopy
<1>4. ASSUME NEW d \in Disks, NEW t \in Disks, CopyOutputs(d, t) PROVE BootTypes'
  BY <1>4 DEF CopyOutputs, Goes, NextStep, Stored
<1>5. ASSUME NEW d \in Disks, StartInstaller(d), UNCHANGED runVars PROVE BootTypes'
  BY <1>5 DEF StartInstaller, Start
<1>6. ASSUME NEW d \in Disks, FinishCopy(d), UNCHANGED runVars PROVE BootTypes'
  BY <1>6 DEF FinishCopy
<1>7. ASSUME NEW d \in Disks, CopyFails(d), UNCHANGED runVars PROVE BootTypes'
  BY <1>7 DEF CopyFails, Disturb
<1>8. ASSUME NEW d \in Disks, StartSystem(d) PROVE BootTypes'
  BY <1>8 DEF StartSystem, Start
<1>9. ASSUME NEW d \in Disks, Repart(d) PROVE BootTypes'
  BY <1>9 DEF Repart, DiskKey
<1>10. ASSUME NEW d \in Disks, OpenBuild(d) PROVE BootTypes'
  BY <1>10 DEF OpenBuild, DiskKey
<1>11. ASSUME NEW d \in Disks, Format(d) PROVE BootTypes'
  BY <1>11 DEF Format, InUse
<1>12. ASSUME NEW d \in Disks, Build(d) PROVE BootTypes'
  BY <1>12 DEF Build, Goes, NextStep
<1>13. ASSUME NEW d \in Disks, Lock(d) PROVE BootTypes'
  BY <1>13 DEF Lock, Goes, NextStep
<1>14. CASE StepFails
  BY <1>14 DEF StepFails, Disturb, NextStep, Goes
<1>15. ASSUME NEW d \in Disks, Appear(d), UNCHANGED runVars PROVE BootTypes'
  BY <1>15 DEF Appear, Disturb
<1>16. CASE ConfiguredTarget /\ UNCHANGED runVars
  <2>1. target' \in Values
    BY <1>16 DEF ConfiguredTarget
  <2> QED BY <1>16, <2>1 DEF ConfiguredTarget
<1>17. CASE MenuTarget /\ UNCHANGED runVars
  BY <1>17 DEF MenuTarget
<1>18. CASE NoDiskToInstall /\ UNCHANGED runVars
  BY <1>18 DEF NoDiskToInstall
<1>19. CASE InstallRefused /\ UNCHANGED runVars
  BY <1>19 DEF InstallRefused
<1>20. CASE StorageFound
  BY <1>20 DEF StorageFound
<1>21. CASE StorageTarget
  <2>1. target' \in Values /\ chosen' \in BOOLEAN
    <3>1. /\ chosen' \in BOOLEAN
          /\ \/ \E c \in Disks : target' = esp[c]["outer"]["storage_target"]
             \/ \E c \in Menu("system") : target' = name[c]
      BY <1>21 DEF StorageTarget
    <3>2. \A c \in Menu("system") : name[c] \in Names
      OBVIOUS
    <3>3. \A c \in Disks : esp[c]["outer"]["storage_target"] \in Values
      OBVIOUS
    <3> QED BY <3>1, <3>2, <3>3
  <2> QED BY <1>21, <2>1 DEF StorageTarget
<1>22. CASE StorageFails
  BY <1>22 DEF StorageFails, NoStorage
<1>23. CASE SwitchRoot
  BY <1>23 DEF SwitchRoot
<1>24. CASE RepartFails
  BY <1>24 DEF RepartFails, Disturb
<1>25. CASE DisableUsbGuard
  BY <1>25 DEF DisableUsbGuard, Goes, NextStep
<1>26. CASE Poweroff
  BY <1>26 DEF Poweroff, Goes, TurnOff
<1>27. CASE Shutdown
  BY <1>27 DEF Shutdown, TurnOff
<1>28. CASE PowerCut
  <2>1. disturbances' \in 0..MaxDisturbances
    BY <1>28 DEF PowerCut, Disturb
  <2> QED BY <1>28, <2>1 DEF PowerCut, TurnOff
<1>29. CASE UNCHANGED vars
  BY <1>29
<1>30. ASSUME NEW d \in Disks, DeleteFails(d), UNCHANGED runVars PROVE BootTypes'
  BY <1>30 DEF DeleteFails, Command, Disturb
<1>31. CASE UsbGuard
  BY <1>31 DEF UsbGuard
<1> HIDE DEF diskVars, bootVars, runVars, TypeOK, InstallerTypeOK, Values, Kinds, Esps, Files,
         NoFiles, NoEsps, NoBuild, NothingAsked, Visible, Seen, Menu, Namings, Images, Carried,
         RunInit, Points, BootTypes
<1> QED
  BY <1>1, <1>2, <1>3, <1>4, <1>5, <1>6, <1>7, <1>8, <1>9, <1>10, <1>11, <1>12, <1>13, <1>14,
      <1>15, <1>16, <1>17, <1>18, <1>19, <1>20, <1>21, <1>22, <1>23, <1>24, <1>25, <1>26,
      <1>27, <1>28, <1>29, <1>30, <1>31 DEF Next, ToolStep, InstallerStep, RunStep

\* Types.
LEMMA TypesOfRun ==
    ASSUME TypeOK, [Next]_vars
    PROVE  RunTypes'
<1> USE LimitsAssumption, NamesAssumption, StepFacts DEF vars, diskVars, bootVars, runVars,
        TypeOK, InstallerTypeOK, Values, Kinds, Esps, Files, NoFiles, NoEsps, NoBuild,
        NothingAsked, Visible, Seen, Menu, Namings, Images, Carried, RunInit, Points, RunTypes
<1>1. ASSUME NEW d \in Disks, NEW f \in Files, NEW v \in Settings(f), Set(d, f, v), UNCHANGED
             runVars
      PROVE  RunTypes'
  BY <1>1 DEF Set, Command, Counted
<1>2. ASSUME NEW d \in Disks, NEW f \in Files, SetFails(d, f), UNCHANGED runVars PROVE RunTypes'
  BY <1>2 DEF SetFails, Command, Counted, Disturb
<1>3. ASSUME NEW s \in Disks, NEW d \in Disks, StartCopy(s, d), UNCHANGED runVars
      PROVE  RunTypes'
  BY <1>3 DEF StartCopy
<1>4. ASSUME NEW d \in Disks, NEW t \in Disks, CopyOutputs(d, t) PROVE RunTypes'
  BY <1>4 DEF CopyOutputs, Goes, NextStep, Stored
<1>5. ASSUME NEW d \in Disks, StartInstaller(d), UNCHANGED runVars PROVE RunTypes'
  BY <1>5 DEF StartInstaller, Start
<1>6. ASSUME NEW d \in Disks, FinishCopy(d), UNCHANGED runVars PROVE RunTypes'
  BY <1>6 DEF FinishCopy
<1>7. ASSUME NEW d \in Disks, CopyFails(d), UNCHANGED runVars PROVE RunTypes'
  BY <1>7 DEF CopyFails, Disturb
<1>8. ASSUME NEW d \in Disks, StartSystem(d) PROVE RunTypes'
  BY <1>8 DEF StartSystem, Start
<1>9. ASSUME NEW d \in Disks, Repart(d) PROVE RunTypes'
  BY <1>9 DEF Repart, DiskKey
<1>10. ASSUME NEW d \in Disks, OpenBuild(d) PROVE RunTypes'
  BY <1>10 DEF OpenBuild, DiskKey
<1>11. ASSUME NEW d \in Disks, Format(d) PROVE RunTypes'
  BY <1>11 DEF Format, InUse
<1>12. ASSUME NEW d \in Disks, Build(d) PROVE RunTypes'
  BY <1>12 DEF Build, Goes, NextStep
<1>13. ASSUME NEW d \in Disks, Lock(d) PROVE RunTypes'
  BY <1>13 DEF Lock, Goes, NextStep
<1>14. CASE StepFails
  BY <1>14 DEF StepFails, Disturb, NextStep, Goes
<1>15. ASSUME NEW d \in Disks, Appear(d), UNCHANGED runVars PROVE RunTypes'
  BY <1>15 DEF Appear, Disturb
<1>16. CASE ConfiguredTarget /\ UNCHANGED runVars
  BY <1>16 DEF ConfiguredTarget
<1>17. CASE MenuTarget /\ UNCHANGED runVars
  BY <1>17 DEF MenuTarget
<1>18. CASE NoDiskToInstall /\ UNCHANGED runVars
  BY <1>18 DEF NoDiskToInstall
<1>19. CASE InstallRefused /\ UNCHANGED runVars
  BY <1>19 DEF InstallRefused
<1>20. CASE StorageFound
  BY <1>20 DEF StorageFound
<1>21. CASE StorageTarget
  BY <1>21 DEF StorageTarget, NoStorage
<1>22. CASE StorageFails
  BY <1>22 DEF StorageFails, NoStorage
<1>23. CASE SwitchRoot
  BY <1>23 DEF SwitchRoot
<1>24. CASE RepartFails
  BY <1>24 DEF RepartFails, Disturb
<1>25. CASE DisableUsbGuard
  <2>1. step' \in 1..5
    BY <1>25 DEF DisableUsbGuard, Goes, NextStep
  <2> QED BY <1>25, <2>1 DEF DisableUsbGuard
<1>26. CASE Poweroff
  BY <1>26 DEF Poweroff, Goes, TurnOff
<1>27. CASE Shutdown
  BY <1>27 DEF Shutdown, TurnOff
<1>28. CASE PowerCut
  BY <1>28 DEF PowerCut, Disturb, TurnOff
<1>29. CASE UNCHANGED vars
  BY <1>29
<1>30. ASSUME NEW d \in Disks, DeleteFails(d), UNCHANGED runVars PROVE RunTypes'
  BY <1>30 DEF DeleteFails, Command, Disturb
<1>31. CASE UsbGuard
  BY <1>31 DEF UsbGuard
<1> HIDE DEF diskVars, bootVars, runVars, TypeOK, InstallerTypeOK, Values, Kinds, Esps, Files,
         NoFiles, NoEsps, NoBuild, NothingAsked, Visible, Seen, Menu, Namings, Images, Carried,
         RunInit, Points, RunTypes
<1> QED
  BY <1>1, <1>2, <1>3, <1>4, <1>5, <1>6, <1>7, <1>8, <1>9, <1>10, <1>11, <1>12, <1>13, <1>14,
      <1>15, <1>16, <1>17, <1>18, <1>19, <1>20, <1>21, <1>22, <1>23, <1>24, <1>25, <1>26,
      <1>27, <1>28, <1>29, <1>30, <1>31 DEF Next, ToolStep, InstallerStep, RunStep

\* No step takes artifacts from a disk the boot has seen.
LEMMA ArtifactsKeptByStep ==
    ASSUME TypeOK, Phases, Artifacts, Formats, [Next]_vars
    PROVE  \A e \in looked : stored[e] \subseteq stored'[e]
<1> USE DEF vars, diskVars, bootVars, runVars, TypeOK, InstallerTypeOK, Phases, RunInit,
        Artifacts, Formats
<1>1. ASSUME NEW d \in Disks, NEW f \in Files, NEW v \in Settings(f), Set(d, f, v), UNCHANGED
             runVars
      PROVE  \A e \in looked : stored[e] \subseteq stored'[e]
  BY <1>1 DEF Set, Command, Counted
<1>2. ASSUME NEW d \in Disks, NEW f \in Files, SetFails(d, f), UNCHANGED runVars
      PROVE  \A e \in looked : stored[e] \subseteq stored'[e]
  BY <1>2 DEF SetFails, Command, Counted, Disturb
<1>3. ASSUME NEW s \in Disks, NEW d \in Disks, StartCopy(s, d), UNCHANGED runVars
      PROVE  \A e \in looked : stored[e] \subseteq stored'[e]
  BY <1>3 DEF StartCopy
<1>4. ASSUME NEW d \in Disks, NEW t \in Disks, CopyOutputs(d, t)
      PROVE  \A e \in looked : stored[e] \subseteq stored'[e]
  BY <1>4 DEF CopyOutputs, Goes, NextStep, Stored
<1>5. ASSUME NEW d \in Disks, StartInstaller(d), UNCHANGED runVars
      PROVE  \A e \in looked : stored[e] \subseteq stored'[e]
  BY <1>5 DEF StartInstaller, Start
<1>6. ASSUME NEW d \in Disks, FinishCopy(d), UNCHANGED runVars
      PROVE  \A e \in looked : stored[e] \subseteq stored'[e]
  BY <1>6 DEF FinishCopy
<1>7. ASSUME NEW d \in Disks, CopyFails(d), UNCHANGED runVars
      PROVE  \A e \in looked : stored[e] \subseteq stored'[e]
  BY <1>7 DEF CopyFails, Disturb
<1>8. ASSUME NEW d \in Disks, StartSystem(d)
      PROVE  \A e \in looked : stored[e] \subseteq stored'[e]
  BY <1>8 DEF StartSystem, Start
<1>9. ASSUME NEW d \in Disks, Repart(d) PROVE \A e \in looked : stored[e] \subseteq stored'[e]
  BY <1>9 DEF Repart, DiskKey
<1>10. ASSUME NEW d \in Disks, OpenBuild(d)
       PROVE  \A e \in looked : stored[e] \subseteq stored'[e]
  BY <1>10 DEF OpenBuild, DiskKey
<1>11. ASSUME NEW d \in Disks, Format(d) PROVE \A e \in looked : stored[e] \subseteq stored'[e]
  BY <1>11 DEF Format, InUse
<1>12. ASSUME NEW d \in Disks, Build(d) PROVE \A e \in looked : stored[e] \subseteq stored'[e]
  BY <1>12 DEF Build, Goes, NextStep
<1>13. ASSUME NEW d \in Disks, Lock(d) PROVE \A e \in looked : stored[e] \subseteq stored'[e]
  BY <1>13 DEF Lock, Goes, NextStep
<1>14. CASE StepFails
  <2>1. \/ stored' = stored
        \/ \E o \in opened, t \in Visible("storage") : \E part \in SUBSET build[o].data :
                stored' = [stored EXCEPT ![t] = Stored(t, part)]
    BY <1>14 DEF StepFails
  <2>2. ASSUME NEW t \in Disks, NEW part, stored' = [stored EXCEPT ![t] = Stored(t, part)]
        PROVE  \A e \in looked : stored[e] \subseteq stored'[e]
    BY <2>2 DEF Stored
  <2>3. Visible("storage") \subseteq Disks
    BY DEF Visible, Seen
  <2> QED BY <2>1, <2>2, <2>3
<1>15. ASSUME NEW d \in Disks, Appear(d), UNCHANGED runVars
       PROVE  \A e \in looked : stored[e] \subseteq stored'[e]
  BY <1>15 DEF Appear, Disturb
<1>16. CASE ConfiguredTarget /\ UNCHANGED runVars
  BY <1>16 DEF ConfiguredTarget
<1>17. CASE MenuTarget /\ UNCHANGED runVars
  BY <1>17 DEF MenuTarget
<1>18. CASE NoDiskToInstall /\ UNCHANGED runVars
  BY <1>18 DEF NoDiskToInstall
<1>19. CASE InstallRefused /\ UNCHANGED runVars
  BY <1>19 DEF InstallRefused
<1>20. CASE StorageFound
  BY <1>20 DEF StorageFound
<1>21. CASE StorageTarget
  BY <1>21 DEF StorageTarget, NoStorage
<1>22. CASE StorageFails
  BY <1>22 DEF StorageFails, NoStorage
<1>23. CASE SwitchRoot
  BY <1>23 DEF SwitchRoot
<1>24. CASE RepartFails
  BY <1>24 DEF RepartFails, Disturb
<1>25. CASE DisableUsbGuard
  BY <1>25 DEF DisableUsbGuard, Goes, NextStep
<1>26. CASE Poweroff
  BY <1>26 DEF Poweroff, Goes, TurnOff
<1>27. CASE Shutdown
  BY <1>27 DEF Shutdown, TurnOff
<1>28. CASE PowerCut
  BY <1>28 DEF PowerCut, Disturb, TurnOff
<1>29. CASE UNCHANGED vars
  BY <1>29
<1>30. ASSUME NEW d \in Disks, DeleteFails(d), UNCHANGED runVars
      PROVE  \A e \in looked : stored[e] \subseteq stored'[e]
  BY <1>30 DEF DeleteFails, Command, Disturb
<1>31. CASE UsbGuard
  BY <1>31 DEF UsbGuard
<1> HIDE DEF diskVars, bootVars, runVars, TypeOK, InstallerTypeOK, Phases, RunInit, Artifacts,
         Formats
<1> QED
  BY <1>1, <1>2, <1>3, <1>4, <1>5, <1>6, <1>7, <1>8, <1>9, <1>10, <1>11, <1>12, <1>13, <1>14,
      <1>15, <1>16, <1>17, <1>18, <1>19, <1>20, <1>21, <1>22, <1>23, <1>24, <1>25, <1>26,
      <1>27, <1>28, <1>29, <1>30, <1>31 DEF Next, ToolStep, InstallerStep, RunStep
-----------------------------------------------------------------------------
\* The machine is off, and some disks have been flashed.
LEMMA Initially == Init => IInv
<1> SUFFICES ASSUME Init PROVE IInv
  OBVIOUS
<1> USE NamesAssumption DEF Init, InstallerInit, RunInit
<1>1. NoEsps \in [Esps -> [Files -> Values]] /\ NothingAsked \in [Files -> SUBSET Values]
  BY DEF NoEsps, NoFiles, NothingAsked, Values
<1>2. InstallerTypeOK
  <2>1. /\ esp \in [Disks -> [Esps -> [Files -> Values]]]
        /\ asked \in [Disks -> [Files -> SUBSET Values]]
        /\ kept \in [Disks -> [Files -> SUBSET Values]]
    BY <1>1
  <2>2. build \in [Disks -> [key : Nat, data : SUBSET Nat]]
    BY DEF NoBuild
  <2>3. kind \in [Disks -> Kinds] /\ stored \in [Disks -> SUBSET [run : Nat, from : SUBSET Nat]]
    BY DEF Kinds, Images
  <2>4. name \in [Disks -> Names \cup {Unseen}] /\ boots \in Nat /\ source \subseteq Disks
    OBVIOUS
  <2>5. target \in Values /\ chosen \in BOOLEAN
    BY DEF Values
  <2>6. commands \in Nat /\ disturbances \in 0..MaxDisturbances
    BY LimitsAssumption
  <2> HIDE DEF Init, InstallerInit
  <2> QED BY <2>1, <2>2, <2>3, <2>4, <2>5, <2>6 DEF InstallerTypeOK
<1>3. TypeOK
  BY <1>2 DEF TypeOK, Points
<1>4. Phases /\ Keys /\ Guards /\ Naming
  BY DEF Phases, Keys, Guards, Naming, NoBuild
<1>5. Artifacts /\ Menus /\ Formats
  BY DEF Artifacts, ArtifactsOfOneBoot, Menus, SourceSpared, Formats, StorageAsAsked
<1>6. Reads
  BY DEF Reads, NothingAsked, Files
<1> QED BY <1>3, <1>4, <1>5, <1>6 DEF IInv

LEMMA Inductive == IInv /\ [Next]_vars => IInv'
<1> SUFFICES ASSUME IInv, [Next]_vars PROVE IInv'
  OBVIOUS
<1> USE DEF IInv
<1>1. TypeOK'
  BY TypesOfSettings, TypesOfDisks, TypesOfBuild, TypesOfBoot, TypesOfRun DEF TypeOK,
      InstallerTypeOK,
        SettingsTypes, DiskTypes, BuildTypes, BootTypes, RunTypes
<1>2. Phases' /\ Keys' /\ Guards' /\ Naming'
  BY PhasesKept, KeysKept, GuardsKept, NamingKept
<1>3. Artifacts' /\ Menus' /\ Formats' /\ Reads'
  BY ArtifactsPure, MenusKept, FormatsKept, SettingsKept
<1> QED BY <1>1, <1>2, <1>3

THEOREM Invariance == Spec => []IInv
BY Initially, Inductive, PTL DEF Spec

\* The variables have their types.
THEOREM TypeCorrect == Spec => []TypeOK
<1>1. IInv => TypeOK
  BY DEF IInv
<1> QED BY <1>1, Invariance, PTL

\* The build partition that a boot has open holds nothing of earlier boots: a
\* partition is opened with the key of this boot only, and repart, which makes the
\* key, resets it (generate-disk-key, systemd-repart, systemd-cryptsetup).
THEOREM NoTraceOfBuilds == Spec => []BuildIsEphemeral
<1>1. IInv => BuildIsEphemeral
  BY DEF IInv, TypeOK, InstallerTypeOK, Keys, BuildIsEphemeral
<1> QED BY <1>1, Invariance, PTL

\* Each directory of an artifact storage is of one boot (copy-android-outputs).
THEOREM NoMixedArtifacts == Spec => []ArtifactsOfOneBoot
<1>1. IInv => ArtifactsOfOneBoot
  BY DEF IInv, Artifacts
<1> QED BY <1>1, Invariance, PTL

\* The settings of the payload are those that the tool reported, but for a
\* storage_target that mdel failed to remove (configure-disk-image, run.sh).
THEOREM SettingsReachTheMachine == Spec => []SettingsArrive
<1>1. IInv => SettingsArrive
  <2> SUFFICES ASSUME IInv, NEW d \in Disks, NEW f \in Files, asked[d][f] # {}
               PROVE  /\ kind[d] \in Images \cup {"partial"}
                            => esp[d][ReadFrom(d, f)][f] \in Expected(d, f)
                      /\ kind[d] \in Images =>
                            \/ Shown(d, f) \in Expected(d, f)
                            \/ kind[d] = "installer" /\ f = "storage_target"
    BY DEF SettingsArrive
  <2>1. kind[d] \in Images \cup {"partial"} => esp[d][ReadFrom(d, f)][f] \in Expected(d, f)
    BY DEF IInv, Reads
  <2>2. \/ Shown(d, f) = esp[d][ReadFrom(d, f)][f]
        \/ kind[d] = "installer" /\ f = "storage_target"
    BY DEF Shown, ReadFrom, PayloadEsp, Files
  <2> QED BY <2>1, <2>2
<1> QED BY <1>1, Invariance, PTL

\* A disk from the installer's menu is not the one it copies from, unless there
\* are two (select_disk).
THEOREM InstallerNotOverwritten == Spec => []SourceSpared
<1>1. IInv => SourceSpared
  BY DEF IInv, Menus
<1> QED BY <1>1, Invariance, PTL

\* The device to be formatted is the one of the setting, which is the one that mdel
\* was to remove if that has failed (set-storage, artifact-storage.sh).
THEOREM StorageWhereAsked == Spec => []StorageAsAsked
<1>1. IInv => StorageAsAsked
  BY DEF IInv, Formats
<1> QED BY <1>1, Invariance, PTL

\* USBGuard, up or not, is switched off by the steps only after the lock, unless that
\* failed (unattended.sh).
THEOREM GuardOutlastsBuild == Spec => []GuardedUntilLocked
<1>1. IInv => GuardedUntilLocked
  <2> SUFFICES ASSUME IInv, guard = "off", opened # {} PROVE "lock" \in failed
    BY DEF GuardedUntilLocked
  <2>1. step > 3
    BY DEF IInv, TypeOK, Guards
  <2> QED BY <2>1 DEF IInv, Guards
<1> QED BY <1>1, Invariance, PTL

\* A boot takes no artifacts from a disk that was there when it looked for the label
\* (artifact-storage.sh).
THEOREM ArtifactsSurvive == Spec => ArtifactsKept
<1>1. IInv /\ [Next]_vars => [\A d \in looked : stored[d] \subseteq stored'[d]]_vars
  BY ArtifactsKeptByStep DEF IInv
<1> QED BY <1>1, Invariance, PTL DEF Spec, ArtifactsKept

-----------------------------------------------------------------------------
(* The boots are ephemeral builds. *)

\* Before it has come up, a boot has left nothing in a partition it can open.
Fresh ==
    pc = "initrd" => \A d \in Disks : build[d].key = boots => build[d].data = {}

\* What a step can do to builds and archives.
Calm == UNCHANGED <<boots, build, opened, stored>> /\ (pc' = "initrd" => pc = "initrd")
Starts ==
    boots' = boots + 1 /\ opened = {} /\ opened' = {} /\ UNCHANGED <<build, stored>>
Ends == opened' = {} /\ pc' # "initrd" /\ UNCHANGED <<boots, build, stored>>
Overwritten(d) ==
    /\ opened' = opened /\ d \notin opened /\ boots' = boots
    /\ pc' = "initrd" => pc = "initrd"
    /\ pc # "initrd" => opened = {}
    /\ build' = [build EXCEPT ![d] = NoBuild]
    /\ stored' = [stored EXCEPT ![d] = {}]
Changes ==
    \/ \E d \in Disks : Overwritten(d)
    \/ \E d \in Disks : Repart(d) \/ OpenBuild(d) \/ Build(d) \/ Lock(d)
    \/ \E d, t \in Disks : CopyOutputs(d, t)
    \/ StepFails

LEMMA StepKinds ==
    ASSUME TypeOK, Phases, [Next]_vars
    PROVE  Calm \/ Starts \/ Ends \/ Changes
<1> DEFINE G == Calm \/ Starts \/ Ends \/ Changes
<1> USE DEF vars, diskVars, bootVars, runVars, Phases, RunInit, Calm
<1>1. ASSUME NEW d \in Disks, NEW f \in Files, NEW v \in Settings(f), Set(d, f, v), UNCHANGED
             runVars
      PROVE  G
  BY <1>1 DEF Set, Command, Counted
<1>2. ASSUME NEW d \in Disks, NEW f \in Files, SetFails(d, f), UNCHANGED runVars PROVE G
  BY <1>2 DEF SetFails, Command, Counted
<1>3. ASSUME NEW s \in Disks, NEW d \in Disks, StartCopy(s, d), UNCHANGED runVars PROVE G
  <2>1. Overwritten(d)
    BY <1>3 DEF StartCopy, Overwritten
  <2> QED BY <2>1 DEF Changes
<1>4. ASSUME NEW d \in Disks, NEW t \in Disks, CopyOutputs(d, t) PROVE G
  BY <1>4 DEF Changes
<1>5. ASSUME NEW d \in Disks, StartInstaller(d), UNCHANGED runVars PROVE G
  BY <1>5 DEF StartInstaller, Start, Starts
<1>6. ASSUME NEW d \in Disks, FinishCopy(d), UNCHANGED runVars PROVE G
  BY <1>6 DEF FinishCopy
<1>7. ASSUME NEW d \in Disks, CopyFails(d), UNCHANGED runVars PROVE G
  BY <1>7 DEF CopyFails
<1>8. ASSUME NEW d \in Disks, StartSystem(d) PROVE G
  BY <1>8 DEF StartSystem, Start, Starts
<1>9. ASSUME NEW d \in Disks, Repart(d) \/ OpenBuild(d) \/ Build(d) \/ Lock(d) PROVE G
  BY <1>9 DEF Changes
<1>10. ASSUME NEW d \in Disks, Format(d) PROVE G
  <2>1. Overwritten(d)
    BY <1>10 DEF Format, InUse, Overwritten
  <2> QED BY <2>1 DEF Changes
<1>11. CASE StepFails
  BY <1>11 DEF Changes
<1>12. ASSUME NEW d \in Disks, Appear(d), UNCHANGED runVars PROVE G
  BY <1>12 DEF Appear
<1>13. CASE (ConfiguredTarget \/ MenuTarget) /\ UNCHANGED runVars
  BY <1>13 DEF ConfiguredTarget, MenuTarget
<1>14. CASE (NoDiskToInstall \/ InstallRefused) /\ UNCHANGED runVars
  BY <1>14 DEF NoDiskToInstall, InstallRefused
<1>15. CASE StorageFound \/ StorageTarget \/ StorageFails
  BY <1>15 DEF StorageFound, StorageTarget, StorageFails
<1>16. CASE SwitchRoot \/ RepartFails \/ DisableUsbGuard
  BY <1>16 DEF SwitchRoot, RepartFails, DisableUsbGuard
<1>17. CASE Poweroff \/ Shutdown \/ PowerCut
  BY <1>17 DEF Poweroff, Shutdown, PowerCut, TurnOff, Ends
<1>18. CASE UNCHANGED vars
  BY <1>18
<1>19. ASSUME NEW d \in Disks, DeleteFails(d), UNCHANGED runVars PROVE G
  BY <1>19 DEF DeleteFails, Command
<1>20. CASE UsbGuard
  BY <1>20 DEF UsbGuard
<1> HIDE DEF vars, diskVars, bootVars, runVars, Phases, RunInit, Calm
<1> QED
  BY <1>1, <1>2, <1>3, <1>4, <1>5, <1>6, <1>7, <1>8, <1>9, <1>10, <1>11, <1>12, <1>13, <1>14,
      <1>15, <1>16, <1>17, <1>18, <1>19, <1>20 DEF Next, ToolStep, InstallerStep, RunStep

LEMMA FreshKept ==
    ASSUME TypeOK, Phases, Keys, Fresh, [Next]_vars
    PROVE  Fresh'
<1> USE DEF TypeOK, InstallerTypeOK, Keys, Fresh
<1>1. CASE Calm
  BY <1>1 DEF Calm
<1>2. CASE Starts
  <2>1. \A d \in Disks : build'[d].key <= boots /\ boots' = boots + 1 /\ build[d].key \in Nat
    BY <1>2 DEF Starts
  <2>2. \A d \in Disks : build'[d].key # boots'
    BY <2>1
  <2> QED BY <2>2
<1>3. CASE Ends
  BY <1>3 DEF Ends
<1>4. ASSUME NEW d \in Disks, Overwritten(d) PROVE Fresh'
  BY <1>4 DEF Overwritten, NoBuild
<1>5. ASSUME NEW d \in Disks, Repart(d) PROVE Fresh'
  BY <1>5 DEF Repart, bootVars
<1>6. ASSUME NEW d \in Disks, OpenBuild(d) PROVE Fresh'
  BY <1>6 DEF OpenBuild, diskVars, bootVars
<1>7. ASSUME pc = "up", pc' = pc PROVE Fresh'
  BY <1>7
<1>8. ASSUME NEW d \in Disks, Build(d) \/ Lock(d) PROVE pc = "up" /\ pc' = pc
  BY <1>8 DEF Build, Lock, Goes, bootVars
<1>9. ASSUME NEW d \in Disks, NEW t \in Disks, CopyOutputs(d, t) PROVE pc = "up" /\ pc' = pc
  BY <1>9 DEF CopyOutputs, Goes, bootVars
<1>10. ASSUME StepFails PROVE pc = "up" /\ pc' = pc
  BY <1>10 DEF StepFails, bootVars
<1> HIDE DEF TypeOK, InstallerTypeOK, Keys, Fresh
<1> QED BY <1>1, <1>2, <1>3, <1>4, <1>5, <1>6, <1>7, <1>8, <1>9, <1>10, StepKinds DEF Changes

\* What the open partition holds is of this boot, and there is none unless it runs.
LEMMA WorkFacts ==
    ASSUME IInv, Fresh
    PROVE  /\ Work \subseteq {boots}
           /\ opened # {} => boots > 0
           /\ pc = "initrd" \/ opened = {} => Work = {}
<1>1. \A d \in opened : d \in Disks /\ build[d].key = boots /\ boots > 0
  BY DEF IInv, TypeOK, Keys
<1>2. \A d \in opened : build[d].data \subseteq {boots}
  BY <1>1 DEF IInv, Keys
<1>3. pc = "initrd" => \A d \in opened : build[d].data = {}
  BY <1>1 DEF Fresh
<1> QED BY <1>1, <1>2, <1>3 DEF Work

LEMMA BuildProduces ==
    ASSUME IInv, Fresh, NEW o \in opened, UNCHANGED <<boots, opened, stored>>,
           build' = [build EXCEPT ![o].data = @ \cup {boots}]
    PROVE  Ephemeral!Produce
<1>1. build \in [Disks -> [key : Nat, data : SUBSET Nat]] /\ opened \subseteq Disks
  BY DEF IInv, TypeOK, InstallerTypeOK
<1>2. \A d \in opened : build'[d].data = IF d = o THEN build[d].data \cup {boots}
                                                 ELSE build[d].data
  BY <1>1
<1>3. Work' = Work \cup {boots}
  BY <1>2 DEF Work
<1>4. Archive' = Archive
  BY DEF Archive
<1> QED BY <1>3, <1>4, WorkFacts DEF Ephemeral!Produce

LEMMA CopyHandsOver ==
    ASSUME IInv, NEW t \in Disks, NEW part \in SUBSET Work, UNCHANGED <<boots, opened, build>>,
           stored' = [stored EXCEPT ![t] = Stored(t, part)]
    PROVE  Ephemeral!HandOver
<1> DEFINE dir == [run |-> boots, from |-> part]
<1>1. stored \in [Disks -> SUBSET [run : Nat, from : SUBSET Nat]]
  BY DEF IInv, TypeOK, InstallerTypeOK
<1>2. /\ \A d \in Disks : stored[d] \subseteq stored'[d]
      /\ \A d \in Disks : stored'[d] \subseteq stored[d] \cup {dir}
      /\ dir \in stored'[t]
  BY <1>1 DEF Stored
<1> HIDE DEF dir
<1>3. Archive' = Archive \cup {dir}
  <2>1. \A x : x \in Archive' <=> \E d \in Disks : x \in stored'[d]
    BY DEF Archive
  <2>2. \A x : x \in Archive <=> \E d \in Disks : x \in stored[d]
    BY DEF Archive
  <2>3. ASSUME NEW x, x \in Archive' PROVE x \in Archive \cup {dir}
    <3>1. PICK d \in Disks : x \in stored'[d]
      BY <2>1, <2>3
    <3> QED BY <1>2, <2>2, <3>1
  <2>4. ASSUME NEW x, x \in Archive PROVE x \in Archive'
    <3>1. PICK d \in Disks : x \in stored[d]
      BY <2>2, <2>4
    <3> QED BY <1>2, <2>1, <3>1
  <2>5. dir \in Archive'
    BY <1>2, <2>1
  <2> QED BY <2>3, <2>4, <2>5
<1>4. Work' = Work
  BY DEF Work
<1> QED BY <1>3, <1>4 DEF Ephemeral!HandOver, dir

LEMMA OverwrittenImplements ==
    ASSUME IInv, Fresh, NEW d \in Disks, Overwritten(d)
    PROVE  Ephemeral!Overwrite
<1> USE DEF Overwritten
<1>1. /\ build \in [Disks -> [key : Nat, data : SUBSET Nat]] /\ opened \subseteq Disks
      /\ stored \in [Disks -> SUBSET [run : Nat, from : SUBSET Nat]]
  BY DEF IInv, TypeOK, InstallerTypeOK
<1>2. \A e \in opened : build'[e] = build[e]
  BY <1>1
<1>3. Work' = Work
  BY <1>2 DEF Work
<1>4. Work = {}
  BY WorkFacts
<1>5. \A e \in Disks : stored'[e] \subseteq stored[e]
  BY <1>1
<1>6. Archive' \subseteq Archive
  BY <1>5 DEF Archive
<1> QED BY <1>3, <1>4, <1>6 DEF Ephemeral!Overwrite

\* A step that closes the partition, or leaves it closed.
LEMMA ClosedImplements ==
    ASSUME opened' = {}, UNCHANGED <<boots, stored>>
    PROVE  Ephemeral!Finish
BY DEF Work, Archive, Ephemeral!Finish

LEMMA StepFailsImplements ==
    ASSUME IInv, Fresh, StepFails
    PROVE  Ephemeral!Next \/ UNCHANGED Ephemeral!vars
<1>1. boots' = boots
  BY DEF StepFails, bootVars
<1>2. CASE UNCHANGED <<build, stored, opened>>
  BY <1>1, <1>2 DEF Ephemeral!vars, Work, Archive
<1>3. ASSUME NEW o \in opened, build' = [build EXCEPT ![o].data = @ \cup {boots}],
             UNCHANGED <<stored, opened>>
      PROVE  Ephemeral!Next
  BY <1>1, <1>3, BuildProduces DEF Ephemeral!Next
<1>4. ASSUME NEW o \in opened, NEW t \in Visible("storage"), NEW part \in SUBSET build[o].data,
             stored' = [stored EXCEPT ![t] = Stored(t, part)], UNCHANGED <<build, opened>>
      PROVE  Ephemeral!Next
  <2>1. t \in Disks
    BY DEF Visible, Seen
  <2>2. part \in SUBSET Work
    BY DEF Work
  <2> QED BY <1>1, <1>4, <2>1, <2>2, CopyHandsOver DEF Ephemeral!Next
<1>5. CASE opened' = {} /\ UNCHANGED <<build, stored>>
  BY <1>1, <1>5, ClosedImplements DEF Ephemeral!Next
<1> QED BY <1>2, <1>3, <1>4, <1>5 DEF StepFails

LEMMA StepImplements ==
    ASSUME IInv, Fresh, [Next]_vars
    PROVE  [Ephemeral!Next]_(Ephemeral!vars)
<1>1. ASSUME UNCHANGED <<boots, build, opened, stored>>
      PROVE  UNCHANGED Ephemeral!vars
  BY <1>1 DEF Ephemeral!vars, Work, Archive
<1>2. CASE Calm
  BY <1>1, <1>2 DEF Calm
<1>3. CASE Starts
  <2>1. Ephemeral!Begin
    BY <1>3 DEF Starts, Work, Archive, Ephemeral!Begin
  <2> QED BY <2>1 DEF Ephemeral!Next
<1>4. CASE Ends
  BY <1>4, ClosedImplements DEF Ends, Ephemeral!Next
<1>5. ASSUME NEW d \in Disks, Overwritten(d) PROVE Ephemeral!Next
  BY <1>5, OverwrittenImplements DEF Ephemeral!Next
<1>6. ASSUME NEW d \in Disks, Repart(d) PROVE Ephemeral!Next
  \* It empties what it resets.
  <2>1. opened \subseteq Disks /\ build \in [Disks -> [key : Nat, data : SUBSET Nat]]
    BY DEF IInv, TypeOK, InstallerTypeOK
  <2>2. \A e \in opened : build[e].data = {}
    BY <1>6, <2>1 DEF Repart, Fresh, IInv, Keys
  <2>3. \A e \in opened : build'[e].data = {}
    BY <1>6, <2>1, <2>2 DEF Repart
  <2>4. Ephemeral!Finish
    BY <1>6, <2>3 DEF Repart, bootVars, Work, Archive, Ephemeral!Finish
  <2> QED BY <2>4 DEF Ephemeral!Next
<1>7. ASSUME NEW d \in Disks, OpenBuild(d) PROVE Ephemeral!Next
  <2>1. build[d].data = {}
    BY <1>7 DEF OpenBuild, DiskKey, Fresh
  <2>2. Ephemeral!Finish
    BY <1>7, <2>1 DEF OpenBuild, diskVars, bootVars, Work, Archive, Ephemeral!Finish
  <2> QED BY <2>2 DEF Ephemeral!Next
<1>8. ASSUME NEW d \in Disks, Build(d) PROVE Ephemeral!Next
  <2>1. /\ d \in opened /\ UNCHANGED <<boots, opened, stored>>
        /\ build' = [build EXCEPT ![d].data = @ \cup {boots}]
    BY <1>8 DEF Build, bootVars
  <2> QED BY <2>1, BuildProduces DEF Ephemeral!Next
<1>9. ASSUME NEW d \in Disks, Lock(d) PROVE Ephemeral!Next
  BY <1>9, ClosedImplements DEF Lock, bootVars, Ephemeral!Next
<1>10. ASSUME NEW d \in Disks, NEW t \in Disks, CopyOutputs(d, t) PROVE Ephemeral!Next
  <2>1. /\ d \in opened /\ UNCHANGED <<boots, opened, build>>
        /\ stored' = [stored EXCEPT ![t] = Stored(t, build[d].data)]
    BY <1>10 DEF CopyOutputs, bootVars
  <2>2. build[d].data \in SUBSET Work
    BY <2>1 DEF Work
  <2> QED BY <2>1, <2>2, CopyHandsOver DEF Ephemeral!Next
<1>11. Calm \/ Starts \/ Ends \/ Changes
  BY StepKinds DEF IInv
<1> QED BY <1>2, <1>3, <1>4, <1>5, <1>6, <1>7, <1>8, <1>9, <1>10, <1>11, StepFailsImplements
        DEF Changes

\* The boots of a machine are ephemeral builds: each opens its partition empty,
\* works there alone, and files what it hands over under its own number; no disk is
\* overwritten once there is something to hand over, however the boots end
\* (generate-disk-key, systemd-repart, lock-var-lib-build, copy-android-outputs).
THEOREM ImplementsEphemeralBuilds == Spec => ImplementsEphemeral
<1>1. Init => Fresh
  BY DEF Init, InstallerInit, Fresh
<1>2. IInv /\ Fresh /\ [Next]_vars => Fresh'
  BY FreshKept DEF IInv
<1>3. Init => Ephemeral!Init
  <2> SUFFICES ASSUME Init PROVE Ephemeral!Init
    OBVIOUS
  <2>1. boots = 0 /\ opened = {} /\ \A d \in Disks : stored[d] = {}
    BY DEF Init, InstallerInit, RunInit
  <2> QED BY <2>1 DEF Ephemeral!Init, Work, Archive
<1>4. IInv /\ Fresh /\ [Next]_vars => [Ephemeral!Next]_(Ephemeral!vars)
  BY StepImplements
<1> QED BY <1>1, <1>2, <1>3, <1>4, Invariance, PTL DEF Spec, ImplementsEphemeral, Ephemeral!Spec

\* An archive of ephemeral builds mixes no runs, so that the purity of artifacts
\* rests on the contract alone (docs.md).
THEOREM ContractKeepsArtifactsPure ==
    ImplementsEphemeral => [](Work \subseteq {boots} /\ \A s \in Archive : s.from \subseteq {s.run})
<1> DEFINE J == Work \subseteq {boots} /\ \A s \in Archive : s.from \subseteq {s.run}
<1>1. Ephemeral!Init => J
  BY DEF Ephemeral!Init
<1>2. J /\ [Ephemeral!Next]_(Ephemeral!vars) => J'
  BY DEF Ephemeral!Next, Ephemeral!Begin, Ephemeral!Produce, Ephemeral!HandOver,
      Ephemeral!Finish, Ephemeral!Overwrite, Ephemeral!vars
<1> QED BY <1>1, <1>2, PTL DEF ImplementsEphemeral, Ephemeral!Spec
=============================================================================
