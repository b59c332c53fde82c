---------------------------- MODULE TlsPkiProofs ----------------------------
(***************************************************************************)
(* Whatever interrupts the generator, everything that was ever read from   *)
(* the TLS directory belongs to one generation.                            *)
(***************************************************************************)
EXTENDS TlsPki, TLAPS

AfterCaKey == Files \ {"ca-key"}

\* The generator runs exactly while its unit is activating.
StepWhileActivating == step # 0 <=> unit = "activating"

\* Beyond the CA key, the disk holds files of the last run only.
OneRunOnDisk == \A f \in AfterCaKey : of[f] \in {0, run}

\* A generator at some step has written nothing after it; before the CA
\* certificate it has written the CA key at most, and that one is its own.
NothingAhead ==
    /\ step # 0 => ("ca-cert" \in present <=> step \notin {1, 2})
    /\ step \notin {0, 1} => of["ca-key"] = run
    /\ step # 0 => \A i \in 2..8 : i >= step => of[Written[i]] = 0

\* A file with content means that a CA certificate exists, and so that no
\* generation will begin again.
ContentMeansCa == "ca-cert" \notin present => \A f \in AfterCaKey : of[f] = 0

\* What was loaded or copied has the CA's run, and can never be superseded.
LoadedIsCurrent == \A d \in Daemons : \A i \in loaded[d] : i = run /\ "ca-cert" \in present
PinnedIsCurrent == pinned \in {0, run} /\ (pinned # 0 => "ca-cert" \in present)

IInv ==
    /\ TypeOK
    /\ StepWhileActivating
    /\ OneRunOnDisk
    /\ NothingAhead
    /\ ContentMeansCa
    /\ LoadedIsCurrent
    /\ PinnedIsCurrent

\* The eight outputs in the order of the calls.
LEMMA WrittenFacts ==
    /\ Files = {"ca-key", "ca-cert", "server-key", "server.csr", "server-cert",
                "client-key", "client.csr", "client-cert"}
    /\ \A i \in 1..8 : Written[i] \in Files
    /\ Written[1] = "ca-key" /\ Written[2] = "ca-cert"
    /\ \A i \in 3..8 : Written[i] \in AfterCaKey \ {"ca-cert"}
    /\ \A i, j \in 1..8 : Written[i] = Written[j] => i = j
<1>1. /\ Written[1] = "ca-key" /\ Written[2] = "ca-cert"
      /\ Written[3] = "server-key" /\ Written[4] = "server.csr"
      /\ Written[5] = "server-cert" /\ Written[6] = "client-key"
      /\ Written[7] = "client.csr" /\ Written[8] = "client-cert"
  BY DEF Written
<1>2. \A i \in 1..8 : i = 1 \/ i = 2 \/ i = 3 \/ i = 4 \/ i = 5 \/ i = 6 \/ i = 7 \/ i = 8
  OBVIOUS
<1>3. Files = {"ca-key", "ca-cert", "server-key", "server.csr", "server-cert",
               "client-key", "client.csr", "client-cert"}
  <2> DEFINE All == {"ca-key", "ca-cert", "server-key", "server.csr", "server-cert",
                     "client-key", "client.csr", "client-cert"}
  <2>1. \A i \in 1..8 : Written[i] \in All
    BY <1>1, <1>2
  <2>2. \A f \in All : \E i \in 1..8 : f = Written[i]
    BY <1>1
  <2> QED
    BY <2>1, <2>2 DEF Files
<1> QED
  BY <1>1, <1>2, <1>3 DEF AfterCaKey

LEMMA InitIInv == Init => IInv
<1>1. SUFFICES ASSUME Init PROVE IInv
  OBVIOUS
<1>2. TypeOK
  BY <1>1, BoundAssumption DEF Init, TypeOK
<1> QED
  BY <1>1, <1>2 DEF Init, IInv, StepWhileActivating, OneRunOnDisk, NothingAhead,
     ContentMeansCa, LoadedIsCurrent, PinnedIsCurrent, AfterCaKey

(***************************************************************************)
(* The only steps that write files are those of the generator; each of     *)
(* them is treated on its own, and an interruption once for both actions   *)
(* it can be part of.                                                      *)
(***************************************************************************)
LEMMA ActivateKeeps == IInv /\ Activate /\ unit \in {"inactive", "failed"}
                       /\ job' \in [Daemons -> {"queued", "up", "off"}] => IInv'
<1> SUFFICES ASSUME IInv, Activate, unit \in {"inactive", "failed"},
                    job' \in [Daemons -> {"queued", "up", "off"}]
             PROVE  IInv'
  OBVIOUS
<1> USE WrittenFacts DEF IInv, Activate, AlreadyGenerated
<1>1. TypeOK'
  BY DEF TypeOK
<1>2. CASE AlreadyGenerated
  BY <1>1, <1>2 DEF TypeOK, StepWhileActivating, OneRunOnDisk, NothingAhead,
     ContentMeansCa, LoadedIsCurrent, PinnedIsCurrent
<1>3. CASE ~AlreadyGenerated
  <2>1. \A f \in AfterCaKey : of[f] = 0
    BY <1>3 DEF ContentMeansCa
  <2>2. \A d \in Daemons : loaded[d] = {}
    BY <1>3 DEF LoadedIsCurrent, TypeOK
  <2>3. \A i \in 2..8 : Written[i] \in AfterCaKey
    BY DEF AfterCaKey
  <2>4. /\ unit' = "activating" /\ step' = 1 /\ present' = present /\ of' = of
        /\ loaded' = loaded /\ pinned' = pinned
    BY <1>3
  <2>5. PinnedIsCurrent'
    BY <1>3, <2>4 DEF PinnedIsCurrent
  <2>6. LoadedIsCurrent'
    BY <2>2, <2>4 DEF LoadedIsCurrent
  <2>7. StepWhileActivating' /\ OneRunOnDisk' /\ NothingAhead' /\ ContentMeansCa'
    BY <1>3, <2>1, <2>3, <2>4 DEF StepWhileActivating, OneRunOnDisk, NothingAhead, ContentMeansCa
  <2> QED
    BY <1>1, <2>5, <2>6, <2>7
<1> QED
  BY <1>2, <1>3

LEMMA WriteFileTypes == TypeOK /\ WriteFile => TypeOK'
<1> SUFFICES ASSUME TypeOK, WriteFile PROVE TypeOK'
  OBVIOUS
<1> DEFINE f == Written[step]
<1> DEFINE value == IF f \in Signed THEN of["ca-key"] ELSE run
<1>1. value \in Nat /\ f \in Files
  BY WrittenFacts DEF TypeOK, WriteFile
<1>2. of' = [of EXCEPT ![f] = value] /\ present' = present \union {f}
  BY DEF WriteFile
<1>3. step' \in 0..9
  BY DEF WriteFile
<1> HIDE DEF value, f
<1>4. of' \in [Files -> Nat] /\ present' \subseteq Files
  BY <1>1, <1>2 DEF TypeOK
<1> QED
  BY <1>3, <1>4 DEF TypeOK, WriteFile, services

LEMMA WriteFileKeeps == IInv /\ WriteFile => IInv'
<1> SUFFICES ASSUME IInv, WriteFile PROVE IInv'
  OBVIOUS
<1> USE WrittenFacts DEF IInv, WriteFile
<1> DEFINE f == Written[step]
<1>1. f \in Files /\ step \in 1..8 /\ step \in Nat
  BY DEF TypeOK
<1>2. TypeOK'
  BY WriteFileTypes
<1>3. f # "ca-key" => of'[f] = run
  BY <1>1 DEF TypeOK, NothingAhead, Signed
<1>4. f = "ca-key" => of'[f] = run
  BY <1>1 DEF TypeOK, Signed
<1>5. \A g \in Files : g # f => of'[g] = of[g]
  BY <1>1 DEF TypeOK
<1>6. StepWhileActivating' /\ OneRunOnDisk'
  BY <1>1, <1>3, <1>5 DEF TypeOK, StepWhileActivating, OneRunOnDisk, AfterCaKey
<1>7. NothingAhead'
  <2>1. "ca-cert" \in present' <=> step' \notin {1, 2}
    BY <1>1 DEF NothingAhead
  <2>2. step' \notin {0, 1} => of'["ca-key"] = run'
    BY <1>1, <1>4, <1>5 DEF NothingAhead, services
  <2>3. \A i \in 2..8 : i >= step' => of'[Written[i]] = 0
    BY <1>1, <1>5 DEF NothingAhead
  <2> QED
    BY <2>1, <2>2, <2>3 DEF NothingAhead
<1>8. ContentMeansCa'
  <2>1. CASE step \in {1, 2}
    BY <1>1, <1>5, <2>1 DEF ContentMeansCa, AfterCaKey
  <2>2. CASE step \notin {1, 2}
    <3>1. "ca-cert" \in present'
      BY <1>1, <2>2 DEF NothingAhead
    <3> QED
      BY <3>1 DEF ContentMeansCa
  <2> QED
    BY <2>1, <2>2
<1>9. LoadedIsCurrent' /\ PinnedIsCurrent'
  BY DEF LoadedIsCurrent, PinnedIsCurrent, services
<1> QED
  BY <1>2, <1>6, <1>7, <1>8, <1>9

LEMMA InterruptedKeeps == IInv /\ Interrupted /\ step' = 0 /\ run' = run =>
                            /\ present' \subseteq Files /\ of' \in [Files -> Nat]
                            /\ OneRunOnDisk' /\ NothingAhead' /\ ContentMeansCa'
                            /\ present \subseteq present'
<1> SUFFICES ASSUME IInv, Interrupted, step' = 0, run' = run
             PROVE  /\ present' \subseteq Files /\ of' \in [Files -> Nat]
                    /\ OneRunOnDisk' /\ NothingAhead' /\ ContentMeansCa'
                    /\ present \subseteq present'
  OBVIOUS
<1> USE WrittenFacts DEF IInv
<1>1. CASE UNCHANGED <<present, of>>
  BY <1>1 DEF TypeOK, OneRunOnDisk, NothingAhead, ContentMeansCa
<1>2. CASE /\ step \in 1..8
           /\ present' = present \union {Written[step]}
           /\ of' = [of EXCEPT ![Written[step]] = 0]
  <2>1. \A g \in Files : of'[g] \in {0, of[g]}
    BY <1>2 DEF TypeOK
  <2>2. /\ present' \subseteq Files /\ of' \in [Files -> Nat] /\ present \subseteq present'
    BY <1>2 DEF TypeOK
  <2>3. OneRunOnDisk' /\ NothingAhead' /\ ContentMeansCa'
    BY <2>1, <2>2 DEF OneRunOnDisk, NothingAhead, ContentMeansCa, AfterCaKey
  <2> QED
    BY <2>2, <2>3
<1> QED
  BY <1>1, <1>2 DEF Interrupted

LEMMA StepIInv == IInv /\ [Next]_vars => IInv'
<1> SUFFICES ASSUME IInv, [Next]_vars PROVE IInv'
  OBVIOUS
<1>1. CASE BootStart
  BY <1>1, ActivateKeeps DEF BootStart, IInv, TypeOK
<1>2. CASE ManualStart
  BY <1>2, ActivateKeeps DEF ManualStart, IInv, TypeOK
<1>3. CASE WriteFile
  BY <1>3, WriteFileKeeps
<1>4. CASE Finish
  <2>1. TypeOK'
    BY <1>4 DEF IInv, TypeOK, Finish, services
  <2>2. "ca-cert" \in present'
    BY <1>4, WrittenFacts DEF IInv, TypeOK, Finish, NothingAhead, Requests
  <2> QED
    BY <1>4, <2>1, <2>2 DEF IInv, TypeOK, Finish, services, StepWhileActivating,
       OneRunOnDisk, NothingAhead, ContentMeansCa, LoadedIsCurrent, PinnedIsCurrent
<1>5. CASE GenerationFails
  <2>1. /\ present' \subseteq Files /\ of' \in [Files -> Nat]
        /\ OneRunOnDisk' /\ NothingAhead' /\ ContentMeansCa' /\ present \subseteq present'
    BY <1>5, InterruptedKeeps DEF GenerationFails
  <2>2. TypeOK'
    BY <1>5, <2>1, BoundAssumption DEF IInv, TypeOK, GenerationFails, Disturb
  <2> QED
    BY <1>5, <2>1, <2>2 DEF IInv, GenerationFails, StepWhileActivating,
       LoadedIsCurrent, PinnedIsCurrent
<1>6. CASE PowerCut
  <2>1. /\ present' \subseteq Files /\ of' \in [Files -> Nat]
        /\ OneRunOnDisk' /\ NothingAhead' /\ ContentMeansCa' /\ present \subseteq present'
    BY <1>6, InterruptedKeeps DEF PowerCut
  <2>2. TypeOK'
    BY <1>6, <2>1, BoundAssumption DEF IInv, TypeOK, PowerCut, Disturb
  <2> QED
    BY <1>6, <2>1, <2>2 DEF IInv, PowerCut, StepWhileActivating,
       LoadedIsCurrent, PinnedIsCurrent
<1>7. CASE CopyCa
  BY <1>7, WrittenFacts DEF CopyCa, Loadable, generator, services, IInv, TypeOK, StepWhileActivating,
     OneRunOnDisk, NothingAhead, ContentMeansCa, LoadedIsCurrent, PinnedIsCurrent, AfterCaKey
<1>8. ASSUME NEW d \in Daemons, StartDaemon(d) PROVE IInv'
  <2>1. LoadedAtStart(d) \subseteq AfterCaKey
    BY WrittenFacts DEF LoadedAtStart, ServerFiles, ClientFiles, AfterCaKey
  <2>2. LoadedAtStart(d) # {} => "ca-cert" \in LoadedAtStart(d)
    BY DEF LoadedAtStart, ServerFiles, ClientFiles
  <2>3. \A f \in LoadedAtStart(d) : of[f] = run /\ "ca-cert" \in present
    BY <1>8, <2>1, <2>2 DEF StartDaemon, FilesReady, Loadable, IInv, OneRunOnDisk
  <2>4. LoadedIsCurrent'
    BY <1>8, <2>3 DEF StartDaemon, generator, IInv, TypeOK, LoadedIsCurrent
  <2>5. TypeOK'
    BY <1>8, <2>3 DEF StartDaemon, generator, IInv, TypeOK
  <2> QED
    BY <1>8, <2>4, <2>5 DEF StartDaemon, generator, IInv, StepWhileActivating,
       OneRunOnDisk, NothingAhead, ContentMeansCa, PinnedIsCurrent
<1>9. ASSUME NEW d \in Daemons, MakeContext(d) PROVE IInv'
  <2>1. \A f \in ClientFiles : of[f] = run /\ "ca-cert" \in present
    BY <1>9, WrittenFacts DEF MakeContext, Loadable, IInv, OneRunOnDisk, ClientFiles, AfterCaKey
  <2>2. LoadedIsCurrent'
    BY <1>9, <2>1 DEF MakeContext, generator, IInv, TypeOK, LoadedIsCurrent
  <2>3. TypeOK'
    BY <1>9, <2>1 DEF MakeContext, generator, IInv, TypeOK
  <2> QED
    BY <1>9, <2>2, <2>3 DEF MakeContext, generator, IInv, StepWhileActivating,
       OneRunOnDisk, NothingAhead, ContentMeansCa, PinnedIsCurrent
<1>10. ASSUME NEW d \in Daemons, DaemonCrash(d) PROVE IInv'
  BY <1>10, BoundAssumption DEF DaemonCrash, AfterCrash, Disturb, generator, IInv, TypeOK,
     StepWhileActivating, OneRunOnDisk, NothingAhead, ContentMeansCa, LoadedIsCurrent,
     PinnedIsCurrent
<1>11. CASE UNCHANGED vars
  BY <1>11 DEF vars, IInv, TypeOK, StepWhileActivating, OneRunOnDisk, NothingAhead,
     ContentMeansCa, LoadedIsCurrent, PinnedIsCurrent
<1> QED
  BY <1>1, <1>2, <1>3, <1>4, <1>5, <1>6, <1>7, <1>8, <1>9, <1>10, <1>11
     DEF Next, StartFails

\* The inductive invariant holds in every reachable state.
THEOREM Inductive == Spec => []IInv
BY InitIInv, StepIInv, PTL DEF Spec

\* Every variable keeps its type, for any number of faults.
THEOREM TypeCorrect == Spec => []TypeOK
<1>1. IInv => TypeOK
  BY DEF IInv
<1> QED
  BY <1>1, Inductive, PTL

\* However often generation is interrupted and begun again, the running services
\* and the agents' copy of the CA never mix two generations.
THEOREM NeverTwoPkis == Spec => []OnePki
<1>1. IInv => OnePki
  BY DEF IInv, OnePki, LoadedIsCurrent, PinnedIsCurrent
<1> QED
  BY <1>1, Inductive, PTL

\* No activation overwrites a certificate, or any key but that of a CA whose
\* certificate was never written.
THEOREM NeverOverwritten == Spec => CertificatesKept
<1> DEFINE Kept == \A f \in AfterCaKey : of[f] # 0 => of'[f] = of[f]
<1>1. IInv /\ [Next]_vars => [Kept]_vars
  <2> SUFFICES ASSUME IInv, Next PROVE Kept
    OBVIOUS
  <2>1. ASSUME step \in 1..8, NEW v \in Nat, of' = [of EXCEPT ![Written[step]] = v]
        PROVE  Kept
    <3>1. CASE step = 1
      BY <2>1, <3>1, WrittenFacts DEF IInv, TypeOK, AfterCaKey
    <3>2. CASE step \in 2..8
      <4>1. of[Written[step]] = 0
        BY <3>2 DEF IInv, NothingAhead
      <4> QED
        BY <2>1, <3>2, <4>1, WrittenFacts DEF IInv, TypeOK, AfterCaKey
    <3> QED
      BY <2>1, <3>1, <3>2
  <2>2. CASE WriteFile
    <3>1. of["ca-key"] \in Nat /\ run \in Nat
      BY WrittenFacts DEF IInv, TypeOK
    <3> QED
      BY <2>1, <2>2, <3>1 DEF WriteFile
  <2>3. CASE Interrupted
    BY <2>1, <2>3 DEF Interrupted
  <2>4. CASE of' = of
    BY <2>4
  <2> QED
    BY <2>2, <2>3, <2>4 DEF Next, BootStart, ManualStart, Activate, Finish, GenerationFails,
       PowerCut, CopyCa, StartDaemon, StartFails, MakeContext, DaemonCrash, generator, vars
<1>2. []IInv /\ [][Next]_vars => [][Kept]_vars
  BY <1>1, PTL
<1> QED
  BY <1>2, Inductive, PTL DEF Spec, CertificatesKept, AfterCaKey

-----------------------------------------------------------------------------
(***************************************************************************)
(* An interruption matters exactly when it leaves the CA certificate of an *)
(* unfinished generation, and then it matters for good.                    *)
(***************************************************************************)

\* A generation is interrupted after openssl was called for the CA certificate, and
\* before the last file is written.
CutShort == (GenerationFails \/ PowerCut) /\ step \in 1..8 /\ "ca-cert" \in present'

UncutSpec == Init /\ [][Next /\ ~CutShort]_vars

\* Every activation will find the CA certificate, and something will always be missing.
Stuck == step = 0 /\ AlreadyGenerated /\ ~Complete

\* A running generator has written what is before its step.
WrittenSoFar ==
    step # 0 =>
       /\ run # 0
       /\ \A i \in 1..8 : i < step => Written[i] \in present /\ of[Written[i]] = run

ActiveHasCa == unit = "active" => AlreadyGenerated

LEMMA IncompleteBeforeTheEnd == IInv /\ step \in 1..8 => of["client-cert"] = 0
BY DEF IInv, NothingAhead, Written

LEMMA InterruptedSteps ==
  ASSUME IInv, Interrupted
  PROVE  /\ step \notin 1..8 => present' = present /\ of' = of
         /\ present \subseteq present'
         /\ of["client-cert"] = 0 => of'["client-cert"] = 0
<1>1. "client-cert" \in Files
  BY WrittenFacts
<1> QED
  BY <1>1, WrittenFacts DEF Interrupted, IInv, TypeOK

LEMMA WrittenSoFarKept ==
  IInv /\ WrittenSoFar /\ ActiveHasCa /\ [Next]_vars => WrittenSoFar' /\ ActiveHasCa'
<1> SUFFICES ASSUME IInv, WrittenSoFar, ActiveHasCa, [Next]_vars
             PROVE  WrittenSoFar' /\ ActiveHasCa'
  OBVIOUS
<1>1. ASSUME Activate PROVE WrittenSoFar' /\ ActiveHasCa'
  BY <1>1 DEF Activate, AlreadyGenerated, IInv, TypeOK, WrittenSoFar, ActiveHasCa
<1>2. CASE WriteFile
  <2> DEFINE f == Written[step]
  <2>1. step \in 1..8 /\ f \in Files /\ step' = step + 1 /\ run' = run /\ unit' = unit
    BY <1>2, WrittenFacts DEF WriteFile
  <2>2. present' = present \union {f} /\ of'[f] = run
    BY <1>2, <2>1, WrittenFacts DEF WriteFile, IInv, TypeOK, NothingAhead, Signed
  <2>3. \A g \in Files : g # f => of'[g] = of[g]
    BY <1>2, <2>1 DEF WriteFile, IInv, TypeOK
  <2>4. \A i \in 1..8 : i < step' => Written[i] \in present' /\ of'[Written[i]] = run
    BY <2>1, <2>2, <2>3, WrittenFacts DEF WrittenSoFar
  <2> QED
    BY <2>1, <2>2, <2>4 DEF WrittenSoFar, ActiveHasCa, AlreadyGenerated
<1>3. CASE Finish
  <2>1. "ca-cert" \in present
    BY <1>3, WrittenFacts DEF Finish, WrittenSoFar
  <2> QED
    BY <1>3, <2>1 DEF Finish, Requests, WrittenSoFar, ActiveHasCa, AlreadyGenerated
<1>4. CASE GenerationFails \/ PowerCut
  <2>1. step' = 0 /\ unit' # "active"
    BY <1>4 DEF GenerationFails, PowerCut
  <2> QED
    BY <2>1 DEF WrittenSoFar, ActiveHasCa
<1>5. CASE UNCHANGED generator
  BY <1>5 DEF generator, WrittenSoFar, ActiveHasCa, AlreadyGenerated
<1> QED
  BY <1>1, <1>2, <1>3, <1>4, <1>5 DEF Next, BootStart, ManualStart, CopyCa, StartDaemon,
     StartFails, MakeContext, DaemonCrash, vars, generator

\* Without such an interruption the unit is active only with a whole PKI: all other
\* failures, power cuts and restarts are made good by the next activation.
THEOREM CompleteUnlessCutShort == UncutSpec => []ActiveMeansComplete
<1> DEFINE IdleComplete == step = 0 /\ AlreadyGenerated => Complete
           UInv == IInv /\ WrittenSoFar /\ ActiveHasCa /\ IdleComplete
<1>1. Init => UInv
  BY InitIInv DEF Init, WrittenSoFar, ActiveHasCa, AlreadyGenerated
<1>2. UInv /\ [Next /\ ~CutShort]_vars => UInv'
  <2> SUFFICES ASSUME UInv, [Next /\ ~CutShort]_vars PROVE UInv'
    OBVIOUS
  <2>1. IInv' /\ WrittenSoFar' /\ ActiveHasCa'
    BY StepIInv, WrittenSoFarKept
  <2>2. \A f \in Pki : step = 9 => f \in present /\ of[f] # 0
    BY WrittenFacts DEF WrittenSoFar, Pki, Files
  <2>3. ASSUME Finish PROVE IdleComplete'
    BY <2>2, <2>3 DEF Finish, Complete, Loadable, Pki
  <2>4. ASSUME GenerationFails \/ PowerCut PROVE IdleComplete'
    <3>1. Interrupted /\ step \in 0..9
      BY <2>4 DEF GenerationFails, PowerCut, IInv, TypeOK
    <3>2. CASE step \in 1..8
      BY <2>4, <3>2 DEF CutShort, AlreadyGenerated, vars, Disturb, GenerationFails, PowerCut,
         IInv, TypeOK
    <3>3. CASE step \notin 1..8
      <4>1. present' = present /\ of' = of
        BY <3>1, <3>3, InterruptedSteps
      <4>2. CASE step = 9
        BY <2>2, <4>1, <4>2 DEF Complete, Loadable
      <4>3. CASE step = 0
        BY <4>1, <4>3 DEF Complete, Loadable, AlreadyGenerated
      <4> QED
        BY <3>1, <3>3, <4>2, <4>3
    <3> QED
      BY <3>2, <3>3
  <2>5. ASSUME WriteFile PROVE IdleComplete'
    BY <2>5 DEF WriteFile
  <2>6. ASSUME Activate PROVE IdleComplete'
    BY <2>6 DEF Activate, AlreadyGenerated, Complete, Loadable
  <2>7. ASSUME UNCHANGED generator PROVE IdleComplete'
    BY <2>7 DEF generator, Complete, Loadable, AlreadyGenerated
  <2>8. IdleComplete'
    BY <2>3, <2>4, <2>5, <2>6, <2>7 DEF Next, BootStart, ManualStart, CopyCa, StartDaemon,
       StartFails, MakeContext, DaemonCrash, vars, generator
  <2> QED
    BY <2>1, <2>8
<1>3. UInv => ActiveMeansComplete
  BY DEF IInv, TypeOK, StepWhileActivating, ActiveHasCa, ActiveMeansComplete
<1> QED
  BY <1>1, <1>2, <1>3, PTL DEF UncutSpec

\* With one, the PKI is and stays incomplete: no activation, reboot or restart of
\* any service ever repairs it.
THEOREM CutShortIsForGood == Spec => [][(CutShort \/ Stuck) => Stuck']_vars
<1>1. IInv /\ [Next]_vars => [(CutShort \/ Stuck) => Stuck']_vars
  <2> SUFFICES ASSUME IInv, Next, CutShort \/ Stuck PROVE Stuck'
    OBVIOUS
  <2>1. CASE CutShort
    <3>1. Interrupted /\ step' = 0 /\ "ca-cert" \in present' /\ step \in 1..8
      BY <2>1 DEF CutShort, GenerationFails, PowerCut
    <3>2. of'["client-cert"] = 0
      BY <3>1, IncompleteBeforeTheEnd, InterruptedSteps
    <3>3. "client-cert" \in Pki
      BY WrittenFacts DEF Pki, Requests
    <3> QED
      BY <3>1, <3>2, <3>3 DEF Stuck, AlreadyGenerated, Complete, Loadable
  <2>2. CASE Stuck
    <3>1. CASE GenerationFails \/ PowerCut
      <4>1. Interrupted /\ step' = 0
        BY <3>1 DEF GenerationFails, PowerCut
      <4>2. present' = present /\ of' = of
        BY <2>2, <4>1, InterruptedSteps DEF Stuck
      <4> QED
        BY <2>2, <4>1, <4>2 DEF Stuck, AlreadyGenerated, Complete, Loadable
    <3>2. ASSUME Activate PROVE Stuck'
      BY <2>2, <3>2 DEF Stuck, Activate, AlreadyGenerated, Complete, Loadable
    <3>3. CASE UNCHANGED generator
      BY <2>2, <3>3 DEF generator, Stuck, AlreadyGenerated, Complete, Loadable
    <3>4. ~WriteFile /\ ~Finish
      BY <2>2 DEF Stuck, WriteFile, Finish
    <3> QED
      BY <3>1, <3>2, <3>3, <3>4 DEF Next, BootStart, ManualStart, CopyCa, StartDaemon,
         StartFails, MakeContext, DaemonCrash, vars, generator
  <2> QED
    BY <2>1, <2>2
<1>2. []IInv /\ [][Next]_vars => [][(CutShort \/ Stuck) => Stuck']_vars
  BY <1>1, PTL
<1> QED
  BY <1>2, Inductive, PTL DEF Spec

\* A complete PKI stays complete, so that what GeneratedServes starts from is never
\* taken away again by a failure, a power cut or another activation.
THEOREM CompleteForGood == Spec => [][Complete => Complete']_vars
<1>1. IInv /\ [Next]_vars => [Complete => Complete']_vars
  <2> SUFFICES ASSUME IInv, Next, Complete PROVE Complete'
    OBVIOUS
  <2>1. step \notin 1..8
    BY IncompleteBeforeTheEnd, WrittenFacts DEF Complete, Loadable, Pki, Requests
  <2>2. CASE GenerationFails \/ PowerCut
    <3>1. present' = present /\ of' = of
      BY <2>1, <2>2, InterruptedSteps DEF GenerationFails, PowerCut
    <3> QED
      BY <3>1 DEF Complete, Loadable
  <2>3. CASE Finish
    BY <2>3 DEF Finish, Complete, Loadable, Pki
  <2>4. ~WriteFile
    BY <2>1 DEF WriteFile
  <2>5. CASE UNCHANGED <<present, of>>
    BY <2>5 DEF Complete, Loadable
  <2> QED
    BY <2>2, <2>3, <2>4, <2>5 DEF Next, BootStart, ManualStart, Activate, CopyCa, StartDaemon,
       StartFails, MakeContext, DaemonCrash, vars, generator
<1>2. []IInv /\ [][Next]_vars => [][Complete => Complete']_vars
  BY <1>1, PTL
<1> QED
  BY <1>2, Inductive, PTL DEF Spec
-----------------------------------------------------------------------------
(***************************************************************************)
(* The refinement.  The CA certificate is the root: it is established by   *)
(* the call that writes it, and trusted by whoever loads it or, because it *)
(* belongs to the same run, anything that was signed after it.             *)
(***************************************************************************)

\* What the CA certificate is to the run counters: written, it is the last run's.
LEMMA RootOnDisk ==
  ASSUME IInv, NEW f \in AfterCaKey, of[f] # 0, of["ca-cert"] # 0
  PROVE  of[f] = of["ca-cert"]
<1>1. "ca-cert" \in AfterCaKey
  BY WrittenFacts DEF AfterCaKey
<1> QED
  BY <1>1 DEF IInv, OneRunOnDisk

\* A service that loads from the directory comes to trust the root and nothing else.
LEMMA LoadingTrusts ==
  ASSUME IInv, NEW d \in Daemons, NEW fs \in {ClientFiles, ServerFiles,
         ServerFiles \union ClientFiles}, Loadable(fs)
  PROVE  { of[f] : f \in fs } = {of["ca-cert"]} /\ of["ca-cert"] # 0
<1>1. "ca-cert" \in fs /\ fs \subseteq AfterCaKey
  BY WrittenFacts DEF ClientFiles, ServerFiles, AfterCaKey
<1>2. \A f \in fs : of[f] # 0
  BY DEF Loadable
<1>3. \A f \in fs : of[f] = of["ca-cert"]
  BY <1>1, <1>2, RootOnDisk
<1> QED
  BY <1>1, <1>2, <1>3

LEMMA LoadedIsRoot ==
  ASSUME IInv, NEW d \in Daemons, of["ca-cert"] # 0
  PROVE  loaded[d] \subseteq {of["ca-cert"]}
<1>1. "ca-cert" \in AfterCaKey
  BY WrittenFacts DEF AfterCaKey
<1> QED
  BY <1>1 DEF IInv, LoadedIsCurrent, OneRunOnDisk

LEMMA TrustedOfDaemons == \A d \in Daemons : d \in Parties /\ Trusted[d] = loaded[d]
BY DEF Parties, Trusted

LEMMA AgentsAreNoDaemon == "agents" \in Parties /\ "agents" \notin Daemons
BY DEF Parties, Daemons

\* The steps that load, copy and forget change what one or all parties trust; those
\* of the generator change nothing but, once, the root.
LEMMA GeneratorImplements ==
  ASSUME IInv, IInv', Next, UNCHANGED <<loaded, pinned>>
  PROVE  [Root!Next]_(Root!vars)
<1>1. Trusted' = Trusted
  BY DEF Trusted
<1>2. "ca-cert" \in Files
  BY WrittenFacts
<1>3. CASE of'["ca-cert"] = of["ca-cert"]
  BY <1>1, <1>3 DEF Root!vars
<1>4. CASE of'["ca-cert"] # of["ca-cert"]
  <2>1. of["ca-cert"] = 0
    <3>1. ASSUME Interrupted PROVE of["ca-cert"] = 0
      BY <1>2, <1>4, <3>1, WrittenFacts DEF Interrupted, IInv, TypeOK, NothingAhead
    <3>2. ASSUME WriteFile PROVE of["ca-cert"] = 0
      BY <1>2, <1>4, <3>2, WrittenFacts DEF WriteFile, IInv, TypeOK, NothingAhead
    <3> QED
      BY <1>4, <3>1, <3>2 DEF Next, BootStart, ManualStart, Activate, Finish, GenerationFails,
         PowerCut, CopyCa, StartDaemon, StartFails, MakeContext, DaemonCrash, generator, vars
  <2>2. of'["ca-cert"] \in Nat \ {0}
    BY <1>2, <1>4, <2>1 DEF IInv, TypeOK
  <2>3. Root!Establish
    BY <1>1, <2>1, <2>2 DEF Root!Establish
  <2> QED
    BY <2>3 DEF Root!Next
<1> QED
  BY <1>3, <1>4

\* All daemons of a set end, and what the agents hold is theirs to keep.
LEMMA ForgetImplements ==
  ASSUME IInv, NEW ds \in SUBSET Daemons, UNCHANGED <<of, pinned>>,
         loaded' = [d \in Daemons |-> IF d \in ds THEN {} ELSE loaded[d]]
  PROVE  Root!Forget(ds) /\ ds \in SUBSET Parties
<1>1. ASSUME NEW p \in Parties
      PROVE  Trusted'[p] = IF p \in ds THEN {} ELSE Trusted[p]
  BY <1>1, AgentsAreNoDaemon DEF Trusted, Parties
<1>2. Trusted' = [p \in Parties |-> IF p \in ds THEN {} ELSE Trusted[p]]
  BY <1>1 DEF Trusted
<1> QED
  BY <1>2 DEF Root!Forget, Parties

LEMMA TrustImplements ==
  ASSUME IInv, NEW p \in Parties, of["ca-cert"] # 0, UNCHANGED of,
         p \in Daemons => /\ loaded' = [loaded EXCEPT ![p] = {of["ca-cert"]}]
                          /\ pinned' = pinned,
         p \notin Daemons => pinned' = of["ca-cert"] /\ loaded' = loaded
  PROVE  Root!Trust(p)
<1>1. ASSUME NEW q \in Parties
      PROVE  Trusted'[q] = IF q = p THEN {of["ca-cert"]} ELSE Trusted[q]
  BY <1>1, AgentsAreNoDaemon DEF Trusted, Parties, IInv, TypeOK
<1>2. Trusted' = [Trusted EXCEPT ![p] = {of["ca-cert"]}]
  BY <1>1 DEF Trusted
<1> QED
  BY <1>2 DEF Root!Trust

LEMMA StepImplements == IInv /\ IInv' /\ [Next]_vars => [Root!Next]_(Root!vars)
<1> SUFFICES ASSUME IInv, IInv', [Next]_vars PROVE [Root!Next]_(Root!vars)
  OBVIOUS
<1>1. CASE Next /\ UNCHANGED <<loaded, pinned>>
  BY <1>1, GeneratorImplements
<1>2. CASE UNCHANGED vars
  BY <1>2 DEF vars, Root!vars, Trusted
<1>3. ASSUME PowerCut PROVE Root!Next
  <2>1. \E ds \in SUBSET Daemons : ds = Daemons
    OBVIOUS
  <2>2. of'["ca-cert"] = of["ca-cert"]
    BY <1>3, WrittenFacts DEF PowerCut, Interrupted, IInv, TypeOK, NothingAhead
  <2>3. loaded' = [d \in Daemons |-> {}] /\ pinned' = pinned
    BY <1>3 DEF PowerCut
  <2>4. Trusted' = [p \in Parties |-> IF p \in Daemons THEN {} ELSE Trusted[p]]
    BY <2>3, AgentsAreNoDaemon DEF Trusted, Parties
  <2>5. Root!Forget(Daemons) /\ Daemons \in SUBSET Parties
    BY <2>2, <2>4 DEF Root!Forget, Parties
  <2> QED
    BY <2>5 DEF Root!Next
<1>4. ASSUME CopyCa PROVE Root!Next
  <2>1. Root!Trust("agents")
    BY <1>4, TrustImplements, AgentsAreNoDaemon DEF CopyCa, Loadable, generator, services
  <2> QED
    BY <2>1, AgentsAreNoDaemon DEF Root!Next
<1>5. ASSUME NEW d \in Daemons, StartDaemon(d) PROVE Root!Next
  <2>1. CASE LoadedAtStart(d) = {}
    <3>1. loaded' = [e \in Daemons |-> IF e \in {d} THEN {} ELSE loaded[e]]
      BY <1>5, <2>1 DEF StartDaemon, IInv, TypeOK
    <3>2. Root!Forget({d}) /\ {d} \in SUBSET Parties
      BY <1>5, <3>1, ForgetImplements DEF StartDaemon, generator
    <3> QED
      BY <3>2 DEF Root!Next
  <2>2. CASE LoadedAtStart(d) # {}
    <3>1. LoadedAtStart(d) \in {ClientFiles, ServerFiles, ServerFiles \union ClientFiles}
      BY <2>2 DEF LoadedAtStart
    <3>2. { of[f] : f \in LoadedAtStart(d) } = {of["ca-cert"]} /\ of["ca-cert"] # 0
      BY <1>5, <3>1, LoadingTrusts DEF StartDaemon, FilesReady
    <3>3. Root!Trust(d) /\ d \in Parties
      BY <1>5, <3>2, TrustImplements, TrustedOfDaemons DEF StartDaemon, generator
    <3> QED
      BY <3>3 DEF Root!Next
  <2> QED
    BY <2>1, <2>2
<1>6. ASSUME NEW d \in Daemons, MakeContext(d) PROVE Root!Next
  <2>1. { of[f] : f \in ClientFiles } = {of["ca-cert"]} /\ of["ca-cert"] # 0
    BY <1>6, LoadingTrusts DEF MakeContext
  <2>2. loaded[d] \union { of[f] : f \in ClientFiles } = {of["ca-cert"]}
    BY <2>1, LoadedIsRoot
  <2>3. loaded' = [loaded EXCEPT ![d] = {of["ca-cert"]}]
    BY <1>6, <2>2 DEF MakeContext
  <2>4. Root!Trust(d) /\ d \in Parties
    BY <1>6, <2>1, <2>3, TrustImplements, TrustedOfDaemons DEF MakeContext, generator
  <2> QED
    BY <2>4 DEF Root!Next
<1>7. ASSUME NEW d \in Daemons, DaemonCrash(d) PROVE Root!Next
  <2>1. loaded' = [e \in Daemons |-> IF e \in {d} THEN {} ELSE loaded[e]]
    BY <1>7 DEF DaemonCrash, IInv, TypeOK
  <2>2. Root!Forget({d}) /\ {d} \in SUBSET Parties
    <3>1. UNCHANGED <<of, pinned>> /\ {d} \in SUBSET Daemons
      BY <1>7 DEF DaemonCrash, generator
    <3> QED
      BY <2>1, <3>1, ForgetImplements
  <2> QED
    BY <2>2 DEF Root!Next
<1> QED
  BY <1>1, <1>2, <1>3, <1>4, <1>5, <1>6, <1>7 DEF Next, BootStart, ManualStart, Activate,
     WriteFile, Finish, GenerationFails, StartFails, services, vars

\* The generator and the services implement one root of trust that is established
\* once and never replaced: no two running services, and no agent that was given
\* the CA, ever reject each other's certificates.
THEOREM RefinesTrustRoot == Spec => ImplementsTrustRoot
<1>1. Init => Root!Init
  BY WrittenFacts DEF Init, Root!Init, Trusted
<1>2. []IInv /\ [][Next]_vars => [][Root!Next]_(Root!vars)
  BY StepImplements, PTL
<1> QED
  BY <1>1, <1>2, Inductive, PTL DEF Spec, ImplementsTrustRoot, Root!Spec
=============================================================================
