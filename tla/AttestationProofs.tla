-------------------------- MODULE AttestationProofs --------------------------
(***************************************************************************)
(* What the policy accepts by the library's reference states, and what     *)
(* that makes of the verifier's results, for all setups, ids and bounds.   *)
(***************************************************************************)
EXTENDS Attestation, SequenceTheorems, TLAPS

(***************************************************************************)
(* Logs and reference states.                                              *)
(***************************************************************************)

\* What the log of a boot takes from the machine.
LEMMA LogFields ==
    ASSUME NEW b \in Boots
    PROVE  /\ b[1] \in Setup
           /\ b[2] \in {"direct", "menu"}
           /\ LogOf(b).crtms = b[1].crtms
           /\ LogOf(b).blobs = b[1].blobs
           /\ LogOf(b).on = b[1].on
           /\ LogOf(b).keys = b[1].keys
           /\ LogOf(b).apps = IF b[2] = "menu" THEN <<BootMenu, Image(b[1])>>
                                               ELSE <<Image(b[1])>>
<1>1. b[1] \in Setups /\ b[2] \in {"direct", "menu"}
    BY DEF Boots
<1> QED
    BY <1>1, SetupsAssumption DEF LogOf

\* The library finds the image behind the firmware's application
\* (get_uki_digest).
LEMMA UkiFound ==
    ASSUME NEW b \in Boots
    PROVE  Uki(LogOf(b)) = b[1].uki
<1> DEFINE l == LogOf(b)
<1>1. CASE b[2] = "menu"
    <2>1. l.apps = <<BootMenu, Image(b[1])>>
        BY <1>1, LogFields
    <2>2. Candidates(l) = {2}
        BY <2>1 DEF Candidates, BootMenu, Image
    <2>3. (CHOOSE i \in Candidates(l) : \A j \in Candidates(l) : i <= j) = 2
        BY <2>2
    <2>4. l.apps[2].digest = b[1].uki
        BY <2>1 DEF Image
    <2> QED
        BY <2>2, <2>3, <2>4 DEF Uki
<1>2. CASE b[2] # "menu"
    <2>1. l.apps = <<Image(b[1])>>
        BY <1>2, LogFields
    <2>2. Candidates(l) = {1}
        BY <2>1 DEF Candidates, BootMenu, Image
    <2>3. (CHOOSE i \in Candidates(l) : \A j \in Candidates(l) : i <= j) = 1
        BY <2>2
    <2>4. l.apps[1].digest = b[1].uki
        BY <2>1 DEF Image
    <2> QED
        BY <2>2, <2>3, <2>4 DEF Uki
<1> QED
    BY <1>1, <1>2

LEMMA IntervalsEqual ==
    ASSUME NEW m \in Nat, NEW n \in Nat, 1..m = 1..n
    PROVE  m = n
<1>1. ~(m < n)
    <2> SUFFICES ASSUME m < n PROVE FALSE
        OBVIOUS
    <2>1. n \in 1..n
        BY SMT
    <2>2. n \notin 1..m
        BY SMT
    <2> QED
        BY <2>1, <2>2
<1>2. ~(n < m)
    <2> SUFFICES ASSUME n < m PROVE FALSE
        OBVIOUS
    <2>1. m \in 1..m
        BY SMT
    <2>2. m \notin 1..n
        BY SMT
    <2> QED
        BY <2>1, <2>2
<1> QED
    BY <1>1, <1>2

\* The lists of blobs of two boots are equal if they are element by element.
LEMMA FirmwareEqual ==
    ASSUME NEW r \in Boots, NEW b \in Boots
    PROVE  Firmware(LogOf(b)) = Firmware(LogOf(r)) <=>
               /\ Len(b[1].blobs) = Len(r[1].blobs)
               /\ \A i \in DOMAIN b[1].blobs : b[1].blobs[i].digest = r[1].blobs[i].digest
<1> DEFINE x == b[1].blobs
           y == r[1].blobs
<1>1. x \in Seq([pcr : Pcrs, digest : Digests]) /\ y \in Seq([pcr : Pcrs, digest : Digests])
    BY LogFields DEF Setup
<1>2. DOMAIN x = 1..Len(x) /\ DOMAIN y = 1..Len(y) /\ Len(x) \in Nat /\ Len(y) \in Nat
    BY <1>1
<1>3. Firmware(LogOf(b)) = [i \in DOMAIN x |-> x[i].digest]
    BY LogFields DEF Firmware
<1>4. Firmware(LogOf(r)) = [i \in DOMAIN y |-> y[i].digest]
    BY LogFields DEF Firmware
<1>5. ASSUME Firmware(LogOf(b)) = Firmware(LogOf(r))
      PROVE  Len(x) = Len(y) /\ \A i \in DOMAIN x : x[i].digest = y[i].digest
    <2>1. DOMAIN x = DOMAIN y
        BY <1>3, <1>4, <1>5
    <2>2. Len(x) = Len(y)
        BY <2>1, <1>2, IntervalsEqual
    <2>3. \A i \in DOMAIN x : x[i].digest = y[i].digest
        BY <2>1, <1>3, <1>4, <1>5
    <2> QED
        BY <2>2, <2>3
<1>6. ASSUME Len(x) = Len(y), \A i \in DOMAIN x : x[i].digest = y[i].digest
      PROVE  Firmware(LogOf(b)) = Firmware(LogOf(r))
    <2>1. DOMAIN x = DOMAIN y
        BY <1>2, <1>6
    <2> QED
        BY <2>1, <1>3, <1>4, <1>6
<1> QED
    BY <1>5, <1>6

\* A log the policy does not refuse by its form is the one of a direct boot.
LEMMA RegularIsDirect ==
    ASSUME NEW b \in Boots, Regular(LogOf(b))
    PROVE  /\ LogOf(b).apps[1].digest = b[1].uki
           /\ b[1].on
           /\ Len(b[1].crtms) = 1
<1>1. CASE b[2] = "menu"
    <2>1. LogOf(b).apps = <<BootMenu, Image(b[1])>>
        BY <1>1, LogFields
    <2>2. Len(LogOf(b).apps) = 2
        BY <2>1
    <2> QED
        BY <2>2 DEF Regular
<1>2. CASE b[2] # "menu"
    <2>1. LogOf(b).apps = <<Image(b[1])>>
        BY <1>2, LogFields
    <2>2. LogOf(b).apps[1].digest = b[1].uki
        BY <2>1 DEF Image
    <2> QED
        BY <2>2, LogFields DEF Regular
<1> QED
    BY <1>1, <1>2

\* One version of the CRTM is the reported one if both logs have it first.
LEMMA CrtmEqual ==
    ASSUME NEW r \in Boots, NEW b \in Boots, Len(b[1].crtms) = 1
    PROVE  b[1].crtms[1] = Scrtm(LogOf(r)) <=>
               b[1].crtms # <<>> /\ r[1].crtms # <<>> /\ b[1].crtms[1] = r[1].crtms[1]
<1>1. b[1].crtms \in Seq(Digests) /\ r[1].crtms \in Seq(Digests)
    BY LogFields DEF Setup
<1>2. b[1].crtms # <<>> /\ b[1].crtms[1] \in Digests
    <2> DEFINE c == b[1].crtms
    <2>1. c \in Seq(Digests) /\ Len(c) = 1
        BY <1>1
    <2> HIDE DEF c
    <2>2. c # <<>>
        BY <2>1, EmptySeq
    <2>3. c[1] \in Digests
        BY <2>1
    <2> QED
        BY <2>2, <2>3 DEF c
<1>3. Scrtm(LogOf(r)) = IF r[1].crtms = <<>> THEN Missing ELSE r[1].crtms[1]
    BY LogFields DEF Scrtm
<1> QED
    BY <1>2, <1>3, MissingAssumption

\* Library and policy fit: of the logs it does not refuse by their form, the policy accepts by the
\* reference state of a boot those of machines as good as that one, and no other
\* (create_refstate, refstate_to_test).
THEOREM PolicyMeansAsGood ==
    ASSUME NEW r \in Boots, NEW b \in Boots, Regular(LogOf(b))
    PROVE  Accepts(Refstate(LogOf(r)), LogOf(b)) <=> AsGoodAs(b[1], r[1])
<1> DEFINE ref == Refstate(LogOf(r))
<1>1. /\ ref.scrtm = Scrtm(LogOf(r)) /\ ref.firmware = Firmware(LogOf(r))
      /\ ref.keys = r[1].keys /\ ref.uki = r[1].uki
    BY LogFields, UkiFound DEF Refstate
<1>2. LogOf(b).crtms = b[1].crtms /\ LogOf(b).keys = b[1].keys
    BY LogFields
<1>3. LogOf(b).apps[1].digest = b[1].uki /\ b[1].on /\ Len(b[1].crtms) = 1
    BY RegularIsDirect
<1>4. LogOf(b).crtms[1] = ref.scrtm <=>
          b[1].crtms # <<>> /\ r[1].crtms # <<>> /\ b[1].crtms[1] = r[1].crtms[1]
    BY <1>1, <1>2, <1>3, CrtmEqual
<1>5. Firmware(LogOf(b)) = ref.firmware <=>
          /\ Len(b[1].blobs) = Len(r[1].blobs)
          /\ \A i \in DOMAIN b[1].blobs : b[1].blobs[i].digest = r[1].blobs[i].digest
    BY <1>1, FirmwareEqual
<1> HIDE DEF ref
<1>6. Accepts(ref, LogOf(b)) <=> Matches(ref, LogOf(b))
    BY DEF Accepts
<1>7. Matches(ref, LogOf(b)) <=> AsGoodAs(b[1], r[1])
    BY <1>1, <1>2, <1>3, <1>4, <1>5 DEF Matches, KeysMatch, AsGoodAs
<1> QED
    BY <1>6, <1>7 DEF ref

\* A log whose reference state shows no difference to another is accepted by it:
\* debug-measured-boot-state never hides why the policy refuses a log
\* (diff_refstates).
THEOREM NoDifferenceAccepted ==
    ASSUME NEW r \in Boots, NEW b \in Boots, Regular(LogOf(b)),
           Diff(Refstate(LogOf(r)), Refstate(LogOf(b))) = {}
    PROVE  Accepts(Refstate(LogOf(r)), LogOf(b))
<1> DEFINE old == Refstate(LogOf(r))
           new == Refstate(LogOf(b))
<1>1. \A v \in KeyVars : old.keys[v] = new.keys[v]
    BY DEF Diff
<1>2. old.uki = new.uki /\ old.scrtm = new.scrtm /\ old.firmware = new.firmware
    BY DEF Diff
<1>3. new.keys = LogOf(b).keys /\ new.firmware = Firmware(LogOf(b)) /\ new.uki = b[1].uki
    BY UkiFound DEF Refstate
<1>4. LogOf(b).apps[1].digest = b[1].uki /\ Len(b[1].crtms) = 1
    BY RegularIsDirect
<1>5. LogOf(b).crtms[1] = new.scrtm
    <2>1. LogOf(b).crtms = b[1].crtms /\ b[1].crtms \in Seq(Digests)
        BY LogFields DEF Setup
    <2>2. LogOf(b).crtms # <<>>
        BY <2>1, <1>4
    <2> QED
        BY <2>2 DEF Refstate, Scrtm
<1> HIDE DEF old, new
<1>6. \A v \in KeyVars : LogOf(b).keys[v] = old.keys[v]
    BY <1>1, <1>3
<1>7. Matches(old, LogOf(b))
    BY <1>2, <1>3, <1>4, <1>5, <1>6 DEF Matches, KeysMatch, KeyVars
<1> QED
    BY <1>7 DEF Accepts, old

\* However a machine came to be reported, by its boot menu or directly, its policy
\* accepts it as long as its firmware, keys and image stay: nothing of the boot that
\* was reported gets into the reference state but what is the machine's
\* (create_refstate, get_uki_digest).
THEOREM SameSetupAccepted ==
    ASSUME NEW r \in Boots, NEW b \in Boots, b[1] = r[1], Regular(LogOf(b))
    PROVE  Accepts(Refstate(LogOf(r)), LogOf(b))
<1>1. b[1].on /\ Len(b[1].crtms) = 1
    BY RegularIsDirect
<1>2. b[1].crtms # <<>>
    <2> DEFINE c == b[1].crtms
    <2>1. c \in Seq(Digests) /\ Len(c) = 1
        BY <1>1, LogFields DEF Setup
    <2> HIDE DEF c
    <2>2. c # <<>>
        BY <2>1, EmptySeq
    <2> QED
        BY <2>2 DEF c
<1>3. AsGoodAs(b[1], r[1])
    BY <1>1, <1>2 DEF AsGoodAs
<1> QED
    BY <1>3, PolicyMeansAsGood

\* To be as good as another machine is a preorder of the machines.
LEMMA AsGoodAsTransitive ==
    ASSUME NEW s \in Setup, NEW t \in Setup, NEW e \in Setup, AsGoodAs(s, t), AsGoodAs(t, e)
    PROVE  AsGoodAs(s, e)
<1>1. /\ DOMAIN s.blobs = 1..Len(s.blobs) /\ DOMAIN t.blobs = 1..Len(t.blobs)
      /\ Len(s.blobs) = Len(t.blobs)
    BY DEF AsGoodAs, Setup
<1>2. \A i \in DOMAIN s.blobs : s.blobs[i].digest = e.blobs[i].digest
    BY <1>1 DEF AsGoodAs
<1> QED
    BY <1>2 DEF AsGoodAs

\* An operator who enrolls a machine again, with the state of a boot that its policy
\* accepted, never accepts more than before: what the new reference state accepts the
\* old one did, over any number of times.
THEOREM ReenrollingNarrows ==
    ASSUME NEW r \in Boots, NEW b \in Boots, NEW c \in Boots,
           Accepts(Refstate(LogOf(r)), LogOf(b)), Accepts(Refstate(LogOf(b)), LogOf(c))
    PROVE  Accepts(Refstate(LogOf(r)), LogOf(c))
<1>1. Regular(LogOf(b)) /\ Regular(LogOf(c))
    BY DEF Accepts
<1>2. AsGoodAs(b[1], r[1]) /\ AsGoodAs(c[1], b[1])
    BY <1>1, PolicyMeansAsGood
<1>3. AsGoodAs(c[1], r[1])
    BY <1>2, LogFields, AsGoodAsTransitive
<1> QED
    BY <1>1, <1>3, PolicyMeansAsGood

\* The PCRs userspace extends are not replayed (relevant_pcr_indices).
LEMMA RuntimeNotReplayed ==
    ASSUME NEW q \in SUBSET {9, 11}
    PROVE  Replays(q)
BY DEF Replays, PcrsToCheck, RelevantPcrs

(***************************************************************************)
(* The verifier's results.                                                 *)
(***************************************************************************)

AtMostOne(S) == \A x, y \in S : x = y

\* What the steps of the verifier keep: a row of an enrolled agent has a
\* reference state, and the one used is that of the row unless it was replaced.
Singles ==
    /\ AtMostOne(running) /\ AtMostOne(reported) /\ AtMostOne(evidence)
    /\ \A i \in Ids : AtMostOne(mbpolicies[i])
Bookkeeping ==
    /\ enrolled => mbpolicies[policyId] # {}
    /\ stage # "idle" => evidence # {} /\ (enrolled \/ replaced)
    /\ stage = "judging" /\ enrolled /\ ~replaced => refstate = mbpolicies[policyId]
Verdicts == PassMeansPinned /\ GoodMachinesPass /\ FailuresExplained

\* Every variable of machine, row and verifier keeps its type.
THEOREM TypeCorrect == Spec => []TypeOK
<1>1. Init => TypeOK
    <2> SUFFICES ASSUME Init PROVE TypeOK
        OBVIOUS
    <2>1. disturbances \in 0..MaxDisturbances
        BY BoundAssumption DEF Init
    <2>2. mbpolicies \in [Ids -> SUBSET Boots] /\ loadedPolicy \in [Ids -> SUBSET Boots]
        BY DEF Init
    <2> QED
        BY <2>1, <2>2 DEF Init, TypeOK
<1>2. TypeOK /\ [Next]_vars => TypeOK'
    <2> SUFFICES ASSUME TypeOK, [Next]_vars
                 PROVE  TypeOK'
        OBVIOUS
    <2> USE BoundAssumption DEF TypeOK, machine, row, loaded, attest
    <2>1. CASE BootDirect
        BY <2>1 DEF BootDirect, Boot, Boots
    <2>2. CASE BootByMenu
        BY <2>2 DEF BootByMenu, Boot, Boots, Disturb
    <2>3. CASE ChangeSetup
        BY <2>3 DEF ChangeSetup, Disturb
    <2>4. CASE ExtendAtRuntime
        BY <2>4 DEF ExtendAtRuntime, RuntimePcrs
    <2>5. CASE Report
        BY <2>5 DEF Report
    <2>6. CASE Add
        BY <2>6 DEF Add
    <2>7. CASE Delete
        <3>1. disturbances' \in 0..MaxDisturbances
            BY <2>7 DEF Delete, Disturb
        <3>2. mbpolicies' \in [Ids -> SUBSET Boots]
            BY <2>7 DEF Delete
        <3> QED
            BY <2>7, <3>1, <3>2 DEF Delete
    <2>8. CASE Timeout
        <3>1. disturbances' \in 0..MaxDisturbances
            BY <2>8 DEF Timeout, Disturb
        <3> QED
            BY <2>8, <3>1 DEF Timeout
    <2>9. CASE Receive
        BY <2>9 DEF Receive
    <2>10. CASE ReadPolicy
        BY <2>10 DEF ReadPolicy, UefiRefState
    <2>11. CASE Pass
        BY <2>11 DEF Pass, AcceptWritten
    <2>12. CASE Fail
        BY <2>12 DEF Fail
    <2>13. CASE Dropped
        BY <2>13 DEF Dropped
    <2>14. CASE Restart
        BY <2>14 DEF Restart, Disturb
    <2>15. CASE UNCHANGED vars
        BY <2>15 DEF vars
    <2> QED
        BY <2>1, <2>2, <2>3, <2>4, <2>5, <2>6, <2>7, <2>8, <2>9, <2>10, <2>11, <2>12, <2>13,
           <2>14, <2>15 DEF Next, Attest
<1> QED
    BY <1>1, <1>2, PTL DEF Spec

\* A set of boots of the state never has two, and the reference state in use is the row's.
LEMMA BookkeepingKept == Spec => [](TypeOK /\ Singles /\ Bookkeeping)
<1>1. Init => Singles /\ Bookkeeping
    BY DEF Init, Singles, Bookkeeping, AtMostOne
<1>2. TypeOK /\ Singles /\ Bookkeeping /\ [Next]_vars => Singles' /\ Bookkeeping'
    <2> SUFFICES ASSUME TypeOK, Singles, Bookkeeping, [Next]_vars
                 PROVE  Singles' /\ Bookkeeping'
        OBVIOUS
    <2> USE DEF Singles, Bookkeeping, AtMostOne, machine, row, loaded, attest
    <2>1. CASE BootDirect
        BY <2>1 DEF BootDirect, Boot
    <2>2. CASE BootByMenu
        BY <2>2 DEF BootByMenu, Boot
    <2>3. CASE ChangeSetup
        BY <2>3 DEF ChangeSetup
    <2>4. CASE ExtendAtRuntime
        BY <2>4 DEF ExtendAtRuntime
    <2>5. CASE Report
        BY <2>5 DEF Report
    <2>6. CASE Add
        <3>1. mbpolicies' = [mbpolicies EXCEPT ![policyId'] = reported] /\ policyId' \in Ids
            BY <2>6 DEF Add
        <3>2. mbpolicies \in [Ids -> SUBSET Boots] /\ reported # {}
            BY <2>6 DEF Add, TypeOK
        <3>3. mbpolicies'[policyId'] # {}
            BY <3>1, <3>2
        <3>4. \A i \in Ids : AtMostOne(mbpolicies'[i])
            BY <3>1, <3>2
        <3> QED
            BY <2>6, <3>3, <3>4 DEF Add
    <2>7. CASE Delete
        <3>1. \A i \in Ids : AtMostOne(mbpolicies'[i])
            BY <2>7 DEF Delete, TypeOK
        <3> QED
            BY <2>7, <3>1 DEF Delete
    <2>8. CASE Timeout
        BY <2>8 DEF Timeout
    <2>9. CASE Receive
        BY <2>9 DEF Receive
    <2>10. CASE ReadPolicy
        BY <2>10 DEF ReadPolicy, UefiRefState
    <2>11. CASE Pass
        BY <2>11 DEF Pass
    <2>12. CASE Fail
        BY <2>12 DEF Fail
    <2>13. CASE Dropped
        BY <2>13 DEF Dropped
    <2>14. CASE Restart
        BY <2>14 DEF Restart
    <2>15. CASE UNCHANGED vars
        BY <2>15 DEF vars
    <2> QED
        BY <2>1, <2>2, <2>3, <2>4, <2>5, <2>6, <2>7, <2>8, <2>9, <2>10, <2>11, <2>12, <2>13,
           <2>14, <2>15 DEF Next, Attest
<1> QED
    BY <1>1, <1>2, TypeCorrect, PTL DEF Spec

\* A passed attestation was judged by the row, so that the machine is as good as
\* the one in it.
LEMMA PassStep ==
    ASSUME TypeOK, Singles, Bookkeeping, Pass
    PROVE  Verdicts'
<1>1. /\ evidence' = evidence /\ mbpolicies' = mbpolicies /\ policyId' = policyId
      /\ enrolled' = enrolled /\ replaced' = replaced /\ evaluation' = "pass"
    BY DEF Pass
<1>2. ASSUME Current' PROVE AboutGood'
    <2>1. enrolled /\ ~replaced /\ stage = "judging"
        BY <1>1, <1>2 DEF Current, Pass
    <2>2. refstate = mbpolicies[policyId]
        BY <2>1 DEF Bookkeeping
    <2>3. PICK r \in refstate, b \in evidence : Accepts(Refstate(LogOf(r)), LogOf(b))
        BY DEF Pass, Passes
    <2>4. r \in Boots /\ b \in Boots
        BY DEF TypeOK
    <2>5. Regular(LogOf(b))
        BY <2>3 DEF Accepts
    <2>6. AsGoodAs(b[1], r[1])
        BY <2>3, <2>4, <2>5, PolicyMeansAsGood
    <2>7. \A x \in evidence : x = b
        BY DEF Singles, AtMostOne
    <2>8. \A e \in mbpolicies[policyId] : e = r
        BY <2>2 DEF Singles, AtMostOne, TypeOK
    <2> QED
        BY <1>1, <2>6, <2>7, <2>8 DEF AboutGood
<1> QED
    BY <1>1, <1>2 DEF Verdicts, PassMeansPinned, GoodMachinesPass, FailuresExplained

\* A failed one is the fault of the machine, or of the form of its log.
LEMMA FailStep ==
    ASSUME TypeOK, Singles, Bookkeeping, Fail
    PROVE  Verdicts'
<1>1. /\ evidence' = evidence /\ mbpolicies' = mbpolicies /\ policyId' = policyId
      /\ enrolled' = enrolled /\ replaced' = replaced /\ evaluation' = "fail"
    BY DEF Fail
<1>2. ASSUME Current' 
      PROVE  \E r \in mbpolicies[policyId], b \in evidence :
                 r \in Boots /\ b \in Boots /\ ~Accepts(Refstate(LogOf(r)), LogOf(b))
    <2>1. enrolled /\ ~replaced /\ stage = "judging"
        BY <1>1, <1>2 DEF Current, Fail
    <2>2. refstate = mbpolicies[policyId] /\ mbpolicies[policyId] # {} /\ evidence # {}
        BY <2>1 DEF Bookkeeping
    <2>3. PICK r \in mbpolicies[policyId], b \in evidence : TRUE
        BY <2>2
    <2>4. r \in Boots /\ b \in Boots
        BY <2>2 DEF TypeOK
    <2>5. Replays(quoted)
        BY RuntimeNotReplayed DEF TypeOK
    <2>6. ~Accepts(Refstate(LogOf(r)), LogOf(b))
        BY <2>2, <2>5 DEF Fail, Passes
    <2> QED
        BY <2>4, <2>6
<1>3. PassMeansPinned'
    BY <1>1 DEF PassMeansPinned
<1>4. GoodMachinesPass'
    <2> SUFFICES ASSUME Current', AboutGood'
                 PROVE  \E b \in evidence : ~Regular(LogOf(b))
        BY <1>1 DEF GoodMachinesPass
    <2>1. PICK r \in mbpolicies[policyId], b \in evidence :
              r \in Boots /\ b \in Boots /\ ~Accepts(Refstate(LogOf(r)), LogOf(b))
        BY <1>2
    <2>2. AsGoodAs(b[1], r[1])
        BY <1>1 DEF AboutGood
    <2>3. ~Regular(LogOf(b))
        BY <2>1, <2>2, PolicyMeansAsGood
    <2> QED
        BY <2>3
<1>5. FailuresExplained'
    <2> SUFFICES ASSUME Current',
                        NEW x \in evidence, NEW e \in mbpolicies[policyId], Regular(LogOf(x))
                 PROVE  Diff(Refstate(LogOf(e)), Refstate(LogOf(x))) # {}
        BY <1>1 DEF FailuresExplained
    <2>1. PICK r \in mbpolicies[policyId], b \in evidence :
              r \in Boots /\ b \in Boots /\ ~Accepts(Refstate(LogOf(r)), LogOf(b))
        BY <1>2
    <2>2. x = b /\ e = r
        BY DEF Singles, AtMostOne, TypeOK
    <2> QED
        BY <2>1, <2>2, NoDifferenceAccepted
<1> QED
    BY <1>3, <1>4, <1>5 DEF Verdicts

\* The other steps leave the verdict, or what it is about, alone, or end its being current.
LEMMA OtherStep ==
    ASSUME Verdicts, [Next]_vars, ~Pass, ~Fail
    PROVE  Verdicts'
<1> USE DEF Verdicts, PassMeansPinned, GoodMachinesPass, FailuresExplained, AboutGood,
            machine, row, loaded, attest
<1>1. ASSUME UNCHANGED <<enrolled, evaluation, policyId, mbpolicies, replaced, stage, evidence>>
      PROVE  Verdicts'
    BY <1>1 DEF Current
<1>2. ASSUME ~Current' \/ evaluation' = "none"
      PROVE  Verdicts'
    BY <1>2
<1>3. BootDirect \/ BootByMenu \/ ChangeSetup \/ ExtendAtRuntime \/ Report \/ Timeout \/ UNCHANGED vars
         => UNCHANGED <<enrolled, evaluation, policyId, mbpolicies, replaced, stage, evidence>>
    BY DEF BootDirect, BootByMenu, Boot, ChangeSetup, ExtendAtRuntime, Report, Timeout, vars
<1>4. Add \/ Delete => evaluation' = "none"
    BY DEF Add, Delete
<1>5. Receive \/ ReadPolicy \/ Dropped \/ Restart => ~Current'
    BY DEF Receive, ReadPolicy, Dropped, Restart, Current
<1> QED
    BY <1>1, <1>2, <1>3, <1>4, <1>5 DEF Next, Attest

\* The three results, by the two lemmas on the verifier's steps.
THEOREM VerdictsCorrect == Spec => []Verdicts
<1>1. Init => Verdicts
    BY DEF Init, Verdicts, PassMeansPinned, GoodMachinesPass, FailuresExplained
<1>2. TypeOK /\ Singles /\ Bookkeeping /\ Verdicts /\ [Next]_vars => Verdicts'
    BY PassStep, FailStep, OtherStep
<1> QED
    BY <1>1, <1>2, BookkeepingKept, PTL DEF Spec

\* A pass means that the machine runs the firmware, keys and image it is enrolled
\* with now (uefi_ref_state).
THEOREM PassIsPinned == Spec => []PassMeansPinned
<1>1. Verdicts => PassMeansPinned
    BY DEF Verdicts
<1> QED
    BY <1>1, VerdictsCorrect, PTL

\* A machine as good as the enrolled one fails only by the form of its log.
THEOREM GoodPasses == Spec => []GoodMachinesPass
<1>1. Verdicts => GoodMachinesPass
    BY DEF Verdicts
<1> QED
    BY <1>1, VerdictsCorrect, PTL

\* debug-measured-boot-state shows why an attestation failed.
THEOREM FailuresShown == Spec => []FailuresExplained
<1>1. Verdicts => FailuresExplained
    BY DEF Verdicts
<1> QED
    BY <1>1, VerdictsCorrect, PTL

(***************************************************************************)
(* The diagnosis on the machine.                                           *)
(***************************************************************************)

\* Of the events compared one by one: the CRTM version and the image.
LEMMA OneByOne ==
    ASSUME NEW r \in Boots, NEW b \in Boots, Len(b[1].crtms) = 1
    PROVE  LET old    == Refstate(LogOf(r))
               failed == FailedEvents(old, LogOf(b))
               diff   == Diff(old, Refstate(LogOf(b)))
           IN  \A f \in {"scrtm", "uki"} : f \in failed <=> f \in diff
<1> DEFINE log    == LogOf(b)
           old    == Refstate(LogOf(r))
           new    == Refstate(log)
           failed == FailedEvents(old, log)
           diff   == Diff(old, new)
<1>1. log.crtms \in Seq(Digests) /\ Len(log.crtms) = 1
    BY LogFields DEF Setup
<1>2. DOMAIN log.crtms = {1} /\ log.crtms # <<>>
    BY <1>1
<1>3. new.scrtm = log.crtms[1] /\ new.uki = b[1].uki
    BY <1>2, UkiFound DEF Refstate, Scrtm
<1> HIDE DEF old, new
<1>4. "scrtm" \in failed <=> "scrtm" \in diff
    BY <1>2, <1>3 DEF FailedEvents, Diff, KeyVars
<1>5. (\E i \in DOMAIN log.apps : ~log.apps[i].resident /\ log.apps[i].digest # old.uki)
          <=> b[1].uki # old.uki
    <2>1. CASE b[2] = "menu"
        <3>1. log.apps = <<BootMenu, Image(b[1])>>
            BY <2>1, LogFields
        <3>2. DOMAIN log.apps = {1, 2} /\ log.apps[1] = BootMenu /\ log.apps[2] = Image(b[1])
            BY <3>1
        <3> QED
            BY <3>2 DEF BootMenu, Image
    <2>2. CASE b[2] # "menu"
        <3>1. log.apps = <<Image(b[1])>>
            BY <2>2, LogFields
        <3>2. DOMAIN log.apps = {1} /\ log.apps[1] = Image(b[1])
            BY <3>1
        <3> QED
            BY <3>2 DEF Image
    <2> QED
        BY <2>1, <2>2
<1>6. "uki" \in failed <=> "uki" \in diff
    BY <1>3, <1>5 DEF FailedEvents, Diff, KeyVars
<1> QED
    BY <1>4, <1>6 DEF old, new

\* Of the firmware blobs, compared by position.
LEMMA BlobByBlob ==
    ASSUME NEW r \in Boots, NEW b \in Boots
    PROVE  LET old    == Refstate(LogOf(r))
               failed == FailedEvents(old, LogOf(b))
               diff   == Diff(old, Refstate(LogOf(b)))
           IN  /\ "firmware" \in failed => "firmware" \in diff
               /\ "firmware" \in diff \ failed => Len(b[1].blobs) < Len(r[1].blobs)
<1> DEFINE log    == LogOf(b)
           old    == Refstate(LogOf(r))
           new    == Refstate(log)
           x      == b[1].blobs
           y      == r[1].blobs
           marked == \E i \in DOMAIN x :
                        ~(i \in DOMAIN old.firmware /\ x[i].digest = old.firmware[i])
<1>1. x \in Seq([pcr : Pcrs, digest : Digests]) /\ y \in Seq([pcr : Pcrs, digest : Digests])
    BY LogFields DEF Setup
<1>2. DOMAIN x = 1..Len(x) /\ DOMAIN y = 1..Len(y) /\ Len(x) \in Nat /\ Len(y) \in Nat
    BY <1>1
<1>3. old.firmware = [i \in DOMAIN y |-> y[i].digest]
    BY LogFields DEF Refstate, Firmware
<1>4. new.firmware = [i \in DOMAIN x |-> x[i].digest]
    BY LogFields DEF Refstate, Firmware
<1>5. log.blobs = x
    BY LogFields
<1> HIDE DEF old, new
<1>6. "firmware" \in FailedEvents(old, log) <=> marked
    BY <1>5 DEF FailedEvents
<1>7. "firmware" \in Diff(old, new) <=> old.firmware # new.firmware
    BY DEF Diff, KeyVars
<1>8. marked => old.firmware # new.firmware
    BY <1>3, <1>4
<1>9. ASSUME ~marked, ~(Len(x) < Len(y))
      PROVE  old.firmware = new.firmware
    <2>1. \A i \in DOMAIN x : i \in DOMAIN y /\ x[i].digest = y[i].digest
        BY <1>3, <1>9
    <2>2. Len(x) = Len(y)
        <3>1. Len(y) < Len(x) => Len(x) \in DOMAIN x /\ Len(x) \notin DOMAIN y
            BY <1>2
        <3>2. ~(Len(y) < Len(x))
            BY <2>1, <3>1
        <3> QED
            BY <1>2, <1>9, <3>2
    <2>3. DOMAIN x = DOMAIN y
        BY <1>2, <2>2
    <2> QED
        BY <1>3, <1>4, <2>1, <2>3
<1> QED
    BY <1>6, <1>7, <1>8, <1>9 DEF old, new

\* The list of events and the difference tell the same (print_event_summary).
THEOREM SummaryIsRight == Spec => []SummaryAgrees
<1>1. TypeOK => SummaryAgrees
    <2> SUFFICES ASSUME TypeOK, NEW b \in running, NEW r \in reported, Len(b[1].crtms) = 1
                 PROVE  LET old    == Refstate(LogOf(r))
                            failed == FailedEvents(old, LogOf(b))
                            diff   == Diff(old, Refstate(LogOf(b)))
                        IN  /\ failed \subseteq diff
                            /\ diff \cap {"scrtm", "uki"} \subseteq failed
                            /\ "firmware" \in diff \ failed => Len(b[1].blobs) < Len(r[1].blobs)
        BY DEF SummaryAgrees
    <2> DEFINE old    == Refstate(LogOf(r))
               failed == FailedEvents(old, LogOf(b))
               diff   == Diff(old, Refstate(LogOf(b)))
    <2>1. b \in Boots /\ r \in Boots
        BY DEF TypeOK
    <2>2. \A f \in {"scrtm", "uki"} : f \in failed <=> f \in diff
        BY <2>1, OneByOne
    <2>3. /\ "firmware" \in failed => "firmware" \in diff
          /\ "firmware" \in diff \ failed => Len(b[1].blobs) < Len(r[1].blobs)
        BY <2>1, BlobByBlob
    <2>4. failed \subseteq {"scrtm", "firmware", "uki"}
        BY DEF FailedEvents
    <2> HIDE DEF failed, diff
    <2>5. failed \subseteq diff /\ diff \cap {"scrtm", "uki"} \subseteq failed
        BY <2>2, <2>3, <2>4
    <2> QED
        BY <2>3, <2>5 DEF failed, diff
<1> QED
    BY <1>1, TypeCorrect, PTL

\* No alarm on a machine as it was reported (cmd_diagnose).
THEOREM AlarmsAreTrue == Spec => []NoFalseAlarm
<1>1. TypeOK => NoFalseAlarm
    <2> SUFFICES ASSUME TypeOK, NEW b \in running, NEW r \in reported, b[1] = r[1],
                        <<0, "EV_NO_ACTION">> \notin b[1].repeated
                 PROVE  Diagnose(Refstate(LogOf(r)), LogOf(b), extended, extended) = 0
        BY DEF NoFalseAlarm
    <2>1. b \in Boots /\ r \in Boots
        BY DEF TypeOK
    <2>2. Mismatches(LogOf(b), extended, extended) = {}
        <3>1. Phantoms(LogOf(b)) = {}
            BY DEF Phantoms, LogOf
        <3> QED
            BY <3>1 DEF Mismatches
    <2>3. Refstate(LogOf(b)) = Refstate(LogOf(r))
        <3>1. Uki(LogOf(b)) = Uki(LogOf(r))
            BY <2>1, UkiFound
        <3>2. Scrtm(LogOf(b)) = Scrtm(LogOf(r)) /\ Firmware(LogOf(b)) = Firmware(LogOf(r))
            BY <2>1, LogFields DEF Scrtm, Firmware
        <3>3. LogOf(b).keys = LogOf(r).keys
            BY <2>1, LogFields
        <3> QED
            BY <3>1, <3>2, <3>3 DEF Refstate
    <2>4. \A ref : Diff(ref, ref) = {}
        BY DEF Diff
    <2> QED
        BY <2>2, <2>3, <2>4 DEF Diagnose
<1> QED
    BY <1>1, TypeCorrect, PTL
=============================================================================
