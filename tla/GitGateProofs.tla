---------------------------- MODULE GitGateProofs ----------------------------
(***************************************************************************)
(* For any number of machines, clones and requests in flight: a machine    *)
(* that is turned down gets no file but those already vouched for, and     *)
(* credentials always match.                                               *)
(***************************************************************************)
EXTENDS GitGate, TLAPS

USE ConnectionsAssumption, BoundAssumption, NoneAssumption

\* The daemon is at some stage of one agent's request, or idle.
OneRequest == stage = "Idle" <=> client = None

\* A pair is only made where there is no certificate yet, and the key comes first.
PairInTheMaking ==
    /\ stage \in {"Key", "Cert"} => certFile[client] = Absent
    /\ stage = "Cert" => keyFile[client] > 0
    /\ stage = "Reply" => certFile[client] # Absent

\* A cached certificate belongs to the cached key, unless it is empty.
CacheConsistent ==
    \A a \in Agents : certFile[a] # Absent =>
        keyFile[a] > 0 /\ certFile[a] \in {Empty, keyFile[a]}

\* What a machine was sent or has saved is what the cache still holds: a pair
\* that left the daemon is never made anew.
Current(a, pem) == pem > 0 /\ certFile[a] = pem

Saving == {"OpenCert", "WriteCert", "OpenKey", "WriteKey"}

AnswersCurrent ==
    \A a \in Agents : svc[a] \in Saving =>
        Current(a, answer[a][1]) /\ Current(a, answer[a][2])

\* A saved file may also be open and empty, but only where there is a pair to fill it.
Held(a, pem) == certFile[a] > 0 /\ pem \in {Empty, certFile[a]}

CredentialsCurrent ==
    \A a \in Agents : /\ cert[a] # Absent => Held(a, cert[a])
                      /\ key[a] # Absent => Held(a, key[a])

\* A service that is done has saved both files, or was sent nothing to save.
SavedInOrder ==
    \A a \in Agents :
        /\ svc[a] \in {"OpenKey", "WriteKey"} => cert[a] > 0
        /\ svc[a] = "Done" => HasCredentials(a) \/ certFile[a] = Empty

\* Requests that wait and requests that are allowed share the connections.
InFlight == \A a \in Agents : sent[a] + allowed[a] <= Connections

\* A machine turned down was served or can still be served what it was owed.
LateBounded ==
    \A a \in Agents :
        /\ verifier[a] \in Good => late[a] = 0
        /\ verifier[a] \notin Good => late[a] + allowed[a] <= owed[a]

IInv ==
    /\ TypeOK
    /\ OneRequest
    /\ PairInTheMaking
    /\ CacheConsistent
    /\ AnswersCurrent
    /\ CredentialsCurrent
    /\ SavedInOrder
    /\ InFlight
    /\ LateBounded

\* What the conjuncts about the certificates depend on.
certs == <<certFile, keyFile, pairs, client, stage, svc, answer, cert, key>>
CertInv == OneRequest /\ PairInTheMaking /\ CacheConsistent /\ AnswersCurrent /\ CredentialsCurrent

\* What the conjuncts about clones depend on.
clones == <<verifier, sent, allowed, owed, late>>
CloneInv == InFlight /\ LateBounded

LEMMA InitIInv == Init => IInv
BY DEF Init, IInv, TypeOK, OneRequest, PairInTheMaking, CacheConsistent, AnswersCurrent,
   CredentialsCurrent, SavedInOrder, InFlight, LateBounded, Saving, Contents, Absent, Empty, Standings, Good

LEMMA CertsUnchanged == CertInv /\ UNCHANGED certs => CertInv'
BY DEF certs, CertInv, OneRequest, PairInTheMaking, CacheConsistent, AnswersCurrent,
   CredentialsCurrent, Current, Held

LEMMA ClonesUnchanged == CloneInv /\ UNCHANGED clones => CloneInv'
BY DEF clones, CloneInv, InFlight, LateBounded

(***************************************************************************)
(* Types.                                                                  *)
(***************************************************************************)
LEMMA TypesKept == TypeOK /\ InFlight /\ OneRequest /\ [Next]_vars => TypeOK'
<1> SUFFICES ASSUME TypeOK, InFlight, OneRequest, [Next]_vars PROVE TypeOK'
  OBVIOUS
<1> USE DEF TypeOK, issuing, agent, cloning, history, Contents, Absent, Empty, Standings
<1>1. CASE MakeKey
  BY <1>1 DEF MakeKey, OneRequest
<1>2. CASE SignCert
  BY <1>2 DEF SignCert, OneRequest
<1>3. CASE Reply
  BY <1>3 DEF Reply, OneRequest
<1>4. CASE DaemonDies
  BY <1>4 DEF DaemonDies, Disturb
<1>5. ASSUME NEW a \in Agents, Enroll(a) \/ QuoteGood(a) \/ QuoteBad(a) \/ Unenroll(a)
      PROVE  TypeOK'
  <2>1. ASSUME NEW from, NEW to \in Standings, Judge(a, from, to)
        PROVE  TypeOK'
    <3>1. verifier' \in [Agents -> Standings]
      BY <2>1 DEF Judge
    <3>2. late' \in [Agents -> Nat]
      BY <2>1 DEF Judge
    <3>3. owed' \in [Agents -> Nat]
      BY <2>1 DEF Judge
    <3> QED
      BY <2>1, <3>1, <3>2, <3>3 DEF Judge
  <2> QED
    BY <1>5, <2>1 DEF Enroll, QuoteGood, QuoteBad, Unenroll
<1>6. ASSUME NEW a \in Agents, GetCert(a) \/ CertDenied(a) PROVE TypeOK'
  BY <1>6 DEF GetCert, CertDenied, vars
<1>7. ASSUME NEW a \in Agents, SaveSteps(a) \/ ServiceRestarts(a) PROVE TypeOK'
  <2>1. answer[a][1] \in Nat \union {-1} /\ answer[a][2] \in Nat \union {-1}
    OBVIOUS
  <2>2. CASE OpenCert(a)
    BY <2>2 DEF OpenCert, Save
  <2>3. CASE WriteCert(a)
    BY <2>1, <2>3 DEF WriteCert, Save
  <2>4. CASE OpenKey(a)
    BY <2>4 DEF OpenKey, Save
  <2>5. CASE WriteKey(a)
    BY <2>1, <2>5 DEF WriteKey, Save
  <2>6. CASE ServiceRestarts(a)
    BY <2>6 DEF ServiceRestarts, Disturb
  <2> QED
    BY <1>7, <2>2, <2>3, <2>4, <2>5, <2>6 DEF SaveSteps
<1>8. ASSUME NEW a \in Agents, Reboot(a) PROVE TypeOK'
  BY <1>8 DEF Reboot, Disturb
<1>9. ASSUME NEW a \in Agents, Request(a) \/ Auth(a) \/ AuthFails(a) PROVE TypeOK'
  <2>1. sent[a] + allowed[a] <= Connections
    BY DEF InFlight
  <2>2. CASE Request(a)
    BY <2>1, <2>2 DEF Request, Free
  <2>3. ASSUME NEW ok \in BOOLEAN, Answer(a, ok), disturbances' \in 0..MaxDisturbances
        PROVE  TypeOK'
    BY <2>1, <2>3 DEF Answer
  <2>4. CASE Auth(a)
    <3>1. (verifier[a] \in Allowed) \in BOOLEAN
      OBVIOUS
    <3> QED
      BY <2>3, <2>4, <3>1 DEF Auth
  <2>5. CASE AuthFails(a)
    <3>1. disturbances' \in 0..MaxDisturbances
      BY <2>5 DEF AuthFails, Disturb
    <3>2. Answer(a, FALSE)
      BY <2>5 DEF AuthFails, Unreachable
    <3> QED
      BY <2>3, <3>1, <3>2
  <2> QED
    BY <1>9, <2>2, <2>4, <2>5
<1>10. ASSUME NEW a \in Agents, Serve(a) PROVE TypeOK'
  BY <1>10 DEF Serve
<1>11. CASE UNCHANGED vars
  BY <1>11 DEF vars
<1> QED
  BY <1>1, <1>2, <1>3, <1>4, <1>5, <1>6, <1>7, <1>8, <1>9, <1>10, <1>11
     DEF Next, ServerSteps

(***************************************************************************)
(* Certificates.                                                           *)
(***************************************************************************)
LEMMA CertsKept == TypeOK /\ CertInv /\ [Next]_vars => CertInv'
<1> SUFFICES ASSUME TypeOK, CertInv, [Next]_vars PROVE CertInv'
  OBVIOUS
<1> USE DEF CertInv, TypeOK, Contents, Absent, Empty, OneRequest, PairInTheMaking,
       CacheConsistent, AnswersCurrent, CredentialsCurrent, Current, Held, Saving
<1>1. CASE MakeKey
  BY <1>1 DEF MakeKey, agent
<1>2. CASE SignCert
  BY <1>2 DEF SignCert, agent
<1>3. CASE Reply
  BY <1>3 DEF Reply
<1>4. CASE DaemonDies
  BY <1>4 DEF DaemonDies, agent
<1>5. ASSUME NEW a \in Agents, GetCert(a) PROVE CertInv'
  BY <1>5 DEF GetCert, Cached, agent
<1>6. ASSUME NEW a \in Agents, OpenCert(a) \/ WriteCert(a) PROVE CertInv'
  BY <1>6 DEF OpenCert, WriteCert, Save, issuing
<1>7. ASSUME NEW a \in Agents, OpenKey(a) \/ WriteKey(a) PROVE CertInv'
  BY <1>7 DEF OpenKey, WriteKey, Save, issuing
<1>8. ASSUME NEW a \in Agents, ServiceRestarts(a) PROVE CertInv'
  BY <1>8 DEF ServiceRestarts, issuing
<1>9. ASSUME NEW a \in Agents, Reboot(a) PROVE CertInv'
  BY <1>9 DEF Reboot, issuing
<1>10. CASE UNCHANGED certs
  BY <1>10, CertsUnchanged
<1> QED
  BY <1>1, <1>2, <1>3, <1>4, <1>5, <1>6, <1>7, <1>8, <1>9, <1>10
     DEF Next, ServerSteps, SaveSteps, certs, vars, issuing, agent, Enroll, QuoteGood, QuoteBad,
         Unenroll, Judge, CertDenied, Request, Auth, AuthFails, Serve, Answer

(***************************************************************************)
(* Clones.                                                                 *)
(***************************************************************************)
LEMMA ClonesKept == TypeOK /\ CloneInv /\ [Next]_vars => CloneInv'
<1> SUFFICES ASSUME TypeOK, CloneInv, [Next]_vars PROVE CloneInv'
  OBVIOUS
<1> USE DEF CloneInv, TypeOK, InFlight, LateBounded
<1>1. ASSUME NEW a \in Agents, NEW from, NEW to, Judge(a, from, to) PROVE CloneInv'
  BY <1>1 DEF Judge, cloning
<1>2. ASSUME NEW a \in Agents, Reboot(a) PROVE CloneInv'
  BY <1>2 DEF Reboot, history
<1>3. ASSUME NEW a \in Agents, Request(a) PROVE CloneInv'
  BY <1>3 DEF Request, Free, history
<1>4. ASSUME NEW a \in Agents, Auth(a) PROVE CloneInv'
  BY <1>4 DEF Auth, Answer, Allowed, Good, history
<1>5. ASSUME NEW a \in Agents, AuthFails(a) PROVE CloneInv'
  BY <1>5 DEF AuthFails, Answer, Unreachable, history
<1>6. ASSUME NEW a \in Agents, Serve(a) PROVE CloneInv'
  BY <1>6 DEF Serve
<1>7. CASE UNCHANGED clones
  BY <1>7, ClonesUnchanged
<1> QED
  BY <1>1, <1>2, <1>3, <1>4, <1>5, <1>6, <1>7
     DEF Next, ServerSteps, SaveSteps, clones, vars, cloning, history, Enroll, QuoteGood, QuoteBad,
         Unenroll, MakeKey, SignCert, Reply, DaemonDies, GetCert, CertDenied, OpenCert, WriteCert,
         OpenKey, WriteKey, Save, ServiceRestarts

(***************************************************************************)
(* What the report service has saved.                                      *)
(***************************************************************************)

\* What a step may do to the cached pair of any machine: nothing, once there is a
\* certificate or an empty file in its place.
PairKept ==
    \A a \in Agents : certFile[a] # Absent =>
        certFile'[a] = certFile[a] /\ keyFile'[a] = keyFile[a]

LEMMA PairKeptByStep == TypeOK /\ CertInv /\ [Next]_vars => PairKept
<1> SUFFICES ASSUME TypeOK, CertInv, [Next]_vars PROVE PairKept
  OBVIOUS
<1> USE DEF TypeOK, CertInv, OneRequest, PairInTheMaking, PairKept
<1>1. CASE MakeKey
  BY <1>1 DEF MakeKey
<1>2. CASE SignCert
  BY <1>2 DEF SignCert
<1>3. CASE DaemonDies
  BY <1>3 DEF DaemonDies
<1>4. CASE UNCHANGED <<certFile, keyFile>>
  BY <1>4
<1> QED
  BY <1>1, <1>2, <1>3, <1>4
     DEF Next, ServerSteps, SaveSteps, vars, issuing, Reply, GetCert, Enroll, QuoteGood, QuoteBad,
         Unenroll, Judge, CertDenied, OpenCert, WriteCert, OpenKey, WriteKey, Save,
         ServiceRestarts, Reboot, Request, Auth, AuthFails, Serve, Answer

LEMMA SavedInOrderKept == TypeOK /\ CertInv /\ SavedInOrder /\ [Next]_vars => SavedInOrder'
<1> SUFFICES ASSUME TypeOK, CertInv, SavedInOrder, [Next]_vars PROVE SavedInOrder'
  OBVIOUS
<1> USE DEF TypeOK, CertInv, SavedInOrder, HasCredentials
<1>1. \A a \in Agents : certFile[a] = Empty => certFile'[a] = Empty
  BY PairKeptByStep DEF PairKept, Empty, Absent
<1>2. CASE Reply
  <2>1. keyFile[client] # Empty
    BY <1>2 DEF Reply, CacheConsistent, PairInTheMaking, OneRequest, Empty
  <2> QED
    BY <1>1, <1>2, <2>1 DEF Reply
<1>3. ASSUME NEW a \in Agents, OpenCert(a) PROVE SavedInOrder'
  BY <1>1, <1>3 DEF OpenCert, Save
<1>4. ASSUME NEW a \in Agents, WriteCert(a) PROVE SavedInOrder'
  BY <1>1, <1>4 DEF WriteCert, Save, AnswersCurrent, Current, Saving
<1>5. ASSUME NEW a \in Agents, OpenKey(a) PROVE SavedInOrder'
  BY <1>1, <1>5 DEF OpenKey, Save
<1>6. ASSUME NEW a \in Agents, WriteKey(a) PROVE SavedInOrder'
  BY <1>1, <1>6 DEF WriteKey, Save, AnswersCurrent, Current, Saving
<1>7. ASSUME NEW a \in Agents, ServiceRestarts(a) \/ Reboot(a) PROVE SavedInOrder'
  BY <1>1, <1>7 DEF ServiceRestarts, Reboot
<1>8. CASE UNCHANGED <<svc, cert, key>>
  BY <1>1, <1>8
<1> QED
  BY <1>2, <1>3, <1>4, <1>5, <1>6, <1>7, <1>8
     DEF Next, ServerSteps, SaveSteps, vars, agent, MakeKey, SignCert, DaemonDies, GetCert, Enroll,
         QuoteGood, QuoteBad, Unenroll, Judge, CertDenied, Request, Auth, AuthFails, Serve, Answer

LEMMA StepIInv == IInv /\ [Next]_vars => IInv'
BY TypesKept, CertsKept, SavedInOrderKept, ClonesKept DEF IInv, CertInv, CloneInv

\* The inductive invariant holds in every reachable state.
THEOREM Inductive == Spec => []IInv
BY InitIInv, StepIInv, PTL DEF Spec

\* Every variable keeps its type; the requests of a machine stay within its connections.
THEOREM TypeCorrect == Spec => []TypeOK
<1>1. IInv => TypeOK
  BY DEF IInv
<1> QED
  BY <1>1, Inductive, PTL

\* The gate: from the moment the verifier turns a machine down, it is served no file but
\* those the verifier had vouched for, however many clones, requests in flight and machines.
THEOREM GateCloses == Spec => []RevocationBites
<1>1. IInv => RevocationBites
  BY DEF IInv, TypeOK, RevocationBites, LateBounded
<1> QED
  BY <1>1, Inductive, PTL

\* The cache of the daemon, with its existence checks and its order of writes, is
\* enough for the two files on a machine never to be of two pairs, though both are
\* emptied and filled anew whenever the service runs; and no empty file is left behind
\* by a service that finished.
THEOREM PairsMatch == Spec => []CredentialsMatch
<1>1. ASSUME IInv, NEW a \in Agents, HasCredentials(a) PROVE cert[a] = key[a]
  BY <1>1 DEF IInv, CredentialsCurrent, Held, HasCredentials, Absent, Empty
<1>2. ASSUME IInv, NEW a \in Agents, svc[a] = "Done" PROVE Empty \notin {cert[a], key[a]}
  <2>1. CASE HasCredentials(a)
    BY <2>1 DEF HasCredentials, Empty
  <2>2. CASE certFile[a] = Empty
    BY <1>2, <2>2 DEF IInv, CredentialsCurrent, Held, Absent, Empty
  <2> QED
    BY <1>2, <2>1, <2>2 DEF IInv, SavedInOrder
<1>3. IInv => CredentialsMatch
  BY <1>1, <1>2 DEF CredentialsMatch
<1> QED
  BY <1>3, Inductive, PTL

-----------------------------------------------------------------------------
(***************************************************************************)
(* When a machine is left without credentials.  Liveness stays with TLC;   *)
(* what a finished report service has achieved, and why an interrupted     *)
(* openssl is the only thing that spoils it, are safety properties.        *)
(***************************************************************************)

\* The daemon dies in openssl x509, which has created its output and not filled it.
CertCut == DaemonDies /\ certFile' # certFile

UncutSpec == Init /\ [][Next /\ ~CertCut]_vars

NoEmptyCert == \A a \in Agents : certFile[a] # Empty

Provisioned == \A a \in Agents : svc[a] = "Done" => HasCredentials(a)

\* Once the daemon has a certificate for a machine, it never makes that machine a new
\* key or certificate, whoever is killed at which step: no credentials in use anywhere
\* are ever replaced.
THEOREM PairsForGood == Spec => [][PairKept]_vars
<1>1. IInv /\ [Next]_vars => PairKept
  BY PairKeptByStep DEF IInv, CertInv
<1>2. []IInv /\ [][Next]_vars => [][PairKept]_vars
  BY <1>1, PTL
<1> QED
  BY <1>2, Inductive, PTL DEF Spec

\* A report service that has finished has given its machine credentials, and the only
\* exception is the empty certificate that an interrupted openssl left.
THEOREM DoneMeansSaved == Spec => []SavedInOrder
<1>1. IInv => SavedInOrder
  BY DEF IInv
<1> QED
  BY <1>1, Inductive, PTL

\* That exception is for good: the machine has no credentials, and no retry,
\* restart or reboot makes its certificate anything but empty again.
THEOREM EmptyIsForGood ==
  Spec => /\ [](\A a \in Agents : certFile[a] = Empty => cert[a] = Absent /\ key[a] = Absent)
          /\ [][\A a \in Agents : certFile[a] = Empty => certFile'[a] = Empty]_vars
<1> DEFINE NoneSaved == \A a \in Agents : certFile[a] = Empty => cert[a] = Absent /\ key[a] = Absent
           Stays == \A a \in Agents : certFile[a] = Empty => certFile'[a] = Empty
<1>1. IInv => NoneSaved
  BY DEF IInv, CredentialsCurrent, Held, Empty
<1>2. PairKept => Stays
  BY DEF PairKept, Empty, Absent
<1>3. [][PairKept]_vars => [][Stays]_vars
  BY <1>2, PTL
<1>4. Spec => []NoneSaved
  BY <1>1, Inductive, PTL
<1>5. Spec => [][Stays]_vars
  BY <1>3, PairsForGood, PTL
<1> QED
  BY <1>4, <1>5

\* The boundary of that failure: as long as no openssl x509 is cut short, every service
\* that finishes leaves credentials, through all other deaths, restarts and reboots.
THEOREM ProvisionedUnlessCut == UncutSpec => [](Provisioned /\ NoEmptyCert)
<1> DEFINE UInv == IInv /\ NoEmptyCert
<1>1. Init => UInv
  BY InitIInv DEF Init, NoEmptyCert, Absent, Empty
<1>2. UInv /\ [Next /\ ~CertCut]_vars => UInv'
  <2> SUFFICES ASSUME UInv, [Next /\ ~CertCut]_vars PROVE UInv'
    OBVIOUS
  <2>1. IInv'
    BY StepIInv
  <2>2. ASSUME SignCert PROVE NoEmptyCert'
    BY <2>2 DEF SignCert, IInv, TypeOK, OneRequest, PairInTheMaking, NoEmptyCert, Empty
  <2>3. ASSUME certFile' = certFile PROVE NoEmptyCert'
    BY <2>3 DEF NoEmptyCert
  <2>4. NoEmptyCert'
    BY <2>2, <2>3
       DEF CertCut, Next, ServerSteps, SaveSteps, vars, issuing, MakeKey, Reply, GetCert, Enroll,
           QuoteGood, QuoteBad, Unenroll, Judge, CertDenied, OpenCert, WriteCert, OpenKey, WriteKey,
           Save, ServiceRestarts, Reboot, Request, Auth, AuthFails, Serve, Answer
  <2> QED
    BY <2>1, <2>4
<1>3. UInv => Provisioned /\ NoEmptyCert
  BY DEF IInv, SavedInOrder, NoEmptyCert, Provisioned
<1> QED
  BY <1>1, <1>2, <1>3, PTL DEF UncutSpec
=============================================================================
