------------------------------- MODULE TlsPki -------------------------------
(***************************************************************************)
(* The PKI of the attestation server: keylime-tls, a oneshot service,      *)
(* writes a CA, a server pair and a client pair with six calls of openssl, *)
(* and every other service loads some of the files.  Nothing makes the     *)
(* generation atomic, and the next activation looks at ca-cert.pem alone.  *)
(*                                                                         *)
(* A file is known by the generator run whose CA key it carries or was     *)
(* signed with; 0 stands for a file that was created and never filled.     *)
(* Owners and modes are left out.                                          *)
(***************************************************************************)
EXTENDS Naturals, Sequences

CONSTANT MaxDisturbances   \* failures, crashes and power cuts

ASSUME BoundAssumption == MaxDisturbances \in Nat

VARIABLES
    unit,          \* keylime-tls.service
    step,          \* what the generator writes next; 0 when it does not run
    run,           \* how many times generation has begun
    present,       \* the files that exist
    of,            \* the run each of them belongs to
    job,           \* the services: "queued" to be started, "up" or "off"
    ctx,           \* the services that hold a client context
    loaded,        \* the runs of the files each service holds in memory
    pinned,        \* the CA certificate copied to the agents' boot partitions
    disturbances

vars == <<unit, step, run, present, of, job, ctx, loaded, pinned, disturbances>>

generator == <<unit, step, run, present, of>>
services  == <<job, ctx, loaded>>

Written == << "ca-key", "ca-cert", "server-key", "server.csr", "server-cert",
              "client-key", "client.csr", "client-cert" >>
Files   == { Written[i] : i \in 1..8 }
Signed  == {"server-cert", "client-cert"}
Requests == {"server.csr", "client.csr"}
Pki     == Files \ Requests

ServerFiles == {"ca-cert", "server-cert", "server-key"}
ClientFiles == {"ca-cert", "client-cert", "client-key"}

Daemons == {"registrar", "verifier", "auto-enroll", "git-auth", "git-nginx"}

\* The units with Requires=keylime-tls.service; the others are only ordered after it.
Requiring == {"registrar", "verifier"}

\* The services that make their client context when they first need it.
Lazy == {"auto-enroll", "git-auth"}

\* What a service must find before it runs, and what it loads when it starts.
Checked(d) == CASE d = "auto-enroll" -> ServerFiles \union ClientFiles
                [] d = "git-auth"    -> ClientFiles
                [] OTHER             -> {}
LoadedAtStart(d) == CASE d = "git-auth" -> {}
                      [] d = "verifier" -> ServerFiles \union ClientFiles
                      [] OTHER          -> ServerFiles

Loadable(fs) == \A f \in fs : f \in present /\ of[f] # 0

Complete == Loadable(Pki)

-----------------------------------------------------------------------------
Init ==
    /\ unit = "inactive"
    /\ step = 0
    /\ run = 0
    /\ present = {}
    /\ of = [f \in Files |-> 0]
    /\ job = [d \in Daemons |-> "queued"]
    /\ ctx = {}
    /\ loaded = [d \in Daemons |-> {}]
    /\ pinned = 0
    /\ disturbances = 0

\* mutant: the last file written decides, not the first certificate
AlreadyGeneratedLast == "client-cert" \in present

\* os.path.exists(ca_cert): an empty file is a file.
AlreadyGenerated == "ca-cert" \in present

\* One activation: nothing to do, or a generation begins.
Activate ==
    /\ \/ /\ AlreadyGenerated
          /\ unit' = "active"
          /\ UNCHANGED <<step, run>>
       \/ /\ ~AlreadyGenerated
          /\ unit' = "activating"
          /\ step' = 1
          /\ run' = run + 1
    /\ UNCHANGED <<present, of, ctx, loaded, pinned, disturbances>>

BootStart ==
    /\ unit = "inactive"
    /\ Activate
    /\ UNCHANGED job

\* An administrator starts keylime-tls and what waits for it.
ManualStart ==
    /\ unit = "failed"
    /\ Activate
    /\ job' = [d \in Daemons |-> IF job[d] = "off" THEN "queued" ELSE job[d]]

\* Certificates carry the CA key they are signed with, the other files their run.
WriteFile ==
    /\ step \in 1..8
    /\ LET f == Written[step] IN
         /\ present' = present \union {f}
         /\ of' = [of EXCEPT ![f] = IF f \in Signed THEN of["ca-key"] ELSE run]
    /\ step' = step + 1
    /\ UNCHANGED <<unit, run, services, pinned, disturbances>>

Finish ==
    /\ step = 9
    /\ present' = present \ Requests
    /\ unit' = "active"
    /\ step' = 0
    /\ UNCHANGED <<run, of, services, pinned, disturbances>>

\* An interrupted openssl leaves its output as it was, or empty.
Interrupted ==
    \/ UNCHANGED <<present, of>>
    \/ /\ step \in 1..8
       /\ present' = present \union {Written[step]}
       /\ of' = [of EXCEPT ![Written[step]] = 0]

Disturb ==
    /\ disturbances < MaxDisturbances
    /\ disturbances' = disturbances + 1

\* A call fails: the unit fails, and so do the jobs of the units that require it.
GenerationFails ==
    /\ unit = "activating"
    /\ Disturb
    /\ Interrupted
    /\ unit' = "failed"
    /\ step' = 0
    /\ job' = [d \in Daemons |->
                 IF d \in Requiring /\ job[d] = "queued" THEN "off" ELSE job[d]]
    /\ UNCHANGED <<run, ctx, loaded, pinned>>

PowerCut ==
    /\ Disturb
    /\ Interrupted
    /\ unit' = "inactive"
    /\ step' = 0
    /\ job' = [d \in Daemons |-> "queued"]
    /\ ctx' = {}
    /\ loaded' = [d \in Daemons |-> {}]
    /\ UNCHANGED <<run, pinned>>

-----------------------------------------------------------------------------
(* The services. *)

Ordered(d) == unit \in (IF d \in Requiring THEN {"active"} ELSE {"active", "failed"})

FilesReady(d) == Checked(d) \subseteq present /\ Loadable(LoadedAtStart(d))

\* A start that finds files missing or empty exits; systemd tries it again.
StartFails(d) ==
    /\ job[d] = "queued"
    /\ Ordered(d)
    /\ ~FilesReady(d)
    /\ UNCHANGED vars

StartDaemon(d) ==
    /\ job[d] = "queued"
    /\ Ordered(d)
    /\ FilesReady(d)
    /\ job' = [job EXCEPT ![d] = "up"]
    /\ loaded' = [loaded EXCEPT ![d] = { of[f] : f \in LoadedAtStart(d) }]
    /\ UNCHANGED <<generator, ctx, pinned, disturbances>>

\* get_mtls_ctx and verifier_ctx: made once, kept for the life of the process.
MakeContext(d) ==
    /\ d \in Lazy \ ctx
    /\ job[d] = "up"
    /\ Loadable(ClientFiles)
    /\ ctx' = ctx \union {d}
    /\ loaded' = [loaded EXCEPT ![d] = @ \union { of[f] : f \in ClientFiles }]
    /\ UNCHANGED <<generator, job, pinned, disturbances>>

\* mutant: no Restart=on-failure, nobody starts it again
AfterCrashOff == "off"

\* mutant: the same, with the unit left in a state of its own
AfterCrashFailed == "failed"

AfterCrash == "queued"

DaemonCrash(d) ==
    /\ job[d] = "up"
    /\ Disturb
    /\ job' = [job EXCEPT ![d] = AfterCrash]
    /\ ctx' = ctx \ {d}
    /\ loaded' = [loaded EXCEPT ![d] = {}]
    /\ UNCHANGED <<generator, pinned>>

\* The administrator copies ca-cert.pem into attestation-server.json.
CopyCa ==
    /\ Loadable({"ca-cert"})
    /\ pinned' = of["ca-cert"]
    /\ UNCHANGED <<generator, services, disturbances>>

Next ==
    \/ BootStart \/ ManualStart \/ WriteFile \/ Finish
    \/ GenerationFails \/ PowerCut \/ CopyCa
    \/ \E d \in Daemons :
         StartDaemon(d) \/ StartFails(d) \/ MakeContext(d) \/ DaemonCrash(d)

Spec == Init /\ [][Next]_vars

\* systemd runs what is queued; nothing is fair about failures and administrators.
Fairness ==
    /\ WF_vars(BootStart) /\ WF_vars(WriteFile) /\ WF_vars(Finish)
    /\ \A d \in Daemons : WF_vars(StartDaemon(d)) /\ WF_vars(MakeContext(d))

FairSpec == Spec /\ Fairness

-----------------------------------------------------------------------------
TypeOK ==
    /\ unit \in {"inactive", "activating", "active", "failed"}
    /\ step \in 0..9
    /\ run \in Nat
    /\ present \subseteq Files
    /\ of \in [Files -> Nat]
    /\ job \in [Daemons -> {"queued", "up", "off"}]
    /\ ctx \subseteq Lazy
    /\ loaded \in [Daemons -> SUBSET Nat]
    /\ pinned \in Nat
    /\ disturbances \in 0..MaxDisturbances

\* Whatever was interrupted and restarted in which order, all running services
\* hold files of one generation, and the CA copied to the agents is that
\* generation's: no two parties of the system ever reject each other.
OnePki ==
    \A d, e \in Daemons : \A i \in loaded[d], j \in loaded[e] :
        /\ i = j
        /\ pinned \in {0, i}

\* The files on the disk, written one by one, interrupted and begun again, and the
\* services that load some of them at different times, behave as one root of trust
\* that is established once (keylime-generate-certs.py, keylime-shared.nix).
Parties == Daemons \union {"agents"}
Trusted ==
    [p \in Parties |->
       IF p \in Daemons THEN loaded[p] ELSE IF pinned = 0 THEN {} ELSE {pinned}]
Root == INSTANCE TrustRoot WITH root <- of["ca-cert"], trusted <- Trusted
ImplementsTrustRoot == Root!Spec

\* docs/keylime-server.md: "Existing certificates are never overwritten."  Of a
\* CA key without a certificate this is not true.
CertificatesKept ==
    [][\A f \in Files \ {"ca-key"} : of[f] # 0 => of'[f] = of[f]]_vars

\* Once a generation has finished, every service ends up running with what it
\* needs, whatever crashes and reboots happen on the way.
AllServing == (\A d \in Daemons : job[d] = "up") /\ ctx = Lazy
GeneratedServes == (Complete /\ unit = "active") ~> AllServing

\* The unit is active only when the PKI is there: "auto-generates a self-signed CA
\* and mTLS PKI (CA, server, and client certificates)", says docs/keylime-server.md.
\* An activation after an interrupted one finds ca-cert.pem and skips the rest.
ActiveMeansComplete == unit = "active" => Complete
=============================================================================
