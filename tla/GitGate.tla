------------------------------- MODULE GitGate -------------------------------
(***************************************************************************)
(* Attested machines clone from the git server: the daemon issues a client *)
(* certificate and caches the pair, the report service writes it to /run,  *)
(* and nginx asks keylime-git-auth about every single request of a clone,  *)
(* which asks the verifier.  A machine may run several clones, and git has *)
(* several requests of each in flight.  The verifier changes its mind      *)
(* meanwhile, and processes die while they write files.                    *)
(*                                                                         *)
(* A PEM file is Absent, Empty, or the number of its key pair.             *)
(***************************************************************************)
EXTENDS Integers

CONSTANTS
    Agents,
    Connections,      \* how many requests of a machine nginx handles at a time
    MaxDisturbances,  \* killed processes, reboots and failing calls
    None              \* no agent

ASSUME ConnectionsAssumption == Connections \in Nat \ {0}
ASSUME BoundAssumption == MaxDisturbances \in Nat
ASSUME NoneAssumption  == None \notin Agents

VARIABLES
    verifier,      \* what the verifier says of each agent
    certFile,      \* agent-certs/<uuid>-cert.pem
    keyFile,       \* agent-certs/<uuid>-key.pem
    pairs,         \* how many key pairs were made
    client,        \* the agent whose request the daemon handles, or None
    stage,         \* where issue_agent_cert is
    svc,           \* the report service after its report was accepted
    answer,        \* the certificate and key it was sent
    cert, key,     \* /run/keylime-git/client-{cert,key}.pem
    sent,          \* requests that wait for the answer of keylime-git-auth
    allowed,       \* requests the verifier has vouched for, their file not yet served
    owed,          \* history: the requests allowed when the agent was turned down
    late,          \* history: the files served since
    disturbances

issuing == <<certFile, keyFile, pairs, client, stage>>
agent   == <<svc, answer, cert, key>>
cloning == <<sent, allowed>>
history == <<owed, late>>
vars == <<verifier, issuing, agent, cloning, history, disturbances>>

Absent == -1
Empty  == 0
Contents == Nat \union {Absent}

\* mutant: an allow list without the states before the first quote
AllowedQuoted == {"Quote"}

\* _ATTESTED_STATES and _ALLOWED: all states short of a verdict, and the good one.
Allowed == {"Start", "Quote"}
Standings == {"Unknown", "Start", "Quote", "Failed"}

\* The standings of a machine nobody has turned down, for the history and the properties.
Good == {"Start", "Quote"}

Init ==
    /\ verifier = [a \in Agents |-> "Unknown"]
    /\ certFile = [a \in Agents |-> Absent]
    /\ keyFile = [a \in Agents |-> Absent]
    /\ pairs = 0
    /\ client = None
    /\ stage = "Idle"
    /\ svc = [a \in Agents |-> "Fetch"]
    /\ answer = [a \in Agents |-> <<Absent, Absent>>]
    /\ cert = [a \in Agents |-> Absent]
    /\ key = [a \in Agents |-> Absent]
    /\ sent = [a \in Agents |-> 0]
    /\ allowed = [a \in Agents |-> 0]
    /\ owed = [a \in Agents |-> 0]
    /\ late = [a \in Agents |-> 0]
    /\ disturbances = 0

Disturb ==
    /\ disturbances < MaxDisturbances
    /\ disturbances' = disturbances + 1

-----------------------------------------------------------------------------
(* The verifier, as its clients see it. *)

Judge(a, from, to) ==
    /\ verifier[a] \in from
    /\ verifier' = [verifier EXCEPT ![a] = to]
    /\ owed' = [owed EXCEPT ![a] = IF to \in Good THEN 0
                                   ELSE IF verifier[a] \in Good THEN allowed[a] ELSE @]
    /\ late' = [late EXCEPT ![a] = IF to \in Good THEN 0 ELSE @]
    /\ UNCHANGED <<issuing, agent, cloning, disturbances>>

\* keylime_tenant -c add
Enroll(a) == Judge(a, {"Unknown"}, "Start")

\* A verified quote also brings a machine back that had failed or timed out.
QuoteGood(a) == Judge(a, {"Start", "Quote", "Failed"}, "Quote")

QuoteBad(a) == Judge(a, {"Start", "Quote"}, "Failed")

\* keylime_tenant -c delete, attestation-ctl remove
Unenroll(a) == Judge(a, {"Start", "Quote", "Failed"}, "Unknown")

-----------------------------------------------------------------------------
(* The certificate: GET /v1/cert/<uuid>, one request at a time. *)

\* mutant: a pair is made for every request
CachedNever(a) == FALSE

\* A pair that exists is returned, whatever the two files contain.
Cached(a) == certFile[a] # Absent /\ keyFile[a] # Absent

GetCert(a) ==
    /\ svc[a] = "Fetch"
    /\ client = None
    /\ verifier[a] \in Allowed
    /\ client' = a
    /\ stage' = IF Cached(a) THEN "Reply" ELSE "Key"
    /\ UNCHANGED <<verifier, certFile, keyFile, pairs, agent, cloning, history, disturbances>>

\* 403: the service waits and asks again.
CertDenied(a) ==
    /\ svc[a] = "Fetch"
    /\ client = None
    /\ verifier[a] \notin Allowed
    /\ UNCHANGED vars

\* openssl req: a new key, and a request that does not outlive the call.
MakeKey ==
    /\ stage = "Key"
    /\ pairs' = pairs + 1
    /\ keyFile' = [keyFile EXCEPT ![client] = pairs + 1]
    /\ stage' = "Cert"
    /\ UNCHANGED <<verifier, certFile, client, agent, cloning, history, disturbances>>

\* openssl x509: the certificate of that key.
SignCert ==
    /\ stage = "Cert"
    /\ certFile' = [certFile EXCEPT ![client] = keyFile[client]]
    /\ stage' = "Reply"
    /\ UNCHANGED <<verifier, keyFile, pairs, client, agent, cloning, history, disturbances>>

\* The service saves nothing, and succeeds, when one of the two is empty.
Reply ==
    /\ stage = "Reply"
    /\ answer' = [answer EXCEPT ![client] = <<certFile[client], keyFile[client]>>]
    /\ svc' = [svc EXCEPT ![client] =
                 IF Empty \in {certFile[client], keyFile[client]} THEN "Done" ELSE "OpenCert"]
    /\ client' = None
    /\ stage' = "Idle"
    /\ UNCHANGED <<verifier, certFile, keyFile, pairs, cert, key, cloning, history, disturbances>>

\* The daemon is killed, or openssl fails: the output it was writing is as it was,
\* or empty.  The service sees an error and is restarted.
DaemonDies ==
    /\ Disturb
    /\ \/ UNCHANGED <<certFile, keyFile>>
       \/ /\ stage = "Key"
          /\ keyFile' = [keyFile EXCEPT ![client] = Empty]
          /\ UNCHANGED certFile
       \/ /\ stage = "Cert"
          /\ certFile' = [certFile EXCEPT ![client] = Empty]
          /\ UNCHANGED keyFile
    /\ client' = None
    /\ stage' = "Idle"
    /\ UNCHANGED <<verifier, pairs, agent, cloning, history>>

\* write_text opens its file, which empties it, and then fills it: the certificate
\* first, then the key.
Save(a, from, to) ==
    /\ svc[a] = from
    /\ svc' = [svc EXCEPT ![a] = to]
    /\ UNCHANGED <<verifier, issuing, answer, cloning, history, disturbances>>

OpenCert(a) ==
    /\ Save(a, "OpenCert", "WriteCert")
    /\ cert' = [cert EXCEPT ![a] = Empty]
    /\ UNCHANGED key

WriteCert(a) ==
    /\ Save(a, "WriteCert", "OpenKey")
    /\ cert' = [cert EXCEPT ![a] = answer[a][1]]
    /\ UNCHANGED key

OpenKey(a) ==
    /\ Save(a, "OpenKey", "WriteKey")
    /\ key' = [key EXCEPT ![a] = Empty]
    /\ UNCHANGED cert

WriteKey(a) ==
    /\ Save(a, "WriteKey", "Done")
    /\ key' = [key EXCEPT ![a] = answer[a][2]]
    /\ UNCHANGED cert

SaveSteps(a) == OpenCert(a) \/ WriteCert(a) \/ OpenKey(a) \/ WriteKey(a)

\* The service is stopped anywhere, or run again: it starts over.
ServiceRestarts(a) ==
    /\ svc[a] # "Fetch"
    /\ Disturb
    /\ svc' = [svc EXCEPT ![a] = "Fetch"]
    /\ UNCHANGED <<verifier, issuing, answer, cert, key, cloning, history>>

\* /run does not survive a reboot, nor do clones or a request to the daemon.
Reboot(a) ==
    /\ client # a
    /\ Disturb
    /\ svc' = [svc EXCEPT ![a] = "Fetch"]
    /\ cert' = [cert EXCEPT ![a] = Absent]
    /\ key' = [key EXCEPT ![a] = Absent]
    /\ sent' = [sent EXCEPT ![a] = 0]
    /\ allowed' = [allowed EXCEPT ![a] = 0]
    /\ UNCHANGED <<verifier, issuing, answer, history>>

-----------------------------------------------------------------------------
(* Cloning: keylime-git-clone, nginx and keylime-git-auth, request by request. *)

HasCredentials(a) == cert[a] > 0 /\ key[a] > 0

\* mutant: a request that was allowed is not counted any more
FreeSent(a) == sent[a] < Connections

Free(a) == sent[a] + allowed[a] < Connections

\* A clone asks for a file, the first or one more, on a new connection or a kept one:
\* each request meets auth_request, and none waits for another one of its machine.
Request(a) ==
    /\ HasCredentials(a)
    /\ Free(a)
    /\ sent' = [sent EXCEPT ![a] = @ + 1]
    /\ UNCHANGED <<verifier, issuing, agent, allowed, history, disturbances>>

Answer(a, ok) ==
    /\ sent[a] > 0
    /\ sent' = [sent EXCEPT ![a] = @ - 1]
    /\ allowed' = [allowed EXCEPT ![a] = IF ok THEN @ + 1 ELSE @]
    /\ UNCHANGED <<verifier, issuing, agent, history>>

\* is_attested: 200, or 403 and the request is over, by the answer of the verifier.
Auth(a) == Answer(a, verifier[a] \in Allowed) /\ UNCHANGED disturbances

\* mutant: a question that fails opens the gate
UnreachableOpen == TRUE

\* 503: the verifier cannot be asked.
Unreachable == FALSE

AuthFails(a) == Disturb /\ Answer(a, Unreachable)

\* nginx sends the file, whatever the verifier says by now.
Serve(a) ==
    /\ allowed[a] > 0
    /\ allowed' = [allowed EXCEPT ![a] = @ - 1]
    /\ late' = [late EXCEPT ![a] = IF verifier[a] \in Good THEN 0 ELSE @ + 1]
    /\ UNCHANGED <<verifier, issuing, agent, sent, owed, disturbances>>

ServerSteps == MakeKey \/ SignCert \/ Reply

Next ==
    \/ ServerSteps \/ DaemonDies
    \/ \E a \in Agents :
         \/ Enroll(a) \/ QuoteGood(a) \/ QuoteBad(a) \/ Unenroll(a)
         \/ GetCert(a) \/ CertDenied(a) \/ SaveSteps(a)
         \/ ServiceRestarts(a) \/ Reboot(a)
         \/ Request(a) \/ Auth(a) \/ AuthFails(a) \/ Serve(a)

Spec == Init /\ [][Next]_vars

\* Processes that can go on do; nothing is fair about the verifier's judgement
\* and about users starting to clone.
Fairness ==
    /\ WF_vars(ServerSteps)
    /\ \A a \in Agents :
         /\ SF_vars(GetCert(a))
         /\ WF_vars(SaveSteps(a))

FairSpec == Spec /\ Fairness

-----------------------------------------------------------------------------
TypeOK ==
    /\ verifier \in [Agents -> Standings]
    /\ certFile \in [Agents -> Contents]
    /\ keyFile \in [Agents -> Contents]
    /\ pairs \in Nat
    /\ client \in Agents \union {None}
    /\ stage \in {"Idle", "Key", "Cert", "Reply"}
    /\ svc \in [Agents -> {"Fetch", "OpenCert", "WriteCert", "OpenKey", "WriteKey", "Done"}]
    /\ answer \in [Agents -> Contents \X Contents]
    /\ cert \in [Agents -> Contents]
    /\ key \in [Agents -> Contents]
    /\ sent \in [Agents -> 0..Connections]
    /\ allowed \in [Agents -> 0..Connections]
    /\ owed \in [Agents -> Nat]
    /\ late \in [Agents -> Nat]
    /\ disturbances \in 0..MaxDisturbances

\* A machine that fails attestation or is deleted while it clones gets no file
\* but those whose requests the verifier had already vouched for.
RevocationBites ==
    \A a \in Agents : verifier[a] \notin Good => late[a] <= owed[a]

\* A certificate and a key a user finds in /run belong together, through rewrites of
\* either and killed daemons and services; and a file that was opened and not filled
\* never outlives a report service that finished.
CredentialsMatch ==
    \A a \in Agents : /\ HasCredentials(a) => cert[a] = key[a]
                      /\ svc[a] = "Done" => Empty \notin {cert[a], key[a]}

\* A machine that stays in the verifier's good books gets its credentials again
\* after every reboot, unless an interrupted openssl left an empty certificate.
GoodBooks(a) == verifier[a] \in Good
CredentialsArrive ==
    \A a \in Agents : (<>[]GoodBooks(a) /\ [](certFile[a] # Empty)) => []<>HasCredentials(a)

\* docs/keylime-git-server.md: "The credentials are provisioned automatically: ...
\* after successful attestation."
AttestedGetCredentials ==
    \A a \in Agents : <>[]GoodBooks(a) => []<>HasCredentials(a)
=============================================================================
