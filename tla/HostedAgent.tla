----------------------------- MODULE HostedAgent -----------------------------
(***************************************************************************)
(* The agent binary hosted by the relay: rk artifact publish-agent (rk.rs, *)
(* publish_agent_artifact and the commands of its plan), the relay that    *)
(* serves the binary and its checksum file (join_script, artifact_file),   *)
(* and the join script that downloads, verifies and runs it on the         *)
(* assisted machine (linux_join_script, powershell_join_script).           *)
(*                                                                         *)
(* A file holds a build, a part of one (Torn) or is absent (None).  A      *)
(* digest is named by the build it is of: nothing else has that digest.    *)
(***************************************************************************)
EXTENDS Integers

CONSTANTS
    Publishers,  \* runs of publish-agent for one host and target
    NoSudo,      \* those with --no-sudo
    Joiners,     \* runs of a join script
    Workdirs,    \* directories /tmp/relaykit-agent/<code>
    Workdir,     \* Workdir[j]: the one of a joiner's session code
    Builds,      \* contents --binary may have
    MaxRebuilds, \* bound: times a local binary is rebuilt
    Downloads,   \* attempts per file: 2 with proxy settings, else 1
    Torn, None

ASSUME NoSudoPublishers  == NoSudo \subseteq Publishers
ASSUME WorkdirOfCode     == Workdir \in [Joiners -> Workdirs]
ASSUME NotBuilds         == Torn \notin Builds /\ None \notin Builds /\ Torn # None
ASSUME NoneNoPublisher   == None \notin Publishers
ASSUME BoundsPositive    == MaxRebuilds \in Nat /\ Downloads \in Nat \ {0}

VARIABLES
    pub,      \* publish_agent_artifact: the command it is at, or its result
    local,    \* the build at --binary
    rebuilds, \* number of rebuilds so far
    digest,   \* the SHA-256 computed of it
    tmpBin,   \* the staged binary on the host
    tmpSum,   \* the staged checksum file
    remote,   \* the shell on the host that runs the activation
    alone,    \* no other activation has run beside it (history)
    artifact, \* the hosted binary
    sidecar,  \* the hosted checksum file
    binBy,    \* the publisher whose install is writing the binary
    sumBy,    \* ... the checksum file
    session,  \* the session of the code is in the store and not expired
    join,     \* the join script: where it is, or how it ended
    attempt,  \* the download attempt it is at
    body,     \* what the relay answers to its request
    calm,     \* a whole binary and its checksum were hosted since it asked (history)
    expected, \* the digest it has read from the checksum file
    workBin,  \* the file it downloads to
    workSum,  \* ... the checksum to
    ran       \* what it has executed

stageVars == <<local, rebuilds, digest, tmpBin, tmpSum>>
pubVars   == <<pub, stageVars, remote, alone>>
hostVars  == <<artifact, sidecar, binBy, sumBy>>
fileVars  == <<expected, workBin, workSum, ran>>
joinVars  == <<join, attempt, body, fileVars>>
vars == <<pubVars, hostVars, session, joinVars, calm>>

Files    == Builds \cup {Torn, None}
PubPc    == {"idle", "mkdir", "copyBin", "copySum", "activate", "published", "failed"}
RemotePc == {"none", "bin", "binOpen", "sum", "sumOpen", "done", "failed"}
JoinPc   == {"idle", "getBin", "gettingBin", "getSum", "gettingSum", "check", "hash",
             "verified", "running", "mismatch", "failed"}

Init ==
    /\ pub = [p \in Publishers |-> "idle"]
    /\ local \in [Publishers -> Builds]
    /\ rebuilds = 0
    /\ digest = [p \in Publishers |-> None]
    /\ tmpBin = [p \in Publishers |-> None]
    /\ tmpSum = [p \in Publishers |-> None]
    /\ remote = [p \in Publishers |-> "none"]
    /\ alone = [p \in Publishers |-> FALSE]
    /\ artifact = None /\ sidecar = None
    /\ binBy = None /\ sumBy = None
    /\ session = TRUE
    /\ join = [j \in Joiners |-> "idle"]
    /\ attempt = [j \in Joiners |-> 1]
    /\ body = [j \in Joiners |-> None]
    /\ calm = [j \in Joiners |-> FALSE]
    /\ expected = [j \in Joiners |-> None]
    /\ workBin = [w \in Workdirs |-> None]
    /\ workSum = [w \in Workdirs |-> None]
    /\ ran = [j \in Joiners |-> None]

-----------------------------------------------------------------------------
(* publish_agent_artifact: one external command after the other.           *)

\* sha256_file, and the local checksum file that is copied later
Hash(p) ==
    /\ pub[p] = "idle"
    /\ digest' = [digest EXCEPT ![p] = local[p]]
    /\ pub' = [pub EXCEPT ![p] = "mkdir"]
    /\ UNCHANGED <<local, rebuilds, tmpBin, tmpSum, remote, alone, hostVars, session, joinVars, calm>>

MakeDir(p) ==
    /\ pub[p] = "mkdir"
    /\ pub' = [pub EXCEPT ![p] = "copyBin"]
    /\ UNCHANGED <<stageVars, remote, alone, hostVars, session, joinVars, calm>>

\* scp reads --binary now, not when its digest was computed
CopyBin(p) ==
    /\ pub[p] = "copyBin"
    /\ tmpBin' = [tmpBin EXCEPT ![p] = local[p]]
    /\ pub' = [pub EXCEPT ![p] = "copySum"]
    /\ UNCHANGED <<local, rebuilds, digest, tmpSum, remote, alone, hostVars, session, joinVars, calm>>

CopySum(p) ==
    /\ pub[p] = "copySum"
    /\ tmpSum' = [tmpSum EXCEPT ![p] = digest[p]]
    /\ pub' = [pub EXCEPT ![p] = "activate"]
    /\ UNCHANGED <<local, rebuilds, digest, tmpBin, remote, alone, hostVars, session, joinVars, calm>>

Activating(p) == remote[p] \in {"bin", "binOpen", "sum", "sumOpen"}

\* ssh starts activate_command on the host
StartActivation(p) ==
    /\ pub[p] = "activate" /\ remote[p] = "none"
    /\ remote' = [remote EXCEPT ![p] = "bin"]
    /\ alone' = [q \in Publishers |->
                   IF q = p THEN \A r \in Publishers : ~Activating(r)
                            ELSE alone[q] /\ ~Activating(q)]
    /\ UNCHANGED <<pub, stageVars, hostVars, session, joinVars, calm>>

Activated(p) ==
    /\ pub[p] = "activate" /\ remote[p] \in {"done", "failed"}
    /\ pub' = [pub EXCEPT ![p] = IF remote[p] = "done" THEN "published" ELSE "failed"]
    /\ UNCHANGED <<stageVars, remote, alone, hostVars, session, joinVars, calm>>

\* A command fails or its connection is lost: `?` returns.  What has been
\* started on the host goes on
PublisherFails(p) ==
    /\ pub[p] \in {"idle", "mkdir", "copyBin", "copySum", "activate"}
    /\ pub' = [pub EXCEPT ![p] = "failed"]
    /\ UNCHANGED <<stageVars, remote, alone, hostVars, session, joinVars, calm>>

\* The operator builds again
Rebuild(p) ==
    /\ rebuilds < MaxRebuilds
    /\ rebuilds' = rebuilds + 1
    /\ \E v \in Builds : local' = [local EXCEPT ![p] = v]
    /\ UNCHANGED <<pub, digest, tmpBin, tmpSum, remote, alone, hostVars, session, joinVars, calm>>

-----------------------------------------------------------------------------
(* activate_command.  Without sudo each file is moved into place; with it, *)
(* `install` unlinks the old file, creates the new one and fills it.       *)

\* A whole binary is hosted, with its own checksum
Matching(bin, sum) == bin \in Builds /\ sum = bin

\* The hosted files become bin and sum; what a joiner downloads may be torn
\* between two publications
Host(bin, sum) ==
    /\ artifact' = bin /\ sidecar' = sum
    /\ calm' = [j \in Joiners |-> calm[j] /\ Matching(bin, sum)]

RemoteGoes(p, at, next) ==
    /\ remote[p] = at
    /\ remote' = [remote EXCEPT ![p] = next]
    /\ UNCHANGED <<pub, stageVars, alone, session, joinVars>>

MoveBin(p) ==
    /\ p \in NoSudo
    /\ RemoteGoes(p, "bin", "sum")
    /\ Host(tmpBin[p], sidecar)
    /\ binBy' = None
    /\ UNCHANGED sumBy

MoveSum(p) ==
    /\ p \in NoSudo
    /\ RemoteGoes(p, "sum", "done")
    /\ Host(artifact, tmpSum[p])
    /\ sumBy' = None
    /\ UNCHANGED binBy

InstallBinOpens(p) ==
    /\ p \notin NoSudo
    /\ RemoteGoes(p, "bin", "binOpen")
    /\ Host(Torn, sidecar)
    /\ binBy' = p
    /\ UNCHANGED sumBy

\* ... unless another activation has unlinked the file meanwhile
InstallBinFills(p) ==
    /\ RemoteGoes(p, "binOpen", "sum")
    /\ IF binBy = p THEN Host(tmpBin[p], sidecar) /\ binBy' = None
                    ELSE UNCHANGED <<artifact, sidecar, calm, binBy>>
    /\ UNCHANGED sumBy

InstallSumOpens(p) ==
    /\ p \notin NoSudo
    /\ RemoteGoes(p, "sum", "sumOpen")
    /\ Host(artifact, Torn)
    /\ sumBy' = p
    /\ UNCHANGED binBy

InstallSumFills(p) ==
    /\ RemoteGoes(p, "sumOpen", "done")
    /\ IF sumBy = p THEN Host(artifact, tmpSum[p]) /\ sumBy' = None
                    ELSE UNCHANGED <<artifact, sidecar, calm, sumBy>>
    /\ UNCHANGED binBy

\* Mutant: the commands are joined with `;` instead of `&&`
RemoteGoesOn(p) ==
    /\ Activating(p)
    /\ remote' = [remote EXCEPT ![p] = IF @ \in {"bin", "binOpen"} THEN "sum" ELSE "done"]
    /\ UNCHANGED <<pub, stageVars, alone, hostVars, session, joinVars, calm>>

\* A command of the chain fails: the rest of it does not run
RemoteFails(p) ==
    /\ Activating(p)
    /\ remote' = [remote EXCEPT ![p] = "failed"]
    /\ UNCHANGED <<pub, stageVars, alone, hostVars, session, joinVars, calm>>

RemoteStep(p) ==
    \/ MoveBin(p) \/ InstallBinOpens(p) \/ InstallBinFills(p)
    \/ MoveSum(p) \/ InstallSumOpens(p) \/ InstallSumFills(p)
    \/ RemoteFails(p)

-----------------------------------------------------------------------------
(* The relay and the join script.  artifact_file reads the whole file and  *)
(* answers with what it has read.                                          *)

SessionOver ==
    /\ session
    /\ session' = FALSE
    /\ UNCHANGED <<pubVars, hostVars, joinVars, calm>>

\* join_script: a code that is in the store and not expired gets the script,
\* whether it has been used or not
FetchScript(j) ==
    /\ join[j] = "idle"
    /\ join' = [join EXCEPT ![j] = IF session THEN "getBin" ELSE "failed"]
    /\ UNCHANGED <<pubVars, hostVars, session, attempt, body, fileVars, calm>>

\* No running agent holds the file against being written to
Writable(w) == \A k \in Joiners : join[k] = "running" => Workdir[k] # w

\* The relay has the file: the download truncates the output
AskBin(j) ==
    /\ join[j] = "getBin" /\ artifact # None /\ Writable(Workdir[j])
    /\ body' = [body EXCEPT ![j] = artifact]
    /\ calm' = [calm EXCEPT ![j] = Matching(artifact, sidecar)]
    /\ workBin' = [workBin EXCEPT ![Workdir[j]] = Torn]
    /\ join' = [join EXCEPT ![j] = "gettingBin"]
    /\ UNCHANGED <<pubVars, hostVars, session, attempt, expected, workSum, ran>>

\* Mutant: a second attempt resumes the first
GotBinResumed(j) ==
    /\ join[j] = "gettingBin"
    /\ workBin' = [workBin EXCEPT ![Workdir[j]] = IF attempt[j] = 1 THEN body[j] ELSE Torn]
    /\ join' = [join EXCEPT ![j] = "getSum"]
    /\ attempt' = [attempt EXCEPT ![j] = 1]
    /\ body' = [body EXCEPT ![j] = None]
    /\ UNCHANGED <<pubVars, hostVars, session, expected, workSum, ran, calm>>

GotBin(j) ==
    /\ join[j] = "gettingBin"
    /\ workBin' = [workBin EXCEPT ![Workdir[j]] = body[j]]
    /\ join' = [join EXCEPT ![j] = "getSum"]
    /\ attempt' = [attempt EXCEPT ![j] = 1]
    /\ body' = [body EXCEPT ![j] = None]
    /\ UNCHANGED <<pubVars, hostVars, session, expected, workSum, ran, calm>>

AskSum(j) ==
    /\ join[j] = "getSum" /\ sidecar # None
    /\ body' = [body EXCEPT ![j] = sidecar]
    /\ workSum' = [workSum EXCEPT ![Workdir[j]] = Torn]
    /\ join' = [join EXCEPT ![j] = "gettingSum"]
    /\ UNCHANGED <<pubVars, hostVars, session, attempt, expected, workBin, ran, calm>>

GotSum(j) ==
    /\ join[j] = "gettingSum"
    /\ workSum' = [workSum EXCEPT ![Workdir[j]] = body[j]]
    /\ join' = [join EXCEPT ![j] = "check"]
    /\ body' = [body EXCEPT ![j] = None]
    /\ UNCHANGED <<pubVars, hostVars, session, attempt, expected, workBin, ran, calm>>

Downloading == {"getBin", "gettingBin", "getSum", "gettingSum"}

\* Mutant: the retry is not counted
DownloadFailsAgain(j) ==
    /\ join[j] \in Downloading
    /\ join' = [join EXCEPT ![j] = IF @ = "gettingBin" THEN "getBin"
                                   ELSE IF @ = "gettingSum" THEN "getSum" ELSE @]
    /\ attempt' = [attempt EXCEPT ![j] = 3 - @]
    /\ body' = [body EXCEPT ![j] = None]
    /\ UNCHANGED <<pubVars, hostVars, session, fileVars, calm>>

\* Mutant: one attempt too many
DownloadFailsOnceMore(j) ==
    /\ join[j] \in Downloading
    /\ IF attempt[j] <= Downloads
         THEN /\ attempt' = [attempt EXCEPT ![j] = @ + 1]
              /\ join' = [join EXCEPT ![j] = IF @ = "gettingBin" THEN "getBin"
                                             ELSE IF @ = "gettingSum" THEN "getSum" ELSE @]
         ELSE /\ join' = [join EXCEPT ![j] = "failed"]
              /\ UNCHANGED attempt
    /\ body' = [body EXCEPT ![j] = None]
    /\ UNCHANGED <<pubVars, hostVars, session, fileVars, calm>>

\* A request fails (404, a timeout, a file that cannot be written): the second
\* attempt goes through the proxy, then the script refuses to go on.  A file
\* that was being written stays as it is
DownloadFails(j) ==
    /\ join[j] \in Downloading
    /\ IF attempt[j] < Downloads
         THEN /\ attempt' = [attempt EXCEPT ![j] = @ + 1]
              /\ join' = [join EXCEPT ![j] = IF @ = "gettingBin" THEN "getBin"
                                             ELSE IF @ = "gettingSum" THEN "getSum" ELSE @]
         ELSE /\ join' = [join EXCEPT ![j] = "failed"]
              /\ UNCHANGED attempt
    /\ body' = [body EXCEPT ![j] = None]
    /\ UNCHANGED <<pubVars, hostVars, session, fileVars, calm>>

ReadExpected(j) ==
    /\ join[j] = "check"
    /\ expected' = [expected EXCEPT ![j] = workSum[Workdir[j]]]
    /\ join' = [join EXCEPT ![j] = "hash"]
    /\ UNCHANGED <<pubVars, hostVars, session, attempt, body, workBin, workSum, ran, calm>>

\* Mutant: only a digest that differs is refused, not one that is missing
MatchesOrMissing(j) ==
    expected[j] \in {Torn, workBin[Workdir[j]]}

\* An empty or cut checksum equals no digest
Matches(j) == expected[j] \in Builds /\ expected[j] = workBin[Workdir[j]]

\* sha256_of the binary, compared with what was read; there may be no program
\* to compute it with
HashBin(j) ==
    /\ join[j] = "hash"
    /\ \/ join' = [join EXCEPT ![j] = IF Matches(j) THEN "verified" ELSE "mismatch"]
       \/ join' = [join EXCEPT ![j] = "failed"]
    /\ UNCHANGED <<pubVars, hostVars, session, attempt, body, fileVars, calm>>

\* chmod, then the agent: the file is executed as it is by then, unless
\* another run of the script has it open for writing
RunAgent(j) ==
    /\ join[j] = "verified"
    /\ IF \E k \in Joiners : Workdir[k] = Workdir[j] /\ join[k] = "gettingBin"
         THEN join' = [join EXCEPT ![j] = "failed"] /\ UNCHANGED ran
         ELSE /\ join' = [join EXCEPT ![j] = "running"]
              /\ ran' = [ran EXCEPT ![j] = workBin[Workdir[j]]]
    /\ UNCHANGED <<pubVars, hostVars, session, attempt, body, expected, workBin, workSum, calm>>

JoinStep(j) ==
    \/ AskBin(j) \/ GotBin(j) \/ AskSum(j) \/ GotSum(j) \/ DownloadFails(j)
    \/ ReadExpected(j) \/ HashBin(j) \/ RunAgent(j)

-----------------------------------------------------------------------------
PublishStep(p) ==
    \/ Hash(p) \/ MakeDir(p) \/ CopyBin(p) \/ CopySum(p)
    \/ StartActivation(p) \/ Activated(p) \/ PublisherFails(p)

Next ==
    \/ \E p \in Publishers : PublishStep(p) \/ RemoteStep(p) \/ Rebuild(p)
    \/ \E j \in Joiners : FetchScript(j) \/ JoinStep(j)
    \/ SessionOver

Spec == Init /\ [][Next]_vars

\* The script goes on: its downloads have --max-time.  Nothing is assumed of
\* publishers
FairSpec == Spec /\ \A j \in Joiners : WF_vars(JoinStep(j))

-----------------------------------------------------------------------------
(* Properties                                                              *)

PublishersOK ==
    /\ pub \in [Publishers -> PubPc]
    /\ local \in [Publishers -> Builds] /\ rebuilds \in 0 .. MaxRebuilds
    /\ digest \in [Publishers -> Builds \cup {None}]
    /\ tmpBin \in [Publishers -> Builds \cup {None}]
    /\ tmpSum \in [Publishers -> Builds \cup {None}]
    /\ remote \in [Publishers -> RemotePc] /\ alone \in [Publishers -> BOOLEAN]

HostOK ==
    /\ artifact \in Files /\ sidecar \in Files
    /\ binBy \in Publishers \cup {None} /\ sumBy \in Publishers \cup {None}
    /\ session \in BOOLEAN

JoinersOK ==
    /\ join \in [Joiners -> JoinPc] /\ attempt \in [Joiners -> 1 .. Downloads]
    /\ body \in [Joiners -> Files] /\ calm \in [Joiners -> BOOLEAN]
    /\ expected \in [Joiners -> Files]
    /\ workBin \in [Workdirs -> Files] /\ workSum \in [Workdirs -> Files]
    /\ ran \in [Joiners -> Files]

\* The types of the variables; a file is asked for at most Downloads times.
TypeOK == PublishersOK /\ HostOK /\ JoinersOK

\* No other run of the script has the same session code
OwnWorkdir(j) == \A k \in Joiners \ {j} : Workdir[k] # Workdir[j]

\* What the script runs is a whole build whose digest some publisher computed,
\* whatever publishers, failing commands and downloads do meanwhile, provided no
\* second run of the script shares the directory of its code.
RunsOnlyPublished ==
    \A j \in Joiners : OwnWorkdir(j) /\ ran[j] # None =>
        ran[j] \in Builds /\ \E p \in Publishers : digest[p] = ran[j]

\* An activation that nothing else ran beside leaves the binary and its digest,
\* whatever earlier ones that failed or overlapped had left, provided the binary
\* was not rebuilt between the hash and the copy.
PublishRepairs ==
    [][\A p \in Publishers :
          remote[p] # "done" /\ remote'[p] = "done" /\ alone[p] /\ tmpBin[p] = digest[p]
             => artifact' = digest[p] /\ sidecar' = digest[p]]_vars

\* The script reports a mismatch only if what was hosted was not a whole build with
\* its own digest at some moment since it asked for the binary: a retried or
\* interrupted download is never the reason.
NoFalseMismatch ==
    \A j \in Joiners : OwnWorkdir(j) /\ join[j] = "mismatch" => ~calm[j]

\* A join script ends: it runs the agent or says why not.
JoinEnds ==
    \A j \in Joiners :
        join[j] = "getBin" ~> join[j] \in {"running", "mismatch", "failed"}
=============================================================================
