-------------------------- MODULE HostedAgentProofs --------------------------
(***************************************************************************)
(* Theorems about HostedAgent, for any number of publishers, joiners and   *)
(* directories.                                                            *)
(***************************************************************************)
EXTENDS HostedAgent, TLAPS

-----------------------------------------------------------------------------
(* The inductive invariant, one concern at a time.                         *)

\* Some publisher has computed the digest that x is the name of, if it is one
HasDigest(x) == x \in Builds => \E p \in Publishers : digest[p] = x

\* A digest is computed once, and every checksum anywhere is one of those
Digests ==
    /\ \A p \in Publishers : pub[p] = "idle" => digest[p] = None
    /\ \A p \in Publishers : HasDigest(tmpSum[p])
    /\ HasDigest(sidecar)
    /\ \A j \in Joiners : /\ HasDigest(expected[j])
                          /\ join[j] = "gettingSum" => HasDigest(body[j])
    /\ \A w \in Workdirs : HasDigest(workSum[w])

\* What an activation moves into place has been copied before it starts
Staged ==
    \A p \in Publishers :
        /\ pub[p] # "idle" /\ pub[p] # "failed" => digest[p] \in Builds
        /\ pub[p] \in {"copySum", "activate", "published"} => tmpBin[p] \in Builds
        /\ pub[p] \in {"activate", "published"} => tmpSum[p] = digest[p]
        /\ remote[p] # "none" =>
              /\ pub[p] \in {"activate", "published", "failed"}
              /\ tmpBin[p] \in Builds /\ digest[p] \in Builds /\ tmpSum[p] = digest[p]

\* An activation that is alone finds the host as it has left it
Undisturbed ==
    \A p \in Publishers : alone[p] /\ Activating(p) =>
        /\ \A q \in Publishers \ {p} : ~Activating(q)
        /\ remote[p] = "binOpen" => binBy = p
        /\ remote[p] \in {"sum", "sumOpen"} => artifact = tmpBin[p]
        /\ remote[p] = "sumOpen" => sumBy = p

\* What is verified is what is executed next, and was executed
Verified ==
    \A j \in Joiners : OwnWorkdir(j) =>
        /\ join[j] = "verified" =>
              expected[j] \in Builds /\ expected[j] = workBin[Workdir[j]]
        /\ ran[j] # None => ran[j] \in Builds /\ HasDigest(ran[j])

\* A joiner on a calm host holds parts of the one build that is hosted
CalmAt(j) ==
    /\ Matching(artifact, sidecar)
    /\ join[j] \in {"gettingBin", "gettingSum"} => body[j] = artifact
    /\ join[j] \in {"getSum", "gettingSum", "check"} => workBin[Workdir[j]] = artifact
    /\ join[j] = "check" => workSum[Workdir[j]] = artifact
    /\ join[j] = "hash" => expected[j] \in Builds /\ expected[j] = workBin[Workdir[j]]
    /\ join[j] # "mismatch"

Calm == \A j \in Joiners : OwnWorkdir(j) /\ calm[j] => CalmAt(j)

IndInv ==
    /\ TypeOK
    /\ Digests
    /\ Staged
    /\ Undisturbed
    /\ Verified
    /\ Calm

-----------------------------------------------------------------------------
(* Initial states and type correctness.                                    *)

\* Initially nothing is staged, hosted or asked for.
LEMMA InitInv == Init => IndInv
  <1> SUFFICES ASSUME Init PROVE IndInv
    OBVIOUS
  <1>1. PublishersOK
    BY BoundsPositive DEF Init, PublishersOK, PubPc, RemotePc
  <1>2. HostOK
    BY DEF Init, HostOK, Files
  <1>3. JoinersOK
    BY BoundsPositive DEF Init, JoinersOK, JoinPc, Files
  <1>4. Digests /\ Staged
    BY NotBuilds DEF Init, Digests, Staged, HasDigest
  <1>5. Undisturbed /\ Verified /\ Calm
    BY DEF Init, Undisturbed, Verified, Calm
  <1>6. QED
    BY <1>1, <1>2, <1>3, <1>4, <1>5 DEF IndInv, TypeOK

\* The commands of a publisher keep the types.
LEMMA PublishTyped ==
    ASSUME IndInv, NEW p \in Publishers, PublishStep(p) \/ Rebuild(p) PROVE TypeOK'
  <1> USE DEF IndInv, TypeOK, stageVars, pubVars, hostVars, fileVars, joinVars
  <1>1. UNCHANGED <<hostVars, session, joinVars, calm>>
    BY DEF PublishStep, Hash, MakeDir, CopyBin, CopySum, StartActivation, Activated,
           PublisherFails, Rebuild
  <1>2. HostOK' /\ JoinersOK'
    <2>1. HostOK'
      BY <1>1 DEF HostOK
    <2>2. JoinersOK'
      BY <1>1 DEF JoinersOK
    <2>3. QED
      BY <2>1, <2>2
  <1>3. ASSUME Hash(p) PROVE PublishersOK'
    BY <1>3 DEF Hash, PublishersOK, PubPc
  <1>4. ASSUME MakeDir(p) PROVE PublishersOK'
    BY <1>4 DEF MakeDir, PublishersOK, PubPc
  <1>5. ASSUME CopyBin(p) PROVE PublishersOK'
    BY <1>5 DEF CopyBin, PublishersOK, PubPc
  <1>6. ASSUME CopySum(p) PROVE PublishersOK'
    BY <1>6 DEF CopySum, PublishersOK, PubPc
  <1>7. ASSUME StartActivation(p) PROVE PublishersOK'
    BY <1>7 DEF StartActivation, PublishersOK, Activating, RemotePc
  <1>8. ASSUME Activated(p) PROVE PublishersOK'
    BY <1>8 DEF Activated, PublishersOK, PubPc
  <1>9. ASSUME PublisherFails(p) PROVE PublishersOK'
    BY <1>9 DEF PublisherFails, PublishersOK, PubPc
  <1>10. ASSUME Rebuild(p) PROVE PublishersOK'
    BY <1>10, BoundsPositive DEF Rebuild, PublishersOK
  <1>11. QED
    BY <1>2, <1>3, <1>4, <1>5, <1>6, <1>7, <1>8, <1>9, <1>10 DEF PublishStep

\* So do the commands on the host.
LEMMA RemoteTyped ==
    ASSUME IndInv, NEW p \in Publishers, RemoteStep(p) PROVE TypeOK'
  <1> USE DEF IndInv, TypeOK, stageVars, pubVars, hostVars, fileVars, joinVars
  <1>1. ASSUME MoveBin(p) PROVE TypeOK'
    <2>1. PublishersOK'
      BY <1>1 DEF MoveBin, RemoteGoes, PublishersOK, RemotePc
    <2>2. HostOK'
      BY <1>1 DEF MoveBin, RemoteGoes, Host, HostOK, PublishersOK, Files
    <2>3. JoinersOK'
      BY <1>1 DEF MoveBin, RemoteGoes, Host, Matching, JoinersOK
    <2>4. QED
      BY <2>1, <2>2, <2>3
  <1>2. ASSUME MoveSum(p) PROVE TypeOK'
    <2>1. PublishersOK'
      BY <1>2 DEF MoveSum, RemoteGoes, PublishersOK, RemotePc
    <2>2. HostOK'
      BY <1>2 DEF MoveSum, RemoteGoes, Host, HostOK, PublishersOK, Files
    <2>3. JoinersOK'
      BY <1>2 DEF MoveSum, RemoteGoes, Host, Matching, JoinersOK
    <2>4. QED
      BY <2>1, <2>2, <2>3
  <1>3. ASSUME InstallBinOpens(p) PROVE TypeOK'
    <2>1. PublishersOK'
      BY <1>3 DEF InstallBinOpens, RemoteGoes, PublishersOK, RemotePc
    <2>2. HostOK'
      BY <1>3 DEF InstallBinOpens, RemoteGoes, Host, HostOK, PublishersOK, Files
    <2>3. JoinersOK'
      BY <1>3 DEF InstallBinOpens, RemoteGoes, Host, Matching, JoinersOK
    <2>4. QED
      BY <2>1, <2>2, <2>3
  <1>4. ASSUME InstallBinFills(p) PROVE TypeOK'
    <2>1. PublishersOK'
      BY <1>4 DEF InstallBinFills, RemoteGoes, PublishersOK, RemotePc
    <2>2. HostOK'
      BY <1>4 DEF InstallBinFills, RemoteGoes, Host, HostOK, PublishersOK, Files
    <2>3. JoinersOK'
      BY <1>4 DEF InstallBinFills, RemoteGoes, Host, Matching, JoinersOK
    <2>4. QED
      BY <2>1, <2>2, <2>3
  <1>5. ASSUME InstallSumOpens(p) PROVE TypeOK'
    <2>1. PublishersOK'
      BY <1>5 DEF InstallSumOpens, RemoteGoes, PublishersOK, RemotePc
    <2>2. HostOK'
      BY <1>5 DEF InstallSumOpens, RemoteGoes, Host, HostOK, PublishersOK, Files
    <2>3. JoinersOK'
      BY <1>5 DEF InstallSumOpens, RemoteGoes, Host, Matching, JoinersOK
    <2>4. QED
      BY <2>1, <2>2, <2>3
  <1>6. ASSUME InstallSumFills(p) PROVE TypeOK'
    <2>1. PublishersOK'
      BY <1>6 DEF InstallSumFills, RemoteGoes, PublishersOK, RemotePc
    <2>2. HostOK'
      BY <1>6 DEF InstallSumFills, RemoteGoes, Host, HostOK, PublishersOK, Files
    <2>3. JoinersOK'
      BY <1>6 DEF InstallSumFills, RemoteGoes, Host, Matching, JoinersOK
    <2>4. QED
      BY <2>1, <2>2, <2>3
  <1>7. ASSUME RemoteFails(p) PROVE TypeOK'
    BY <1>7 DEF RemoteFails, PublishersOK, RemotePc, HostOK, JoinersOK
  <1>8. QED
    BY <1>1, <1>2, <1>3, <1>4, <1>5, <1>6, <1>7 DEF RemoteStep

\* So do the relay and the join script.
LEMMA JoinTyped ==
    ASSUME IndInv, NEW j \in Joiners, FetchScript(j) \/ JoinStep(j) PROVE TypeOK'
  <1> USE DEF IndInv, TypeOK, stageVars, pubVars, hostVars, fileVars, joinVars
  <1>1. UNCHANGED <<pubVars, hostVars, session>>
    BY DEF JoinStep, FetchScript, AskBin, GotBin, AskSum, GotSum, DownloadFails, ReadExpected,
           HashBin, RunAgent
  <1>2. PublishersOK' /\ HostOK' /\ Workdir[j] \in Workdirs
    <2>1. PublishersOK'
      BY <1>1 DEF PublishersOK
    <2>2. HostOK'
      BY <1>1 DEF HostOK
    <2>3. QED
      BY <2>1, <2>2, WorkdirOfCode
  <1>3. ASSUME FetchScript(j) PROVE JoinersOK'
    BY <1>2, <1>3, BoundsPositive DEF FetchScript, JoinersOK, JoinPc, Files
  <1>4. ASSUME AskBin(j) PROVE JoinersOK'
    BY <1>2, <1>4, BoundsPositive DEF AskBin, JoinersOK, JoinPc, Matching, HostOK, Files
  <1>5. ASSUME GotBin(j) PROVE JoinersOK'
    BY <1>2, <1>5, BoundsPositive DEF GotBin, JoinersOK, JoinPc, Files
  <1>6. ASSUME AskSum(j) PROVE JoinersOK'
    BY <1>2, <1>6, BoundsPositive DEF AskSum, JoinersOK, JoinPc, HostOK, Files
  <1>7. ASSUME GotSum(j) PROVE JoinersOK'
    BY <1>2, <1>7, BoundsPositive DEF GotSum, JoinersOK, JoinPc, Files
  <1>8. ASSUME DownloadFails(j) PROVE JoinersOK'
    BY <1>2, <1>8, BoundsPositive DEF DownloadFails, JoinersOK, JoinPc, Files
  <1>9. ASSUME ReadExpected(j) PROVE JoinersOK'
    BY <1>2, <1>9, BoundsPositive DEF ReadExpected, JoinersOK, JoinPc, Files
  <1>10. ASSUME HashBin(j) PROVE JoinersOK'
    BY <1>2, <1>10, BoundsPositive DEF HashBin, JoinersOK, JoinPc, Files
  <1>11. ASSUME RunAgent(j) PROVE JoinersOK'
    BY <1>2, <1>11, BoundsPositive DEF RunAgent, JoinersOK, JoinPc, Files
  <1>12. QED
    BY <1>2, <1>3, <1>4, <1>5, <1>6, <1>7, <1>8, <1>9, <1>10, <1>11 DEF JoinStep

\* Type correctness is preserved, also by steps that change nothing.
LEMMA StepTyped == IndInv /\ [Next]_vars => TypeOK'
  <1> SUFFICES ASSUME IndInv, [Next]_vars PROVE TypeOK'
    OBVIOUS
  <1>1. CASE SessionOver
    BY <1>1 DEF SessionOver, IndInv, TypeOK, PublishersOK, HostOK, JoinersOK, pubVars, stageVars,
                hostVars, joinVars, fileVars
  <1>2. CASE UNCHANGED vars
    BY <1>2 DEF vars, IndInv, TypeOK, PublishersOK, HostOK, JoinersOK, pubVars, stageVars,
                hostVars, joinVars, fileVars
  <1>3. QED
    BY <1>1, <1>2, PublishTyped, RemoteTyped, JoinTyped DEF Next

-----------------------------------------------------------------------------
(* Digests and staged files.                                               *)

\* The next-state relation, sorted for the proofs.
LEMMA NextCases ==
    ASSUME Next
    PROVE  \/ \E p \in Publishers : PublishStep(p) \/ Rebuild(p)
           \/ \E p \in Publishers : RemoteStep(p)
           \/ \E j \in Joiners : FetchScript(j) \/ JoinStep(j)
           \/ SessionOver
  BY DEF Next

\* A command on the host touches no publisher and no joiner.
LEMMA RemoteKeeps ==
    ASSUME NEW p \in Publishers, RemoteStep(p)
    PROVE  UNCHANGED <<pub, stageVars, alone, session, joinVars>>
  BY DEF RemoteStep, MoveBin, MoveSum, InstallBinOpens, InstallBinFills, InstallSumOpens,
         InstallSumFills, RemoteFails, RemoteGoes

\* A joiner touches nothing outside its own machine.
LEMMA JoinKeeps ==
    ASSUME NEW j \in Joiners, FetchScript(j) \/ JoinStep(j)
    PROVE  UNCHANGED <<pubVars, hostVars, session>>
  BY DEF JoinStep, FetchScript, AskBin, GotBin, AskSum, GotSum, DownloadFails, ReadExpected,
         HashBin, RunAgent

\* A command of a publisher touches no hosted file.
LEMMA PublishKeeps ==
    ASSUME NEW p \in Publishers, PublishStep(p) \/ Rebuild(p)
    PROVE  UNCHANGED <<hostVars, session, joinVars, calm>>
  BY DEF PublishStep, Hash, MakeDir, CopyBin, CopySum, StartActivation, Activated,
         PublisherFails, Rebuild

\* A digest that has been computed stays.
LEMMA DigestStays ==
    ASSUME IndInv, [Next]_vars, NEW p \in Publishers, digest[p] # None
    PROVE  digest'[p] = digest[p]
  <1> USE DEF pubVars, stageVars
  <1>1. pub[p] # "idle" /\ digest \in [Publishers -> Builds \cup {None}]
    BY DEF IndInv, Digests, TypeOK, PublishersOK
  <1>2. ASSUME NEW q \in Publishers, Hash(q) PROVE digest'[p] = digest[p]
    BY <1>1, <1>2 DEF Hash
  <1>3. ASSUME NEW q \in Publishers, PublishStep(q) \/ Rebuild(q), ~Hash(q) PROVE digest' = digest
    BY <1>3 DEF PublishStep, MakeDir, CopyBin, CopySum, StartActivation, Activated,
                PublisherFails, Rebuild
  <1>4. CASE SessionOver \/ UNCHANGED vars
    BY <1>4 DEF SessionOver, vars
  <1>5. QED
    BY <1>2, <1>3, <1>4, RemoteKeeps, JoinKeeps, NextCases

\* So what some publisher has computed the digest of, stays so.
LEMMA DigestsGrow ==
    ASSUME IndInv, [Next]_vars, NEW x \in Builds, \E p \in Publishers : digest[p] = x
    PROVE  \E p \in Publishers : digest'[p] = x
  BY DigestStays, NotBuilds

\* Checksums are copied, served and downloaded, never made up.
LEMMA DigestsStep == IndInv /\ [Next]_vars => Digests'
  <1> SUFFICES ASSUME IndInv, [Next]_vars PROVE Digests'
    OBVIOUS
  <1> USE DEF pubVars, stageVars, hostVars, joinVars, fileVars
  <1>1. Digests /\ Staged
    BY DEF IndInv
  <1>2. \A x : HasDigest(x) => (x \in Builds => \E p \in Publishers : digest'[p] = x)
    BY DigestsGrow DEF HasDigest
  <1> DEFINE After(x) == x \in Builds => \E p \in Publishers : digest'[p] = x
  <1>3. ASSUME /\ \A p \in Publishers : pub'[p] = "idle" => digest'[p] = None
               /\ \A p \in Publishers : After(tmpSum'[p])
               /\ After(sidecar')
               /\ \A j \in Joiners : /\ After(expected'[j])
                                     /\ join'[j] = "gettingSum" => After(body'[j])
               /\ \A w \in Workdirs : After(workSum'[w])
        PROVE  Digests'
    BY <1>3 DEF Digests, HasDigest
  <1>4. /\ \A p \in Publishers : After(tmpSum[p])
        /\ After(sidecar)
        /\ \A j \in Joiners : /\ After(expected[j])
                              /\ join[j] = "gettingSum" => After(body[j])
        /\ \A w \in Workdirs : After(workSum[w])
    BY <1>1, <1>2 DEF Digests
  <1>5. After(None) /\ After(Torn)
    BY NotBuilds
  <1>6. ASSUME NEW p \in Publishers, PublishStep(p) \/ Rebuild(p) PROVE Digests'
    <2>1. pub \in [Publishers -> PubPc] /\ digest \in [Publishers -> Builds \cup {None}]
          /\ tmpSum \in [Publishers -> Builds \cup {None}]
      BY DEF IndInv, TypeOK, PublishersOK
    <2>2. \A q \in Publishers : pub'[q] = "idle" => pub[q] = "idle" /\ digest'[q] = digest[q]
      BY <1>6, <2>1 DEF PublishStep, Hash, MakeDir, CopyBin, CopySum, StartActivation, Activated,
                        PublisherFails, Rebuild, PubPc
    <2>3. After(digest[p])
      <3>1. HasDigest(digest[p])
        BY DEF HasDigest
      <3>2. QED
        BY <1>2, <3>1
    <2>4. \A q \in Publishers : After(tmpSum'[q])
      <3>1. tmpSum' = tmpSum \/ tmpSum' = [tmpSum EXCEPT ![p] = digest[p]]
        BY <1>6 DEF PublishStep, Hash, MakeDir, CopyBin, CopySum, StartActivation, Activated,
                    PublisherFails, Rebuild
      <3> HIDE DEF After
      <3>2. QED
        BY <1>4, <2>1, <2>3, <3>1
    <2>5. UNCHANGED <<sidecar, expected, join, body, workSum>>
      BY <1>6, PublishKeeps
    <2>6. QED
      BY <1>1, <1>3, <1>4, <2>2, <2>4, <2>5 DEF Digests
  <1>7. ASSUME NEW p \in Publishers, RemoteStep(p) PROVE Digests'
    <2>1. UNCHANGED <<pub, digest, tmpSum, expected, join, body, workSum>>
      BY <1>7, RemoteKeeps
    <2>2. sidecar' \in {sidecar, tmpSum[p], Torn}
      BY <1>7 DEF RemoteStep, MoveBin, MoveSum, InstallBinOpens, InstallBinFills, InstallSumOpens,
                  InstallSumFills, RemoteFails, Host
    <2> HIDE DEF After
    <2>3. After(sidecar')
      BY <1>4, <1>5, <2>2
    <2>4. QED
      BY <1>1, <1>3, <1>4, <2>1, <2>3 DEF Digests
  <1>8. ASSUME NEW j \in Joiners, FetchScript(j) \/ JoinStep(j) PROVE Digests'
    <2>1. UNCHANGED <<pub, digest, tmpSum, sidecar>>
      BY <1>8, JoinKeeps
    <2>2. /\ join \in [Joiners -> JoinPc] /\ body \in [Joiners -> Files]
          /\ expected \in [Joiners -> Files] /\ workSum \in [Workdirs -> Files]
          /\ Workdir[j] \in Workdirs
      BY WorkdirOfCode DEF IndInv, TypeOK, JoinersOK
    <2> HIDE DEF After
    <2>3. \A k \in Joiners : join'[k] = "gettingSum" => After(body'[k])
      BY <1>4, <1>5, <1>8, <2>2 DEF JoinStep, FetchScript, AskBin, GotBin, AskSum, GotSum,
                               DownloadFails, ReadExpected, HashBin, RunAgent, Downloading
    <2>4. \A k \in Joiners : After(expected'[k])
      <3>1. expected' = expected \/ expected' = [expected EXCEPT ![j] = workSum[Workdir[j]]]
        BY <1>8 DEF JoinStep, FetchScript, AskBin, GotBin, AskSum, GotSum,
                    DownloadFails, ReadExpected, HashBin, RunAgent
      <3>2. QED
        BY <1>4, <2>2, <3>1
    <2>5. \A w \in Workdirs : After(workSum'[w])
      <3>1. \/ workSum' = workSum
            \/ workSum' = [workSum EXCEPT ![Workdir[j]] = Torn]
            \/ join[j] = "gettingSum" /\ workSum' = [workSum EXCEPT ![Workdir[j]] = body[j]]
        BY <1>8 DEF JoinStep, FetchScript, AskBin, GotBin, AskSum, GotSum,
                    DownloadFails, ReadExpected, HashBin, RunAgent
      <3>2. QED
        BY <1>4, <1>5, <2>2, <3>1
    <2>6. QED
      BY <1>1, <1>3, <1>4, <2>1, <2>3, <2>4, <2>5 DEF Digests
  <1>9. CASE SessionOver \/ UNCHANGED vars
    <2>1. UNCHANGED <<pubVars, hostVars, joinVars>>
      BY <1>9 DEF SessionOver, vars
    <2>2. QED
      BY <1>1, <2>1 DEF Digests, HasDigest
  <1>10. QED
    BY <1>6, <1>7, <1>8, <1>9, NextCases

\* An activation finds both files staged: they are copied before it starts, and not
\* again.
LEMMA StagedStep == IndInv /\ [Next]_vars => Staged'
  <1> SUFFICES ASSUME IndInv, [Next]_vars PROVE Staged'
    OBVIOUS
  <1> USE DEF pubVars, stageVars
  <1>1. Staged /\ PublishersOK
    BY DEF IndInv, TypeOK
  <1>2. ASSUME NEW p \in Publishers, PublishStep(p) \/ Rebuild(p) PROVE Staged'
    <2>1. CASE Hash(p)
      BY <1>1, <2>1 DEF Hash, Staged, PublishersOK
    <2>2. CASE MakeDir(p) \/ Activated(p) \/ Rebuild(p) \/ StartActivation(p)
      BY <1>1, <2>2 DEF MakeDir, Activated, Rebuild, StartActivation, Staged, PublishersOK
    <2>3. CASE CopyBin(p)
      BY <1>1, <2>3 DEF CopyBin, Staged, PublishersOK
    <2>4. CASE CopySum(p)
      BY <1>1, <2>4 DEF CopySum, Staged, PublishersOK
    <2>5. CASE PublisherFails(p)
      BY <1>1, <2>5 DEF PublisherFails, Staged, PublishersOK
    <2>6. QED
      BY <1>2, <2>1, <2>2, <2>3, <2>4, <2>5 DEF PublishStep
  <1>3. ASSUME NEW p \in Publishers, RemoteStep(p) PROVE Staged'
    <2>1. UNCHANGED <<pub, digest, tmpBin, tmpSum>>
      BY <1>3, RemoteKeeps
    <2>2. \A q \in Publishers : remote'[q] # "none" => remote[q] # "none"
      BY <1>1, <1>3 DEF RemoteStep, MoveBin, MoveSum, InstallBinOpens, InstallBinFills,
                        InstallSumOpens, InstallSumFills, RemoteFails, RemoteGoes, Activating,
                        PublishersOK
    <2>3. QED
      BY <1>1, <2>1, <2>2 DEF Staged
  <1>4. CASE UNCHANGED pubVars
    BY <1>1, <1>4 DEF Staged
  <1>5. QED
    BY <1>2, <1>3, <1>4, JoinKeeps, NextCases DEF SessionOver, vars

-----------------------------------------------------------------------------
(* Activations on the host.                                                *)

\* The shell that acts is an activating one, and no other shell moves.
LEMMA RemoteActs ==
    ASSUME IndInv, NEW p \in Publishers, RemoteStep(p)
    PROVE  Activating(p) /\ \A q \in Publishers \ {p} : remote'[q] = remote[q]
  BY DEF RemoteStep, MoveBin, MoveSum, InstallBinOpens, InstallBinFills, InstallSumOpens,
         InstallSumFills, RemoteFails, RemoteGoes, Activating, IndInv, TypeOK, PublishersOK

\* An activation that is alone stays undisturbed.
LEMMA UndisturbedStep == IndInv /\ [Next]_vars => Undisturbed'
  <1> SUFFICES ASSUME IndInv, [Next]_vars PROVE Undisturbed'
    OBVIOUS
  <1> USE DEF pubVars, stageVars, hostVars
  <1>1. Undisturbed /\ Staged /\ PublishersOK
    BY DEF IndInv, TypeOK
  <1>2. ASSUME NEW p \in Publishers, StartActivation(p) PROVE Undisturbed'
    BY <1>1, <1>2 DEF StartActivation, Undisturbed, Activating, PublishersOK
  <1>3. ASSUME NEW p \in Publishers, PublishStep(p) \/ Rebuild(p), ~StartActivation(p)
        PROVE  Undisturbed'
    <2>1. /\ UNCHANGED <<hostVars, remote, alone>>
          /\ tmpBin' # tmpBin => pub[p] = "copyBin"
          /\ \A q \in Publishers \ {p} : tmpBin'[q] = tmpBin[q]
      BY <1>1, <1>3 DEF PublishStep, Hash, MakeDir, CopyBin, CopySum, Activated, PublisherFails,
                        Rebuild, PublishersOK
    <2>2. \A q \in Publishers : Activating(q) => tmpBin'[q] = tmpBin[q]
      BY <1>1, <2>1 DEF Staged, Activating
    <2>3. QED
      BY <1>1, <2>1, <2>2 DEF Undisturbed, Activating
  <1>4. ASSUME NEW p \in Publishers, RemoteStep(p) PROVE Undisturbed'
    <2>1. UNCHANGED <<tmpBin, alone>> /\ Activating(p)
          /\ \A q \in Publishers \ {p} : remote'[q] = remote[q]
      BY <1>4, RemoteKeeps, RemoteActs
    <2> SUFFICES ASSUME NEW q \in Publishers, alone[q], Activating(q)'
                 PROVE  /\ \A r \in Publishers \ {q} : ~Activating(r)'
                        /\ remote'[q] = "binOpen" => binBy' = q
                        /\ remote'[q] \in {"sum", "sumOpen"} => artifact' = tmpBin[q]
                        /\ remote'[q] = "sumOpen" => sumBy' = q
      BY <2>1 DEF Undisturbed
    <2>2. q = p
      BY <1>1, <2>1 DEF Undisturbed, Activating
    <2>3. \A r \in Publishers \ {p} : ~Activating(r) /\ ~Activating(r)'
      BY <1>1, <2>1, <2>2 DEF Undisturbed, Activating
    <2>4. /\ remote[p] = "binOpen" => binBy = p
          /\ remote[p] \in {"sum", "sumOpen"} => artifact = tmpBin[p]
          /\ remote[p] = "sumOpen" => sumBy = p
          /\ remote \in [Publishers -> RemotePc]
      BY <1>1, <2>1, <2>2 DEF Undisturbed, PublishersOK
    <2>5. CASE MoveBin(p) \/ InstallBinOpens(p) \/ InstallBinFills(p)
      BY <2>2, <2>3, <2>4, <2>5 DEF MoveBin, InstallBinOpens, InstallBinFills, RemoteGoes, Host,
                                    Activating
    <2>6. CASE MoveSum(p) \/ InstallSumOpens(p) \/ InstallSumFills(p) \/ RemoteFails(p)
      BY <2>2, <2>3, <2>4, <2>6 DEF MoveSum, InstallSumOpens, InstallSumFills, RemoteFails,
                                    RemoteGoes, Host, Activating
    <2>7. QED
      BY <1>4, <2>5, <2>6 DEF RemoteStep
  <1>5. CASE UNCHANGED <<pubVars, hostVars>>
    BY <1>1, <1>5 DEF Undisturbed, Activating
  <1>6. QED
    BY <1>2, <1>3, <1>4, <1>5, JoinKeeps, NextCases DEF SessionOver, vars

-----------------------------------------------------------------------------
(* Joiners.                                                                *)

\* A joiner with a directory of its own is disturbed by no other joiner.
LEMMA OthersJoin ==
    ASSUME IndInv, NEW j \in Joiners, OwnWorkdir(j), NEW k \in Joiners, k # j,
           FetchScript(k) \/ JoinStep(k)
    PROVE  /\ join'[j] = join[j] /\ body'[j] = body[j] /\ expected'[j] = expected[j]
           /\ ran'[j] = ran[j] /\ calm'[j] = calm[j]
           /\ workBin'[Workdir[j]] = workBin[Workdir[j]]
           /\ workSum'[Workdir[j]] = workSum[Workdir[j]]
  <1>1. /\ join \in [Joiners -> JoinPc] /\ body \in [Joiners -> Files]
        /\ expected \in [Joiners -> Files] /\ ran \in [Joiners -> Files]
        /\ calm \in [Joiners -> BOOLEAN]
        /\ workBin \in [Workdirs -> Files] /\ workSum \in [Workdirs -> Files]
        /\ Workdir[j] \in Workdirs /\ Workdir[k] \in Workdirs /\ Workdir[k] # Workdir[j]
    BY WorkdirOfCode DEF IndInv, TypeOK, JoinersOK, OwnWorkdir
  <1>2. CASE FetchScript(k) \/ AskBin(k) \/ GotBin(k) \/ AskSum(k) \/ GotSum(k)
    BY <1>1, <1>2 DEF FetchScript, AskBin, GotBin, AskSum, GotSum, fileVars
  <1>3. CASE DownloadFails(k) \/ ReadExpected(k) \/ HashBin(k) \/ RunAgent(k)
    BY <1>1, <1>3 DEF DownloadFails, ReadExpected, HashBin, RunAgent, fileVars
  <1>4. QED
    BY <1>2, <1>3 DEF JoinStep

\* What is executed is what was verified.
LEMMA VerifiedStep == IndInv /\ [Next]_vars => Verified'
  <1> SUFFICES ASSUME IndInv, [Next]_vars, NEW j \in Joiners, OwnWorkdir(j)
               PROVE  /\ join'[j] = "verified" =>
                            expected'[j] \in Builds /\ expected'[j] = workBin'[Workdir[j]]
                      /\ ran'[j] # None => ran'[j] \in Builds /\ HasDigest(ran[j])'
    BY DEF Verified, OwnWorkdir
  <1> USE DEF joinVars, fileVars
  <1>1. /\ join[j] = "verified" =>
              expected[j] \in Builds /\ expected[j] = workBin[Workdir[j]]
        /\ ran[j] # None => ran[j] \in Builds /\ HasDigest(ran[j])
        /\ HasDigest(expected[j])
        /\ join \in [Joiners -> JoinPc] /\ ran \in [Joiners -> Files]
    BY DEF IndInv, Verified, Digests, TypeOK, JoinersOK
  <1>2. ASSUME ran'[j] = ran[j] PROVE ran'[j] # None => ran'[j] \in Builds /\ HasDigest(ran[j])'
    BY <1>1, <1>2, DigestsGrow DEF HasDigest
  <1>3. CASE UNCHANGED joinVars
    BY <1>1, <1>2, <1>3
  <1>4. ASSUME NEW k \in Joiners, k # j, FetchScript(k) \/ JoinStep(k)
        PROVE  /\ join'[j] = "verified" =>
                     expected'[j] \in Builds /\ expected'[j] = workBin'[Workdir[j]]
               /\ ran'[j] # None => ran'[j] \in Builds /\ HasDigest(ran[j])'
    BY <1>1, <1>2, <1>4, OthersJoin
  <1>5. CASE \/ FetchScript(j) \/ AskBin(j) \/ GotBin(j) \/ AskSum(j) \/ GotSum(j)
             \/ DownloadFails(j) \/ ReadExpected(j)
    <2>1. join'[j] # "verified" /\ ran' = ran
      BY <1>1, <1>5 DEF FetchScript, AskBin, GotBin, AskSum, GotSum, DownloadFails, ReadExpected,
                        Downloading
    <2>2. QED
      BY <1>2, <2>1
  <1>6. CASE HashBin(j)
    <2>1. UNCHANGED fileVars /\ (join'[j] = "verified" => Matches(j))
      BY <1>1, <1>6 DEF HashBin
    <2>2. QED
      BY <1>2, <2>1 DEF Matches
  <1>7. CASE RunAgent(j)
    <2>1. join'[j] # "verified" /\ (ran'[j] = ran[j] \/ ran'[j] = workBin[Workdir[j]])
      BY <1>1, <1>7 DEF RunAgent
    <2>2. workBin[Workdir[j]] = expected[j] /\ expected[j] \in Builds
      BY <1>1, <1>7 DEF RunAgent
    <2>3. \E p \in Publishers : digest'[p] = expected[j]
      BY <1>1, <2>2, DigestsGrow DEF HasDigest
    <2>4. ASSUME ran'[j] = expected[j] PROVE ran'[j] \in Builds /\ HasDigest(ran[j])'
      BY <2>2, <2>3, <2>4 DEF HasDigest
    <2>5. QED
      BY <1>2, <2>1, <2>2, <2>4
  <1>8. UNCHANGED joinVars \/ \E k \in Joiners : FetchScript(k) \/ JoinStep(k)
    BY NextCases, PublishKeeps, RemoteKeeps DEF SessionOver, vars
  <1>9. QED
    BY <1>3, <1>4, <1>5, <1>6, <1>7, <1>8 DEF JoinStep

\* While the host is calm for a joiner, both hosted files stay what they are: one
\* step changes one of them, and both have to match again.
LEMMA CalmHost ==
    ASSUME IndInv, NEW p \in Publishers, RemoteStep(p), NEW j \in Joiners,
           calm'[j], calm[j] => Matching(artifact, sidecar)
    PROVE  calm[j] /\ artifact' = artifact /\ sidecar' = sidecar
  <1>1. calm \in [Joiners -> BOOLEAN]
    BY DEF IndInv, TypeOK, JoinersOK
  <1>2. CASE UNCHANGED <<artifact, sidecar, calm>>
    BY <1>2
  <1>3. CASE \E bin : Host(bin, sidecar)
    BY <1>1, <1>3 DEF Host, Matching
  <1>4. CASE \E sum : Host(artifact, sum)
    BY <1>1, <1>4 DEF Host, Matching
  <1>5. QED
    BY <1>2, <1>3, <1>4 DEF RemoteStep, MoveBin, MoveSum, InstallBinOpens, InstallBinFills,
                            InstallSumOpens, InstallSumFills, RemoteFails, hostVars

\* A joiner on a calm host holds parts of the one build that is hosted.
LEMMA CalmStep == IndInv /\ [Next]_vars => Calm'
  <1> SUFFICES ASSUME IndInv, [Next]_vars, NEW j \in Joiners, OwnWorkdir(j), calm'[j]
               PROVE  CalmAt(j)'
    BY DEF Calm, OwnWorkdir
  <1> USE DEF hostVars, joinVars, fileVars
  <1>1. /\ calm[j] => CalmAt(j)
        /\ calm[j] => Matching(artifact, sidecar)
        /\ join \in [Joiners -> JoinPc] /\ body \in [Joiners -> Files]
        /\ expected \in [Joiners -> Files] /\ calm \in [Joiners -> BOOLEAN]
        /\ workBin \in [Workdirs -> Files] /\ workSum \in [Workdirs -> Files]
        /\ Workdir[j] \in Workdirs
    BY WorkdirOfCode DEF IndInv, Calm, CalmAt, TypeOK, JoinersOK
  <1>2. CASE UNCHANGED <<joinVars, calm, artifact, sidecar>>
    BY <1>1, <1>2 DEF CalmAt, Matching
  <1>3. ASSUME NEW p \in Publishers, RemoteStep(p) PROVE CalmAt(j)'
    <2>1. calm[j] /\ UNCHANGED <<artifact, sidecar, joinVars>>
      BY <1>1, <1>3, CalmHost, RemoteKeeps
    <2>2. QED
      BY <1>1, <2>1 DEF CalmAt, Matching
  <1>4. ASSUME NEW k \in Joiners, k # j, FetchScript(k) \/ JoinStep(k) PROVE CalmAt(j)'
    <2>1. /\ join'[j] = join[j] /\ body'[j] = body[j] /\ expected'[j] = expected[j]
          /\ calm[j] /\ UNCHANGED <<artifact, sidecar>>
          /\ workBin'[Workdir[j]] = workBin[Workdir[j]]
          /\ workSum'[Workdir[j]] = workSum[Workdir[j]]
      BY <1>4, OthersJoin, JoinKeeps
    <2>2. QED
      BY <1>1, <2>1 DEF CalmAt, Matching
  <1>5. CASE AskBin(j)
    BY <1>1, <1>5 DEF AskBin, CalmAt, Matching
  <1>6. CASE FetchScript(j) \/ GotBin(j)
    BY <1>1, <1>6 DEF FetchScript, GotBin, CalmAt, Matching, pubVars
  <1>7. CASE AskSum(j) \/ GotSum(j)
    BY <1>1, <1>7 DEF AskSum, GotSum, CalmAt, Matching
  <1>8. CASE DownloadFails(j)
    BY <1>1, <1>8 DEF DownloadFails, Downloading, CalmAt, Matching
  <1>9. CASE ReadExpected(j)
    BY <1>1, <1>9 DEF ReadExpected, CalmAt, Matching
  <1>10. CASE HashBin(j) \/ RunAgent(j)
    BY <1>1, <1>10 DEF HashBin, RunAgent, Matches, CalmAt, Matching
  <1>11. QED
    BY <1>2, <1>3, <1>4, <1>5, <1>6, <1>7, <1>8, <1>9, <1>10, NextCases, PublishKeeps
       DEF JoinStep, SessionOver, vars

-----------------------------------------------------------------------------
(* The theorems.                                                           *)

\* The invariant is inductive.
LEMMA StepInv == IndInv /\ [Next]_vars => IndInv'
  BY StepTyped, DigestsStep, StagedStep, UndisturbedStep, VerifiedStep, CalmStep DEF IndInv

\* The inductive invariant holds in every interleaving of publishers and joiners.
THEOREM Invariance == Spec => []IndInv
  <1>1. Init => IndInv
    BY InitInv
  <1>2. IndInv /\ [Next]_vars => IndInv'
    BY StepInv
  <1>3. QED
    BY <1>1, <1>2, PTL DEF Spec

\* Every variable keeps its type; no file is asked for more than Downloads times.
THEOREM TypeCorrect == Spec => []TypeOK
  <1>1. IndInv => TypeOK
    BY DEF IndInv
  <1>2. QED
    BY <1>1, Invariance, PTL

\* The script executes only whole builds that were published with their digest.
THEOREM OnlyPublishedRuns == Spec => []RunsOnlyPublished
  <1>1. IndInv => RunsOnlyPublished
    BY DEF IndInv, Verified, HasDigest, RunsOnlyPublished
  <1>2. QED
    BY <1>1, Invariance, PTL

\* A mismatch is reported only if what was hosted did not match meanwhile.
THEOREM MismatchIsTrue == Spec => []NoFalseMismatch
  <1>1. IndInv => NoFalseMismatch
    BY DEF IndInv, Calm, CalmAt, NoFalseMismatch
  <1>2. QED
    BY <1>1, Invariance, PTL

\* An activation beside which no other ran leaves the binary and its digest,
\* whatever was there before.
THEOREM PublishingRepairs == Spec => PublishRepairs
  <1>1. IndInv /\ [Next]_vars =>
          [\A p \in Publishers :
             remote[p] # "done" /\ remote'[p] = "done" /\ alone[p] /\ tmpBin[p] = digest[p]
               => artifact' = digest[p] /\ sidecar' = digest[p]]_vars
    <2> SUFFICES ASSUME IndInv, Next, NEW p \in Publishers, remote[p] # "done",
                        remote'[p] = "done", alone[p], tmpBin[p] = digest[p]
                 PROVE  artifact' = digest[p] /\ sidecar' = digest[p]
      OBVIOUS
    <2>1. Undisturbed /\ Staged /\ PublishersOK
      BY DEF IndInv, TypeOK
    <2>2. PICK q \in Publishers : RemoteStep(q)
      <3>1. ASSUME NEW q \in Publishers, PublishStep(q) \/ Rebuild(q) PROVE remote'[p] # "done"
        <4>1. remote' = remote \/ remote' = [remote EXCEPT ![q] = "bin"]
          BY <3>1 DEF PublishStep, Hash, MakeDir, CopyBin, CopySum, StartActivation, Activated,
                      PublisherFails, Rebuild
        <4>2. QED
          BY <2>1, <4>1 DEF PublishersOK
      <3>2. QED
        BY <3>1, JoinKeeps, NextCases DEF SessionOver, pubVars
    <2>3. q = p
      BY <2>2, RemoteActs
    <2>4. MoveSum(p) \/ InstallSumFills(p)
      BY <2>1, <2>2, <2>3 DEF RemoteStep, MoveBin, InstallBinOpens, InstallBinFills,
                              InstallSumOpens, RemoteFails, RemoteGoes, PublishersOK
    <2>5. /\ remote[p] \in {"sum", "sumOpen"} /\ Activating(p)
          /\ remote[p] = "sumOpen" <=> InstallSumFills(p)
      BY <2>4 DEF MoveSum, InstallSumFills, RemoteGoes, Activating
    <2>6. /\ artifact = tmpBin[p] /\ tmpSum[p] = digest[p]
          /\ remote[p] = "sumOpen" => sumBy = p
      BY <2>1, <2>5 DEF Undisturbed, Staged
    <2>7. QED
      BY <2>4, <2>5, <2>6 DEF MoveSum, InstallSumFills, Host
  <1>2. QED
    BY <1>1, Invariance, PTL DEF Spec, PublishRepairs
=============================================================================
