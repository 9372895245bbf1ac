---------------------------- MODULE NexusStagingProofs ----------------------------
(* Theorems about NexusStaging, for any clients, repositories, groups and numbers of *)
(* tries and steps: what a step returns is true of the server.                      *)
EXTENDS NexusStaging, TLAPS

Done == {"closed", "released", "dropped"}

(* Only an open repository is being closed, and a close that is shown as ended did. *)
RepoOK(r) ==
    /\ r.closer # NoClient => r.state = "open"
    /\ r.history = "closed" => r.state \in Done
ReposOK == \A r \in Repos : RepoOK(repo[r])

(* What holds of client c while its record is k, in the repositories rs.            *)
CreateOK(c, k, rs) ==
    k.step = "create" /\ (k.at = "appear" \/ k.end = "ok") =>
        /\ k.id \in Repos /\ rs[k.id].state # "absent" /\ rs[k.id].creator = c
        /\ k.end = "ok" => rs[k.id].ready
UploadOK(c, k, rs) ==
    k.step = "upload" /\ (k.at = "put" \/ k.end = "ok") =>
        /\ k.id \in Repos
        /\ \A f \in Files : FileNo[f] < k.put => <<PathArtifact(c), f>> \in rs[k.id].files
        /\ k.end = "ok" => k.put = 3
CloseOK(k, rs) == k.step = "close" /\ k.end = "ok" => k.id \in Repos /\ rs[k.id].state \in Done
ClientOK(c, k, rs) ==
    /\ k.at # "idle" => k.end = "none" /\ k.tries < TriesOf(k.step)
    /\ k.at # "idle" /\ k.step \notin {"create", "find"} => k.id \in Repos
    /\ CreateOK(c, k, rs) /\ UploadOK(c, k, rs) /\ CloseOK(k, rs)
ClientsOK == \A c \in Clients : ClientOK(c, client[c], repo)

IInv == TypeOK /\ ReposOK /\ ClientsOK

LEMMA TriesAreNat == Retries \in Nat /\ Retries > 0 /\ \A step : TriesOf(step) \in {Retries, Retries + 1}
BY NexusAssumption DEF TriesOf

LEMMA Initially == Init => IInv
<1> SUFFICES ASSUME Init PROVE IInv OBVIOUS
<1>1. 0 \in 0..(Retries + 1) /\ 0 \in 0..3 /\ 0 \in 0..MaxSteps BY NexusAssumption
<1>2. client \in [Clients -> ClientStates] BY <1>1 DEF Init, ClientStates, Steps, Ends
<1>3. repo \in [Repos -> RepoStates] BY DEF Init, RepoStates
<1>4. TypeOK BY <1>1, <1>2, <1>3 DEF Init, TypeOK
<1>5. ReposOK BY DEF Init, ReposOK, RepoOK
<1>6. ClientsOK BY DEF Init, ClientsOK, ClientOK, CreateOK, UploadOK, CloseOK
<1> QED BY <1>4, <1>5, <1>6 DEF IInv

(* What a repository keeps, whoever does what to it.                                *)
Keeps(old, new) ==
    /\ new \in RepoStates /\ RepoOK(new)
    /\ old.state # "absent" => new.state # "absent" /\ new.creator = old.creator
    /\ old.ready => new.ready
    /\ old.files \subseteq new.files
    /\ old.state \in Done => new.state \in Done
ReposKeep == repo' \in [Repos -> RepoStates] /\ \A r \in Repos : Keeps(repo[r], repo'[r])

LEMMA SameRepos == ASSUME IInv, UNCHANGED repo PROVE ReposKeep
BY DEF ReposKeep, Keeps, IInv, TypeOK, ReposOK

LEMMA OneRepo ==
  ASSUME IInv, NEW r \in Repos, NEW new, Set(r, new), Keeps(repo[r], new)
  PROVE  ReposKeep /\ repo'[r] = new
<1>1. repo \in [Repos -> RepoStates] BY DEF IInv, TypeOK
<1>2. repo'[r] = new /\ \A o \in Repos \ {r} : repo'[o] = repo[o] BY <1>1 DEF Set
<1>3. repo' \in [Repos -> RepoStates] BY <1>1 DEF Set, Keeps
<1>4. \A o \in Repos \ {r} : Keeps(repo[o], repo'[o]) BY <1>1, <1>2 DEF Keeps, IInv, ReposOK
<1> QED BY <1>2, <1>3, <1>4 DEF ReposKeep

(* What is true of a client stays true while the repositories keep what they have.  *)
LEMMA StaysTrue ==
  ASSUME IInv, ReposKeep, NEW c \in Clients, NEW k, ClientOK(c, k, repo)
  PROVE  ClientOK(c, k, repo')
BY DEF ClientOK, CreateOK, UploadOK, CloseOK, ReposKeep, Keeps

LEMMA ServerSteps ==
  ASSUME IInv, ReposKeep, UNCHANGED <<client, steps>>
  PROVE  IInv'
<1>1. ClientsOK' BY StaysTrue DEF IInv, ClientsOK
<1>2. TypeOK' BY DEF IInv, TypeOK, ReposKeep
<1>3. ReposOK' BY DEF ReposOK, ReposKeep, Keeps
<1> QED BY <1>1, <1>2, <1>3 DEF IInv

LEMMA ClientSteps ==
  ASSUME IInv, ReposKeep, NEW c \in Clients, NEW new \in ClientStates, Become(c, new),
         ClientOK(c, new, repo'), steps' \in [Clients -> 0..MaxSteps]
  PROVE  IInv'
<1>1. client \in [Clients -> ClientStates] BY DEF IInv, TypeOK
<1>2. /\ client' \in [Clients -> ClientStates]
      /\ client'[c] = new /\ \A o \in Clients \ {c} : client'[o] = client[o]
  BY <1>1 DEF Become
<1>3. \A o \in Clients : ClientOK(o, client'[o], repo') BY <1>2, StaysTrue DEF IInv, ClientsOK
<1>4. ClientsOK' BY <1>3 DEF ClientsOK, ClientOK, CreateOK, UploadOK, CloseOK
<1>5. TypeOK' BY <1>2, <1>3 DEF TypeOK, ReposKeep, ClientOK
<1>6. ReposOK' BY DEF ReposOK, ReposKeep, Keeps
<1> QED BY <1>4, <1>5, <1>6 DEF IInv

(* Steps of a client that say nothing about its repository: it goes on, it tries     *)
(* again, or it ends without success.                                               *)
LEMMA Returns ==
  ASSUME IInv, ReposKeep, NEW c \in Clients, NEW end \in Ends \ {"ok"}, Return(c, end), UNCHANGED steps
  PROVE  IInv'
<1> DEFINE k == client[c]
<1> DEFINE new == [k EXCEPT !.at = "idle", !.end = end]
<1>1. k \in ClientStates BY DEF IInv, TypeOK
<1>2. new \in ClientStates BY <1>1 DEF ClientStates
<1>3. new.at = "idle" /\ new.end # "ok" BY <1>1 DEF ClientStates
<1>4. Become(c, new) BY DEF Return
<1> HIDE DEF new
<1>5. ClientOK(c, new, repo') BY <1>3 DEF ClientOK, CreateOK, UploadOK, CloseOK
<1> QED BY <1>2, <1>4, <1>5, ClientSteps DEF IInv, TypeOK

LEMMA TriesAgain ==
  ASSUME IInv, ReposKeep, NEW c \in Clients, client[c].at # "idle", Retry(c), UNCHANGED steps
  PROVE  IInv'
<1> DEFINE k == client[c]
<1> DEFINE tried == [k EXCEPT !.tries = k.tries + 1]
<1> DEFINE ended == [tried EXCEPT !.at = "idle", !.end = "5xx"]
<1>1. k \in ClientStates /\ ClientOK(c, k, repo) BY DEF IInv, TypeOK, ClientsOK
<1>2. k.tries \in Nat /\ k.tries < TriesOf(k.step) BY <1>1 DEF ClientStates, ClientOK
<1>3. k.tries + 1 \in 0..(Retries + 1) BY <1>2, TriesAreNat
<1>4. tried \in ClientStates BY <1>1, <1>3 DEF ClientStates
<1>5. /\ tried.step = k.step /\ tried.at = k.at /\ tried.end = k.end /\ tried.id = k.id /\ tried.put = k.put
      /\ tried.tries = k.tries + 1
  BY <1>1 DEF ClientStates
<1>6. IF k.tries + 1 < TriesOf(k.step) THEN Become(c, tried) ELSE Become(c, ended) BY DEF Retry
<1> HIDE DEF tried
<1>7. ended \in ClientStates /\ ended.at = "idle" /\ ended.end = "5xx" BY <1>4 DEF ClientStates, Ends
<1> HIDE DEF ended
<1>8. ClientOK(c, ended, repo') BY <1>7 DEF ClientOK, CreateOK, UploadOK, CloseOK
<1>9. CASE k.tries + 1 < TriesOf(k.step)
  <2>1. ClientOK(c, tried, repo) BY <1>1, <1>5, <1>9 DEF ClientOK, CreateOK, UploadOK, CloseOK
  <2> QED BY <1>4, <1>6, <1>9, <2>1, StaysTrue, ClientSteps DEF IInv, TypeOK
<1>10. CASE ~(k.tries + 1 < TriesOf(k.step))
  BY <1>6, <1>7, <1>8, <1>10, ClientSteps DEF IInv, TypeOK
<1> QED BY <1>9, <1>10

(* What the server does for a client.                                               *)
LEMMA OpensKeeps ==
  ASSUME IInv, NEW c \in Clients, NEW r \in Repos, Opens(c, r)
  PROVE  ReposKeep /\ repo'[r].state = "open" /\ repo'[r].creator = c
<1> DEFINE new == [repo[r] EXCEPT !.state = "open", !.creator = c]
<1>1. repo[r] \in RepoStates /\ RepoOK(repo[r]) /\ repo[r].state = "absent"
  BY DEF IInv, TypeOK, ReposOK, Opens
<1>2. new \in RepoStates /\ new.state = "open" /\ new.creator = c BY <1>1 DEF RepoStates
<1>3. Keeps(repo[r], new) BY <1>1, <1>2 DEF Keeps, RepoOK, RepoStates, Done
<1> QED BY <1>2, <1>3, OneRepo DEF Opens

LEMMA BeginsToCloseKeeps ==
  ASSUME IInv, NEW c \in Clients, client[c].id \in Repos, BeginsToClose(c)
  PROVE  ReposKeep
<1> DEFINE r == client[c].id
<1> DEFINE new == [repo[r] EXCEPT !.closer = c, !.shown = FALSE]
<1>1. repo[r] \in RepoStates /\ RepoOK(repo[r]) /\ repo[r].state = "open"
  BY DEF IInv, TypeOK, ReposOK, BeginsToClose, RepoOf
<1>2. new \in RepoStates BY <1>1 DEF RepoStates
<1>3. Keeps(repo[r], new) BY <1>1, <1>2 DEF Keeps, RepoOK, RepoStates
<1> QED BY <1>2, <1>3, OneRepo DEF BeginsToClose, RepoOf

LEMMA PromotesKeeps ==
  ASSUME IInv, NEW c \in Clients, client[c].id \in Repos, Promotes(c)
  PROVE  ReposKeep
<1> DEFINE r == client[c].id
<1> DEFINE new == [repo[r] EXCEPT !.state = "released"]
<1>1. repo[r] \in RepoStates /\ RepoOK(repo[r]) /\ repo[r].state = "closed"
  BY DEF IInv, TypeOK, ReposOK, Promotes, RepoOf
<1>2. new \in RepoStates BY <1>1 DEF RepoStates
<1>3. Keeps(repo[r], new) BY <1>1, <1>2 DEF Keeps, RepoOK, RepoStates, Done
<1> QED BY <1>2, <1>3, OneRepo DEF Promotes, RepoOf

LEMMA DropsKeeps ==
  ASSUME IInv, NEW c \in Clients, client[c].id \in Repos, Drops(c)
  PROVE  ReposKeep
<1> DEFINE r == client[c].id
<1> DEFINE new == [repo[r] EXCEPT !.state = "dropped"]
<1>1. repo[r] \in RepoStates /\ RepoOK(repo[r]) /\ repo[r].closer = NoClient
  BY DEF IInv, TypeOK, ReposOK, Drops, RepoOf
<1>2. new \in RepoStates BY <1>1 DEF RepoStates
<1>3. Keeps(repo[r], new) BY <1>1, <1>2 DEF Keeps, RepoOK, RepoStates, Done
<1> QED BY <1>2, <1>3, OneRepo DEF Drops, RepoOf

LEMMA StoresKeeps ==
  ASSUME IInv, NEW c \in Clients, client[c].id \in Repos, NEW f \in Files, Stores(c, f)
  PROVE  ReposKeep /\ <<PathArtifact(c), f>> \in repo'[client[c].id].files
<1> DEFINE r == client[c].id
<1> DEFINE new == [repo[r] EXCEPT !.files = repo[r].files \cup {<<PathArtifact(c), f>>}]
<1>1. repo[r] \in RepoStates /\ RepoOK(repo[r]) BY DEF IInv, TypeOK, ReposOK
<1>2. PathArtifact(c) \in Groups BY NexusAssumption DEF PathArtifact
<1>3. new \in RepoStates /\ new.files = repo[r].files \cup {<<PathArtifact(c), f>>} BY <1>1, <1>2 DEF RepoStates
<1>4. Keeps(repo[r], new) BY <1>1, <1>3 DEF Keeps, RepoOK, RepoStates
<1>5. Set(r, new) BY DEF Stores, RepoOf
<1> HIDE DEF new
<1> QED BY <1>3, <1>4, <1>5, OneRepo

LEMMA ServerKeeps == ASSUME IInv, NEW r \in Repos, Server(r) PROVE IInv'
<1>1. repo[r] \in RepoStates /\ RepoOK(repo[r]) BY DEF IInv, TypeOK, ReposOK
<1>2. CASE Appears(r)
  <2> DEFINE new == [repo[r] EXCEPT !.ready = TRUE]
  <2>1. Keeps(repo[r], new) BY <1>1 DEF Keeps, RepoOK, RepoStates
  <2> QED BY <1>2, <2>1, OneRepo, ServerSteps DEF Appears
<1>3. CASE ShowsClose(r)
  <2> DEFINE new == [repo[r] EXCEPT !.shown = TRUE, !.history = "none"]
  <2>1. Keeps(repo[r], new) BY <1>1 DEF Keeps, RepoOK, RepoStates
  <2> QED BY <1>3, <2>1, OneRepo, ServerSteps DEF ShowsClose
<1>4. CASE EndsClose(r)
  <2> DEFINE closed == [repo[r] EXCEPT !.state = "closed", !.history = "closed", !.closer = NoClient]
  <2> DEFINE failed == [repo[r] EXCEPT !.history = "failed", !.closer = NoClient]
  <2>1. repo[r].state = "open" BY <1>1, <1>4 DEF EndsClose, RepoOK
  <2>2. Keeps(repo[r], closed) BY <1>1, <2>1 DEF Keeps, RepoOK, RepoStates, Done
  <2>3. Keeps(repo[r], failed) BY <1>1 DEF Keeps, RepoOK, RepoStates
  <2> QED BY <1>4, <2>2, <2>3, OneRepo, ServerSteps DEF EndsClose
<1> QED BY <1>2, <1>3, <1>4 DEF Server

LEMMA Starts == ASSUME IInv, NEW c \in Clients, NEW step \in Steps, Start(c, step) PROVE IInv'
<1> DEFINE k == client[c]
<1> DEFINE vault == [k EXCEPT !.step = step, !.end = "vault"]
<1> DEFINE at == IF step = "upload" THEN "put" ELSE "post"
<1> DEFINE begun == [k EXCEPT !.step = step, !.end = "none", !.at = at, !.put = 0, !.tries = 0]
<1>1. k \in ClientStates /\ k.at = "idle" BY DEF IInv, TypeOK, Start
<1>2. step \notin {"create", "find"} => k.id \in Repos BY <1>1 DEF Start, ClientStates
<1>3. ReposKeep BY SameRepos DEF Start
<1>4. steps' \in [Clients -> 0..MaxSteps]
  <2>1. steps[c] \in 0..MaxSteps /\ steps[c] < MaxSteps BY DEF IInv, TypeOK, Start
  <2>2. steps[c] + 1 \in 0..MaxSteps BY <2>1, NexusAssumption
  <2> QED BY <2>2 DEF IInv, TypeOK, Start
<1>5. /\ vault \in ClientStates /\ vault.at = "idle" /\ vault.end = "vault" BY <1>1 DEF ClientStates, Ends
<1>6. ClientOK(c, vault, repo')
  <2> HIDE DEF vault
  <2> QED BY <1>5 DEF ClientOK, CreateOK, UploadOK, CloseOK
<1>7. begun \in ClientStates
  <2>1. 0 \in 0..(Retries + 1) BY TriesAreNat
  <2>2. at \in {"put", "post"} OBVIOUS
  <2>3. 0 \in 0..3 OBVIOUS
  <2>4. at \in {"idle", "post", "appear", "put", "poll"} /\ "none" \in Ends BY DEF Ends
  <2> HIDE DEF at
  <2> QED BY <1>1, <2>1, <2>3, <2>4 DEF ClientStates
<1>8. /\ begun.step = step /\ begun.at = at /\ begun.end = "none" /\ begun.id = k.id
      /\ begun.put = 0 /\ begun.tries = 0
  BY <1>1 DEF ClientStates
<1>9. ClientOK(c, begun, repo)
  <2> HIDE DEF begun
  <2>1. 0 < TriesOf(step) BY TriesAreNat
  <2>2. \A f \in Files : ~(FileNo[f] < 0) BY DEF Files, FileNo
  <2>3. at # "appear" OBVIOUS
  <2>4. at = "put" => step = "upload" OBVIOUS
  <2> HIDE DEF at
  <2> QED BY <1>2, <1>8, <2>1, <2>2, <2>3, <2>4 DEF ClientOK, CreateOK, UploadOK, CloseOK
<1>10. Become(c, vault) \/ Become(c, begun) BY DEF Start
<1> HIDE DEF vault, begun
<1>11. CASE Become(c, vault) BY <1>3, <1>4, <1>5, <1>6, <1>11, ClientSteps
<1>12. CASE Become(c, begun) BY <1>3, <1>4, <1>7, <1>9, <1>12, StaysTrue, ClientSteps
<1> QED BY <1>10, <1>11, <1>12

LEMMA Stutters == ASSUME IInv, UNCHANGED vars PROVE IInv'
BY SameRepos, ServerSteps DEF vars

(* A client that ends well, when its step says what it did.                         *)
LEMMA Succeeds ==
  ASSUME IInv, ReposKeep, NEW c \in Clients, UNCHANGED steps, Return(c, "ok"),
         client[c].step = "create" =>
            client[c].id \in Repos /\ RepoOf(c).state # "absent" /\ RepoOf(c).creator = c /\ RepoOf(c).ready,
         client[c].step # "upload",
         client[c].step = "close" => client[c].id \in Repos /\ RepoOf(c).state \in Done
  PROVE  IInv'
<1> DEFINE k == client[c]
<1> DEFINE new == [k EXCEPT !.at = "idle", !.end = "ok"]
<1>1. k \in ClientStates BY DEF IInv, TypeOK
<1>2. new \in ClientStates BY <1>1 DEF ClientStates, Ends
<1>3. new.at = "idle" /\ new.end = "ok" /\ new.step = k.step /\ new.id = k.id BY <1>1 DEF ClientStates
<1>4. Become(c, new) BY DEF Return
<1> HIDE DEF new
<1>5. ClientOK(c, new, repo) BY <1>3 DEF ClientOK, CreateOK, UploadOK, CloseOK, RepoOf
<1> QED BY <1>2, <1>4, <1>5, StaysTrue, ClientSteps DEF IInv, TypeOK

LEMMA Proceeds == ASSUME IInv, NEW c \in Clients, Proceed(c) PROVE IInv'
<1> DEFINE k == client[c]
<1>1. k \in ClientStates /\ ClientOK(c, k, repo) BY DEF IInv, TypeOK, ClientsOK
<1>2. k.at # "idle" /\ k.step \in {"upload", "close", "release", "drop"} => k.id \in Repos
  BY <1>1 DEF ClientOK
<1>3. UNCHANGED repo => ReposKeep BY SameRepos
<1>4. \A end \in Ends \ {"ok"} : ReposKeep /\ UNCHANGED steps /\ Return(c, end) => IInv' BY Returns
<1>5. ReposKeep /\ UNCHANGED steps /\ k.at # "idle" /\ Retry(c) => IInv' BY TriesAgain
<1>6. {"vault", "5xx", "refused", "closeFailed", "noMatch"} \subseteq Ends \ {"ok"} BY DEF Ends
<1>7. ASSUME CreateSent(c) PROVE IInv'
  <2>1. k.step = "create" /\ k.at = "post" /\ UNCHANGED steps BY <1>7 DEF CreateSent, At
  <2>2. ASSUME NEW r \in Repos, Opens(c, r), Become(c, [k EXCEPT !.at = "appear", !.id = r]) PROVE IInv'
    <3> DEFINE new == [k EXCEPT !.at = "appear", !.id = r]
    <3>1. ReposKeep /\ repo'[r].state = "open" /\ repo'[r].creator = c BY <2>2, OpensKeeps
    <3>2. /\ new \in ClientStates /\ new.step = "create" /\ new.at = "appear" /\ new.id = r
          /\ new.end = k.end /\ new.tries = k.tries
      BY <1>1, <2>1 DEF ClientStates
    <3>3. k.end = "none" /\ k.tries < TriesOf("create") BY <1>1, <2>1 DEF ClientOK
    <3> HIDE DEF new
    <3>4. ClientOK(c, new, repo') BY <3>1, <3>2, <3>3 DEF ClientOK, CreateOK, UploadOK, CloseOK
    <3>5. Become(c, new) BY <2>2 DEF new
    <3> QED BY <2>1, <3>1, <3>2, <3>4, <3>5, ClientSteps DEF IInv, TypeOK
  <2>3. ASSUME NEW r \in Repos, Opens(c, r), Retry(c) PROVE IInv' BY <1>5, <2>1, <2>3, OpensKeeps
  <2>4. ASSUME UNCHANGED repo, Retry(c) PROVE IInv' BY <1>3, <1>5, <2>1, <2>4
  <2> QED BY <1>7, <2>2, <2>3, <2>4 DEF CreateSent
<1>8. ASSUME CreateSees(c) PROVE IInv'
  <2>1. k.step = "create" /\ k.at = "appear" /\ RepoOf(c).ready /\ Return(c, "ok") /\ UNCHANGED <<steps, repo>>
    BY <1>8 DEF CreateSees, At
  <2>2. k.id \in Repos /\ RepoOf(c).state # "absent" /\ RepoOf(c).creator = c
    BY <1>1, <2>1 DEF ClientOK, CreateOK, RepoOf
  <2> QED BY <1>3, <2>1, <2>2, Succeeds
<1>9. ASSUME CreateWaits(c) PROVE IInv' BY <1>9, Stutters DEF CreateWaits
<1>10. ASSUME Find(c) PROVE IInv'
  <2>1. k.step = "find" /\ UNCHANGED <<steps, repo>> BY <1>10 DEF Find, At
  <2>2. ASSUME NEW r \in Repos, Become(c, [k EXCEPT !.at = "idle", !.end = "ok", !.id = r]) PROVE IInv'
    <3> DEFINE new == [k EXCEPT !.at = "idle", !.end = "ok", !.id = r]
    <3>1. new \in ClientStates /\ new.at = "idle" /\ new.step = "find"
      BY <1>1, <2>1 DEF ClientStates, Ends
    <3> HIDE DEF new
    <3>2. ClientOK(c, new, repo') BY <3>1 DEF ClientOK, CreateOK, UploadOK, CloseOK
    <3>3. Become(c, new) BY <2>2 DEF new
    <3> QED BY <1>3, <2>1, <3>1, <3>2, <3>3, ClientSteps DEF IInv, TypeOK
  <2>3. ASSUME Return(c, "noMatch") PROVE IInv' BY <1>3, <1>4, <1>6, <2>1, <2>3
  <2> QED BY <1>10, <2>2, <2>3 DEF Find
<1>11. ASSUME Upload(c) PROVE IInv'
  <2>1. k.step = "upload" /\ k.at = "put" /\ k.id \in Repos /\ UNCHANGED steps
    BY <1>2, <1>11 DEF Upload, At
  <2>2. PICK f \in Files :
          /\ FileNo[f] = k.put
          /\ \/ /\ Stores(c, f)
                /\ Become(c, [k EXCEPT !.put = FileNo[f] + 1, !.tries = 0,
                                !.at = IF FileNo[f] = 2 THEN "idle" ELSE "put",
                                !.end = IF FileNo[f] = 2 THEN "ok" ELSE "none"])
             \/ Stores(c, f) /\ Retry(c)
             \/ UNCHANGED repo /\ Retry(c)
    BY <1>11 DEF Upload
  <2> DEFINE last == FileNo[f] = 2
  <2> DEFINE at == IF last THEN "idle" ELSE "put"
  <2> DEFINE end == IF last THEN "ok" ELSE "none"
  <2> DEFINE new == [k EXCEPT !.put = FileNo[f] + 1, !.tries = 0, !.at = at, !.end = end]
  <2>3. ASSUME Stores(c, f), Become(c, new) PROVE IInv'
    <3>1. ReposKeep /\ <<PathArtifact(c), f>> \in repo'[k.id].files BY <2>1, <2>3, StoresKeeps
    <3>2. FileNo[f] \in 0..2 /\ \A g \in Files : FileNo[g] \in 0..2 /\ (FileNo[g] = FileNo[f] => g = f)
      BY DEF FileNo, Files
    <3>3. FileNo[f] + 1 \in 0..3 /\ 0 \in 0..(Retries + 1) /\ 0 < TriesOf("upload") BY <3>2, TriesAreNat
    <3>4. at \in {"idle", "put"} /\ end \in {"ok", "none"} /\ (at # "idle" => end = "none") OBVIOUS
    <3>5. end = "ok" => FileNo[f] + 1 = 3 OBVIOUS
    <3>6. /\ new \in ClientStates /\ new.step = "upload" /\ new.at = at /\ new.end = end /\ new.id = k.id
          /\ new.put = FileNo[f] + 1 /\ new.tries = 0
      <4> HIDE DEF at, end
      <4> QED BY <1>1, <2>1, <3>3, <3>4 DEF ClientStates, Ends
    <3> HIDE DEF new, at, end, last
    <3>7. ASSUME NEW g \in Files, FileNo[g] < new.put PROVE <<PathArtifact(c), g>> \in repo'[k.id].files
      <4>1. CASE FileNo[g] = FileNo[f] BY <3>1, <3>2, <4>1
      <4>2. CASE FileNo[g] # FileNo[f]
        <5>1. FileNo[g] < k.put BY <2>2, <3>2, <3>6, <3>7, <4>2
        <5>2. <<PathArtifact(c), g>> \in repo[k.id].files BY <1>1, <2>1, <5>1 DEF ClientOK, UploadOK
        <5> QED BY <2>1, <3>1, <5>2 DEF ReposKeep, Keeps
      <4> QED BY <4>1, <4>2
    <3>8. ClientOK(c, new, repo')
      BY <2>1, <3>3, <3>4, <3>5, <3>6, <3>7 DEF ClientOK, CreateOK, UploadOK, CloseOK
    <3> QED BY <2>1, <2>3, <3>1, <3>6, <3>8, ClientSteps DEF IInv, TypeOK
  <2>4. ASSUME Stores(c, f), Retry(c) PROVE IInv' BY <1>5, <2>1, <2>4, StoresKeeps
  <2>5. ASSUME UNCHANGED repo, Retry(c) PROVE IInv' BY <1>3, <1>5, <2>1, <2>5
  <2> QED BY <2>2, <2>3, <2>4, <2>5
<1>12. ASSUME CloseSent(c) PROVE IInv'
  <2>1. k.step = "close" /\ k.at = "post" /\ k.id \in Repos /\ UNCHANGED steps
    BY <1>2, <1>12 DEF CloseSent, At
  <2>2. ASSUME BeginsToClose(c), Become(c, [k EXCEPT !.at = "poll"]) PROVE IInv'
    <3> DEFINE new == [k EXCEPT !.at = "poll"]
    <3>1. /\ new \in ClientStates /\ new.step = "close" /\ new.at = "poll" /\ new.id = k.id
          /\ new.end = k.end /\ new.tries = k.tries
      BY <1>1, <2>1 DEF ClientStates
    <3>2. k.end = "none" /\ k.tries < TriesOf("close") BY <1>1, <2>1 DEF ClientOK
    <3> HIDE DEF new
    <3>3. ClientOK(c, new, repo') BY <2>1, <3>1, <3>2 DEF ClientOK, CreateOK, UploadOK, CloseOK
    <3>4. Become(c, new) BY <2>2 DEF new
    <3> QED BY <2>1, <2>2, <3>1, <3>3, <3>4, BeginsToCloseKeeps, ClientSteps DEF IInv, TypeOK
  <2>3. ASSUME BeginsToClose(c), Return(c, "5xx") PROVE IInv'
    BY <1>4, <1>6, <2>1, <2>3, BeginsToCloseKeeps
  <2>4. ASSUME UNCHANGED repo, Return(c, "5xx") PROVE IInv' BY <1>3, <1>4, <1>6, <2>1, <2>4
  <2> QED BY <1>12, <2>2, <2>3, <2>4 DEF CloseSent
<1>13. ASSUME CloseWaits(c) PROVE IInv'
  <2>1. k.at = "poll" /\ UNCHANGED <<steps, repo>> BY <1>13 DEF CloseWaits, At
  <2>2. CASE UNCHANGED client BY <2>1, <2>2, Stutters DEF vars
  <2>3. CASE Retry(c) BY <1>3, <1>5, <2>1, <2>3
  <2> QED BY <1>13, <2>2, <2>3 DEF CloseWaits
<1>14. ASSUME CloseEnds(c) PROVE IInv'
  <2>1. k.step = "close" /\ k.at = "poll" /\ k.id \in Repos /\ UNCHANGED <<steps, repo>>
    BY <1>2, <1>14 DEF CloseEnds, At
  <2>2. CASE RepoOf(c).history = "closed" /\ Return(c, "ok")
    <3>1. RepoOf(c).state \in Done BY <2>1, <2>2 DEF IInv, ReposOK, RepoOK, RepoOf
    <3> QED BY <1>3, <2>1, <2>2, <3>1, Succeeds
  <2>3. CASE Return(c, "closeFailed") BY <1>3, <1>4, <1>6, <2>1, <2>3
  <2> QED BY <1>14, <2>2, <2>3 DEF CloseEnds
<1>15. ASSUME ReleaseSent(c) PROVE IInv'
  <2>1. k.step = "release" /\ k.at = "post" /\ k.id \in Repos /\ UNCHANGED steps
    BY <1>2, <1>15 DEF ReleaseSent, At
  <2>2. CASE Promotes(c) /\ Return(c, "ok") BY <2>1, <2>2, PromotesKeeps, Succeeds
  <2>3. CASE Promotes(c) /\ Return(c, "5xx") BY <1>4, <1>6, <2>1, <2>3, PromotesKeeps
  <2>4. CASE UNCHANGED repo /\ Return(c, "5xx") BY <1>3, <1>4, <1>6, <2>1, <2>4
  <2> QED BY <1>15, <2>2, <2>3, <2>4 DEF ReleaseSent
<1>16. ASSUME DropSent(c) PROVE IInv'
  <2>1. k.step = "drop" /\ k.at = "post" /\ k.id \in Repos /\ UNCHANGED steps
    BY <1>2, <1>16 DEF DropSent, At
  <2>2. CASE Drops(c) /\ Return(c, "ok") BY <2>1, <2>2, DropsKeeps, Succeeds
  <2>3. CASE Drops(c) /\ Retry(c) BY <1>5, <2>1, <2>3, DropsKeeps
  <2>4. CASE UNCHANGED repo /\ Retry(c) BY <1>3, <1>5, <2>1, <2>4
  <2> QED BY <1>16, <2>2, <2>3, <2>4 DEF DropSent
<1>17. ASSUME Refused(c) PROVE IInv' BY <1>3, <1>4, <1>6, <1>17 DEF Refused
<1> QED BY <1>7, <1>8, <1>9, <1>10, <1>11, <1>12, <1>13, <1>14, <1>15, <1>16, <1>17 DEF Proceed

LEMMA Invariant == Spec => []IInv
<1>1. ASSUME IInv, Next PROVE IInv'
  BY <1>1, Proceeds, Starts, ServerKeeps, Stutters DEF Next, Terminated
<1> QED BY Initially, <1>1, Stutters, PTL DEF Spec

(* The variables keep their types, and no step tries more often than it may.        *)
THEOREM TypeCorrect == Spec => []TypeOK
<1>1. IInv => TypeOK BY DEF IInv
<1> QED BY <1>1, Invariant, PTL

(* What a create returned is its own repository, and can be read.                   *)
THEOREM OwnCreates == Spec => []CreatedIsOwn
<1>1. IInv => CreatedIsOwn BY DEF IInv, ClientsOK, ClientOK, CreateOK, CreatedIsOwn, Ended, RepoOf
<1> QED BY <1>1, Invariant, PTL

(* What an upload that returned has put is all there.                               *)
THEOREM CompleteUploads == Spec => []UploadIsComplete
<1>1. ASSUME IInv, NEW c \in Clients, Ended(c, "upload", "ok") PROVE Paths(c) \subseteq RepoOf(c).files
  <2>1. UploadOK(c, client[c], repo) BY <1>1 DEF IInv, ClientsOK, ClientOK
  <2>2. client[c].put = 3 /\ \A f \in Files : FileNo[f] < 3 BY <1>1, <2>1 DEF UploadOK, Ended, FileNo, Files
  <2> QED BY <1>1, <2>1, <2>2 DEF UploadOK, Ended, Paths, RepoOf
<1>2. IInv => UploadIsComplete BY <1>1 DEF UploadIsComplete
<1> QED BY <1>2, Invariant, PTL

(* A repository whose close returned is closed, or what follows on that.            *)
THEOREM TrueCloses == Spec => []ClosedWhenOk
<1>1. IInv => ClosedWhenOk BY DEF IInv, ClientsOK, ClientOK, CloseOK, ClosedWhenOk, Ended, RepoOf, Done
<1> QED BY <1>1, Invariant, PTL
===================================================================================
