------------------------------ MODULE NexusStaging ------------------------------
(* vars/nexus*Staging*.groovy and src/co/elastic/Nexus.groovy: the release steps *)
(* that create, find, fill, close, release and drop a staging repository of a    *)
(* Nexus server. A client is a build; it runs one step at a time. The server is  *)
(* external: it is modelled by what the steps ask of it and expect back, answers *)
(* with a 5xx whenever it likes, and may do what it was asked all the same.      *)
EXTENDS Naturals, FiniteSets

CONSTANTS
    Clients,
    Repos,        \* the ids the server may give to staging repositories
    Groups,       \* group ids
    GroupOf,      \* GroupOf[c]: the groupId that client c releases
    StartsWith,   \* StartsWith[g]: the groups whose repository ids begin with g, its dots removed
    ArtifactOf,   \* ArtifactOf[c]: the artifactId that c passes to the upload
    NoRepo,
    NoClient,
    Retries,      \* 20 in the code
    MaxSteps      \* bound: steps that a client runs

ASSUME NexusAssumption ==
    /\ NoRepo \notin Repos
    /\ NoClient \notin Clients
    /\ Retries \in Nat \ {0}
    /\ MaxSteps \in Nat
    /\ GroupOf \in [Clients -> Groups]
    /\ StartsWith \in [Groups -> SUBSET Groups]
    /\ \A g \in Groups : g \in StartsWith[g]

VARIABLES
    client,   \* the step each client runs, how far it is, and how it ended
    steps,    \* steps started by each client
    repo      \* the staging repositories of the server

vars == <<client, steps, repo>>

Steps == {"create", "find", "upload", "close", "release", "drop"}
Ends  == {"none", "ok", "vault", "5xx", "refused", "closeFailed", "noMatch"}

(* artifactId = args.containsKey('artifactId') ? args.groupId : error(...): what *)
(* stands for the artifact in the path of an upload.                             *)
PathArtifact(c) == GroupOf[c]

(* The three PUTs of an upload, in their order.                                  *)
FileNo == [file |-> 0, md5 |-> 1, sha1 |-> 2]
Files == DOMAIN FileNo
Paths(c) == {PathArtifact(c)} \X Files

ClientStates ==
    [step : Steps, at : {"idle", "post", "appear", "put", "poll"}, end : Ends,
     id : Repos \cup {NoRepo}, put : 0..3, tries : 0..(Retries + 1)]

(* closer: the client whose close the server has not finished; shown: whether    *)
(* that close is in the repository's activity yet; history: how the last close   *)
(* activity that is shown ended, "none" while it has not or there is none.       *)
RepoStates ==
    [state : {"absent", "open", "closed", "released", "dropped"},
     creator : Clients \cup {NoClient}, ready : BOOLEAN, closer : Clients \cup {NoClient},
     shown : BOOLEAN, history : {"none", "closed", "failed"},
     files : SUBSET ((Groups \cup {ArtifactOf[c] : c \in Clients}) \X Files)]

Init ==
    /\ client = [c \in Clients |-> [step |-> "find", at |-> "idle", end |-> "none", id |-> NoRepo,
                                    put |-> 0, tries |-> 0]]
    /\ steps = [c \in Clients |-> 0]
    /\ repo = [r \in Repos |-> [state |-> "absent", creator |-> NoClient, ready |-> FALSE,
                                closer |-> NoClient, shown |-> FALSE, history |-> "none",
                                files |-> {}]]
--------------------------------------------------------------------------------
At(c, step, at) == client[c].step = step /\ client[c].at = at
Become(c, new) == client' = [client EXCEPT ![c] = new]
Return(c, end) == Become(c, [client[c] EXCEPT !.at = "idle", !.end = end])
Set(r, new) == repo' = [repo EXCEPT ![r] = new]
RepoOf(c) == repo[client[c].id]

(* Every step begins with its arguments and the credentials from the vault. The  *)
(* id of a repository is one that create or find returned to this client.        *)
Start(c, step) ==
    /\ client[c].at = "idle" /\ steps[c] < MaxSteps
    /\ step \in {"create", "find"} \/ client[c].id # NoRepo
    /\ steps' = [steps EXCEPT ![c] = @ + 1]
    /\ \/ Become(c, [client[c] EXCEPT !.step = step, !.end = "vault"])
       \/ Become(c, [client[c] EXCEPT !.step = step, !.end = "none",
                       !.at = IF step = "upload" THEN "put" ELSE "post",
                       !.put = 0, !.tries = 0])
    /\ UNCHANGED repo

(* A request met a 5xx: again while tries are left, else checkResponse throws.   *)
TriesOf(step) == IF step = "create" THEN Retries + 1 ELSE Retries

RetryForever(c) == UNCHANGED client

Retry(c) ==
    LET tried == [client[c] EXCEPT !.tries = client[c].tries + 1]
    IN  IF client[c].tries + 1 < TriesOf(client[c].step)
        THEN Become(c, tried)
        ELSE Become(c, [tried EXCEPT !.at = "idle", !.end = "5xx"])

(* Any other answer than the expected one, or no connection: the step throws.    *)
Refused(c) ==
    /\ client[c].at # "idle"
    /\ Return(c, "refused")
    /\ UNCHANGED <<steps, repo>>

(* What the server does when it is asked to; it refuses in any other state.      *)
Opens(c, r) ==
    /\ repo[r].state = "absent"
    /\ Set(r, [repo[r] EXCEPT !.state = "open", !.creator = c])

BeginsToClose(c) ==
    /\ RepoOf(c).state = "open" /\ RepoOf(c).closer = NoClient
    /\ Set(client[c].id, [RepoOf(c) EXCEPT !.closer = c, !.shown = FALSE])

Promotes(c) ==
    /\ RepoOf(c).state = "closed"
    /\ Set(client[c].id, [RepoOf(c) EXCEPT !.state = "released"])

Drops(c) ==
    /\ RepoOf(c).state \in {"open", "closed"} /\ RepoOf(c).closer = NoClient
    /\ Set(client[c].id, [RepoOf(c) EXCEPT !.state = "dropped"])

Stores(c, f) ==
    /\ RepoOf(c).state = "open"
    /\ Set(client[c].id, [RepoOf(c) EXCEPT !.files = @ \cup {<<PathArtifact(c), f>>}])
--------------------------------------------------------------------------------
(* nexusCreateStagingRepository: POST start, 201 with the new id.                *)
CreateSent(c) ==
    /\ At(c, "create", "post")
    /\ \/ \E r \in Repos :
            Opens(c, r) /\ Become(c, [client[c] EXCEPT !.at = "appear", !.id = r])
       \/ \E r \in Repos : Opens(c, r) /\ Retry(c)
       \/ UNCHANGED repo /\ Retry(c)
    /\ UNCHANGED steps

(* Mutant: the new repository is not awaited.                                    *)
CreateDoesNotWait(c) ==
    /\ At(c, "create", "appear")
    /\ Return(c, "ok")
    /\ UNCHANGED <<steps, repo>>

(* Then the new repository is awaited, for as long as it takes: attemptNumber is *)
(* reset to 0, tested against retries, and never incremented in this loop.       *)
CreateSees(c) ==
    /\ At(c, "create", "appear")
    /\ RepoOf(c).ready
    /\ Return(c, "ok")
    /\ UNCHANGED <<steps, repo>>

CreateWaits(c) ==
    /\ At(c, "create", "appear")
    /\ UNCHANGED vars

(* nexusFindStagingId: the one listed repository whose id starts with the group, *)
(* if it is open. A repository being closed is still of type open.               *)
Matches(c) ==
    {r \in Repos : /\ repo[r].state \notin {"absent", "dropped"}
                   /\ GroupOf[repo[r].creator] \in StartsWith[GroupOf[c]]}

Find(c) ==
    /\ At(c, "find", "post")
    /\ \/ \E r \in Repos :
            /\ Matches(c) = {r} /\ repo[r].state = "open"
            /\ Become(c, [client[c] EXCEPT !.at = "idle", !.end = "ok", !.id = r])
       \/ /\ \A r \in Repos : Matches(c) = {r} => repo[r].state # "open"
          /\ Return(c, "noMatch")
    /\ UNCHANGED <<steps, repo>>

(* Mutant: after the last try the answer is not checked.                         *)
UploadUnchecked(c) ==
    /\ At(c, "upload", "put")
    /\ \E f \in Files :
         /\ FileNo[f] = client[c].put
         /\ \/ Stores(c, f)
            \/ UNCHANGED repo
         /\ IF client[c].tries + 1 < Retries THEN Retry(c)
            ELSE Become(c, [client[c] EXCEPT !.put = FileNo[f] + 1, !.tries = 0,
                              !.at = IF FileNo[f] = 2 THEN "idle" ELSE "put",
                              !.end = IF FileNo[f] = 2 THEN "ok" ELSE "none"])
    /\ UNCHANGED steps

(* nexusUploadStagingArtifact: PUT the file, its md5 and its sha1, each tried    *)
(* anew while the answer is a 5xx (Nexus.upload).                                *)
Upload(c) ==
    /\ At(c, "upload", "put")
    /\ \E f \in Files :
         /\ FileNo[f] = client[c].put
         /\ \/ /\ Stores(c, f)
               /\ Become(c, [client[c] EXCEPT !.put = FileNo[f] + 1, !.tries = 0,
                               !.at = IF FileNo[f] = 2 THEN "idle" ELSE "put",
                               !.end = IF FileNo[f] = 2 THEN "ok" ELSE "none"])
            \/ Stores(c, f) /\ Retry(c)
            \/ UNCHANGED repo /\ Retry(c)
    /\ UNCHANGED steps

(* nexusCloseStagingRepository: POST finish, which is not tried again.           *)
CloseSent(c) ==
    /\ At(c, "close", "post")
    /\ \/ BeginsToClose(c) /\ Become(c, [client[c] EXCEPT !.at = "poll"])
       \/ BeginsToClose(c) /\ Return(c, "5xx")
       \/ UNCHANGED repo /\ Return(c, "5xx")
    /\ UNCHANGED steps

(* Then the activity is polled: the last event of the last 'close' activity that *)
(* is shown decides, and while there is none the loop goes on.                   *)
CloseWaits(c) ==
    /\ At(c, "close", "poll")
    /\ \/ RepoOf(c).history = "none" /\ UNCHANGED client
       \/ Retry(c)
    /\ UNCHANGED <<steps, repo>>

(* Mutant: an activity without a close leaves the loop.                          *)
CloseTrusted(c) ==
    /\ At(c, "close", "poll")
    /\ \/ RepoOf(c).history # "failed" /\ Return(c, "ok")
       \/ RepoOf(c).history = "failed" /\ Return(c, "closeFailed")
    /\ UNCHANGED <<steps, repo>>

CloseEnds(c) ==
    /\ At(c, "close", "poll")
    /\ \/ RepoOf(c).history = "closed" /\ Return(c, "ok")
       \/ RepoOf(c).history = "failed" /\ Return(c, "closeFailed")
    /\ UNCHANGED <<steps, repo>>

(* nexusReleaseStagingRepository: on a 5xx, log(level: "WARN", "...") is a call  *)
(* that log.groovy does not have, and its exception ends the step.               *)
ReleaseSent(c) ==
    /\ At(c, "release", "post")
    /\ \/ Promotes(c) /\ Return(c, "ok")
       \/ Promotes(c) /\ Return(c, "5xx")
       \/ UNCHANGED repo /\ Return(c, "5xx")
    /\ UNCHANGED steps

(* nexusDropStagingRepository.                                                   *)
DropSent(c) ==
    /\ At(c, "drop", "post")
    /\ \/ Drops(c) /\ Return(c, "ok")
       \/ Drops(c) /\ Retry(c)
       \/ UNCHANGED repo /\ Retry(c)
    /\ UNCHANGED steps
--------------------------------------------------------------------------------
(* The server, in its own time: a new repository can be read; a close is shown   *)
(* in the activity; it ends, and a failed one leaves the repository open.        *)
Appears(r) ==
    /\ repo[r].state # "absent" /\ ~repo[r].ready
    /\ Set(r, [repo[r] EXCEPT !.ready = TRUE])
    /\ UNCHANGED <<client, steps>>

ShowsClose(r) ==
    /\ repo[r].closer # NoClient /\ ~repo[r].shown
    /\ Set(r, [repo[r] EXCEPT !.shown = TRUE, !.history = "none"])
    /\ UNCHANGED <<client, steps>>

EndsClose(r) ==
    /\ repo[r].closer # NoClient /\ repo[r].shown
    /\ \/ Set(r, [repo[r] EXCEPT !.state = "closed", !.history = "closed", !.closer = NoClient])
       \/ Set(r, [repo[r] EXCEPT !.history = "failed", !.closer = NoClient])
    /\ UNCHANGED <<client, steps>>

Terminated ==
    /\ \A c \in Clients : client[c].at = "idle" /\ steps[c] = MaxSteps
    /\ \A r \in Repos : repo[r].closer = NoClient /\ (repo[r].state # "absent" => repo[r].ready)
    /\ UNCHANGED vars

Proceed(c) ==
    \/ CreateSent(c) \/ CreateSees(c) \/ CreateWaits(c) \/ Find(c) \/ Upload(c)
    \/ CloseSent(c) \/ CloseWaits(c) \/ CloseEnds(c) \/ ReleaseSent(c) \/ DropSent(c) \/ Refused(c)

Server(r) == Appears(r) \/ ShowsClose(r) \/ EndsClose(r)

Next ==
    \/ \E c \in Clients : Proceed(c) \/ \E step \in Steps : Start(c, step)
    \/ \E r \in Repos : Server(r)
    \/ Terminated

Spec == Init /\ [][Next]_vars

(* A build sends the request it is at, which the server answers in some way; the *)
(* server gets its work done; and a poll sees what is there to be seen.          *)
(* No refusal, 5xx or lost connection is promised.                               *)
Send(c) ==
    CreateSent(c) \/ Find(c) \/ Upload(c) \/ CloseSent(c) \/ ReleaseSent(c) \/ DropSent(c)

FairSpec ==
    /\ Spec
    /\ \A c \in Clients : WF_vars(Send(c)) /\ WF_vars(CreateSees(c)) /\ WF_vars(CloseEnds(c))
    /\ \A r \in Repos : WF_vars(Server(r))
--------------------------------------------------------------------------------
TypeOK ==
    /\ client \in [Clients -> ClientStates]
    /\ steps \in [Clients -> 0..MaxSteps]
    /\ repo \in [Repos -> RepoStates]
    /\ \A c \in Clients : client[c].at # "idle" => client[c].tries < TriesOf(client[c].step)

Ended(c, step, end) == client[c].step = step /\ client[c].end = end

(* A create that returns an id has made that repository, and it can be read, in  *)
(* spite of tries that failed and of other builds creating theirs.               *)
CreatedIsOwn ==
    \A c \in Clients :
        Ended(c, "create", "ok") => RepoOf(c).creator = c /\ RepoOf(c).ready

(* An upload that returns has put the file and both hashes in the repository.    *)
UploadIsComplete ==
    \A c \in Clients : Ended(c, "upload", "ok") => Paths(c) \subseteq RepoOf(c).files

(* A close that returns true has seen its repository closed: it never takes a    *)
(* close that is not there yet, or failed, for a success.                        *)
ClosedWhenOk ==
    \A c \in Clients :
        Ended(c, "close", "ok") => RepoOf(c).state \in {"closed", "released", "dropped"}

(* Every step ends when the server answers in the end.                           *)
StepEnds == \A c \in Clients : client[c].at # "idle" ~> client[c].at = "idle"
================================================================================
