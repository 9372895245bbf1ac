---------------------------- MODULE StageStatusCache ----------------------------
(* vars/stageStatusCache.groovy: a stage is skipped when a status file for the   *)
(* stage and the commit is found; otherwise its body runs and, on success, the   *)
(* file is written to the workspace and uploaded to a Google bucket.             *)
(* A branch is one thread of a build that calls the step, one call at a time.    *)
(* Branches share workspaces and the one bucket; nothing locks either of them.   *)
EXTENDS Naturals, FiniteSets

CONSTANTS
    Branches,     \* threads of builds
    Ids,          \* the ids given to stageStatusCache
    Nested,       \* the ids whose base64 name contains a '/'
    Commits,      \* the commits that builds are for
    Unset,        \* "null": what GIT_BASE_COMMIT reads as when nobody set it
    Workspaces,
    Retries,      \* 3 in the code: retryWithSleep(retries: 3, ...)
    MaxCalls      \* bound: calls of the step by one branch

ASSUME StageAssumption ==
    /\ Nested \subseteq Ids
    /\ Unset \notin Commits
    /\ Retries \in Nat \ {0}
    /\ MaxCalls \in Nat

VARIABLES
    build,        \* what each branch's build is: commit, sha it sees, cause, workspace
    call,         \* the call in progress: where it is, its id, runAlways, tries
    calls,        \* how many calls each branch has started
    local,        \* status files in each workspace
    bucket,       \* status files under gs://<bucket>/ci/cache/, by the URL that serves them
    succeeded     \* history: the stages whose body has succeeded, by true commit

vars == <<build, call, calls, local, bucket, succeeded>>

Ended  == {"idle", "ok", "skipped", "failed"}
Places == Ended \cup {"read", "decide", "body", "write", "upload"}

Shas == Commits \cup {Unset}

(* Mutant: the sha is left out of the name.                                      *)
ShaForgotten(id, sha) == <<id, Unset>>

(* The file name is base64("${id}${sha}"): a sha has a fixed length and hex      *)
(* digits only, so the concatenation tells the pairs apart.                      *)
StageStatusId(id, sha) == <<id, sha>>

BuildOf == [commit : Commits, sha : Shas, user : BOOLEAN, ws : Workspaces]

(* args['sha'] = "${env.GIT_BASE_COMMIT}": the commit of the build, or "null".   *)
ShaSeen(r) == r.sha \in {r.commit, Unset}

Key(b) == StageStatusId(call[b].id, build[b].sha)
Stage(b) == <<call[b].id, build[b].commit>>

Init ==
    /\ build \in [Branches -> {r \in BuildOf : ShaSeen(r)}]
    /\ \E id \in Ids :
         call = [b \in Branches |-> [at |-> "idle", id |-> id, always |-> FALSE, tries |-> 0]]
    /\ calls = [b \in Branches |-> 0]
    /\ local = [w \in Workspaces |-> {}]
    /\ bucket = {}
    /\ succeeded = {}

Goto(b, place) == call' = [call EXCEPT ![b].at = place]

(* Mutant: who triggered the build is not asked.                                 *)
TriggerIgnored(b, id, always) ==
    /\ call[b].at \in Ended /\ calls[b] < MaxCalls
    /\ calls' = [calls EXCEPT ![b] = @ + 1]
    /\ call' = [call EXCEPT ![b] =
          [at |-> IF always THEN "body" ELSE "read", id |-> id, always |-> always, tries |-> 0]]
    /\ UNCHANGED <<build, local, bucket, succeeded>>

(* The step is called. The condition short-circuits: a user's build and          *)
(* runAlways go to the body without looking for a status file.                   *)
Call(b, id, always) ==
    /\ call[b].at \in Ended /\ calls[b] < MaxCalls
    /\ calls' = [calls EXCEPT ![b] = @ + 1]
    /\ call' = [call EXCEPT ![b] =
          [at |-> IF build[b].user \/ always THEN "body" ELSE "read",
           id |-> id, always |-> always, tries |-> 0]]
    /\ UNCHANGED <<build, local, bucket, succeeded>>

(* curl -sSf -O: the object, if it is served, becomes a file named after the     *)
(* last segment of the URL. Every failure is swallowed (returnStatus, finally).  *)
Fetch(b) ==
    /\ call[b].at = "read"
    /\ Goto(b, "decide")
    /\ \/ /\ Key(b) \in bucket
          /\ local' = [local EXCEPT ![build[b].ws] = @ \cup {Key(b)}]
       \/ UNCHANGED local
    /\ UNCHANGED <<build, calls, bucket, succeeded>>

(* finally { return fileExists(...) }: a file left by anybody is a hit.          *)
Decide(b) ==
    /\ call[b].at = "decide"
    /\ Goto(b, IF Key(b) \in local[build[b].ws] THEN "skipped" ELSE "body")
    /\ UNCHANGED <<build, calls, local, bucket, succeeded>>

BodySucceeds(b) ==
    /\ call[b].at = "body"
    /\ Goto(b, "write")
    /\ succeeded' = succeeded \cup {Stage(b)}
    /\ UNCHANGED <<build, calls, local, bucket>>

(* Mutant: the status is saved in a finally block.                               *)
SavedAnyway(b) ==
    /\ call[b].at = "body"
    /\ Goto(b, "write")
    /\ UNCHANGED <<build, calls, local, bucket, succeeded>>

(* body() throws: saveStageStatus is never reached.                              *)
BodyFails(b) ==
    /\ call[b].at = "body"
    /\ Goto(b, "failed")
    /\ UNCHANGED <<build, calls, local, bucket, succeeded>>

(* writeFile comes before the upload, and is not undone if that fails.           *)
WriteStatus(b) ==
    /\ call[b].at = "write"
    /\ Goto(b, "upload")
    /\ local' = [local EXCEPT ![build[b].ws] = @ \cup {Key(b)}]
    /\ UNCHANGED <<build, calls, bucket, succeeded>>

(* gsutil cp puts a file at its base name, so a nested name is stored where      *)
(* no download of it looks. The file must still be in the workspace.             *)
Stored(b) == IF call[b].id \in Nested THEN bucket ELSE bucket \cup {Key(b)}

Upload(b) ==
    /\ call[b].at = "upload"
    /\ Key(b) \in local[build[b].ws]
    /\ bucket' = Stored(b)
    /\ call' = [call EXCEPT ![b] = [@ EXCEPT !.tries = call[b].tries + 1, !.at = "ok"]]
    /\ UNCHANGED <<build, calls, local, succeeded>>

(* A failed try, after which the call is at next.                                *)
TryFails(b, next) ==
    /\ call[b].at = "upload"
    /\ \/ UNCHANGED bucket
       \/ Key(b) \in local[build[b].ws] /\ bucket' = Stored(b)
    /\ call' = [call EXCEPT ![b] = [@ EXCEPT !.tries = call[b].tries + 1, !.at = next]]
    /\ UNCHANGED <<build, calls, local, succeeded>>

(* Mutant: the last failure is swallowed.                                        *)
FailureSwallowed(b) == TryFails(b, IF call[b].tries + 1 < Retries THEN "upload" ELSE "ok")

(* One failed try of retryWithSleep: gsutil may have stored the object before    *)
(* it failed. The last try's exception leaves the step, the body's success lost. *)
UploadFails(b) ==
    TryFails(b, IF call[b].tries + 1 < Retries THEN "upload" ELSE "failed")

(* The pipeline empties its workspace (deleteDir), whoever is using it.          *)
DeleteDir(w) ==
    /\ local[w] # {}
    /\ local' = [local EXCEPT ![w] = {}]
    /\ UNCHANGED <<build, call, calls, bucket, succeeded>>

(* The build is aborted or its agent is lost, at any point of the call.          *)
Abort(b) ==
    /\ call[b].at \notin Ended
    /\ Goto(b, "failed")
    /\ UNCHANGED <<build, calls, local, bucket, succeeded>>

(* Every branch has used its calls and every workspace is clean.                 *)
Terminated ==
    /\ \A b \in Branches : call[b].at \in Ended /\ calls[b] = MaxCalls
    /\ \A w \in Workspaces : local[w] = {}
    /\ UNCHANGED vars

Proceed(b) ==
    \/ Fetch(b) \/ Decide(b) \/ BodySucceeds(b) \/ BodyFails(b)
    \/ WriteStatus(b) \/ Upload(b) \/ UploadFails(b)

Next ==
    \/ \E b \in Branches :
         \/ \E id \in Ids, always \in BOOLEAN : Call(b, id, always)
         \/ Proceed(b)
         \/ Abort(b)
    \/ \E w \in Workspaces : DeleteDir(w)
    \/ Terminated

Spec == Init /\ [][Next]_vars

--------------------------------------------------------------------------------
TypeOK ==
    /\ build \in [Branches -> BuildOf]
    /\ call \in [Branches -> [at : Places, id : Ids, always : BOOLEAN, tries : 0..Retries]]
    /\ calls \in [Branches -> 0..MaxCalls]
    /\ local \in [Workspaces -> SUBSET (Ids \X Shas)]
    /\ bucket \subseteq Ids \X Shas
    /\ succeeded \subseteq Ids \X Commits

(* A status file for a commit, wherever it is, was left by a body that succeeded *)
(* for that stage of that commit: failed tries, aborted builds and other         *)
(* branches' files never make one up.                                            *)
FilesAreEarned ==
    \A k \in Ids \X Commits :
        (k \in bucket \/ \E w \in Workspaces : k \in local[w]) => k \in succeeded

(* A branch only skips a stage whose body succeeded for the commit it is         *)
(* building, when its GIT_BASE_COMMIT is set (stageStatusCache.groovy:33).       *)
SkipIsSound ==
    \A b \in Branches :
        call[b].at = "skipped" /\ build[b].sha # Unset => Stage(b) \in succeeded

(* A call that returns after running its body has published the status, so a     *)
(* build on another agent can find it (unless its name is nested); no earlier    *)
(* failed try, and no later call, takes it away.                                 *)
OkIsPublished ==
    \A b \in Branches :
        call[b].at = "ok" => /\ Stage(b) \in succeeded
                             /\ call[b].id \in Nested \/ Key(b) \in bucket

(* Builds that call the step after GIT_BASE_COMMIT was exported.                 *)
Exported == \A b \in Branches : build[b].sha # Unset
ExportedInit == Init /\ Exported
ExportedSpec == ExportedInit /\ [][Next]_vars

(* The step as a memory of successful stages (module StageMemo).                 *)
Phase(b) ==
    IF call[b].at \in {"read", "decide", "body"} THEN "asked"
    ELSE IF call[b].at \in {"write", "upload"} THEN "ran"
    ELSE call[b].at

Request(b) == [stage |-> Stage(b), insists |-> build[b].user \/ call[b].always]

Memo == INSTANCE StageMemo WITH
    Clients <- Branches,
    Stages <- Ids \X Commits,
    request <- [b \in Branches |-> Request(b)],
    phase <- [b \in Branches |-> Phase(b)],
    memo <- succeeded

(* Files, bucket, retries and failures implement the memory: a skip is always    *)
(* that of a remembered stage, and a user's build or runAlways is never skipped  *)
(* ("User triggered builds will execute all stages always").                     *)
ImplementsMemo == Memo!Spec
================================================================================
