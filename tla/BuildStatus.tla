------------------------------- MODULE BuildStatus -------------------------------
(* A GitHub workflow run whose jobs publish their snapshots with snapshoty-simple and  *)
(* then tell Slack how they ended with notify-build-status (if: always()), and the     *)
(* job Status of the latter's README, which runs after all others (needs, if:          *)
(* always()), combines their results with check-dependent-jobs and notifies that.      *)
(* The run may be cancelled, and run again, whole or where it failed.                  *)
EXTENDS SnapshotyArgs

CONSTANTS
    Jobs,         \* the jobs that publish snapshots
    Status,       \* the job that combines their results
    Files,        \* the snapshots of a job
    Setups,       \* what a workflow is set up with, see SetupStates
    MaxAttempts,  \* how often a run is run, at most
    MaxTroubles   \* how many steps fail by themselves or are cancelled, at most

AllJobs == Jobs \cup {Status}
Attempts == 1..MaxAttempts
Events == {"push", "pull_request", "pull_request_target"}
Statuses == {"success", "failure", "cancelled"}
Results == Statuses \cup {"skipped", "none"}      \* "none": not over

(* The event, the slackChannel, the status input of the jobs' notification (an output  *)
(* of a step that was skipped is ""), and the environment of snapshoty.                *)
Variables == [key : Seq(STRING), value : STRING]
SetupStates == [event : Events, channel : BOOLEAN, status : {"auto", ""}, env : Seq(Variables)]

ASSUME StatusAssumption ==
    /\ Status \notin Jobs /\ MaxAttempts \in Nat \ {0} /\ MaxTroubles \in Nat
    /\ \A s \in Setups : s \in SetupStates

VARIABLES
    run,          \* the attempt, whether it is cancelled, its troubles, the setup
    job,          \* how far each job is, in the attempt that it ran in last
    results,      \* of every attempt, as GitHub keeps them
    slack,        \* the messages in slackChannel
    bucket        \* the snapshots, with the job and the attempt that uploaded them

vars == <<run, job, results, slack, bucket>>

Places == {"queued", "build", "snapshoty", "upload", "report", "check", "prepare", "slack", "done"}

NoOptions == <<>>
NoPayload == [status |-> "none"]
Payloads == {NoPayload} \cup
    [status : Statuses, color : {"good", "danger", ""}, commit : {"head", "sha"}, attempt : Attempts]
Messages == [job : AllJobs, payload : Payloads \ {NoPayload}]

Queued(attempt) == [attempt |-> attempt, at |-> "queued", status |-> "success", verdict |-> "", options |-> NoOptions,
           payload |-> NoPayload, lost |-> FALSE]

Init ==
    /\ run \in [attempt : {1}, cancelled : {FALSE}, troubles : {0}, setup : Setups]
    /\ job = [j \in AllJobs |-> Queued(1)]
    /\ results = [a \in Attempts |-> [j \in AllJobs |-> "none"]]
    /\ slack = {} /\ bucket = {}

At(j, place) == job[j].at = place
Goes(j, place) == job' = [job EXCEPT ![j].at = place]

(* What may go wrong and need not is bounded by MaxTroubles.                           *)
Trouble == run.troubles < MaxTroubles /\ run' = [run EXCEPT !.troubles = @ + 1]

(* A failing step fails the job, unless it is cancelled already.                       *)
Failed(status) == IF status = "cancelled" THEN status ELSE "failure"
FailsTo(j, place) == job' = [job EXCEPT ![j].at = place, ![j].status = Failed(@)]

(* The job is over; lost says that its notification did not work.                      *)
Over(result, lost) == [Queued(run.attempt) EXCEPT !.at = "done", !.status = result, !.lost = lost]
Ends(j, result, lost) ==
    /\ job' = [job EXCEPT ![j] = Over(result, lost)]
    /\ results' = [results EXCEPT ![run.attempt][j] = result]

(* A job gets a runner, or its own "if" says that it is skipped.                       *)
Begin(j) ==
    /\ j \in Jobs /\ At(j, "queued")
    /\ Goes(j, "build")
    /\ UNCHANGED <<run, results, slack, bucket>>

Skip(j) ==
    /\ j \in Jobs /\ At(j, "queued")
    /\ Ends(j, "skipped", FALSE)
    /\ UNCHANGED <<run, slack, bucket>>

(* The job's own steps. After a failure only the notification runs: if: always().      *)
BuildPasses(j) ==
    /\ At(j, "build")
    /\ Goes(j, "snapshoty")
    /\ UNCHANGED <<run, results, slack, bucket>>

OnlyOnSuccess(j) ==
    /\ At(j, "build")
    /\ Trouble
    /\ Ends(j, "failure", FALSE)
    /\ UNCHANGED <<slack, bucket>>

BuildFails(j) ==
    /\ At(j, "build")
    /\ Trouble
    /\ FailsTo(j, "prepare")
    /\ UNCHANGED <<results, slack, bucket>>

(* snapshoty-simple: docker-login, the credentials from the Vault, and snapshoty, which *)
(* builds the options and starts docker with them.                                     *)
Snapshoty(j) ==
    /\ At(j, "snapshoty")
    /\ Accepted(Args(run.setup.env))
    /\ job' = [job EXCEPT ![j].at = "upload", ![j].options = Args(run.setup.env)]
    /\ UNCHANGED <<run, results, slack, bucket>>

(* Registry or Vault refuse, or docker is not there or refuses the options: exec throws, *)
(* and so setFailed. Then the report runs, with if: failure().                         *)
SnapshotyFails(j) ==
    /\ At(j, "snapshoty")
    /\ IF Accepted(Args(run.setup.env)) THEN Trouble ELSE UNCHANGED run
    /\ FailsTo(j, "report")
    /\ UNCHANGED <<results, slack, bucket>>

(* The container uploads the files; exec.exec is awaited, and throws if it fails.      *)
UploadFile(j, f) ==
    /\ At(j, "upload") /\ <<j, f, run.attempt>> \notin bucket
    /\ bucket' = bucket \cup {<<j, f, run.attempt>>}
    /\ UNCHANGED <<run, job, results, slack>>

NotAwaited(j) ==
    /\ At(j, "upload")
    /\ Goes(j, "prepare")
    /\ UNCHANGED <<run, results, slack, bucket>>

UploadEnds(j) ==
    /\ At(j, "upload") /\ \A f \in Files : <<j, f, run.attempt>> \in bucket
    /\ Goes(j, "prepare")
    /\ UNCHANGED <<run, results, slack, bucket>>

UploadFails(j) ==
    /\ At(j, "upload")
    /\ Trouble
    /\ FailsTo(j, "report")
    /\ UNCHANGED <<results, slack, bucket>>

(* The message in #observablt-bots, on which nothing depends, may fail too.            *)
Report(j) ==
    /\ At(j, "report")
    /\ Goes(j, "prepare")
    /\ UNCHANGED <<run, results, slack, bucket>>

(* check-dependent-jobs, once all the others are over.                                 *)
NoFailure(result) == \A j \in Jobs : result[j] # "failure"
AllSuccess(result) == \A j \in Jobs : result[j] = "success"

Wakes(j) ==
    /\ j = Status /\ At(j, "queued")
    /\ \A k \in Jobs : results[run.attempt][k] # "none"
    /\ Goes(j, "check")
    /\ UNCHANGED <<run, results, slack, bucket>>

Check(j) ==
    /\ At(j, "check")
    /\ job' = [job EXCEPT ![j].at = "prepare",
                          ![j].verdict = IF AllSuccess(results[run.attempt]) THEN "success" ELSE "failure"]
    /\ UNCHANGED <<run, results, slack, bucket>>

(* The notification of Status has no "if": it is skipped.                              *)
CheckFails(j) ==
    /\ At(j, "check")
    /\ Trouble
    /\ Ends(j, "failure", TRUE)
    /\ UNCHANGED <<slack, bucket>>

(* inputs.status == 'auto' && job.status || inputs.status                              *)
StatusInput(j) == IF j = Status THEN job[j].verdict ELSE run.setup.status
JobStatus(j) == IF StatusInput(j) = "auto" THEN job[j].status ELSE StatusInput(j)

Required == {"GITHUB_ACTOR", "GITHUB_EVENT_NAME", "GITHUB_REF_NAME", "GITHUB_REPOSITORY", "GITHUB_RUN_ATTEMPT",
             "GITHUB_RUN_ID", "GITHUB_SERVER_URL", "GITHUB_SHA", "GITHUB_WORKFLOW", "JOB_STATUS"}
CheckEnvVar(variable, j) == variable = "JOB_STATUS" => JobStatus(j) # ""   \* the runner sets GITHUB_*
AllDefined(j) == \A variable \in Required : CheckEnvVar(variable, j)

ColorByJobStatus(status) ==
    IF status = "success" THEN "good" ELSE IF status = "failure" THEN "danger" ELSE ""

(* A pull request is built on a merge of its head; the message names the head.         *)
IsPullRequest == run.setup.event \in {"pull_request", "pull_request_target"}
Sha == IF IsPullRequest THEN "head" ELSE "sha"

SlackPayload(j) ==
    [status |-> JobStatus(j), color |-> ColorByJobStatus(JobStatus(j)), commit |-> Sha, attempt |-> run.attempt]

(* run() of main.ts sets the outputs, of which the payload is the last.                *)
SetOutputs(j) ==
    /\ At(j, "prepare")
    /\ AllDefined(j)
    /\ IF run.setup.channel
       THEN /\ job' = [job EXCEPT ![j].at = "slack", ![j].payload = SlackPayload(j)]
            /\ UNCHANGED results
       ELSE Ends(j, job[j].status, FALSE)
    /\ UNCHANGED <<run, slack, bucket>>

(* A variable is not defined, or an output cannot be written: setFailed.               *)
SetFailed(j) ==
    /\ At(j, "prepare")
    /\ IF AllDefined(j) THEN Trouble ELSE UNCHANGED run
    /\ Ends(j, Failed(job[j].status), TRUE)
    /\ UNCHANGED <<slack, bucket>>

Prepare(j) == SetOutputs(j) \/ SetFailed(j)

(* slack-message; it may fail after the message was posted.                            *)
Message(j) == [job |-> j, payload |-> job[j].payload]

Post(j) ==
    /\ At(j, "slack")
    /\ slack' = slack \cup {Message(j)}
    /\ Ends(j, job[j].status, FALSE)
    /\ UNCHANGED <<run, bucket>>

ContinueOnError(j) ==
    /\ At(j, "slack")
    /\ Trouble
    /\ slack' \in {slack, slack \cup {Message(j)}}
    /\ Ends(j, job[j].status, TRUE)
    /\ UNCHANGED bucket

PostFails(j) ==
    /\ At(j, "slack")
    /\ Trouble
    /\ slack' \in {slack, slack \cup {Message(j)}}
    /\ Ends(j, Failed(job[j].status), TRUE)
    /\ UNCHANGED bucket

(* Cancelling stops the steps that run, but for those with if: always(); a job that    *)
(* has always() itself still starts. GitHub kills what is not over after five minutes. *)
Cancelled(j) ==
    IF At(j, "done") \/ (j = Status /\ At(j, "queued")) THEN job[j]
    ELSE IF j = Status \/ At(j, "queued")
    THEN Over("cancelled", TRUE)
    ELSE [job[j] EXCEPT !.at = IF job[j].at = "slack" THEN "slack" ELSE "prepare", !.status = "cancelled"]

Cancel ==
    /\ ~run.cancelled /\ run.troubles < MaxTroubles /\ \E j \in AllJobs : ~At(j, "done")
    /\ run' = [run EXCEPT !.cancelled = TRUE, !.troubles = @ + 1]
    /\ job' = [j \in AllJobs |-> Cancelled(j)]
    /\ results' = [results EXCEPT ![run.attempt] =
            [j \in AllJobs |-> IF Cancelled(j).at = "done" /\ @[j] = "none" THEN "cancelled" ELSE @[j]]]
    /\ UNCHANGED <<slack, bucket>>

Kill(j) ==
    /\ run.cancelled /\ j \in Jobs /\ job[j].at \in {"prepare", "slack"}
    /\ Ends(j, "cancelled", TRUE)
    /\ UNCHANGED <<run, slack, bucket>>

(* Run again: all jobs, or those that failed; Status needs them, so it runs again too. *)
Unsuccessful == {j \in AllJobs : results[run.attempt][j] \in {"failure", "cancelled"}}

Rerun ==
    /\ \A j \in AllJobs : At(j, "done")
    /\ run.attempt < MaxAttempts
    /\ \E again \in {AllJobs} \cup (IF Unsuccessful = {} THEN {} ELSE {Unsuccessful \cup {Status}}) :
          /\ job' = [j \in AllJobs |-> IF j \in again THEN Queued(run.attempt + 1) ELSE job[j]]
          /\ results' = [results EXCEPT ![run.attempt + 1] =
                [j \in AllJobs |-> IF j \in again THEN "none" ELSE results[run.attempt][j]]]
    /\ run' = [run EXCEPT !.attempt = @ + 1, !.cancelled = FALSE]
    /\ UNCHANGED <<slack, bucket>>

Terminated ==
    /\ \A j \in AllJobs : At(j, "done")
    /\ run.attempt = MaxAttempts
    /\ UNCHANGED vars

Step(j) ==
    \/ Begin(j) \/ Skip(j) \/ BuildPasses(j) \/ BuildFails(j) \/ Snapshoty(j) \/ SnapshotyFails(j)
    \/ UploadEnds(j) \/ UploadFails(j) \/ Report(j)
    \/ \E f \in Files : UploadFile(j, f)
    \/ Wakes(j) \/ Check(j) \/ CheckFails(j) \/ Prepare(j) \/ Post(j) \/ PostFails(j)

Next == (\E j \in AllJobs : Step(j) \/ Kill(j)) \/ Cancel \/ Rerun \/ Terminated

(* A runner goes on with the steps of a job: each of them ends, by GitHub's timeout    *)
(* for a job at the latest.                                                            *)
Fairness == \A j \in AllJobs : WF_vars(Step(j))

Spec == Init /\ [][Next]_vars /\ Fairness

----------------------------------------------------------------------------------
OptionLists == {NoOptions} \cup {Args(s.env) : s \in Setups}

JobStates ==
    [attempt : Attempts, at : Places, status : Statuses \cup {"skipped"}, verdict : {"", "success", "failure"},
     options : OptionLists, payload : Payloads, lost : BOOLEAN]

RunStates == [attempt : Attempts, cancelled : BOOLEAN, troubles : 0..MaxTroubles, setup : Setups]

TypeOK ==
    /\ run \in RunStates
    /\ job \in [AllJobs -> JobStates]
    /\ results \in [Attempts -> [AllJobs -> Results]]
    /\ slack \subseteq Messages
    /\ bucket \subseteq Jobs \X Files \X Attempts

Uploaded(j, a) == \A f \in Files : <<j, f, a>> \in bucket

(* A green message is earned: a job that says so has all its snapshots in the bucket,  *)
(* uploaded in the attempt that the message names (index.js:57 awaits the upload), and *)
(* when Status says so each job has, in that attempt or in an earlier one that was     *)
(* not run again.                                                                      *)
GoodNewsIsEarned ==
    \A m \in slack : m.payload.status = "success" =>
        IF m.job = Status
        THEN \A j \in Jobs : \E a \in 1..m.payload.attempt : Uploaded(j, a)
        ELSE Uploaded(m.job, m.payload.attempt)

(* notify-build-status/README.md:91, "the results of all jobs are evaluated and the    *)
(* combined result is notified": what Status tells of an attempt is success if and     *)
(* only if GitHub keeps a success of every job for that attempt, whatever was          *)
(* cancelled, skipped or run again.                                                    *)
VerdictIsCombined ==
    \A m \in slack : m.job = Status =>
        (m.payload.status = "success" <=> \A j \in Jobs : results[m.payload.attempt][j] = "success")

(* No silent green: a job with a slackChannel that is over as a success in this        *)
(* attempt has told so; a notification that did not work is a red job (main.ts:79).    *)
NoSilentGreen ==
    \A j \in AllJobs : run.setup.channel /\ results[run.attempt][j] = "success" =>
        \E m \in slack : m.job = j /\ m.payload.attempt = job[j].attempt

(* The container of snapshoty gets what its README says: a variable of the prefix      *)
(* SNAPSHOTY_ without it, unless one that comes later has that name; the credentials   *)
(* of the inputs, unless such a variable replaces them; GITHUB_* and RUNNER_*; and     *)
(* nothing else of the runner's environment (index.js:34).                             *)
Overridden(env, i) == \E k \in PassedAt(env) : k > i /\ PassedName(env[k]) = PassedName(env[i])
SnapshotGetsItsEnv ==
    \A j \in Jobs : job[j].options # NoOptions =>
        LET env == run.setup.env
            container == ContainerEnv(job[j].options)
        IN /\ DOMAIN container = GcsNames \cup {PassedName(env[i]) : i \in PassedAt(env)}
           /\ \A i \in PassedAt(env) : ~Overridden(env, i) => container[PassedName(env[i])] = env[i].value
           /\ \A n \in GcsNames : (\A i \in PassedAt(env) : PassedName(env[i]) # n) => container[n] = "input"

(* A job that fails says so: a message that is not green follows, or its notification  *)
(* did not work (which is in its log), or there is no channel, or the status it is     *)
(* given says otherwise. if: always() of notify-build-status/README.md:30.             *)
FailureIsTold ==
    \A j \in Jobs, a \in Attempts :
        (run.attempt = a /\ job[j].status = "failure") ~>
            \/ ~run.setup.channel
            \/ run.attempt = a /\ job[j].lost
            \/ \E m \in slack : m.job = j /\ m.payload.attempt = a /\ m.payload.status # "success"
==================================================================================
