-------------------------------- MODULE WorkflowRun --------------------------------
(* vars/githubWorkflowRun.groovy: a build triggers a workflow of GitHub with an id of *)
(* its own among the inputs, lists the runs of the workflow, views them one after the *)
(* other until one shows that id, and polls that run until it is completed or the     *)
(* time is up. Other calls trigger and view the same workflow.                        *)
EXTENDS Naturals, Sequences

CONSTANTS
    Calls,        \* executions of the step
    Maps,         \* the argument maps that they are given
    Limit,        \* 100 in the code: how many runs are listed
    MaxPolls,     \* how many polls fit into buildTimeLimit
    MaxInt,       \* 2^31 - 1 in the code: the greatest run id it can return
    OtherRuns,    \* a bound on the runs that other people trigger
    Nobody        \* the id in the inputs of a run that other people triggered

ASSUME WorkflowAssumption == {Limit, MaxPolls, MaxInt, OtherRuns} \subseteq Nat /\ Nobody \notin Calls

VARIABLES
    call,         \* each execution: its map, and how far it is
    lookupId,     \* what get(lookupId, ...) left in each map, a call or Nobody
    runs          \* GitHub: the runs of the workflow, oldest first; a run's id is its position

vars == <<call, lookupId, runs>>

Places == {"trigger", "list", "view", "poll", "returned", "error", "timedOut"}

CallStates ==
    [map : Maps, at : Places,
     id : Calls \cup {Nobody},              \* the lookup id that it looks for
     list : Seq(Nat),                       \* the runs that are still to be viewed
     run : Nat,                             \* runId, 0 for none
     polls : 0..MaxPolls]

Runs == [id : Calls \cup {Nobody}, by : Calls \cup {Nobody},
         state : {"queued", "running", "completed"}]

Init ==
    /\ call \in [Calls -> [map : Maps, at : {"trigger"}, id : {Nobody}, list : {<<>>},
                           run : {0}, polls : {0}]]
    /\ lookupId = [m \in Maps |-> Nobody]
    /\ runs = <<>>

Become(c, new) == call' = [call EXCEPT ![c] = new]
At(c, place) == call[c].at = place
Ended(c) == call[c].at \in {"returned", "error", "timedOut"}

(* get(lookupId, ...) puts a new id, of ref, time and build, into the map, or finds   *)
(* the one that an earlier call with the same map put there.                          *)
LookupIdOf(c) == IF lookupId[call[c].map] = Nobody THEN c ELSE lookupId[call[c].map]

(* gh workflow run: the run is there, but queued, and does not show its id yet.       *)
Trigger(c) ==
    /\ At(c, "trigger")
    /\ lookupId' = [lookupId EXCEPT ![call[c].map] = LookupIdOf(c)]
    /\ runs' = Append(runs, [id |-> LookupIdOf(c), by |-> c, state |-> "queued"])
    /\ \E at \in {"list", "error"} : Become(c, [call[c] EXCEPT !.at = at, !.id = LookupIdOf(c)])

(* A workflow that is not given, or gh failing before it triggered.                   *)
TriggerFails(c) ==
    /\ At(c, "trigger")
    /\ \E given \in BOOLEAN :
           lookupId' = IF given THEN [lookupId EXCEPT ![call[c].map] = LookupIdOf(c)] ELSE lookupId
    /\ Become(c, [call[c] EXCEPT !.at = "error"])
    /\ UNCHANGED runs

(* gh run list: the newest first. Of no run at all, getRunIdsFromGhOutput throws.     *)
Listed ==
    LET n == IF Len(runs) < Limit THEN Len(runs) ELSE Limit
    IN  [i \in 1..n |-> Len(runs) + 1 - i]

List(c) ==
    /\ At(c, "list")
    /\ Become(c, [call[c] EXCEPT !.at = IF Listed = <<>> THEN "error" ELSE "view", !.list = Listed])
    /\ UNCHANGED <<lookupId, runs>>

AnyRun(c) ==
    /\ At(c, "view") /\ call[c].list # <<>>
    /\ LET r == Head(call[c].list) IN
       IF runs[r].state # "queued" /\ r <= MaxInt
       THEN Become(c, [call[c] EXCEPT !.list = <<>>, !.run = r, !.at = "poll"])
       ELSE Become(c, [call[c] EXCEPT !.list = Tail(call[c].list)])
    /\ UNCHANGED <<lookupId, runs>>

(* gh run view -v: a run that has begun shows its id in the name of its first step;   *)
(* "run as int" throws for an id of more than 32 bits.                                *)
View(c) ==
    /\ At(c, "view") /\ call[c].list # <<>>
    /\ LET r == Head(call[c].list) IN
       IF runs[r].state # "queued" /\ runs[r].id = call[c].id
       THEN Become(c, [call[c] EXCEPT !.list = <<>>, !.run = r,
                                      !.at = IF r <= MaxInt THEN "poll" ELSE "error"])
       ELSE Become(c, [call[c] EXCEPT !.list = Tail(call[c].list)])
    /\ UNCHANGED <<lookupId, runs>>

(* "Triggered workflow with id ... but failed to get runId for it".                   *)
NotFound(c) ==
    /\ At(c, "view") /\ call[c].list = <<>>
    /\ Become(c, [call[c] EXCEPT !.at = "error"])
    /\ UNCHANGED <<lookupId, runs>>

PollForever(c) ==
    /\ At(c, "poll")
    /\ IF runs[call[c].run].state = "completed"
       THEN Become(c, [call[c] EXCEPT !.at = "returned"])
       ELSE Become(c, [call[c] EXCEPT !.polls = 1 - @])
    /\ UNCHANGED <<lookupId, runs>>

(* getWorkflowRun, as long as the time is not up: the run, completed or not yet.      *)
Poll(c) ==
    /\ At(c, "poll")
    /\ IF call[c].polls = MaxPolls THEN Become(c, [call[c] EXCEPT !.at = "timedOut"])
       ELSE IF runs[call[c].run].state = "completed"
       THEN Become(c, [call[c] EXCEPT !.at = "returned"])
       ELSE Become(c, [call[c] EXCEPT !.polls = @ + 1])
    /\ UNCHANGED <<lookupId, runs>>

(* gh fails, or answers "Not Found".                                                  *)
GhFails(c) ==
    /\ call[c].at \in {"list", "view", "poll"}
    /\ Become(c, [call[c] EXCEPT !.at = "error"])
    /\ UNCHANGED <<lookupId, runs>>

(* GitHub, and other people who trigger the workflow.                                 *)
Progress(r) ==
    /\ runs[r].state # "completed"
    /\ runs' = [runs EXCEPT ![r].state = IF @ = "queued" THEN "running" ELSE "completed"]
    /\ UNCHANGED <<call, lookupId>>

OthersTrigger ==
    /\ Len(SelectSeq(runs, LAMBDA r : r.by = Nobody)) < OtherRuns
    /\ runs' = Append(runs, [id |-> Nobody, by |-> Nobody, state |-> "queued"])
    /\ UNCHANGED <<call, lookupId>>

Terminated == (\A c \in Calls : Ended(c)) /\ UNCHANGED vars

Proceed(c) == Trigger(c) \/ List(c) \/ View(c) \/ NotFound(c) \/ Poll(c)

Next ==
    \/ \E c \in Calls : Proceed(c) \/ TriggerFails(c) \/ GhFails(c)
    \/ \E r \in DOMAIN runs : Progress(r)
    \/ OthersTrigger
    \/ Terminated

Spec == Init /\ [][Next]_vars

(* The build goes on; neither failures of gh nor the progress of a run is promised.   *)
FairSpec == Spec /\ \A c \in Calls : WF_vars(Proceed(c))
--------------------------------------------------------------------------------
TypeOK ==
    /\ call \in [Calls -> CallStates]
    /\ lookupId \in [Maps -> Calls \cup {Nobody}]
    /\ runs \in Seq(Runs)
    /\ \A c \in Calls : call[c].run <= Len(runs) /\ (At(c, "poll") => call[c].run \in 1..MaxInt)

(* The run that a call polls and returns is the one that it triggered, among those    *)
(* of other calls and of other people, as long as no other call has its map.          *)
RunIsOwn ==
    \A c \in Calls :
        call[c].run # 0 /\ (\A o \in Calls \ {c} : call[o].map # call[c].map) =>
            runs[call[c].run].by = c

(* Every call ends, whatever becomes of its run.                                      *)
CallEnds == \A c \in Calls : <>Ended(c)
================================================================================
