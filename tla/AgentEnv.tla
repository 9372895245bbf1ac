--------------------------------- MODULE AgentEnv ---------------------------------
(* Two wrappers on one agent, filebeat { withKindEnv { ... } }: the beat runs in a *)
(* container whose id is kept in a file of the workspace, and the cluster is one   *)
(* that kind creates. Builds use the agent one after the other; what a build left  *)
(* in Docker, and its files unless the workspace was cleaned, are there for the    *)
(* next one. metricbeat has the same life as filebeat.                             *)
EXTENDS Naturals

CONSTANTS
    Builds,       \* how many builds use the agent, one after the other
    SetupTries    \* 3 in the code: the tries of setupKind

ASSUME AgentAssumption == Builds \in Nat \ {0} /\ SetupTries \in Nat \ {0}

VARIABLES
    build,        \* the build on the agent
    containers,   \* the beats that run in Docker, each named by the build that ran it
    cluster,      \* whether there is a kind cluster
    file          \* filebeat_container_<node>.json, or NoFile

vars == <<build, containers, cluster, file>>

Places == {"run", "wait", "save", "install", "setup", "cleanup", "body",
           "delete", "stop", "archive", "returned", "threw", "killed"}
Ended == build.at \in {"returned", "threw", "killed"}

BuildStates ==
    [number : 1..Builds, at : Places,
     onlyOnFail : BOOLEAN,             \* archiveOnlyOnFail
     failed : BOOLEAN,                 \* an exception is on its way
     saved : BOOLEAN,                  \* the file is this build's
     tries : 0..SetupTries,            \* of retryWithSleep in setupKind
     i : 0..SetupTries,                \* the failures that setupKind counts
     stopLost : BOOLEAN,               \* docker stop failed, which is only echoed
     archiveLost : BOOLEAN,            \* archiveArtifacts failed
     archived : BOOLEAN]

NoFile == [id |-> 0]
Files == {NoFile} \cup [id : 1..Builds, onlyOnFail : BOOLEAN]

New(n, only) ==
    [number |-> n, at |-> "run", onlyOnFail |-> only, failed |-> FALSE, saved |-> FALSE,
     tries |-> 0, i |-> 0, stopLost |-> FALSE, archiveLost |-> FALSE, archived |-> FALSE]

Init ==
    /\ \E only \in BOOLEAN : build = New(1, only)
    /\ containers = {} /\ cluster = FALSE /\ file = NoFile

At(place) == build.at = place
Goes(place) == build' = [build EXCEPT !.at = place]
Throws(place) == build' = [build EXCEPT !.at = place, !.failed = TRUE]

(* runBeat: docker run, and the id of the container. All of start() is inside the  *)
(* try of filebeat: an exception leads to stop().                                  *)
RunBeat ==
    /\ At("run")
    /\ containers' = containers \cup {build.number}
    /\ Goes("wait") \/ Throws("stop")          \* interrupted after docker run
    /\ UNCHANGED <<cluster, file>>

RunBeatFails ==
    /\ At("run") /\ Throws("stop")
    /\ UNCHANGED <<containers, cluster, file>>

(* waitForBeat gives up quietly: only an interruption throws.                      *)
Wait ==
    /\ At("wait")
    /\ Goes("save") \/ Throws("stop")
    /\ UNCHANGED <<containers, cluster, file>>

KeepsOldFile ==
    /\ At("save")
    /\ file' = IF file # NoFile THEN file ELSE [id |-> build.number, onlyOnFail |-> build.onlyOnFail]
    /\ build' = [build EXCEPT !.at = "install", !.saved = TRUE]
    /\ UNCHANGED <<containers, cluster>>

SaveFile ==
    /\ At("save")
    /\ \/ /\ file' = [id |-> build.number, onlyOnFail |-> build.onlyOnFail]
          /\ build' = [build EXCEPT !.at = "install", !.saved = TRUE]
       \/ Throws("stop") /\ UNCHANGED file
    /\ UNCHANGED <<containers, cluster>>

(* installKind and installKubectl, each with three tries, before withKindEnv's try. *)
Install ==
    /\ At("install")
    /\ Goes("setup") \/ Throws("stop")
    /\ UNCHANGED <<containers, cluster, file>>

(* setupKind: kind-setup.sh creates the cluster; it fails if there is one already, *)
(* and also, after creating it, when the cluster does not answer.                  *)
Setup ==
    /\ At("setup") /\ ~cluster
    /\ cluster' = TRUE
    /\ Goes("body")
    /\ UNCHANGED <<containers, file>>

SetupFails ==
    /\ At("setup")
    /\ cluster' \in {cluster, TRUE}
    /\ build' = [build EXCEPT !.at = "cleanup", !.i = @ + 1]
    /\ UNCHANGED <<containers, file>>

TriesRestarted ==
    /\ At("cleanup")
    /\ \/ cluster' = FALSE /\ (IF build.i > 2 THEN Throws("delete") ELSE Goes("body"))
       \/ UNCHANGED cluster /\ build' = [build EXCEPT !.at = "setup", !.tries = 0, !.i = 0]
    /\ UNCHANGED <<containers, file>>

(* The catch clause deletes the cluster. If that works the error is thrown on only *)
(* when i > 2, otherwise setupKind returns; if it fails, retry has its next try.   *)
Cleanup ==
    /\ At("cleanup")
    /\ \/ /\ cluster' = FALSE
          /\ IF build.i > 2 THEN Throws("delete")
             ELSE Goes("body")
       \/ /\ UNCHANGED cluster
          /\ build' = [build EXCEPT
                 !.tries = @ + 1,
                 !.at = IF build.tries + 1 < SetupTries THEN "setup" ELSE "delete",
                 !.failed = build.tries + 1 >= SetupTries]
    /\ UNCHANGED <<containers, file>>

BodySkipsFinally ==
    /\ At("body")
    /\ Goes("stop") \/ Throws("stop")
    /\ UNCHANGED <<containers, cluster, file>>

Body ==
    /\ At("body")
    /\ Goes("delete") \/ Throws("delete")
    /\ UNCHANGED <<containers, cluster, file>>

(* The finally of withKindEnv.                                                     *)
Delete ==
    /\ At("delete")
    /\ \/ cluster' = FALSE /\ Goes("stop")
       \/ cluster' \in {cluster, FALSE} /\ Throws("stop")
    /\ UNCHANGED <<containers, file>>

(* The finally of filebeat, stop(): without a file there is nothing to stop.       *)
NothingToStop ==
    /\ At("stop") /\ file = NoFile
    /\ Goes(IF build.failed THEN "threw" ELSE "returned")
    /\ UNCHANGED <<containers, cluster, file>>

(* A docker stop that fails is only echoed.                                        *)
Stop ==
    /\ At("stop") /\ file # NoFile
    /\ \/ containers' = containers \ {file.id} /\ Goes("archive")
       \/ UNCHANGED containers /\ build' = [build EXCEPT !.at = "archive", !.stopLost = TRUE]
    /\ UNCHANGED <<cluster, file>>

Wanted == ~file.onlyOnFail \/ (file.onlyOnFail /\ build.failed)

ArchiveOnSuccess ==
    /\ At("archive")
    /\ build' = [build EXCEPT !.archived = ~file.onlyOnFail,
                              !.at = IF build.failed THEN "threw" ELSE "returned"]
    /\ UNCHANGED <<containers, cluster, file>>

(* archiveArtifacts, which may fail.                                               *)
Archive ==
    /\ At("archive")
    /\ \/ build' = [build EXCEPT !.archived = Wanted,
                                 !.at = IF build.failed THEN "threw" ELSE "returned"]
       \/ /\ Wanted
          /\ build' = [build EXCEPT !.at = "threw", !.failed = TRUE, !.archiveLost = TRUE]
    /\ UNCHANGED <<containers, cluster, file>>

(* The build is killed, or its agent restarted: no finally runs.                   *)
Kill ==
    /\ ~Ended /\ Goes("killed")
    /\ UNCHANGED <<containers, cluster, file>>

(* The next build gets the agent, with the workspace as it was or cleaned.         *)
NextBuild ==
    /\ Ended /\ build.number < Builds
    /\ \E only \in BOOLEAN : build' = New(build.number + 1, only)
    /\ file' \in {file, NoFile}
    /\ UNCHANGED <<containers, cluster>>

Terminated == Ended /\ build.number = Builds /\ UNCHANGED vars

Proceed ==
    \/ RunBeat \/ RunBeatFails \/ Wait \/ SaveFile \/ Install \/ Setup \/ SetupFails
    \/ Cleanup \/ Body \/ Delete \/ NothingToStop \/ Stop \/ Archive

Next == Proceed \/ Kill \/ NextBuild \/ Terminated

Spec == Init /\ [][Next]_vars

(* A build that is not killed goes on.                                             *)
FairSpec == Spec /\ WF_vars(Proceed)
--------------------------------------------------------------------------------
TypeOK ==
    /\ build \in BuildStates
    /\ containers \subseteq 1..Builds
    /\ cluster \in BOOLEAN
    /\ file \in Files

(* A build that returns leaves no cluster, also when it found one left by a build  *)
(* that was killed.                                                                *)
NoClusterLeft == build.at = "returned" => ~cluster

(* A beat that started completely is stopped when its build ends, with or without  *)
(* an error, unless Docker failed to: the file is that of its own container.       *)
BeatIsStopped ==
    build.at \in {"returned", "threw"} /\ build.saved /\ ~build.stopLost =>
        build.number \notin containers

(* "archiveOnlyOnFail: if true only archive the files in case of failure": of a    *)
(* beat that started completely, exactly then, whichever part failed.              *)
ArchivedAsAsked ==
    build.saved =>
        /\ build.at = "returned" => build.archived = ~build.onlyOnFail
        /\ build.at = "threw" /\ ~build.archiveLost => build.archived

(* Every build that is not killed ends, after at most SetupTries setups.           *)
BuildEnds == [](~Ended => <>Ended)
================================================================================
