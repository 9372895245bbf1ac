------------------------------ MODULE AgentEnvProofs ------------------------------
(* Theorems about AgentEnv, for any number of builds and any number of tries.        *)
EXTENDS AgentEnv, TLAPS

(* setupKind's two counters: the failures are one ahead of the tries in its catch    *)
(* clause, and there is a try left for as long as it runs.                           *)
TriesCounted ==
    /\ build.at \in {"run", "wait", "save", "install"} => build.tries = 0 /\ build.i = 0
    /\ build.at \in {"setup", "cleanup"} => build.tries < SetupTries
    /\ build.at = "setup" => build.i = build.tries
    /\ build.at = "cleanup" => build.i = build.tries + 1

(* The file of a build that saved it stays that build's until the next one begins.   *)
FileIsOwn ==
    /\ build.at \in {"run", "wait", "save"} => ~build.saved
    /\ build.saved => file = [id |-> build.number, onlyOnFail |-> build.onlyOnFail]

(* Past withKindEnv the cluster is gone, or an exception is on its way.               *)
ClusterGone == build.at \in {"stop", "archive"} => build.failed \/ ~cluster

(* Once stop() has called Docker, the container of the build is gone.                 *)
BeatGone ==
    build.at = "archive" /\ build.saved /\ ~build.stopLost => build.number \notin containers

IInv ==
    /\ TypeOK /\ TriesCounted /\ FileIsOwn /\ ClusterGone /\ BeatGone
    /\ NoClusterLeft /\ BeatIsStopped /\ ArchivedAsAsked

(* The types of the fields of the build.                                             *)
Fields ==
    /\ build.number \in 1..Builds /\ build.at \in Places
    /\ build.onlyOnFail \in BOOLEAN /\ build.failed \in BOOLEAN /\ build.saved \in BOOLEAN
    /\ build.tries \in 0..SetupTries /\ build.i \in 0..SetupTries
    /\ build.stopLost \in BOOLEAN /\ build.archiveLost \in BOOLEAN /\ build.archived \in BOOLEAN

(* A build of the right type has fields of the right types.                          *)
LEMMA FieldTypes == build \in BuildStates => Fields
BY DEF BuildStates, Fields

(* What a step that only goes to another place, or throws, does to the record.        *)
LEMMA GoesTo ==
    ASSUME build \in BuildStates, NEW place \in Places, Goes(place)
    PROVE  /\ build' \in BuildStates
           /\ build'.at = place /\ build'.number = build.number /\ build'.onlyOnFail = build.onlyOnFail
           /\ build'.failed = build.failed /\ build'.saved = build.saved
           /\ build'.tries = build.tries /\ build'.i = build.i
           /\ build'.stopLost = build.stopLost /\ build'.archiveLost = build.archiveLost
           /\ build'.archived = build.archived
BY DEF BuildStates, Goes

(* An exception goes there, too.                                                     *)
LEMMA ThrowsTo ==
    ASSUME build \in BuildStates, NEW place \in Places, Throws(place)
    PROVE  /\ build' \in BuildStates
           /\ build'.at = place /\ build'.number = build.number /\ build'.onlyOnFail = build.onlyOnFail
           /\ build'.failed = TRUE /\ build'.saved = build.saved
           /\ build'.tries = build.tries /\ build'.i = build.i
           /\ build'.stopLost = build.stopLost /\ build'.archiveLost = build.archiveLost
           /\ build'.archived = build.archived
BY DEF BuildStates, Throws

(* A build begins with nothing saved, failed or tried.                               *)
LEMMA NewBuild ==
    ASSUME NEW n \in 1..Builds, NEW only \in BOOLEAN
    PROVE  /\ New(n, only) \in BuildStates
           /\ New(n, only).at = "run" /\ New(n, only).number = n /\ New(n, only).failed = FALSE
           /\ New(n, only).saved = FALSE /\ New(n, only).tries = 0 /\ New(n, only).i = 0
BY AgentAssumption DEF BuildStates, New, Places

(* The first build begins with the invariant.                                        *)
LEMMA InitIInv == Init => IInv
<1> SUFFICES ASSUME Init PROVE IInv
    OBVIOUS
<1>1. PICK only \in BOOLEAN : build = New(1, only)
    BY DEF Init
<1>2. 1 \in 1..Builds
    BY AgentAssumption
<1> QED
    BY <1>1, <1>2, NewBuild, AgentAssumption
    DEF Init, IInv, TypeOK, TriesCounted, FileIsOwn, ClusterGone, BeatGone, NoClusterLeft,
        BeatIsStopped, ArchivedAsAsked, Files

(* The step keeps every part of the invariant, action by action.                     *)
LEMMA StepIInv == IInv /\ [Next]_vars => IInv'
<1> SUFFICES ASSUME IInv, [Next]_vars PROVE IInv'
    OBVIOUS
<1> USE AgentAssumption DEF IInv, TypeOK, TriesCounted, FileIsOwn, ClusterGone, BeatGone,
        NoClusterLeft, BeatIsStopped, ArchivedAsAsked, At
<1>0. Fields /\ build \in BuildStates
    BY FieldTypes
<1> {"wait", "save", "install", "setup", "body", "delete", "stop", "archive",
     "returned", "threw", "killed"} \subseteq Places
    BY DEF Places
<1> SetupTries \in Nat /\ 0 < SetupTries
    OBVIOUS
<1>1. CASE RunBeat
    BY <1>0, <1>1, GoesTo, ThrowsTo DEF RunBeat, Fields
<1>2. CASE RunBeatFails
    BY <1>0, <1>2, ThrowsTo DEF RunBeatFails
<1>3. CASE Wait
    BY <1>0, <1>3, GoesTo, ThrowsTo DEF Wait
<1>4. CASE SaveFile
  <2>1. CASE Throws("stop") /\ UNCHANGED file
    BY <1>0, <1>4, <2>1, ThrowsTo DEF SaveFile
  <2>2. CASE /\ file' = [id |-> build.number, onlyOnFail |-> build.onlyOnFail]
             /\ build' = [build EXCEPT !.at = "install", !.saved = TRUE]
    <3>1. /\ build' \in BuildStates
          /\ build'.at = "install" /\ build'.number = build.number /\ build'.onlyOnFail = build.onlyOnFail
          /\ build'.saved = TRUE /\ build'.tries = build.tries /\ build'.i = build.i
      BY <1>0, <2>2 DEF BuildStates
    <3>2. file' \in Files
      BY <1>0, <2>2 DEF Files, Fields
    <3> QED
      BY <1>0, <1>4, <2>2, <3>1, <3>2 DEF SaveFile
  <2> QED
    BY <1>4, <2>1, <2>2 DEF SaveFile
<1>5. CASE Install
    BY <1>0, <1>5, GoesTo, ThrowsTo DEF Install
<1>6. CASE Setup
    BY <1>0, <1>6, GoesTo DEF Setup
<1>7. CASE SetupFails
  <2>0. build.i + 1 \in 0..SetupTries
    BY <1>0, <1>7 DEF SetupFails, Fields
  <2>1. /\ build' \in BuildStates
        /\ build'.at = "cleanup" /\ build'.number = build.number /\ build'.onlyOnFail = build.onlyOnFail
        /\ build'.saved = build.saved /\ build'.tries = build.tries /\ build'.i = build.i + 1
    BY <1>0, <1>7, <2>0 DEF SetupFails, BuildStates, Places
  <2> QED
    BY <1>0, <1>7, <2>1 DEF SetupFails, Fields
<1>8. CASE Cleanup
  <2>1. CASE cluster' = FALSE /\ (IF build.i > 2 THEN Throws("delete") ELSE Goes("body"))
    BY <1>0, <1>8, <2>1, GoesTo, ThrowsTo DEF Cleanup
  <2>2. CASE /\ UNCHANGED cluster
             /\ build' = [build EXCEPT
                    !.tries = @ + 1,
                    !.at = IF build.tries + 1 < SetupTries THEN "setup" ELSE "delete",
                    !.failed = build.tries + 1 >= SetupTries]
    <3>0. build.tries + 1 \in 0..SetupTries
      BY <1>0, <1>8 DEF Cleanup, Fields
    <3> DEFINE place == IF build.tries + 1 < SetupTries THEN "setup" ELSE "delete"
               thrown == build.tries + 1 >= SetupTries
    <3>2. place \in Places /\ thrown \in BOOLEAN
      BY DEF Places
    <3>3. build' = [build EXCEPT !.tries = build.tries + 1, !.at = place, !.failed = thrown]
      BY <2>2
    <3> HIDE DEF place, thrown
    <3>1. /\ build' \in BuildStates
          /\ build'.at = place
          /\ build'.number = build.number /\ build'.onlyOnFail = build.onlyOnFail
          /\ build'.saved = build.saved /\ build'.tries = build.tries + 1 /\ build'.i = build.i
      BY <1>0, <3>0, <3>2, <3>3 DEF BuildStates
    <3> QED
      BY <1>0, <1>8, <2>2, <3>1 DEF Cleanup, Fields, place
  <2> QED
    BY <1>8, <2>1, <2>2 DEF Cleanup
<1>9. CASE Body
    BY <1>0, <1>9, GoesTo, ThrowsTo DEF Body
<1>10. CASE Delete
    BY <1>0, <1>10, GoesTo, ThrowsTo DEF Delete
<1>11. CASE NothingToStop
  <2>1. ~build.saved
    BY <1>0, <1>11 DEF NothingToStop, NoFile, Fields
  <2> QED
    BY <1>0, <1>11, <2>1, GoesTo DEF NothingToStop
<1>12. CASE Stop
  <2>1. CASE containers' = containers \ {file.id} /\ Goes("archive")
    <3>1. build.saved => file.id = build.number
      BY DEF FileIsOwn
    <3> QED
      BY <1>0, <1>12, <2>1, <3>1, GoesTo DEF Stop
  <2>2. CASE UNCHANGED containers /\ build' = [build EXCEPT !.at = "archive", !.stopLost = TRUE]
    <3>1. /\ build' \in BuildStates
          /\ build'.at = "archive" /\ build'.number = build.number /\ build'.onlyOnFail = build.onlyOnFail
          /\ build'.saved = build.saved /\ build'.stopLost = TRUE /\ build'.failed = build.failed
      BY <1>0, <2>2 DEF BuildStates, Places
    <3> QED
      BY <1>0, <1>12, <2>2, <3>1 DEF Stop
  <2> QED
    BY <1>12, <2>1, <2>2 DEF Stop
<1>13. CASE Archive
  <2>0. /\ build.saved => file.onlyOnFail = build.onlyOnFail
        /\ file \in Files /\ Wanted \in BOOLEAN
    BY <1>0 DEF Wanted
  <2>1. CASE build' = [build EXCEPT !.archived = Wanted, !.at = IF build.failed THEN "threw" ELSE "returned"]
    <3>1. /\ build' \in BuildStates
          /\ build'.at = IF build.failed THEN "threw" ELSE "returned"
          /\ build'.number = build.number /\ build'.onlyOnFail = build.onlyOnFail
          /\ build'.saved = build.saved /\ build'.stopLost = build.stopLost /\ build'.archived = Wanted
      BY <1>0, <2>0, <2>1 DEF BuildStates, Places
    <3>2. build.saved => Wanted = (~build.onlyOnFail \/ build.failed)
      BY <1>0, <2>0 DEF Wanted, Fields
    <3> QED
      BY <1>0, <1>13, <2>0, <3>1, <3>2 DEF Archive, Fields
  <2>2. CASE build' = [build EXCEPT !.at = "threw", !.failed = TRUE, !.archiveLost = TRUE]
    <3>1. /\ build' \in BuildStates
          /\ build'.at = "threw" /\ build'.number = build.number /\ build'.onlyOnFail = build.onlyOnFail
          /\ build'.saved = build.saved /\ build'.stopLost = build.stopLost /\ build'.archiveLost = TRUE
      BY <1>0, <2>2 DEF BuildStates, Places
    <3> QED
      BY <1>0, <1>13, <3>1 DEF Archive
  <2> QED
    BY <1>13, <2>1, <2>2 DEF Archive
<1>14. CASE Kill
    BY <1>0, <1>14, GoesTo DEF Kill
<1>15. CASE NextBuild
  <2>1. PICK only \in BOOLEAN : build' = New(build.number + 1, only)
    BY <1>15 DEF NextBuild
  <2>2. build.number + 1 \in 1..Builds
    BY <1>0, <1>15 DEF NextBuild, Fields
  <2>3. file' \in Files
    BY <1>15 DEF NextBuild, Files
  <2> QED
    BY <1>15, <2>1, <2>2, <2>3, NewBuild DEF NextBuild
<1>16. CASE UNCHANGED vars
    BY <1>16 DEF vars
<1> QED
    BY <1>1, <1>2, <1>3, <1>4, <1>5, <1>6, <1>7, <1>8, <1>9, <1>10, <1>11, <1>12, <1>13, <1>14, <1>15, <1>16
    DEF Next, Proceed, Terminated

(* The invariant holds in every state of the agent.                                  *)
THEOREM Invariant == Spec => []IInv
<1> QED
    BY InitIInv, StepIInv, PTL DEF Spec

(* The variables keep their types; setupKind never has more tries than it should.     *)
THEOREM TypeCorrect == Spec => []TypeOK
<1>1. IInv => TypeOK
    BY DEF IInv
<1> QED
    BY <1>1, Invariant, PTL

(* However many builds were killed before it, and however its cluster began, a build  *)
(* that returns has deleted it (withKindEnv's finally).                              *)
THEOREM LeavesNoCluster == Spec => []NoClusterLeft
<1>1. IInv => NoClusterLeft
    BY DEF IInv
<1> QED
    BY <1>1, Invariant, PTL

(* The container that stop() stops is the one that this build's start() ran.          *)
THEOREM StopsItsBeat == Spec => []BeatIsStopped
<1>1. IInv => BeatIsStopped
    BY DEF IInv
<1> QED
    BY <1>1, Invariant, PTL

(* archiveOnlyOnFail decides as documented, whichever clause threw.                   *)
THEOREM ArchivesAsAsked == Spec => []ArchivedAsAsked
<1>1. IInv => ArchivedAsAsked
    BY DEF IInv
<1> QED
    BY <1>1, Invariant, PTL
====================================================================================
