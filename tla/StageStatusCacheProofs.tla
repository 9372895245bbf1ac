------------------------- MODULE StageStatusCacheProofs -------------------------
(* Theorems about StageStatusCache, for any branches, ids, commits, workspaces   *)
(* and number of retries.                                                        *)
EXTENDS StageStatusCache, TLAPS

(* A build sees its own commit's sha, or none.                                   *)
ShasAreSeen == \A b \in Branches : build[b].sha \in {build[b].commit, Unset}

(* A call that is saving, or has saved, did run its body to success.             *)
SavingIsEarned ==
    \A b \in Branches : call[b].at \in {"write", "upload", "ok"} => Stage(b) \in succeeded

(* A call that has not ended may still try to upload.                            *)
TriesLeft == \A b \in Branches : call[b].at \notin Ended => call[b].tries < Retries

(* What makes the two properties inductive.                                      *)
IInv ==
    /\ TypeOK
    /\ ShasAreSeen
    /\ TriesLeft
    /\ SavingIsEarned
    /\ FilesAreEarned
    /\ SkipIsSound

LEMMA InitIInv == Init => IInv
  BY StageAssumption DEF Init, IInv, TypeOK, ShasAreSeen, TriesLeft, SavingIsEarned,
     FilesAreEarned, SkipIsSound, BuildOf, ShaSeen, Shas, Places, Ended

LEMMA KeyTypes ==
  ASSUME TypeOK, NEW b \in Branches
  PROVE  /\ Key(b) \in Ids \X Shas
         /\ Stage(b) \in Ids \X Commits
         /\ ShasAreSeen /\ build[b].sha # Unset => Key(b) = Stage(b)
         /\ ShasAreSeen /\ Key(b) \in Ids \X Commits => Key(b) = Stage(b)
  BY StageAssumption DEF TypeOK, BuildOf, Key, Stage, StageStatusId, Shas, ShasAreSeen

(* Steps that only move a call of one branch b, with none of its new place in    *)
(* need of a success, keep the invariant.                                        *)
LEMMA StepIInv == IInv /\ [Next]_vars => IInv'
<1> USE StageAssumption
<1> SUFFICES ASSUME IInv, [Next]_vars PROVE IInv'
  OBVIOUS
<1> USE DEF IInv
<1>1. ASSUME NEW b \in Branches, NEW id \in Ids, NEW always \in BOOLEAN, Call(b, id, always)
      PROVE  IInv'
  <2>1. TypeOK'
    BY <1>1 DEF Call, TypeOK, Places, Ended
  <2>2. /\ ShasAreSeen' /\ TriesLeft' /\ FilesAreEarned'
        /\ \A c \in Branches : call'[c].at \in {"write", "upload", "ok", "skipped"}
                                  => call'[c] = call[c]
    BY <1>1 DEF Call, Goto, TypeOK, ShasAreSeen, TriesLeft, FilesAreEarned, Ended
  <2>3. SavingIsEarned' /\ SkipIsSound'
    BY <1>1, <2>2 DEF Call, TypeOK, SavingIsEarned, SkipIsSound, Stage
  <2> QED BY <2>1, <2>2, <2>3
<1>2. ASSUME NEW b \in Branches, Fetch(b)
      PROVE  IInv'
  <2>1. TypeOK'
    <3>1. local' \in [Workspaces -> SUBSET (Ids \X Shas)]
      BY <1>2, KeyTypes DEF Fetch, TypeOK, BuildOf
    <3> QED BY <1>2, <3>1 DEF Fetch, Goto, TypeOK, Places, Ended
  <2>2. ShasAreSeen' /\ TriesLeft' /\ FilesAreEarned'
    BY <1>2 DEF Fetch, Goto, TypeOK, ShasAreSeen, TriesLeft, FilesAreEarned, Ended
  <2>3. SavingIsEarned' /\ SkipIsSound'
    BY <1>2 DEF Fetch, Goto, TypeOK, SavingIsEarned, SkipIsSound, Stage
  <2> QED BY <2>1, <2>2, <2>3
<1>3. ASSUME NEW b \in Branches, Decide(b)
      PROVE  IInv'
  <2>1. TypeOK'
    BY <1>3 DEF Decide, Goto, TypeOK, Places, Ended
  <2>2. ShasAreSeen' /\ TriesLeft' /\ FilesAreEarned'
    BY <1>3 DEF Decide, Goto, TypeOK, ShasAreSeen, TriesLeft, FilesAreEarned, Ended
  <2>3. SavingIsEarned'
    BY <1>3 DEF Decide, Goto, TypeOK, SavingIsEarned, Stage
  <2>4. SkipIsSound'
    <3>1. call'[b].at = "skipped" /\ build[b].sha # Unset => Stage(b) \in succeeded
      BY <1>3, KeyTypes DEF Decide, Goto, TypeOK, Places, Ended, FilesAreEarned, BuildOf
    <3> QED BY <1>3, <3>1 DEF Decide, Goto, TypeOK, SkipIsSound, Stage
  <2> QED BY <2>1, <2>2, <2>3, <2>4
<1>4. ASSUME NEW b \in Branches, BodySucceeds(b)
      PROVE  IInv'
  <2>1. TypeOK'
    BY <1>4, KeyTypes DEF BodySucceeds, Goto, TypeOK, Places, Ended
  <2>2. ShasAreSeen' /\ TriesLeft' /\ FilesAreEarned'
    BY <1>4 DEF BodySucceeds, Goto, TypeOK, ShasAreSeen, TriesLeft, FilesAreEarned, Ended
  <2>3. SavingIsEarned' /\ SkipIsSound'
    BY <1>4 DEF BodySucceeds, Goto, TypeOK, SavingIsEarned, SkipIsSound, Stage
  <2> QED BY <2>1, <2>2, <2>3
<1>5. ASSUME NEW b \in Branches, BodyFails(b) \/ Abort(b)
      PROVE  IInv'
  <2>1. Goto(b, "failed") /\ UNCHANGED <<build, calls, local, bucket, succeeded>>
    BY <1>5 DEF BodyFails, Abort
  <2>2. TypeOK'
    BY <2>1 DEF Goto, TypeOK, Places, Ended
  <2>3. ShasAreSeen' /\ TriesLeft' /\ FilesAreEarned'
    BY <2>1 DEF Goto, TypeOK, ShasAreSeen, TriesLeft, FilesAreEarned, Ended
  <2>4. SavingIsEarned' /\ SkipIsSound'
    BY <2>1 DEF Goto, TypeOK, SavingIsEarned, SkipIsSound, Stage
  <2> QED BY <2>2, <2>3, <2>4
<1>6. ASSUME NEW b \in Branches, WriteStatus(b)
      PROVE  IInv'
  <2>1. TypeOK'
    BY <1>6, KeyTypes DEF WriteStatus, Goto, TypeOK, Places, Ended, BuildOf
  <2>2. Key(b) \in Ids \X Commits => Key(b) \in succeeded
    BY <1>6, KeyTypes DEF WriteStatus, SavingIsEarned
  <2>3. ShasAreSeen' /\ TriesLeft' /\ FilesAreEarned'
    BY <1>6, <2>2 DEF WriteStatus, Goto, TypeOK, ShasAreSeen, TriesLeft, FilesAreEarned, Ended
  <2>4. SavingIsEarned' /\ SkipIsSound'
    BY <1>6 DEF WriteStatus, Goto, TypeOK, SavingIsEarned, SkipIsSound, Stage
  <2> QED BY <2>1, <2>3, <2>4
<1>7. ASSUME NEW b \in Branches, Upload(b) \/ UploadFails(b)
      PROVE  IInv'
  <2>1. Stored(b) \subseteq bucket \cup {Key(b)} /\ Key(b) \in Ids \X Shas
    BY KeyTypes DEF Stored
  <2>2. bucket' \subseteq bucket \cup {Key(b)}
    BY <1>7, <2>1 DEF Upload, UploadFails, TryFails
  <2>3. call[b].tries < Retries /\ call[b].at = "upload"
    BY <1>7 DEF Upload, UploadFails, TryFails, TriesLeft, Ended
  <2>4. PICK place \in {"ok", "upload", "failed"} :
          /\ call' = [call EXCEPT ![b] = [@ EXCEPT !.tries = call[b].tries + 1, !.at = place]]
          /\ place = "upload" => call[b].tries + 1 < Retries
    BY <1>7 DEF Upload, UploadFails, TryFails
  <2>5. UNCHANGED <<build, calls, local, succeeded>>
    BY <1>7 DEF Upload, UploadFails, TryFails
  <2>6. call[b].tries + 1 \in 0..Retries
    BY <2>3 DEF TypeOK
  <2>7. TypeOK'
    <3>1. call' \in [Branches -> [at : Places, id : Ids, always : BOOLEAN, tries : 0..Retries]]
      BY <2>4, <2>6 DEF TypeOK, Places, Ended
    <3> QED BY <2>1, <2>2, <2>5, <3>1 DEF TypeOK
  <2>8. Key(b) \in Ids \X Commits => Key(b) \in succeeded
    BY <2>3, KeyTypes DEF SavingIsEarned
  <2>9. ShasAreSeen' /\ FilesAreEarned'
    BY <2>2, <2>5, <2>8 DEF TypeOK, ShasAreSeen, FilesAreEarned
  <2>10. TriesLeft'
    <3>1. call'[b].at \notin Ended => call'[b].tries < Retries
      BY <2>4, <2>6 DEF TypeOK, Ended
    <3> QED BY <2>4, <3>1 DEF TypeOK, TriesLeft
  <2>11. SavingIsEarned' /\ SkipIsSound'
    BY <2>3, <2>4, <2>5 DEF TypeOK, SavingIsEarned, SkipIsSound, Stage
  <2> QED BY <2>7, <2>9, <2>10, <2>11
<1>8. ASSUME NEW w \in Workspaces, DeleteDir(w)
      PROVE  IInv'
  BY <1>8 DEF DeleteDir, TypeOK, ShasAreSeen, TriesLeft, SavingIsEarned, FilesAreEarned,
     SkipIsSound, Stage
<1>9. CASE UNCHANGED vars
  BY <1>9 DEF vars, TypeOK, ShasAreSeen, TriesLeft, SavingIsEarned, FilesAreEarned,
     SkipIsSound, Stage
<1> QED
  BY <1>1, <1>2, <1>3, <1>4, <1>5, <1>6, <1>7, <1>8, <1>9 DEF Next, Proceed, Terminated

(* Every reachable state satisfies the strengthened invariant.                   *)
THEOREM Invariant == Spec => []IInv
  BY InitIInv, StepIInv, PTL DEF Spec

(* The variables keep their types: in particular no call tries to upload more    *)
(* than Retries times.                                                           *)
THEOREM TypeCorrect == Spec => []TypeOK
  BY Invariant, PTL DEF IInv

(* A status file for a commit was left by a success of the stage for that commit *)
(* (saveStageStatus and readStageStatus, stageStatusCache.groovy).               *)
THEOREM EarnedFiles == Spec => []FilesAreEarned
  BY Invariant, PTL DEF IInv

(* A branch whose GIT_BASE_COMMIT is set skips only what succeeded for its       *)
(* commit, whatever other branches, failed uploads and clean-ups do meanwhile.   *)
THEOREM SoundSkips == Spec => []SkipIsSound
  BY Invariant, PTL DEF IInv

LEMMA OkStep == IInv /\ OkIsPublished /\ [Next]_vars => OkIsPublished'
<1> SUFFICES ASSUME IInv, OkIsPublished, [Next]_vars,
                    NEW c \in Branches, call'[c].at = "ok"
             PROVE  (call[c].id \in Nested \/ Key(c) \in bucket)'
  BY StepIInv DEF OkIsPublished, IInv, SavingIsEarned
<1>1. bucket \subseteq bucket' /\ UNCHANGED build
  BY DEF Next, vars, Proceed, Terminated, Call, Fetch, Decide, BodySucceeds, BodyFails,
     WriteStatus, Upload, UploadFails, TryFails, Stored, DeleteDir, Abort
<1>2. CASE call'[c] = call[c]
  BY <1>1, <1>2 DEF OkIsPublished, Key
<1>3. CASE call'[c] # call[c]
  <2> USE <1>3 DEF IInv, TypeOK
  <2>1. ASSUME NEW b \in Branches, NEW id \in Ids, NEW always \in BOOLEAN, Call(b, id, always)
        PROVE  FALSE
    BY <2>1 DEF Call
  <2>2. ASSUME NEW b \in Branches, NEW place \in Places \ {"ok"}, Goto(b, place)
        PROVE  FALSE
    BY <2>2 DEF Goto
  <2>3. ASSUME NEW b \in Branches, UploadFails(b)
        PROVE  FALSE
    BY <2>3 DEF UploadFails, TryFails
  <2>4. ASSUME NEW b \in Branches, Upload(b)
        PROVE  Upload(c)
    BY <2>4 DEF Upload
  <2>5. Upload(c)
    BY <2>1, <2>2, <2>3, <2>4 DEF Next, vars, Proceed, Terminated, Fetch, Decide, BodySucceeds,
       BodyFails, WriteStatus, DeleteDir, Abort, Places, Ended
  <2> QED BY <2>5 DEF Upload, Stored, Key
<1> QED BY <1>2, <1>3

(* A call that ran its body and returned has published its status for good.      *)
THEOREM PublishedOk == Spec => []OkIsPublished
<1>1. Init => OkIsPublished
  BY DEF Init, OkIsPublished
<1> QED BY <1>1, OkStep, Invariant, PTL DEF Spec
--------------------------------------------------------------------------------
(* A runAlways call, or one of a user's build, does not look for a status file.  *)
InsistentRuns ==
    \A b \in Branches : Request(b).insists => call[b].at \notin {"read", "decide"}

LEMMA InsistStep == IInv /\ InsistentRuns /\ [Next]_vars => InsistentRuns'
<1> SUFFICES ASSUME IInv, InsistentRuns, [Next]_vars,
                    NEW c \in Branches, call'[c].at \in {"read", "decide"}
             PROVE  ~Request(c).insists'
  BY DEF InsistentRuns, Request
<1> USE DEF IInv, TypeOK
<1>1. UNCHANGED build
  BY DEF Next, vars, Proceed, Terminated, Call, Fetch, Decide, BodySucceeds, BodyFails,
     WriteStatus, Upload, UploadFails, TryFails, DeleteDir, Abort
<1>2. ASSUME NEW b \in Branches, NEW id \in Ids, NEW always \in BOOLEAN, Call(b, id, always)
      PROVE  ~Request(c).insists'
  <2>1. CASE b = c
    BY <1>1, <1>2, <2>1 DEF Call, Request
  <2>2. CASE b # c
    BY <1>1, <1>2, <2>2 DEF Call, Request, InsistentRuns
  <2> QED BY <2>1, <2>2
<1>3. ASSUME NEW b \in Branches, NEW place \in Places \ {"read", "decide"}, Goto(b, place)
      PROVE  ~Request(c).insists'
  BY <1>1, <1>3 DEF Goto, Request, InsistentRuns
<1>4. ASSUME NEW b \in Branches, Fetch(b)
      PROVE  ~Request(c).insists'
  BY <1>1, <1>4 DEF Fetch, Goto, Request, InsistentRuns
<1>5. ASSUME NEW b \in Branches, Upload(b) \/ UploadFails(b)
      PROVE  ~Request(c).insists'
  <2>1. call'[b].at \in {"ok", "upload", "failed"}
    BY <1>5 DEF Upload, UploadFails, TryFails
  <2>2. b # c => call'[c] = call[c]
    BY <1>5 DEF Upload, UploadFails, TryFails
  <2> QED BY <1>1, <2>1, <2>2 DEF Request, InsistentRuns
<1>6. CASE UNCHANGED call
  BY <1>1, <1>6 DEF Request, InsistentRuns
<1> QED
  BY <1>2, <1>3, <1>4, <1>5, <1>6 DEF Next, vars, Proceed, Terminated, Decide, BodySucceeds,
     BodyFails, WriteStatus, DeleteDir, Abort, Places, Ended

LEMMA MemoStep ==
  IInv /\ InsistentRuns /\ Exported /\ [Next]_vars => Exported' /\ [Memo!Next]_(Memo!vars)
<1> SUFFICES ASSUME IInv, Exported, InsistentRuns, [Next]_vars
             PROVE  Exported' /\ [Memo!Next]_(Memo!vars)
  OBVIOUS
<1> USE DEF IInv
<1>1. UNCHANGED build /\ Exported'
  BY DEF Next, vars, Proceed, Terminated, Call, Fetch, Decide, BodySucceeds, BodyFails,
     WriteStatus, Upload, UploadFails, TryFails, DeleteDir, Abort, Exported
<1>2. ASSUME NEW b \in Branches, NEW id \in Ids, NEW always \in BOOLEAN, Call(b, id, always)
      PROVE  Memo!Ask(b)
  <2>1. Request(b)' \in Memo!Requests
    BY <1>2 DEF Call, Request, Stage, TypeOK, BuildOf, Memo!Requests
  <2>2. [c \in Branches |-> Request(c)]' =
           [[c \in Branches |-> Request(c)] EXCEPT ![b] = Request(b)']
    BY <1>2 DEF Call, Request, Stage, TypeOK
  <2>3. [c \in Branches |-> Phase(c)]' = [[c \in Branches |-> Phase(c)] EXCEPT ![b] = "asked"]
    BY <1>2 DEF Call, Phase, TypeOK
  <2>4. Phase(b) \in Memo!Idle /\ UNCHANGED succeeded
    BY <1>2 DEF Call, Phase, Memo!Idle, Ended
  <2> QED BY <2>1, <2>2, <2>3, <2>4 DEF Memo!Ask
(* A step that moves b to a place leaves every request and every other phase.    *)
<1>3. ASSUME NEW b \in Branches, NEW place \in Places,
             call' = [call EXCEPT ![b].at = place]
                \/ call' = [call EXCEPT ![b] = [@ EXCEPT !.tries = call[b].tries + 1, !.at = place]]
      PROVE  /\ [c \in Branches |-> Request(c)]' = [c \in Branches |-> Request(c)]
             /\ [c \in Branches |-> Phase(c)]' =
                   [[c \in Branches |-> Phase(c)] EXCEPT ![b] = Phase(b)']
             /\ call'[b].at = place
  <2>1. call'[b].id = call[b].id /\ call'[b].always = call[b].always /\ call'[b].at = place
    BY <1>3 DEF TypeOK
  <2>2. \A c \in Branches : c # b => call'[c] = call[c]
    BY <1>3 DEF TypeOK
  <2>3. \A c \in Branches : Request(c)' = Request(c)
    BY <1>1, <2>1, <2>2 DEF Request, Stage
  <2>4. \A c \in Branches : c # b => Phase(c)' = Phase(c)
    BY <2>2 DEF Phase
  <2> QED BY <2>1, <2>3, <2>4
<1>4. ASSUME NEW b \in Branches, Fetch(b)
      PROVE  UNCHANGED Memo!vars
  <2>1. call' = [call EXCEPT ![b].at = "decide"] /\ call[b].at = "read" /\ UNCHANGED succeeded
    BY <1>4 DEF Fetch, Goto
  <2>2. Phase(b)' = Phase(b)
    BY <1>3, <2>1 DEF Phase, Places
  <2> QED BY <1>3, <2>1, <2>2 DEF Memo!vars, Places
<1>5. ASSUME NEW b \in Branches, Decide(b)
      PROVE  [Memo!Next]_(Memo!vars)
  <2>1. CASE Key(b) \in local[build[b].ws]
    <3>1. call' = [call EXCEPT ![b].at = "skipped"] /\ UNCHANGED succeeded
      BY <1>5, <2>1 DEF Decide, Goto
    <3>2. Stage(b) \in succeeded
      BY <2>1, KeyTypes DEF FilesAreEarned, Exported, TypeOK, BuildOf
    <3>3. call[b].at = "decide" /\ call'[b].at = "skipped"
      BY <1>5, <3>1 DEF Decide, TypeOK
    <3>4. Phase(b) = "asked" /\ Phase(b)' = "skipped" /\ ~Request(b).insists
      BY <3>3 DEF Phase, InsistentRuns
    <3>5. Memo!Skip(b)
      BY <1>3, <3>1, <3>2, <3>4 DEF Memo!Skip, Request, Places, Ended
    <3> QED BY <3>5 DEF Memo!Next
  <2>2. CASE Key(b) \notin local[build[b].ws]
    <3>1. call' = [call EXCEPT ![b].at = "body"] /\ call[b].at = "decide" /\ UNCHANGED succeeded
      BY <1>5, <2>2 DEF Decide, Goto
    <3>2. Phase(b)' = Phase(b)
      BY <1>3, <3>1 DEF Phase, Places
    <3> QED BY <1>3, <3>1, <3>2 DEF Memo!vars, Places
  <2> QED BY <2>1, <2>2
<1>6. ASSUME NEW b \in Branches, BodySucceeds(b)
      PROVE  Memo!Run(b)
  <2>1. call' = [call EXCEPT ![b].at = "write"] /\ call[b].at = "body"
    BY <1>6 DEF BodySucceeds, Goto
  <2>2. call'[b].at = "write"
    BY <2>1 DEF TypeOK
  <2>3. Phase(b) = "asked" /\ Phase(b)' = "ran"
    BY <2>1, <2>2 DEF Phase
  <2> QED BY <1>3, <1>6, <2>1, <2>3 DEF Memo!Run, BodySucceeds, Request, Places
<1>7. ASSUME NEW b \in Branches, BodyFails(b) \/ Abort(b)
      PROVE  Memo!Fail(b)
  <2>1. /\ call' = [call EXCEPT ![b].at = "failed"] /\ UNCHANGED succeeded
        /\ call[b].at \in Places \ Ended
    BY <1>7 DEF BodyFails, Abort, Goto, TypeOK, Places, Ended
  <2>2. call'[b].at = "failed"
    BY <2>1 DEF TypeOK
  <2>3. Phase(b) \in {"asked", "ran"} /\ Phase(b)' = "failed"
    BY <2>1, <2>2 DEF Phase, Places, Ended
  <2> QED BY <1>3, <2>1, <2>3 DEF Memo!Fail, Places, Ended
<1>8. ASSUME NEW b \in Branches, WriteStatus(b)
      PROVE  UNCHANGED Memo!vars
  <2>1. call' = [call EXCEPT ![b].at = "upload"] /\ call[b].at = "write" /\ UNCHANGED succeeded
    BY <1>8 DEF WriteStatus, Goto
  <2>2. call'[b].at = "upload"
    BY <2>1 DEF TypeOK
  <2>3. Phase(b)' = Phase(b)
    BY <2>1, <2>2 DEF Phase
  <2> QED BY <1>3, <2>1, <2>3 DEF Memo!vars, Places
<1>9. ASSUME NEW b \in Branches, Upload(b) \/ UploadFails(b)
      PROVE  [Memo!Next]_(Memo!vars)
  <2>1. PICK place \in {"ok", "upload", "failed"} :
           call' = [call EXCEPT ![b] = [@ EXCEPT !.tries = call[b].tries + 1, !.at = place]]
    BY <1>9 DEF Upload, UploadFails, TryFails
  <2>2. call[b].at = "upload" /\ UNCHANGED succeeded
    BY <1>9 DEF Upload, UploadFails, TryFails
  <2>3. /\ UNCHANGED [c \in Branches |-> Request(c)]
        /\ [c \in Branches |-> Phase(c)]' =
              [[c \in Branches |-> Phase(c)] EXCEPT ![b] = Phase(b)']
        /\ call'[b].at = place
    BY <1>3, <2>1 DEF Places, Ended
  <2>4. Phase(b) = "ran" /\ Phase(b)' = IF place = "upload" THEN "ran" ELSE place
    BY <2>2, <2>3 DEF Phase
  <2>5. place = "ok" => Memo!Finish(b)
    BY <2>2, <2>3, <2>4 DEF Memo!Finish
  <2>6. place = "failed" => Memo!Fail(b)
    BY <2>2, <2>3, <2>4 DEF Memo!Fail
  <2>7. place = "upload" => UNCHANGED Memo!vars
    BY <2>2, <2>3, <2>4 DEF Memo!vars
  <2> QED BY <2>1, <2>5, <2>6, <2>7 DEF Memo!Next
<1>10. CASE UNCHANGED <<build, call, succeeded>>
  <2>1. \A b \in Branches : Request(b)' = Request(b) /\ Phase(b)' = Phase(b)
    BY <1>10 DEF Request, Phase, Stage
  <2>2. /\ UNCHANGED [b \in Branches |-> Request(b)]
        /\ UNCHANGED [b \in Branches |-> Phase(b)]
    BY <2>1, Zenon
  <2> QED BY <1>1, <1>10, <2>2 DEF Memo!vars
<1> QED
  BY <1>1, <1>2, <1>4, <1>5, <1>6, <1>7, <1>8, <1>9, <1>10
  DEF Next, vars, Proceed, Terminated, DeleteDir, Memo!Next

LEMMA MemoInit == Init => Memo!Init
  BY DEF Init, Memo!Init, Memo!Requests, Request, Stage, Phase, BuildOf, InsistentRuns

(* Among builds that exported GIT_BASE_COMMIT the step is the memory of module   *)
(* StageMemo: "skip stages when we know that we executed that stage for that     *)
(* commit. [...] User triggered builds will execute all stages always."          *)
THEOREM Refinement == ExportedSpec => ImplementsMemo
<1>1. Init => InsistentRuns
  BY DEF Init, InsistentRuns
<1>2. Exported /\ [Next]_vars => Exported'
  BY MemoStep DEF Next, vars, Proceed, Terminated, Call, Fetch, Decide, BodySucceeds,
     BodyFails, WriteStatus, Upload, UploadFails, TryFails, DeleteDir, Abort, Exported
<1> QED
  BY <1>1, <1>2, InitIInv, StepIInv, InsistStep, MemoInit, MemoStep, PTL
  DEF ExportedInit, ExportedSpec, ImplementsMemo, Memo!Spec
================================================================================
