----------------------------- MODULE PrCommentProofs -----------------------------
(* Theorems about PrComment, for any number of builds, comments and other people's  *)
(* comments, and any page and integer sizes within PrComment's assumption; and      *)
(* about GithubApi, through which builds read the comments and the rest of GitHub.  *)
EXTENDS PrComment, GithubApi, FiniteSetTheorems, TLAPS

(* GitHub's ids go up, and a comment keeps its own until it is deleted.             *)
CommentsOK ==
    /\ Len(comments) <= Others + MaxComments
    /\ \A i \in 1..Len(comments) :
          /\ comments[i].id \in {0, FirstId + i - 1}
          /\ comments[i].marked => comments[i].id = FirstId + i - 1

(* Who runs with others knows it: of two running builds both have trouble.          *)
AloneOK ==
    /\ \A b \in Builds : build[b].at = "start" => ~build[b].trouble
    /\ \A b, o \in Builds : b # o /\ Running(b) /\ Running(o) => build[b].trouble

(* Without any trouble, the marked comment is the one that the artifact names, or   *)
(* that the one running build has found.                                            *)
Names(id, k, file) ==
    /\ k.at = "lookup" => id = file
    /\ k.at \in {"edit", "patch", "save"} => id = k.id
    /\ k.at \notin {"add", "post"}
Small == NextId - 1 <= MaxInt /\ Len(comments) <= PageSize
Calm == \A b \in Builds : ~build[b].trouble
OneOK ==
    Calm /\ Small =>
        \A i \in 1..Len(comments) : comments[i].marked =>
            /\ (\A b \in Builds : ~Running(b)) => comments[i].id = artifact
            /\ \A b \in Builds : Names(comments[i].id, build[b], artifact)

NoZero == \A b \in Builds : build[b].id # 0

IInv == TypeOK /\ CommentsOK /\ AloneOK /\ NoZero /\ EditsOwnComments /\ SavedIsMine /\ OneOK

LEMMA Numbers ==
  /\ FirstId \in Nat /\ MaxInt \in Nat /\ PageSize \in Nat /\ MaxComments \in Nat /\ Others \in Nat
  /\ FirstId > 0 /\ MaxInt > 0 /\ FirstId + Others + MaxComments <= 2 * (MaxInt + 1)
BY CommentAssumption

(* A comment's id survives the conversion, or becomes negative.                     *)
LEMMA Converted ==
  ASSUME NEW n \in Nat, n < 2 * (MaxInt + 1), n > 0
  PROVE  /\ AsInteger(n) \in Int /\ AsInteger(n) # 0
         /\ n <= MaxInt => AsInteger(n) = n
         /\ AsInteger(n) >= 0 => AsInteger(n) = n
<1>1. 2 * (MaxInt + 1) \in Nat BY Numbers
<1>2. ASSUME NEW m \in Nat, n < m PROVE n % m = n BY <1>2
<1>3. n % (2 * (MaxInt + 1)) = n BY <1>1, <1>2
<1> QED BY <1>3, Numbers DEF AsInteger

LEMMA Initially == Init => IInv
<1> SUFFICES ASSUME Init PROVE IInv OBVIOUS
<1>1. comments = [i \in 1..Others |-> [id |-> FirstId + i - 1, by |-> "somebody", marked |-> FALSE]]
  BY DEF Init
<1>2. \A i \in 1..Others : [id |-> FirstId + i - 1, by |-> "somebody", marked |-> FALSE] \in Comments
  <2> SUFFICES ASSUME NEW i \in 1..Others PROVE FirstId + i - 1 \in Ids BY DEF Comments
  <2> QED BY Numbers DEF Ids
<1>3. comments \in Seq(Comments) /\ Len(comments) = Others
  <2>1. comments \in [1..Others -> Comments] BY <1>1, <1>2
  <2>2. Others \in Nat BY Numbers
  <2> QED BY <2>1, <2>2
<1>4. \A b \in Builds : build[b] = [at |-> "start", id |-> ErrorId, trouble |-> FALSE] BY DEF Init
<1>5. build \in [Builds -> BuildStates] BY DEF Init, BuildStates, Places, ErrorId
<1>6. TypeOK
  <2>1. \A b \in Builds : build[b].at = "start" BY <1>4
  <2>2. artifact \in Int BY DEF Init, NoFile
  <2> QED BY <1>3, <1>5, <2>1, <2>2 DEF TypeOK
<1>7. CommentsOK BY <1>1, <1>3, Numbers DEF CommentsOK
<1>8. AloneOK /\ NoZero /\ SavedIsMine BY <1>4 DEF AloneOK, Running, NoZero, SavedIsMine, ErrorId
<1>9. EditsOwnComments
  <2> SUFFICES ASSUME NEW i \in 1..Others,
                      comments[i].id \in {artifact} \cup {build[b].id : b \in Builds}, comments[i].id # 0
               PROVE  FALSE
    BY <1>3 DEF EditsOwnComments
  <2>1. comments[i].id = FirstId + i - 1 /\ comments[i].id > 0 BY <1>1, Numbers
  <2>2. artifact = 0 /\ \A b \in Builds : build[b].id = -1000 BY <1>4 DEF Init, NoFile, ErrorId
  <2> QED BY <2>1, <2>2
<1>10. OneOK BY <1>1, <1>3 DEF OneOK
<1> QED BY <1>6, <1>7, <1>8, <1>9, <1>10 DEF IInv

(* What a call of GitHub does to the comments, when nobody deletes one.             *)
Kept ==
    /\ comments' \in Seq(Comments) /\ Len(comments') \in {Len(comments), Len(comments) + 1}
    /\ \A i \in 1..Len(comments) :
          /\ comments'[i].id = comments[i].id
          /\ comments[i].marked => comments'[i].marked
          /\ comments'[i].marked => comments[i].id # 0
    /\ Len(comments') = Len(comments) + 1 =>
          /\ Len(comments) < Others + MaxComments
          /\ comments'[Len(comments) + 1].id = NextId /\ comments'[Len(comments) + 1].marked

LEMMA Types ==
  ASSUME IInv
  PROVE  /\ comments \in Seq(Comments) /\ Len(comments) \in Nat /\ DOMAIN comments = 1..Len(comments)
         /\ build \in [Builds -> BuildStates] /\ artifact \in Int
         /\ NextId \in Nat /\ NextId = FirstId + Len(comments)
         /\ \A i \in 1..Len(comments) : comments[i] \in Comments
BY Numbers DEF IInv, TypeOK, NextId

LEMMA MarkedIds == ASSUME IInv, NEW i \in 1..Len(comments), comments[i].marked PROVE comments[i].id > 0
<1>1. comments[i].id = FirstId + i - 1 BY DEF IInv, CommentsOK
<1>2. i \in Nat /\ i >= 1 BY Types
<1> QED BY <1>1, <1>2, Numbers

LEMMA Untouched == ASSUME IInv, UNCHANGED comments PROVE Kept
<1>1. \A i \in 1..Len(comments) : comments[i].marked => comments[i].id # 0 BY MarkedIds
<1>2. comments \in Seq(Comments) /\ Len(comments) \in Nat BY Types
<1>3. Len(comments) # Len(comments) + 1 BY <1>2
<1> QED BY <1>1, <1>2, <1>3 DEF Kept

LEMMA Written ==
  ASSUME IInv, NEW b \in Builds, Write(b)
  PROVE  /\ Kept /\ Len(comments') = Len(comments)
         /\ \E i \in Position(build[b].id) : comments'[i].by = b
         /\ \A i \in 1..Len(comments) : comments'[i].marked => comments[i].marked \/ comments[i].id = build[b].id
<1>1. PICK i \in Position(build[b].id) : comments' = [comments EXCEPT ![i].by = b, ![i].marked = TRUE]
  BY DEF Write
<1> DEFINE new == [comments[i] EXCEPT !.by = b, !.marked = TRUE]
<1>2. i \in 1..Len(comments) /\ comments[i].id = build[b].id BY <1>1, Types DEF Position
<1>3. comments[i] \in Comments BY <1>2, Types
<1>4. new \in Comments /\ new.id = comments[i].id /\ new.by = b /\ new.marked BY <1>3 DEF Comments
<1>5. comments' = [comments EXCEPT ![i] = new] BY <1>1, <1>2, Types
<1> HIDE DEF new
<1>6. comments' \in Seq(Comments) /\ Len(comments') = Len(comments) BY <1>2, <1>4, <1>5, Types
<1>7. comments'[i] = new /\ \A j \in 1..Len(comments) : j # i => comments'[j] = comments[j]
  BY <1>2, <1>5, Types
<1>8. \A j \in 1..Len(comments) : comments'[j].marked => comments[j].id # 0
  BY <1>2, <1>7, MarkedIds DEF IInv, NoZero
<1>9. Kept BY <1>2, <1>4, <1>6, <1>7, <1>8, Types DEF Kept
<1> QED BY <1>1, <1>2, <1>4, <1>6, <1>7, <1>9

LEMMA AddedOne ==
  ASSUME IInv, NEW b \in Builds, Add(b)
  PROVE  /\ Kept /\ Len(comments') = Len(comments) + 1
         /\ comments'[Len(comments) + 1].by = b
         /\ \A i \in 1..Len(comments) : comments'[i] = comments[i]
<1> DEFINE new == [id |-> NextId, by |-> b, marked |-> TRUE]
<1>1. comments' = Append(comments, new) /\ Len(comments) < Others + MaxComments BY DEF Add
<1>2. NextId \in Ids BY <1>1, Types, Numbers DEF Ids
<1>3. new \in Comments /\ new.id = NextId /\ new.by = b /\ new.marked BY <1>2 DEF Comments
<1> HIDE DEF new
<1>4. /\ comments' \in Seq(Comments) /\ Len(comments') = Len(comments) + 1
      /\ comments'[Len(comments) + 1] = new /\ \A i \in 1..Len(comments) : comments'[i] = comments[i]
  BY <1>1, <1>3, Types
<1>5. \A i \in 1..Len(comments) : comments[i].marked => comments[i].id # 0 BY MarkedIds
<1> QED BY <1>1, <1>3, <1>4, <1>5, Types DEF Kept

LEMMA KeptComments == ASSUME IInv, Kept PROVE CommentsOK'
<1>1. Len(comments) \in Nat /\ Len(comments) <= Others + MaxComments BY Types DEF IInv, CommentsOK
<1>2. Len(comments') <= Others + MaxComments BY <1>1, Numbers DEF Kept
<1>3. ASSUME NEW i \in 1..Len(comments')
      PROVE  /\ comments'[i].id \in {0, FirstId + i - 1}
             /\ comments'[i].marked => comments'[i].id = FirstId + i - 1
  <2>1. CASE i \in 1..Len(comments)
    <3>1. comments[i].id \in {0, FirstId + i - 1} /\ (comments[i].marked => comments[i].id = FirstId + i - 1)
      BY <2>1 DEF IInv, CommentsOK
    <3>2. comments'[i].id = comments[i].id BY <2>1 DEF Kept
    <3>3. comments'[i].marked => comments'[i].id # 0 BY <2>1 DEF Kept
    <3> QED BY <3>1, <3>2, <3>3
  <2>2. CASE i \notin 1..Len(comments)
    <3>1. i = Len(comments) + 1 /\ Len(comments') = Len(comments) + 1 BY <1>1, <2>2 DEF Kept
    <3> QED BY <3>1, Types, Numbers DEF Kept
  <2> QED BY <2>1, <2>2
<1> QED BY <1>2, <1>3 DEF CommentsOK

(* A step of a running build b, which is then as new says.                          *)
LEMMA RunningSteps ==
  ASSUME IInv, Kept, NEW b \in Builds, Running(b), NEW new \in BuildStates, Become(b, new),
         new.at # "start", build[b].trouble => new.trouble, new.id # 0,
         new.at \in {"edit", "patch", "save"} => new.id # ErrorId,
         artifact' \in {artifact, build[b].id},
         \A i \in 1..Len(comments) : comments[i].id # 0 /\ comments[i].id = new.id => comments'[i].marked,
         new.at = "save" /\ ~new.trouble => \E i \in 1..Len(comments') : comments'[i].id = new.id /\ comments'[i].by = b,
         OneOK /\ Calm /\ Small' /\ Small /\ ~new.trouble =>
            \A i \in 1..Len(comments') : comments'[i].marked =>
               /\ new.at \in {"returned", "threw"} => comments'[i].id = artifact'
               /\ Names(comments'[i].id, new, artifact')
  PROVE  IInv'
<1>1. /\ build' \in [Builds -> BuildStates]
      /\ build'[b] = new /\ \A o \in Builds \ {b} : build'[o] = build[o]
  BY Types DEF Become
<1>2. TypeOK'
  <2>1. artifact' \in Int BY Types DEF BuildStates
  <2> QED BY <1>1, <2>1 DEF TypeOK, Kept, IInv
<1>3. CommentsOK' BY KeptComments
<1>4. NoZero' BY <1>1 DEF NoZero, IInv
<1>5. AloneOK' BY <1>1 DEF AloneOK, IInv, Running, Ended
<1>6. SavedIsMine'
  <2> SUFFICES ASSUME NEW o \in Builds, build'[o].at = "save", ~build'[o].trouble
               PROVE  \E i \in 1..Len(comments') : comments'[i].id = build'[o].id /\ comments'[i].by = o
    <3>1. DOMAIN comments' = 1..Len(comments') BY DEF Kept
    <3> QED BY <3>1 DEF SavedIsMine, Position
  <2>1. CASE o = b BY <1>1, <2>1
  <2>2. CASE o # b
    <3>1. Running(o) /\ ~build[o].trouble BY <1>1, <2>2 DEF Running, Ended
    <3> QED BY <2>2, <3>1 DEF IInv, AloneOK
  <2> QED BY <2>1, <2>2
<1>7. EditsOwnComments'
  <2> SUFFICES ASSUME NEW i \in 1..Len(comments'), comments'[i].id # 0,
                      comments'[i].id \in {artifact'} \cup {build'[o].id : o \in Builds}
               PROVE  comments'[i].marked
    <3>1. DOMAIN comments' = 1..Len(comments') BY DEF Kept
    <3> QED BY <3>1 DEF EditsOwnComments
  <2>1. CASE i \in 1..Len(comments)
    <3>1. comments'[i].id = comments[i].id BY <2>1 DEF Kept
    <3>2. CASE comments[i].id = new.id BY <2>1, <3>1, <3>2
    <3>3. CASE comments[i].id # new.id
      <4>1. comments[i].id \in {artifact} \cup {build[o].id : o \in Builds} BY <1>1, <3>1, <3>3
      <4>2. comments[i].marked BY <2>1, <3>1, <4>1, Types DEF IInv, EditsOwnComments
      <4> QED BY <2>1, <4>2 DEF Kept
    <3> QED BY <3>2, <3>3
  <2>2. CASE i \notin 1..Len(comments)
    <3>1. i = Len(comments) + 1 /\ Len(comments') = Len(comments) + 1 BY <2>2, Types DEF Kept
    <3> QED BY <3>1 DEF Kept
  <2> QED BY <2>1, <2>2
<1>8. OneOK'
  <2> SUFFICES ASSUME Calm', Small', NEW i \in 1..Len(comments'), comments'[i].marked
               PROVE  /\ (\A o \in Builds : ~Running(o))' => comments'[i].id = artifact'
                      /\ \A o \in Builds : Names(comments'[i].id, build'[o], artifact')
    BY DEF OneOK
  <2>1. Calm /\ ~new.trouble BY <1>1 DEF Calm
  <2>2. Small
    <3>1. Len(comments) \in Nat /\ Len(comments') \in Nat /\ Len(comments) <= Len(comments') BY Types DEF Kept
    <3>2. FirstId + Len(comments') - 1 <= MaxInt /\ Len(comments') <= PageSize BY <3>1, Numbers DEF Small, NextId
    <3> QED BY <3>1, <3>2, Numbers DEF Small, NextId
  <2>3. /\ new.at \in {"returned", "threw"} => comments'[i].id = artifact'
        /\ Names(comments'[i].id, new, artifact')
    BY <2>1, <2>2 DEF IInv
  <2>4. \A o \in Builds \ {b} : build'[o].at \in {"start", "returned", "threw"}
    BY <1>1, <2>1 DEF IInv, AloneOK, Calm, Running, Ended
  <2>5. (\A o \in Builds : ~Running(o))' => new.at \in {"returned", "threw"} BY <1>1 DEF Running, Ended
  <2>6. \A o \in Builds \ {b} : Names(comments'[i].id, build'[o], artifact') BY <2>4 DEF Names
  <2> QED BY <1>1, <2>3, <2>5, <2>6
<1> QED BY <1>2, <1>3, <1>4, <1>5, <1>6, <1>7, <1>8 DEF IInv

LEMMA Starts == ASSUME IInv, NEW b \in Builds, Start(b) PROVE IInv'
<1>1. PICK file \in {artifact, NoFile} :
        LET known == file # NoFile /\ file <= MaxInt
            begun == [at |-> IF known THEN After(file) ELSE "lookup",
                      id |-> IF known THEN file ELSE ErrorId,
                      trouble |-> \E o \in Builds \ {b} : Running(o)]
        IN build' = [o \in Builds |->
               IF o = b THEN begun ELSE [build[o] EXCEPT !.trouble = build[o].trouble \/ Running(o)]]
  BY DEF Start
<1> DEFINE known == file # NoFile /\ file <= MaxInt
<1> DEFINE at == IF known THEN After(file) ELSE "lookup"
<1> DEFINE id == IF known THEN file ELSE ErrorId
<1> DEFINE alone == \A o \in Builds \ {b} : ~Running(o)
<1>2. build[b].at = "start" /\ UNCHANGED <<comments, artifact>> BY DEF Start
<1>3. /\ build'[b] = [at |-> at, id |-> id, trouble |-> ~alone]
      /\ \A o \in Builds \ {b} : build'[o] = [build[o] EXCEPT !.trouble = build[o].trouble \/ Running(o)]
      /\ DOMAIN build' = Builds /\ build' = [o \in Builds |-> build'[o]]
  BY <1>1
<1>4. artifact \in Int /\ file \in Int BY Types DEF NoFile
<1>5. /\ at \in {"edit", "add", "lookup"} /\ id \in Int /\ id # 0 /\ id \in {artifact, ErrorId}
      /\ at = "edit" => id # ErrorId /\ id = artifact
      /\ at = "add" => id = ErrorId /\ id = artifact
  BY <1>4 DEF After, ErrorId, NoFile
<1> HIDE DEF known, at, id
<1>6. \A o \in Builds \ {b} :
        /\ build'[o] \in BuildStates /\ build'[o].at = build[o].at /\ build'[o].id = build[o].id
        /\ build'[o].trouble <=> build[o].trouble \/ Running(o)
  <2> SUFFICES ASSUME NEW o \in Builds \ {b}
               PROVE  /\ build'[o] \in BuildStates /\ build'[o].at = build[o].at /\ build'[o].id = build[o].id
                      /\ build'[o].trouble <=> build[o].trouble \/ Running(o)
    OBVIOUS
  <2>1. build[o] \in BuildStates BY Types
  <2> DEFINE trouble == build[o].trouble \/ Running(o)
  <2>2. trouble \in BOOLEAN OBVIOUS
  <2>3. build'[o] = [build[o] EXCEPT !.trouble = trouble] BY <1>3
  <2>4. trouble <=> build[o].trouble \/ Running(o) OBVIOUS
  <2> HIDE DEF trouble
  <2> QED BY <2>1, <2>2, <2>3, <2>4 DEF BuildStates
<1>7. /\ build'[b] \in BuildStates /\ build'[b].at = at /\ build'[b].id = id /\ (build'[b].trouble <=> ~alone)
  <2> DEFINE trouble == ~alone
  <2>1. trouble \in BOOLEAN /\ (trouble <=> ~alone) OBVIOUS
  <2>2. build'[b] = [at |-> at, id |-> id, trouble |-> trouble] BY <1>3
  <2>3. at \in Places BY <1>5 DEF Places
  <2> HIDE DEF trouble
  <2> QED BY <1>5, <2>1, <2>2, <2>3 DEF BuildStates
<1>8. build' \in [Builds -> BuildStates] BY <1>3, <1>6, <1>7
<1>9. TypeOK'
  <2>1. \A o \in Builds : build'[o].at \in {"edit", "patch", "save"} => build'[o].id # ErrorId
    BY <1>5, <1>6, <1>7 DEF IInv, TypeOK
  <2> QED BY <1>2, <1>8, <2>1 DEF IInv, TypeOK
<1>10. CommentsOK' /\ NoZero' BY <1>2, <1>5, <1>6, <1>7 DEF IInv, CommentsOK, NoZero
<1>11. ~Running(b) /\ \A o \in Builds \ {b} : Running(o)' <=> Running(o)
  BY <1>2, <1>6 DEF Running, Ended
<1>12. AloneOK'
  <2>1. \A o \in Builds : build'[o].at = "start" => ~build'[o].trouble
    BY <1>5, <1>6, <1>7 DEF IInv, AloneOK, Running
  <2>2. ASSUME NEW o \in Builds, NEW p \in Builds, o # p, Running(o)', Running(p)' PROVE build'[o].trouble
    <3>1. CASE o = b BY <1>7, <1>11, <2>2, <3>1
    <3>2. CASE o # b BY <1>6, <1>11, <2>2, <3>2
    <3> QED BY <3>1, <3>2
  <2> QED BY <2>1, <2>2 DEF AloneOK
<1>13. EditsOwnComments'
  <2> SUFFICES ASSUME NEW i \in DOMAIN comments, comments[i].id # 0,
                      comments[i].id \in {artifact} \cup {build'[o].id : o \in Builds}
               PROVE  comments[i].marked
    BY <1>2 DEF EditsOwnComments
  <2>1. comments[i].id # ErrorId
    <3>1. comments[i].id \in Nat BY Types, Numbers DEF Comments, Ids
    <3> QED BY <3>1 DEF ErrorId
  <2>2. comments[i].id \in {artifact} \cup {build[o].id : o \in Builds} BY <1>5, <1>6, <1>7, <2>1
  <2> QED BY <2>2 DEF IInv, EditsOwnComments
<1>14. SavedIsMine'
  <2>1. \A o \in Builds : build'[o].at = "save" /\ ~build'[o].trouble =>
          o # b /\ build[o].at = "save" /\ ~build[o].trouble /\ build'[o].id = build[o].id
    BY <1>5, <1>6, <1>7
  <2> QED BY <1>2, <2>1 DEF IInv, SavedIsMine, Position
<1>15. OneOK'
  <2> SUFFICES ASSUME Calm', Small', NEW i \in 1..Len(comments), comments[i].marked
               PROVE  /\ (\A o \in Builds : ~Running(o))' => comments[i].id = artifact
                      /\ \A o \in Builds : Names(comments[i].id, build'[o], artifact)
    BY <1>2 DEF OneOK
  <2>1. Small BY <1>2 DEF Small, NextId
  <2>2. \A o \in Builds : ~Running(o) BY <1>6, <1>7, <1>11 DEF Calm
  <2>3. Calm BY <1>2, <1>6 DEF Calm, IInv, AloneOK
  <2>4. comments[i].id = artifact BY <2>1, <2>2, <2>3 DEF IInv, OneOK
  <2>5. comments[i].id > 0 BY MarkedIds
  <2>6. Names(comments[i].id, build'[b], artifact)
    BY <1>5, <1>7, <2>4, <2>5 DEF Names, ErrorId
  <2>7. \A o \in Builds \ {b} : Names(comments[i].id, build'[o], artifact)
    BY <1>6, <2>2 DEF Names, Running, Ended
  <2> QED BY <2>4, <2>6, <2>7
<1> QED BY <1>9, <1>10, <1>12, <1>13, <1>14, <1>15 DEF IInv

LEMMA Deletes == ASSUME IInv, NEW d \in DOMAIN comments, Delete(d) PROVE IInv'
<1> DEFINE gone == [id |-> 0, by |-> "somebody", marked |-> FALSE]
<1>1. d \in 1..Len(comments) /\ comments' = [comments EXCEPT ![d] = gone] /\ artifact' = artifact
  BY Types DEF Delete
<1>2. gone \in Comments /\ gone.id = 0 /\ ~gone.marked BY DEF Comments
<1> HIDE DEF gone
<1>3. /\ comments' \in Seq(Comments) /\ Len(comments') = Len(comments) /\ DOMAIN comments' = 1..Len(comments)
      /\ comments'[d] = gone /\ \A i \in 1..Len(comments) : i # d => comments'[i] = comments[i]
  BY <1>1, <1>2, Types
<1>4. \A o \in Builds :
        /\ build'[o] \in BuildStates /\ build'[o].at = build[o].at /\ build'[o].id = build[o].id
        /\ build'[o].trouble <=> build[o].trouble \/ Running(o)
  <2> SUFFICES ASSUME NEW o \in Builds
               PROVE  /\ build'[o] \in BuildStates /\ build'[o].at = build[o].at /\ build'[o].id = build[o].id
                      /\ build'[o].trouble <=> build[o].trouble \/ Running(o)
    OBVIOUS
  <2>1. build[o] \in BuildStates BY Types
  <2> DEFINE trouble == build[o].trouble \/ Running(o)
  <2>2. trouble \in BOOLEAN OBVIOUS
  <2>3. build'[o] = [build[o] EXCEPT !.trouble = trouble] BY DEF Delete
  <2>4. trouble <=> build[o].trouble \/ Running(o) OBVIOUS
  <2> HIDE DEF trouble
  <2> QED BY <2>1, <2>2, <2>3, <2>4 DEF BuildStates
<1>5. build' \in [Builds -> BuildStates]
  <2>1. DOMAIN build' = Builds /\ build' = [o \in Builds |-> build'[o]] BY DEF Delete
  <2> QED BY <1>4, <2>1
<1>6. TypeOK' BY <1>1, <1>3, <1>4, <1>5 DEF IInv, TypeOK
<1>7. CommentsOK' BY <1>2, <1>3 DEF IInv, CommentsOK
<1>8. AloneOK' /\ NoZero' BY <1>4 DEF IInv, AloneOK, NoZero, Running, Ended
<1>9. EditsOwnComments'
  <2> SUFFICES ASSUME NEW i \in 1..Len(comments), comments'[i].id # 0,
                      comments'[i].id \in {artifact} \cup {build'[o].id : o \in Builds}
               PROVE  comments'[i].marked
    BY <1>1, <1>3 DEF EditsOwnComments
  <2>1. comments'[i] = comments[i] BY <1>2, <1>3
  <2>2. comments[i].id \in {artifact} \cup {build[o].id : o \in Builds} BY <1>4, <2>1
  <2> QED BY <2>1, <2>2, Types DEF IInv, EditsOwnComments
<1>10. SavedIsMine'
  <2>1. \A o \in Builds : ~(build'[o].at = "save" /\ ~build'[o].trouble) BY <1>4 DEF Running, Ended
  <2> QED BY <2>1 DEF SavedIsMine
<1>11. OneOK'
  <2> SUFFICES ASSUME Calm', Small', NEW i \in 1..Len(comments), comments'[i].marked
               PROVE  /\ (\A o \in Builds : ~Running(o))' => comments'[i].id = artifact
                      /\ \A o \in Builds : Names(comments'[i].id, build'[o], artifact)
    BY <1>1, <1>3 DEF OneOK
  <2>1. comments'[i] = comments[i] BY <1>2, <1>3
  <2>2. Small BY <1>3 DEF Small, NextId
  <2>3. Calm /\ \A o \in Builds : ~Running(o) BY <1>4 DEF Calm
  <2>4. comments[i].id = artifact BY <2>1, <2>2, <2>3 DEF IInv, OneOK
  <2>5. \A o \in Builds : Names(comments[i].id, build'[o], artifact)
    BY <1>4, <2>3 DEF Names, Running, Ended
  <2> QED BY <2>1, <2>4, <2>5
<1> QED BY <1>6, <1>7, <1>8, <1>9, <1>10, <1>11 DEF IInv

LEMMA Stutters == ASSUME IInv, UNCHANGED vars PROVE IInv'
BY DEF vars, IInv, TypeOK, CommentsOK, AloneOK, Running, Ended, NoZero, EditsOwnComments, SavedIsMine,
       Position, OneOK, Calm, Small, NextId

LEMMA Records ==
  ASSUME IInv, NEW b \in Builds, NEW at \in Places
  PROVE  LET k == build[b]
             goes == [k EXCEPT !.at = at]
             stumbles == [k EXCEPT !.at = at, !.trouble = TRUE] IN
         /\ k \in BuildStates
         /\ goes \in BuildStates /\ goes.at = at /\ goes.id = k.id /\ goes.trouble = k.trouble
         /\ stumbles \in BuildStates /\ stumbles.at = at /\ stumbles.id = k.id /\ stumbles.trouble
BY Types DEF BuildStates

(* What a running build knows of the comments with its own id.                      *)
LEMMA OwnId ==
  ASSUME IInv, NEW b \in Builds
  PROVE  /\ build[b].id # 0
         /\ \A i \in 1..Len(comments) :
               comments[i].id # 0 /\ comments[i].id = build[b].id => comments[i].marked
         /\ build[b].at \in {"edit", "patch", "save"} => build[b].id # ErrorId
BY Types DEF IInv, NoZero, EditsOwnComments, TypeOK

(* A build that goes on with trouble: there is nothing to say of what it saw.       *)
LEMMA Stumbling ==
  ASSUME IInv, Kept, NEW b \in Builds, Running(b), NEW at \in Places \ {"start"}, Stumbles(b, at),
         at \in {"edit", "patch", "save"} => build[b].id # ErrorId,
         UNCHANGED artifact
  PROVE  IInv'
<1> DEFINE new == [build[b] EXCEPT !.at = at, !.trouble = TRUE]
<1>1. new \in BuildStates /\ new.at = at /\ new.id = build[b].id /\ new.trouble BY Records
<1>2. Become(b, new) BY DEF Stumbles
<1> HIDE DEF new
<1>3. \A i \in 1..Len(comments) : comments[i].id # 0 /\ comments[i].id = new.id => comments'[i].marked
  BY <1>1, OwnId DEF Kept
<1> QED BY <1>1, <1>2, <1>3, OwnId, RunningSteps

LEMMA LooksUp == ASSUME IInv, NEW b \in Builds, Lookup(b) PROVE IInv'
<1> DEFINE k == build[b]
<1> DEFINE marked == {i \in Shown : comments[i].marked}
<1>1. k.at = "lookup" /\ Running(b) /\ UNCHANGED <<comments, artifact>> BY DEF Lookup, Running, Ended
<1>2. Kept BY <1>1, Untouched
<1>3. Shown \subseteq 1..Len(comments) /\ (Small => Shown = 1..Len(comments))
  <2>1. Len(comments) \in Nat /\ PageSize \in Nat BY Types, Numbers
  <2>2. CASE Len(comments) < PageSize BY <2>1, <2>2 DEF Shown
  <2>3. CASE ~(Len(comments) < PageSize)
    <3>1. Shown = 1..PageSize /\ PageSize <= Len(comments) BY <2>1, <2>3 DEF Shown
    <3>2. Small => PageSize = Len(comments) BY <2>1, <3>1 DEF Small
    <3> QED BY <2>1, <3>1, <3>2
  <2> QED BY <2>2, <2>3
<1>4. CASE marked = {}
  <2> DEFINE new == [k EXCEPT !.at = "add"]
  <2>1. new \in BuildStates /\ new.at = "add" /\ new.id = k.id /\ new.trouble = k.trouble BY Records DEF Places
  <2>2. Become(b, new) BY <1>4 DEF Lookup, Goes
  <2> HIDE DEF new
  <2>3. Small => \A i \in 1..Len(comments) : ~comments[i].marked BY <1>3, <1>4
  <2> QED BY <1>1, <1>2, <2>1, <2>2, <2>3, OwnId, RunningSteps
<1>5. CASE marked # {}
  <2>1. PICK i \in marked : Become(b, [k EXCEPT !.at = After(AsInteger(comments[i].id)),
                                              !.id = AsInteger(comments[i].id)])
    BY <1>5 DEF Lookup
  <2>2. i \in 1..Len(comments) /\ comments[i].marked BY <1>3
  <2> DEFINE n == comments[i].id
  <2> DEFINE new == [k EXCEPT !.at = After(AsInteger(n)), !.id = AsInteger(n)]
  <2>3. n \in Nat /\ n > 0 /\ n < 2 * (MaxInt + 1) /\ n <= NextId - 1
    <3>1. n = FirstId + i - 1 /\ Len(comments) <= Others + MaxComments BY <2>2 DEF IInv, CommentsOK
    <3>2. i \in Nat /\ i >= 1 /\ i <= Len(comments) /\ Len(comments) \in Nat BY <2>2, Types
    <3> QED BY <3>1, <3>2, Types, Numbers
  <2>4. /\ AsInteger(n) \in Int /\ AsInteger(n) # 0
        /\ n <= MaxInt => AsInteger(n) = n
        /\ AsInteger(n) >= 0 => AsInteger(n) = n
    BY <2>3, Converted
  <2> DEFINE at == After(AsInteger(n))
  <2>5. at \in {"edit", "add"} /\ (at = "edit" <=> AsInteger(n) # ErrorId) BY DEF After
  <2> HIDE DEF n, at
  <2>6. new \in BuildStates /\ new.at = at /\ new.id = AsInteger(n) /\ new.trouble = k.trouble
    <3>1. k \in BuildStates BY Types
    <3>2. at \in Places BY <2>5 DEF Places
    <3>3. new = [k EXCEPT !.at = at, !.id = AsInteger(n)] BY DEF at
    <3> HIDE DEF new
    <3> QED BY <2>4, <3>1, <3>2, <3>3 DEF BuildStates
  <2>7. Become(b, new) BY <2>1 DEF n
  <2> HIDE DEF new
  <2>8. ASSUME NEW j \in 1..Len(comments), comments[j].id # 0, comments[j].id = new.id
        PROVE  comments'[j].marked
    <3>1. comments[j].id \in Nat /\ comments[j].id = FirstId + j - 1 /\ j \in Nat
      BY <2>8, Types, Numbers DEF IInv, CommentsOK
    <3>2. n = FirstId + i - 1 /\ i \in Nat BY <2>2, Types DEF n, IInv, CommentsOK
    <3>3. AsInteger(n) = n BY <2>4, <2>6, <2>8, <3>1
    <3>4. FirstId + j - 1 = FirstId + i - 1 BY <2>6, <2>8, <3>1, <3>2, <3>3
    <3>5. FirstId \in Nat BY Numbers
    <3>6. j = i BY <3>1, <3>2, <3>4, <3>5
    <3> QED BY <1>1, <2>2, <3>6
  <2>9. ASSUME OneOK, Calm, Small, NEW j \in 1..Len(comments), comments[j].marked
        PROVE  Names(comments[j].id, new, artifact)
    <3>1. AsInteger(n) = n BY <2>3, <2>4, <2>9, Types, Numbers DEF Small
    <3>2. n = artifact /\ comments[j].id = artifact BY <1>1, <2>2, <2>9 DEF OneOK, Names, n
    <3>3. at = "edit" BY <2>3, <2>5, <3>1 DEF ErrorId
    <3> QED BY <2>6, <3>1, <3>2, <3>3 DEF Names
  <2> QED BY <1>1, <1>2, <2>4, <2>5, <2>6, <2>7, <2>8, <2>9, RunningSteps
<1> QED BY <1>4, <1>5

LEMMA Edits == ASSUME IInv, NEW b \in Builds, Edited(b) PROVE IInv'
<1> DEFINE k == build[b]
<1> DEFINE new == [k EXCEPT !.at = "save"]
<1>1. k.at \in {"edit", "patch"} /\ Running(b) /\ UNCHANGED artifact BY DEF Edited, Running, Ended
<1>2. /\ Kept /\ Len(comments') = Len(comments)
      /\ \E i \in Position(k.id) : comments'[i].by = b
      /\ \A i \in 1..Len(comments) : comments'[i].marked => comments[i].marked \/ comments[i].id = k.id
  BY Written DEF Edited
<1>3. new \in BuildStates /\ new.at = "save" /\ new.id = k.id /\ new.trouble = k.trouble BY Records DEF Places
<1>4. Become(b, new) BY DEF Edited, Goes
<1> HIDE DEF new
<1>5. \E i \in 1..Len(comments') : comments'[i].id = new.id /\ comments'[i].by = b
  BY <1>2, <1>3, Types DEF Position, Kept
<1>6. \A i \in 1..Len(comments) : comments[i].id # 0 /\ comments[i].id = new.id => comments'[i].marked
  BY <1>2, <1>3, OwnId DEF Kept
<1>7. ASSUME OneOK, Calm, Small, NEW i \in 1..Len(comments'), comments'[i].marked
      PROVE  Names(comments'[i].id, new, artifact')
  <2>1. i \in 1..Len(comments) /\ comments'[i].id = comments[i].id BY <1>2 DEF Kept
  <2>2. comments[i].id = k.id BY <1>1, <1>2, <1>7, <2>1 DEF OneOK, Names
  <2> QED BY <1>3, <2>1, <2>2 DEF Names
<1> QED BY <1>1, <1>2, <1>3, <1>4, <1>5, <1>6, <1>7, OwnId, RunningSteps

LEMMA EditsFail == ASSUME IInv, NEW b \in Builds, EditFails(b) PROVE IInv'
<1> DEFINE k == build[b]
<1> DEFINE next == IF k.at = "edit" THEN "patch" ELSE "add"
<1>1. k.at \in {"edit", "patch"} /\ Running(b) /\ UNCHANGED artifact BY DEF EditFails, Running, Ended
<1>2. Kept BY Written, Untouched DEF EditFails
<1>3. next \in {"patch", "add"} /\ next \in Places BY DEF Places
<1>4. IF Position(k.id) = {} THEN Goes(b, next) ELSE Stumbles(b, next) BY DEF EditFails
<1> HIDE DEF next
<1>5. CASE Position(k.id) # {} BY <1>1, <1>2, <1>3, <1>4, <1>5, OwnId, Stumbling
<1>6. CASE Position(k.id) = {}
  <2> DEFINE new == [k EXCEPT !.at = next]
  <2>1. new \in BuildStates /\ new.at = next /\ new.id = k.id /\ new.trouble = k.trouble BY <1>3, Records
  <2>2. Become(b, new) BY <1>4, <1>6 DEF Goes
  <2> HIDE DEF new
  <2>3. UNCHANGED comments BY <1>6 DEF EditFails, Write
  <2>4. \A i \in 1..Len(comments) : comments[i].id # k.id BY <1>6, Types DEF Position
  <2>5. OneOK /\ Calm /\ Small => \A i \in 1..Len(comments) : ~comments[i].marked
    BY <1>1, <2>4 DEF OneOK, Names
  <2> QED BY <1>1, <1>2, <1>3, <2>1, <2>2, <2>3, <2>4, <2>5, OwnId, RunningSteps
<1> QED BY <1>5, <1>6

LEMMA Adds == ASSUME IInv, NEW b \in Builds, Added(b) PROVE IInv'
<1> DEFINE k == build[b]
<1> DEFINE new == [k EXCEPT !.at = "save", !.id = NextId]
<1>1. k.at \in {"add", "post"} /\ Running(b) /\ UNCHANGED artifact BY DEF Added, Running, Ended
<1>2. /\ Kept /\ Len(comments') = Len(comments) + 1 /\ comments'[Len(comments) + 1].by = b
      /\ \A i \in 1..Len(comments) : comments'[i] = comments[i]
  BY AddedOne DEF Added
<1>3. NextId \in Nat /\ NextId > 0 /\ NextId = FirstId + Len(comments) /\ Len(comments) \in Nat BY Types, Numbers
<1>4. new \in BuildStates /\ new.at = "save" /\ new.id = NextId /\ new.trouble = k.trouble
  <2>1. k \in BuildStates BY Types
  <2>2. NextId \in Int /\ "save" \in Places BY <1>3 DEF Places
  <2> QED BY <2>1, <2>2 DEF BuildStates
<1>5. Become(b, new) BY DEF Added
<1> HIDE DEF new
<1>6. comments'[Len(comments) + 1].id = NextId /\ Len(comments) + 1 \in 1..Len(comments')
  BY <1>2, <1>3 DEF Kept
<1>7. ASSUME NEW i \in 1..Len(comments), comments[i].id # 0 PROVE comments[i].id # NextId
  <2>1. comments[i].id = FirstId + i - 1 BY <1>7 DEF IInv, CommentsOK
  <2> QED BY <1>3, <2>1, Numbers
<1>8. ASSUME OneOK, Calm, Small, NEW i \in 1..Len(comments'), comments'[i].marked
      PROVE  Names(comments'[i].id, new, artifact')
  <2>1. \A j \in 1..Len(comments) : ~comments[j].marked BY <1>1, <1>8 DEF OneOK, Names
  <2>2. i = Len(comments) + 1 BY <1>2, <1>3, <1>8, <2>1
  <2> QED BY <1>4, <1>6, <2>2 DEF Names
<1>9. new.id # 0 /\ new.id # ErrorId BY <1>3, <1>4 DEF ErrorId
<1> QED BY <1>1, <1>2, <1>4, <1>5, <1>6, <1>7, <1>8, <1>9, RunningSteps

LEMMA AddsFail == ASSUME IInv, NEW b \in Builds, AddFails(b) PROVE IInv'
<1>1. build[b].at \in {"add", "post"} /\ Running(b) /\ UNCHANGED artifact BY DEF AddFails, Running, Ended
<1>2. Kept BY AddedOne, Untouched DEF AddFails
<1> DEFINE next == IF build[b].at = "add" THEN "post" ELSE "threw"
<1>3. next \in {"post", "threw"} /\ next \in Places \ {"start"} BY DEF Places
<1>4. Stumbles(b, next) BY DEF AddFails
<1> HIDE DEF next
<1> QED BY <1>1, <1>2, <1>3, <1>4, Stumbling

LEMMA Saves == ASSUME IInv, NEW b \in Builds, Save(b) PROVE IInv'
<1> DEFINE k == build[b]
<1>1. k.at = "save" /\ Running(b) /\ UNCHANGED comments BY DEF Save, Running, Ended
<1>2. Kept BY <1>1, Untouched
<1>3. CASE artifact' = k.id /\ Goes(b, "returned")
  <2> DEFINE new == [k EXCEPT !.at = "returned"]
  <2>1. new \in BuildStates /\ new.at = "returned" /\ new.id = k.id /\ new.trouble = k.trouble BY Records DEF Places
  <2>2. Become(b, new) BY <1>3 DEF Goes
  <2> HIDE DEF new
  <2>3. ASSUME OneOK, Calm, Small, NEW i \in 1..Len(comments), comments[i].marked
        PROVE  comments[i].id = artifact' /\ Names(comments[i].id, new, artifact')
    BY <1>1, <1>3, <2>1, <2>3 DEF OneOK, Names
  <2> QED BY <1>1, <1>2, <1>3, <2>1, <2>2, <2>3, OwnId, RunningSteps
<1>4. CASE artifact' = artifact /\ Stumbles(b, "threw")
  BY <1>1, <1>2, <1>4, Stumbling DEF Places
<1> QED BY <1>3, <1>4 DEF Save

LEMMA LookupsFail == ASSUME IInv, NEW b \in Builds, LookupFails(b) PROVE IInv'
<1>1. Running(b) /\ Stumbles(b, "add") /\ UNCHANGED <<comments, artifact>>
  BY DEF LookupFails, Running, Ended
<1> QED BY <1>1, Untouched, Stumbling DEF Places

LEMMA Invariant == Spec => []IInv
<1>1. ASSUME IInv, Next PROVE IInv'
  <2>1. ASSUME NEW b \in Builds, Proceed(b) PROVE IInv'
    BY <1>1, <2>1, Starts, LooksUp, LookupsFail, Edits, EditsFail, Adds, AddsFail, Saves DEF Proceed
  <2>2. ASSUME NEW i \in DOMAIN comments, Delete(i) PROVE IInv' BY <1>1, <2>2, Deletes
  <2>3. CASE Terminated BY <1>1, <2>3, Stutters DEF Terminated
  <2> QED BY <1>1, <2>1, <2>2, <2>3 DEF Next
<1> QED BY Initially, <1>1, Stutters, PTL DEF Spec

(* The variables keep their types; no build edits the error id.                     *)
THEOREM TypeCorrect == Spec => []TypeOK
<1>1. IInv => TypeOK BY DEF IInv
<1> QED BY <1>1, Invariant, PTL

(* The id of a build or of the artifact is never that of somebody else's comment.   *)
THEOREM OthersAreSafe == Spec => []EditsOwnComments
<1>1. IInv => EditsOwnComments BY DEF IInv
<1> QED BY <1>1, Invariant, PTL

(* What an undisturbed build saves is the id of the comment with its text.          *)
THEOREM SavesItsOwn == Spec => []SavedIsMine
<1>1. IInv => SavedIsMine BY DEF IInv
<1> QED BY <1>1, Invariant, PTL

(* Undisturbed builds have one comment among them.                                  *)
THEOREM OneForAll == Spec => []OneComment
<1>1. ASSUME IInv PROVE OneComment
  <2> DEFINE marked == {i \in DOMAIN comments : comments[i].marked}
  <2> SUFFICES ASSUME Calm, Small PROVE Cardinality(marked) <= 1 BY DEF OneComment, Calm, Small
  <2>1. \A i, j \in marked : i = j
    <3> SUFFICES ASSUME NEW i \in marked, NEW j \in marked PROVE i = j OBVIOUS
    <3>1. i \in 1..Len(comments) /\ j \in 1..Len(comments) BY <1>1, Types
    <3>2. comments[i].id = FirstId + i - 1 /\ comments[j].id = FirstId + j - 1
      BY <1>1, <3>1 DEF IInv, CommentsOK
    <3>3. comments[i].id = comments[j].id
      <4>1. CASE \A b \in Builds : ~Running(b) BY <1>1, <3>1, <4>1 DEF IInv, OneOK
      <4>2. ASSUME NEW b \in Builds, Running(b) PROVE comments[i].id = comments[j].id
        <5>1. build[b].at \in {"lookup", "edit", "patch", "save", "add", "post"}
          BY <1>1, <4>2, Types DEF BuildStates, Places, Running, Ended
        <5>2. Names(comments[i].id, build[b], artifact) /\ Names(comments[j].id, build[b], artifact)
          BY <1>1, <3>1, <4>2 DEF IInv, OneOK
        <5> QED BY <5>1, <5>2 DEF Names
      <4> QED BY <4>1, <4>2
    <3> QED BY <1>1, <3>1, <3>2, <3>3, Types, Numbers
  <2>2. marked = {} \/ \E i : marked = {i} BY <2>1
  <2>3. CASE marked = {} BY <2>3, FS_EmptySet
  <2>4. ASSUME NEW i, marked = {i} PROVE Cardinality(marked) <= 1
    <3>1. Cardinality({i}) = 1 BY FS_Singleton
    <3> QED BY <2>4, <3>1
  <2> QED BY <2>2, <2>3, <2>4
<1> QED BY <1>1, Invariant, PTL
--------------------------------------------------------------------------------
(* GithubApi, through which a build reads GitHub: for any number of branches,       *)
(* pages, changes and releases, a read that asks for no cache, as that of the       *)
(* comments does, is fresh, and the cache of a page only advances.                  *)

(* What is cached for a page is what it has shown: not an error, and nothing newer. *)
PagesCached == \A p \in Pages : cache[p] # Nothing => cache[p] \in Nat /\ cache[p] <= page[p]

(* A read was made when the page was no newer than it is, and its answer is no      *)
(* older than the call.                                                             *)
ReadOK(k) ==
    k # Idle /\ k.request.op = "read" =>
        /\ k.since <= page[k.request.url]
        /\ k.at = "returned" /\ k.request.noCache /\ k.answer # Error =>
               k.answer \in Nat /\ k.answer >= k.since
ReadsOK == \A b \in Branches : ReadOK(call[b])

FreshInv == ApiTypeOK /\ PagesCached /\ ReadsOK

(* The URLs of the requests, which differ by kind.                                *)
LEMMA RequestUrls ==
  ASSUME NEW r \in Requests
  PROVE  /\ r.url \in Urls /\ r.noCache \in BOOLEAN /\ r.op \in {"read", "create", "publish"}
         /\ r.op = "read" <=> r.url \in Pages
         /\ r.op = "create" => r.url = 0 /\ r.tag \in Tags /\ r.draft \in BOOLEAN
         /\ r.op = "publish" => r.url \in 1..MaxReleases
<1>1. r \in Reads => r.op = "read" /\ r.url \in Pages /\ r.noCache \in BOOLEAN BY DEF Reads
<1>2. r \in Creates => /\ r.op = "create" /\ r.url = 0 /\ r.noCache \in BOOLEAN
                       /\ r.tag \in Tags /\ r.draft \in BOOLEAN
  BY DEF Creates, ReleasesUrl
<1>3. r \in Publishes => r.op = "publish" /\ r.url \in 1..MaxReleases /\ r.noCache \in BOOLEAN
  BY DEF Publishes
<1>4. 0 \notin Pages /\ \A n \in 1..MaxReleases : n \notin Pages BY ApiAssumption
<1> QED BY <1>1, <1>2, <1>3, <1>4 DEF Requests, Urls, ReleasesUrl

(* The first state.                                                                *)
LEMMA FreshInitially == ASSUME ApiInit PROVE FreshInv
<1>1. cache \in [Urls -> Answers] /\ \A u \in Urls : cache[u] = Nothing BY DEF ApiInit, Answers
<1>2. call \in [Branches -> Calls \cup {Idle}] /\ \A b \in Branches : call[b] = Idle
  BY DEF ApiInit
<1>3. page \in [Pages -> 0..MaxVersion] BY ApiAssumption DEF ApiInit
<1>4. releases \in Seq([tag : Tags, draft : BOOLEAN]) BY DEF ApiInit
<1>5. ApiTypeOK BY <1>1, <1>2, <1>3, <1>4, ApiAssumption DEF ApiTypeOK
<1>6. PagesCached BY <1>1 DEF PagesCached, Urls
<1>7. ReadsOK BY <1>2 DEF ReadsOK, ReadOK
<1> QED BY <1>5, <1>6, <1>7 DEF FreshInv

(* A step of branch b that leaves the pages alone.                                *)
LEMMA BranchMoves ==
  ASSUME FreshInv, NEW b \in Branches, NEW new \in Calls, CallBecomes(b, new), ReadOK(new), UNCHANGED page
  PROVE  call' \in [Branches -> Calls \cup {Idle}] /\ ReadsOK'
<1>1. /\ call' \in [Branches -> Calls \cup {Idle}]
      /\ call'[b] = new /\ \A o \in Branches \ {b} : call'[o] = call[o]
  BY DEF FreshInv, ApiTypeOK, CallBecomes
<1>2. \A o \in Branches : ReadOK(call'[o]) BY <1>1 DEF FreshInv, ReadsOK
<1> QED BY <1>1, <1>2 DEF ReadsOK, ReadOK

(* What GitHub does keeps its releases a sequence, and gives a number for answer. *)
LEMMA EffectTyped ==
  ASSUME FreshInv, NEW r \in Requests, Effect(r)
  PROVE  /\ releases' \in Seq([tag : Tags, draft : BOOLEAN])
         /\ AnswerTo(r) \in Nat
<1>1. releases \in Seq([tag : Tags, draft : BOOLEAN]) BY DEF FreshInv, ApiTypeOK
<1>2. CASE r.op = "read"
  <2>1. releases' = releases BY <1>2 DEF Effect
  <2>2. AnswerTo(r) = page[r.url] BY <1>2 DEF AnswerTo
  <2>3. page[r.url] \in 0..MaxVersion BY <1>2, RequestUrls DEF FreshInv, ApiTypeOK
  <2> QED BY <1>1, <2>1, <2>2, <2>3
<1>3. CASE r.op = "create"
  <2>1. releases' = Append(releases, [tag |-> r.tag, draft |-> r.draft]) BY <1>3 DEF Effect
  <2>2. [tag |-> r.tag, draft |-> r.draft] \in [tag : Tags, draft : BOOLEAN] BY <1>3, RequestUrls
  <2>3. AnswerTo(r) = Len(releases') BY <1>3 DEF AnswerTo
  <2> QED BY <1>1, <2>1, <2>2, <2>3
<1>4. CASE r.op = "publish"
  <2>1. releases' = [releases EXCEPT ![r.url].draft = FALSE] BY <1>4 DEF Effect
  <2>2. AnswerTo(r) = r.url BY <1>4 DEF AnswerTo
  <2>3. r.url \in Nat BY <1>4, RequestUrls, ApiAssumption
  <2>4. releases' \in Seq([tag : Tags, draft : BOOLEAN])
    <3> DEFINE Release == [tag : Tags, draft : BOOLEAN]
    <3>1. \A k \in Release : [k EXCEPT !.draft = FALSE] \in Release OBVIOUS
    <3>2. releases \in Seq(Release) BY <1>1
    <3> HIDE DEF Release
    <3>3. releases \in [1..Len(releases) -> Release] /\ Len(releases) \in Nat BY <3>2
    <3>4. releases' \in [1..Len(releases) -> Release] BY <2>1, <3>1, <3>3
    <3>5. releases' \in Seq(Release) BY <3>3, <3>4
    <3> QED BY <3>5 DEF Release
  <2> QED BY <2>2, <2>3, <2>4
<1> QED BY <1>2, <1>3, <1>4, RequestUrls

(* A read notes the page as it is when it is called.                                *)
LEMMA ToCall ==
  ASSUME FreshInv, NEW b \in Branches, NEW r \in Requests, Call(b, r)
  PROVE  FreshInv'
<1> DEFINE new == [at |-> "called", request |-> r, answer |-> Nothing,
                   since |-> IF r.op = "read" THEN page[r.url] ELSE 0]
<1>1. CallBecomes(b, new) /\ UNCHANGED <<cache, page, releases>> BY DEF Call
<1>2. (IF r.op = "read" THEN page[r.url] ELSE 0) \in 0..MaxVersion
  BY RequestUrls, ApiAssumption DEF FreshInv, ApiTypeOK
<1>3. new \in Calls BY <1>2 DEF Calls, Answers
<1>4. ReadOK(new)
  <2>1. new.at = "called" /\ new.request = r OBVIOUS
  <2>2. r.op = "read" => new.since = page[r.url] OBVIOUS
  <2>3. r.op = "read" => page[r.url] \in Nat BY RequestUrls DEF FreshInv, ApiTypeOK
  <2> HIDE DEF new
  <2> QED BY <2>1, <2>2, <2>3 DEF ReadOK
<1> HIDE DEF new
<1>5. call' \in [Branches -> Calls \cup {Idle}] /\ ReadsOK' BY <1>1, <1>3, <1>4, BranchMoves
<1> QED BY <1>1, <1>5 DEF FreshInv, ApiTypeOK, PagesCached

(* The records of a call in progress.                                             *)
LEMMA CallTyped ==
  ASSUME FreshInv, NEW b \in Branches, call[b].at \in {"called", "asking"}
  PROVE  /\ call[b] \in Calls /\ call[b] # Idle
         /\ call[b].request \in Requests /\ ReadOK(call[b])
         /\ call[b].since \in Nat
<1>1. call[b] # Idle BY DEF Idle
<1> QED BY <1>1 DEF FreshInv, ApiTypeOK, Calls, ReadsOK

(* A cached answer is given to calls only that accept one.                          *)
LEMMA ToHit == ASSUME FreshInv, NEW b \in Branches, Hit(b) PROVE FreshInv'
<1> DEFINE r == call[b].request
           new == [call[b] EXCEPT !.at = "returned", !.answer = cache[r.url]]
<1>1. call[b].at = "called" /\ ~r.noCache /\ CallBecomes(b, new) /\ UNCHANGED <<cache, page, releases>>
  BY DEF Hit
<1>2. call[b] \in Calls /\ call[b] # Idle /\ r \in Requests /\ ReadOK(call[b])
  BY <1>1, CallTyped
<1>3. cache[r.url] \in Answers BY <1>2, RequestUrls DEF FreshInv, ApiTypeOK
<1>4. new \in Calls /\ new.request = r /\ new.since = call[b].since
  BY <1>2, <1>3 DEF Calls
<1> HIDE DEF new
<1>5. ReadOK(new) BY <1>1, <1>2, <1>4 DEF ReadOK
<1>6. call' \in [Branches -> Calls \cup {Idle}] /\ ReadsOK' BY <1>1, <1>4, <1>5, BranchMoves
<1> QED BY <1>1, <1>6 DEF FreshInv, ApiTypeOK, PagesCached

(* A call that found nothing has no answer yet.                                     *)
LEMMA ToMiss == ASSUME FreshInv, NEW b \in Branches, Miss(b) PROVE FreshInv'
<1> DEFINE new == [call[b] EXCEPT !.at = "asking"]
<1>1. call[b].at = "called" /\ CallBecomes(b, new) /\ UNCHANGED <<cache, page, releases>> BY DEF Miss
<1>2. call[b] \in Calls /\ call[b] # Idle /\ ReadOK(call[b])
  BY <1>1, CallTyped
<1>3. new \in Calls /\ new.at = "asking" /\ new.request = call[b].request /\ new.since = call[b].since
  BY <1>2 DEF Calls
<1> HIDE DEF new
<1>4. ReadOK(new) BY <1>2, <1>3 DEF ReadOK
<1>5. call' \in [Branches -> Calls \cup {Idle}] /\ ReadsOK' BY <1>1, <1>3, <1>4, BranchMoves
<1> QED BY <1>1, <1>5 DEF FreshInv, ApiTypeOK, PagesCached

(* The answer is stored under the URL of the request: for a read, the page as it  *)
(* is now.                                                                        *)
LEMMA Stored ==
  ASSUME FreshInv, NEW b \in Branches, Answered(b)
  PROVE  /\ cache' \in [Urls -> Answers]
         /\ \A u \in Urls : cache'[u] # Error
         /\ \A p \in Pages : cache'[p] = cache[p] \/ cache'[p] = page[p]
<1> DEFINE r == call[b].request
<1>1. call[b].at = "asking" /\ Effect(r) /\ cache' = [cache EXCEPT ![r.url] = AnswerTo(r)]
  BY DEF Answered
<1>2. r \in Requests BY <1>1, CallTyped
<1>3. AnswerTo(r) \in Nat BY <1>1, <1>2, EffectTyped
<1>4. cache \in [Urls -> Answers] /\ \A u \in Urls : cache[u] # Error BY DEF FreshInv, ApiTypeOK
<1>5. Error \notin Nat BY ApiAssumption
<1>6. r.op = "read" => AnswerTo(r) = page[r.url] BY DEF AnswerTo
<1>7. \A p \in Pages : p = r.url => r.op = "read" BY <1>2, RequestUrls
<1>8. Pages \subseteq Urls BY DEF Urls
<1> HIDE DEF r
<1> QED BY <1>1, <1>3, <1>4, <1>5, <1>6, <1>7, <1>8 DEF Answers

(* GitHub answers with the page as it is, which is no older than the call.          *)
LEMMA ToAnswered == ASSUME FreshInv, NEW b \in Branches, Answered(b) PROVE FreshInv'
<1> DEFINE r == call[b].request
           new == [call[b] EXCEPT !.at = "returned", !.answer = AnswerTo(r)]
<1>1. call[b].at = "asking" /\ Effect(r) /\ CallBecomes(b, new) /\ UNCHANGED page BY DEF Answered
<1>2. call[b] \in Calls /\ call[b] # Idle /\ r \in Requests /\ ReadOK(call[b]) /\ call[b].since \in Nat
  BY <1>1, CallTyped
<1>3. AnswerTo(r) \in Nat /\ releases' \in Seq([tag : Tags, draft : BOOLEAN]) BY <1>1, <1>2, EffectTyped
<1>4. new \in Calls /\ new.answer = AnswerTo(r) /\ new.request = r /\ new.since = call[b].since
  BY <1>2, <1>3 DEF Calls, Answers
<1>5. r.op = "read" => AnswerTo(r) = page[r.url] /\ page[r.url] \in Nat
  BY <1>2, RequestUrls DEF AnswerTo, FreshInv, ApiTypeOK
<1> HIDE DEF new
<1>6. ReadOK(new) BY <1>2, <1>4, <1>5 DEF ReadOK
<1>7. call' \in [Branches -> Calls \cup {Idle}] /\ ReadsOK' BY <1>1, <1>4, <1>6, BranchMoves
<1>8. /\ cache' \in [Urls -> Answers] /\ \A u \in Urls : cache'[u] # Error
      /\ \A p \in Pages : cache'[p] = cache[p] \/ cache'[p] = page[p]
  BY Stored
<1>9. PagesCached'
  <2>1. \A p \in Pages : page[p] \in Nat /\ page'[p] = page[p] BY <1>1 DEF FreshInv, ApiTypeOK
  <2> QED BY <1>8, <2>1 DEF FreshInv, PagesCached
<1> QED BY <1>1, <1>3, <1>7, <1>8, <1>9 DEF FreshInv, ApiTypeOK

(* A failed request has an error for answer, and stores nothing.                    *)
LEMMA ToFails == ASSUME FreshInv, NEW b \in Branches, Fails(b) PROVE FreshInv'
<1> DEFINE r == call[b].request
<1>1. call[b].at = "asking" /\ (Effect(r) \/ UNCHANGED releases) /\ UNCHANGED <<cache, page>>
  BY DEF Fails
<1>2. PICK a \in {"threw", "returned"} : CallBecomes(b, [call[b] EXCEPT !.at = a, !.answer = Error])
  BY DEF Fails
<1> DEFINE new == [call[b] EXCEPT !.at = a, !.answer = Error]
<1>3. call[b] \in Calls /\ call[b] # Idle /\ r \in Requests /\ ReadOK(call[b])
  BY <1>1, CallTyped
<1>4. releases' \in Seq([tag : Tags, draft : BOOLEAN]) BY <1>1, <1>3, EffectTyped DEF FreshInv, ApiTypeOK
<1>5. CallBecomes(b, new) BY <1>2
<1>6. Error \in Answers /\ a \in {"called", "asking", "returned", "threw"} BY DEF Answers
<1>7. new \in Calls /\ new.answer = Error /\ new.request = r /\ new.since = call[b].since
  BY <1>3, <1>6 DEF Calls
<1> HIDE DEF new
<1>8. ReadOK(new) BY <1>3, <1>7 DEF ReadOK
<1>9. call' \in [Branches -> Calls \cup {Idle}] /\ ReadsOK' BY <1>1, <1>5, <1>7, <1>8, BranchMoves
<1> QED BY <1>1, <1>4, <1>9 DEF FreshInv, ApiTypeOK, PagesCached

(* A page that changes gets newer, what was read and cached stays.                  *)
LEMMA ToChange == ASSUME FreshInv, NEW p \in Pages, Change(p) PROVE FreshInv'
<1>1. /\ page[p] < MaxVersion /\ page' = [page EXCEPT ![p] = page[p] + 1]
      /\ UNCHANGED <<cache, releases, call>>
  BY DEF Change
<1>2. page \in [Pages -> 0..MaxVersion] BY DEF FreshInv, ApiTypeOK
<1>3. page' \in [Pages -> 0..MaxVersion] /\ \A q \in Pages : page[q] <= page'[q]
  BY <1>1, <1>2, ApiAssumption
<1>4. ApiTypeOK' BY <1>1, <1>3 DEF FreshInv, ApiTypeOK
<1>5. PagesCached'
  <2> SUFFICES ASSUME NEW q \in Pages, cache[q] # Nothing PROVE cache[q] \in Nat /\ cache[q] <= page'[q]
    BY <1>1 DEF PagesCached
  <2> QED BY <1>2, <1>3 DEF FreshInv, PagesCached
<1>6. ReadsOK'
  <2> SUFFICES ASSUME NEW b \in Branches PROVE ReadOK(call[b])' BY DEF ReadsOK
  <2>1. call' = call /\ ReadOK(call[b]) BY <1>1 DEF FreshInv, ReadsOK
  <2>2. call[b] # Idle => call[b] \in Calls BY DEF FreshInv, ApiTypeOK
  <2>3. call[b] # Idle => call[b].request \in Requests /\ call[b].since \in Nat
    BY <2>2 DEF Calls
  <2>4. call[b] # Idle /\ call[b].request.op = "read" => call[b].request.url \in Pages
    BY <2>3, RequestUrls
  <2> QED BY <1>2, <1>3, <2>1, <2>3, <2>4 DEF ReadOK
<1> QED BY <1>4, <1>5, <1>6 DEF FreshInv

(* Every step keeps the invariant.                                                  *)
LEMMA FreshStep == ASSUME FreshInv, [ApiNext]_apiVars PROVE FreshInv'
<1>1. CASE UNCHANGED apiVars
  BY <1>1 DEF apiVars, FreshInv, ApiTypeOK, PagesCached, ReadsOK, ReadOK
<1>2. ASSUME NEW b \in Branches, NEW r \in Requests, Call(b, r) PROVE FreshInv' BY <1>2, ToCall
<1>3. ASSUME NEW b \in Branches, Hit(b) PROVE FreshInv' BY <1>3, ToHit
<1>4. ASSUME NEW b \in Branches, Miss(b) PROVE FreshInv' BY <1>4, ToMiss
<1>5. ASSUME NEW b \in Branches, Answered(b) PROVE FreshInv' BY <1>5, ToAnswered
<1>6. ASSUME NEW b \in Branches, Fails(b) PROVE FreshInv' BY <1>6, ToFails
<1>7. ASSUME NEW p \in Pages, Change(p) PROVE FreshInv' BY <1>7, ToChange
<1> QED BY <1>1, <1>2, <1>3, <1>4, <1>5, <1>6, <1>7 DEF ApiNext

(* The invariant of GithubApi.                                                      *)
LEMMA FreshInvariant == ApiSpec => []FreshInv
<1>1. ApiInit => FreshInv BY FreshInitially
<1>2. FreshInv /\ [ApiNext]_apiVars => FreshInv' BY FreshStep
<1> QED BY <1>1, <1>2, PTL DEF ApiSpec

(* A read with noCache shows the page no older than when it was called, whatever   *)
(* the other branches of the build cache meanwhile (githubApiCall.groovy:26).       *)
THEOREM ReadsAreFresh == ApiSpec => []UncachedIsFresh
<1>1. FreshInv => UncachedIsFresh
  BY DEF FreshInv, ReadsOK, ReadOK, UncachedIsFresh, Answer
<1> QED BY <1>1, FreshInvariant, PTL

(* Branches that both missed store in the order of the answers: no page that was   *)
(* cached is replaced by an older one, or forgotten (githubApiCall.groovy:54).      *)
THEOREM CacheOnlyAdvances == ApiSpec => CacheNeverGoesBack
<1> DEFINE Advances == \A p \in Pages : cache[p] # Nothing => cache'[p] # Nothing /\ cache'[p] >= cache[p]
<1>1. ASSUME FreshInv, [ApiNext]_apiVars PROVE [Advances]_apiVars
  <2>1. \A p \in Pages : cache[p] # Nothing => cache[p] \in Nat /\ cache[p] <= page[p]
    BY <1>1 DEF FreshInv, PagesCached
  <2>2. \A p \in Pages : page[p] \in Nat BY <1>1 DEF FreshInv, ApiTypeOK
  <2>3. Nothing \notin Nat BY ApiAssumption
  <2>4. UNCHANGED cache => Advances BY <2>1
  <2>5. ASSUME NEW b \in Branches, Answered(b) PROVE Advances
    <3>1. \A p \in Pages : cache'[p] = cache[p] \/ cache'[p] = page[p] BY <1>1, <2>5, Stored
    <3> QED BY <2>1, <2>2, <2>3, <3>1
  <2>6. ASSUME NEW b \in Branches, (\E r \in Requests : Call(b, r)) \/ Hit(b) \/ Miss(b) \/ Fails(b)
        PROVE  UNCHANGED cache
    BY <2>6 DEF Call, Hit, Miss, Fails
  <2>7. ASSUME NEW p \in Pages, Change(p) PROVE UNCHANGED cache BY <2>7 DEF Change
  <2> QED BY <1>1, <2>4, <2>5, <2>6, <2>7 DEF ApiNext
<1>2. FreshInv /\ [ApiNext]_apiVars => [Advances]_apiVars BY <1>1
<1>3. ApiSpec => [][Advances]_apiVars BY <1>2, FreshInvariant, PTL DEF ApiSpec
<1> QED BY <1>3 DEF CacheNeverGoesBack
==================================================================================
