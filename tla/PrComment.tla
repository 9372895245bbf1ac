-------------------------------- MODULE PrComment --------------------------------
(* vars/githubPrComment.groovy: the builds of a pull request keep one comment up  *)
(* to date. The id of the comment travels from build to build in an archived file *)
(* and is otherwise looked up among the first comments of the pull request; ids   *)
(* become 32-bit integers on the way, here integers up to MaxInt. A comment that  *)
(* cannot be edited in either of two ways is added anew, in one of two ways.      *)
EXTENDS Integers, Sequences, FiniteSets

CONSTANTS
    Builds,       \* builds of the pull request
    FirstId,      \* the id that GitHub gives to the next comment at the beginning
    MaxInt,       \* 2^31 - 1 in the code
    PageSize,     \* 30 at GitHub: a list of comments shows the first ones only
    MaxComments,  \* a bound on the comments
    Others        \* comments that other people wrote before

ASSUME CommentAssumption ==
    /\ {FirstId, MaxInt, PageSize, MaxComments, Others} \subseteq Nat
    /\ FirstId > 0 /\ MaxInt > 0 /\ PageSize > 0
    /\ FirstId + Others + MaxComments <= 2 * (MaxInt + 1)     \* ids are below 2^32

VARIABLES
    comments,     \* the pull request: its comments, oldest first
    artifact,     \* comment.id of the last build with artifacts
    build         \* each build: where in addOrEditComment it is

vars == <<comments, artifact, build>>

ErrorId == -1000
NoFile == 0                              \* no artifact, or one that cannot be copied
Ids == FirstId..(FirstId + Others + MaxComments)

(* as Integer keeps the low bits: half of the range are negative numbers.         *)
AsInteger(n) == IF n % (2 * (MaxInt + 1)) > MaxInt
                THEN (n % (2 * (MaxInt + 1))) - 2 * (MaxInt + 1)
                ELSE n % (2 * (MaxInt + 1))

Places == {"start", "lookup", "edit", "patch", "add", "post", "save", "returned", "threw"}

BuildStates ==
    [at : Places, id : Int,
     trouble : BOOLEAN]                  \* something failed, or somebody interfered

Comments == [id : Ids \cup {0}, by : Builds \cup {"somebody"}, marked : BOOLEAN]

Init ==
    /\ comments = [i \in 1..Others |-> [id |-> FirstId + i - 1, by |-> "somebody", marked |-> FALSE]]
    /\ artifact = NoFile
    /\ build = [b \in Builds |-> [at |-> "start", id |-> ErrorId, trouble |-> FALSE]]

Ended(b) == build[b].at \in {"returned", "threw"}
Running(b) == build[b].at # "start" /\ ~Ended(b)
Become(b, new) == build' = [build EXCEPT ![b] = new]
Goes(b, at) == Become(b, [build[b] EXCEPT !.at = at])
Stumbles(b, at) == Become(b, [build[b] EXCEPT !.at = at, !.trouble = TRUE])

(* addOrEditComment: what to do with the id that was found.                       *)
After(id) == IF id # ErrorId THEN "edit" ELSE "add"

(* getCommentFromFile and getCommentIfAny: the id of the file, if there is one,    *)
(* if it can be copied and if it is a 32-bit number.                              *)
Start(b) ==
    /\ build[b].at = "start"
    /\ \E file \in {artifact, NoFile} :
       LET known == file # NoFile /\ file <= MaxInt
           begun == [at |-> IF known THEN After(file) ELSE "lookup",
                     id |-> IF known THEN file ELSE ErrorId,
                     trouble |-> \E o \in Builds \ {b} : Running(o)]
       IN build' = [o \in Builds |->
              IF o = b THEN begun ELSE [build[o] EXCEPT !.trouble = @ \/ Running(o)]]
    /\ UNCHANGED <<comments, artifact>>

(* The comments that a list of GitHub shows.                                     *)
Shown == 1..(IF Len(comments) < PageSize THEN Len(comments) ELSE PageSize)

NeverFound(b) ==
    /\ build[b].at = "lookup"
    /\ Goes(b, "add")
    /\ UNCHANGED <<comments, artifact>>

AnyComment(b) ==
    /\ build[b].at = "lookup"
    /\ IF comments = <<>> THEN Goes(b, "add")
       ELSE \E i \in Shown :
            /\ \A j \in Shown : j <= i
            /\ Become(b, [build[b] EXCEPT !.at = "edit", !.id = AsInteger(comments[i].id)])
    /\ UNCHANGED <<comments, artifact>>

(* githubPrLatestComment: the last of the comments shown that holds the metadata. *)
Lookup(b) ==
    /\ build[b].at = "lookup"
    /\ LET marked == {i \in Shown : comments[i].marked} IN
       IF marked = {} THEN Goes(b, "add")
       ELSE \E i \in marked :
            /\ \A j \in marked : j <= i
            /\ Become(b, [build[b] EXCEPT !.at = After(AsInteger(comments[i].id)),
                                          !.id = AsInteger(comments[i].id)])
    /\ UNCHANGED <<comments, artifact>>

LookupFails(b) ==
    /\ build[b].at = "lookup"
    /\ Stumbles(b, "add")
    /\ UNCHANGED <<comments, artifact>>

Position(id) == {i \in DOMAIN comments : comments[i].id = id}
Write(b) == \E i \in Position(build[b].id) :
                comments' = [comments EXCEPT ![i].by = b, ![i].marked = TRUE]
NextId == FirstId + Len(comments)
Add(b) == /\ Len(comments) < Others + MaxComments
          /\ comments' = Append(comments, [id |-> NextId, by |-> b, marked |-> TRUE])

(* pullRequest.editComment, then a PATCH: the same comment either way.            *)
Edited(b) ==
    /\ build[b].at \in {"edit", "patch"}
    /\ Write(b)
    /\ Goes(b, "save")
    /\ UNCHANGED artifact

(* The comment is not there, or GitHub fails, perhaps after editing it.           *)
EditFails(b) ==
    /\ build[b].at \in {"edit", "patch"}
    /\ Write(b) \/ UNCHANGED comments
    /\ LET next == IF build[b].at = "edit" THEN "patch" ELSE "add" IN
       IF Position(build[b].id) = {} THEN Goes(b, next) ELSE Stumbles(b, next)
    /\ UNCHANGED artifact

OldIdKept(b) ==
    /\ build[b].at \in {"add", "post"}
    /\ Add(b)
    /\ Goes(b, "save")
    /\ UNCHANGED artifact

(* pullRequest.comment, then a POST.                                              *)
Added(b) ==
    /\ build[b].at \in {"add", "post"}
    /\ Add(b)
    /\ Become(b, [build[b] EXCEPT !.at = "save", !.id = NextId])
    /\ UNCHANGED artifact

AddFails(b) ==
    /\ build[b].at \in {"add", "post"}
    /\ Add(b) \/ UNCHANGED comments
    /\ Stumbles(b, IF build[b].at = "add" THEN "post" ELSE "threw")
    /\ UNCHANGED artifact

(* writeFile and archiveArtifacts, of which the latter may fail.                  *)
Save(b) ==
    /\ build[b].at = "save"
    /\ \/ artifact' = build[b].id /\ Goes(b, "returned")
       \/ artifact' = artifact /\ Stumbles(b, "threw")
    /\ UNCHANGED comments

(* Somebody deletes a comment of the builds.                                      *)
Delete(i) ==
    /\ comments[i].marked
    /\ comments' = [comments EXCEPT ![i] = [id |-> 0, by |-> "somebody", marked |-> FALSE]]
    /\ build' = [b \in Builds |-> [build[b] EXCEPT !.trouble = @ \/ Running(b)]]
    /\ UNCHANGED artifact

Terminated == (\A b \in Builds : Ended(b)) /\ UNCHANGED vars

Proceed(b) ==
    \/ Start(b) \/ Lookup(b) \/ LookupFails(b)
    \/ Edited(b) \/ EditFails(b) \/ Added(b) \/ AddFails(b) \/ Save(b)

Next == (\E b \in Builds : Proceed(b)) \/ (\E i \in DOMAIN comments : Delete(i)) \/ Terminated

Spec == Init /\ [][Next]_vars
--------------------------------------------------------------------------------
TypeOK ==
    /\ comments \in Seq(Comments)
    /\ artifact \in Int
    /\ build \in [Builds -> BuildStates]
    /\ \A b \in Builds : build[b].at \in {"edit", "patch", "save"} => build[b].id # ErrorId

(* "Add a comment or edit an existing comment": builds that run one after the     *)
(* other, none of whose calls failed, have one comment among them, whether its id *)
(* came from the file or from the lookup, and also when it was deleted; as long   *)
(* as the ids fit 32 bits and the comments fit one page.                          *)
OneComment ==
    /\ \A b \in Builds : ~build[b].trouble
    /\ NextId - 1 <= MaxInt /\ Len(comments) <= PageSize
    => Cardinality({i \in DOMAIN comments : comments[i].marked}) <= 1

(* Whatever the id was, wrapped, stale or of a deleted comment: the id that an    *)
(* undisturbed build is about to save is that of the comment with its text.       *)
SavedIsMine ==
    \A b \in Builds : build[b].at = "save" /\ ~build[b].trouble =>
        \E i \in Position(build[b].id) : comments[i].by = b

(* The artifact never names a comment of somebody else: what a later build edits  *)
(* is a comment of a build, or nothing.                                           *)
EditsOwnComments ==
    \A i \in DOMAIN comments :
        comments[i].id \in {artifact} \cup {build[b].id : b \in Builds} /\ comments[i].id # 0 =>
            comments[i].marked
================================================================================
