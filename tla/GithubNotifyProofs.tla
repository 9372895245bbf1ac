---------------------------- MODULE GithubNotifyProofs ----------------------------
(* Theorems about GithubNotify, for any number of blocks, names, tries and check    *)
(* runs: what GitHub shows is earned, and is the outcome. After them, theorems       *)
(* about NotifyBuild: what a build tells when it is over, for any number of builds,  *)
(* nodes, flaky tests and answers that fail.                                        *)
EXTENDS GithubNotify, NotifyBuild, FiniteSetTheorems, TLAPS

(* What holds of a block while its record is r: how far its body is follows from    *)
(* what it shows, and a failure of GitHub is taken for one of the body only where   *)
(* failures are not ignored.                                                        *)
BlockOK(r) ==
    /\ r.check => ~r.ignore /\ r.at # "post"
    /\ r.at \in {"token", "lookup", "send"} => r.check
    /\ r.at \in {"start", "body"} => r.shows = "begun"
    /\ r.shows = "begun" => r.body = "unrun"
    /\ r.shows = "success" => r.body = "passed"
    /\ r.shows = "failure" /\ r.ignore => r.body = "failed"
    /\ r.at = "returned" => r.shows = "success"
    /\ r.at = "threw" => r.shows # "success"

BlocksOK == \A b \in Blocks : BlockOK(block[b])

(* What GitHub shows is of a block of that name and kind that has begun, and a      *)
(* success of one whose body passed.                                                *)
StatusOK ==
    \A x \in Names : status[x] # Nobody =>
        LET o == block[status[x].by] IN
        /\ status[x].name = x /\ o.name = x /\ ~o.check /\ o.at # "start"
        /\ status[x].value = "success" => o.body = "passed"

RunsOK ==
    \A r \in Ids : runs[r] # Nobody =>
        LET o == block[runs[r].by] IN
        /\ o.name = runs[r].name /\ o.check
        /\ runs[r].value = "success" => o.body = "passed"

(* The run that a block, whose record is r, found is one of its name; that of an    *)
(* undisturbed block is the only one.                                               *)
FoundOK(r) == r.at = "send" /\ r.found # 0 => r.found \in RunsOf(r.name)
RunOK(b, r) ==
    FoundOK(r) /\ (Undisturbed(b) =>
        /\ \A id, other \in RunsOf(r.name) : id = other
        /\ r.at = "send" => RunsOf(r.name) = (IF r.found = 0 THEN {} ELSE {r.found})
        /\ r.at = "returned" =>
              RunsOf(r.name) # {} /\ \A id \in RunsOf(r.name) : runs[id].value = "success"
        /\ r.at = "threw" /\ r.shows = "failure" /\ ~r.lost =>
              RunsOf(r.name) # {} /\ \A id \in RunsOf(r.name) : runs[id].value = "failure")

OwnRuns == \A b \in Blocks : RunOK(b, block[b])

IInv == TypeOK /\ BlocksOK /\ StatusOK /\ RunsOK /\ LastStatusIsOutcome /\ OwnRuns

LEMMA NoValue == \A s \in Shown : s # Nobody
  BY DEF Shown, Nobody, Values

LEMMA Initially == Init => IInv
<1> SUFFICES ASSUME Init PROVE IInv OBVIOUS
<1>1. \A b \in Blocks :
        /\ block[b] \in BlockStates
        /\ block[b].at = "start" /\ block[b].shows = "begun" /\ block[b].body = "unrun"
        /\ block[b].check => ~block[b].ignore
  <2>1. 0 \in 0..Tries /\ 0 \in 0..MaxRuns BY NotifyAssumption
  <2> QED BY <2>1 DEF Init, BlockStates, Places, Values
<1>2. block \in [Blocks -> BlockStates]
  <2>1. DOMAIN block = Blocks /\ block = [b \in Blocks |-> block[b]] BY DEF Init
  <2> QED BY <2>1, <1>1
<1>3. (\A x \in Names : status[x] = Nobody) /\ (\A r \in Ids : runs[r] = Nobody) BY DEF Init
<1>4. TypeOK BY <1>1, <1>2 DEF TypeOK, Init
<1>5. BlocksOK BY <1>1 DEF BlocksOK, BlockOK
<1>6. StatusOK /\ RunsOK BY <1>3 DEF StatusOK, RunsOK
<1>7. LastStatusIsOutcome
  <2>1. \A b \in Blocks : block[b].name \in Names BY <1>2 DEF BlockStates
  <2> QED BY <2>1, <1>3 DEF LastStatusIsOutcome
<1>8. OwnRuns BY <1>1, <1>3 DEF OwnRuns, RunOK, FoundOK, RunsOf, Created
<1> QED BY <1>4, <1>5, <1>6, <1>7, <1>8 DEF IInv

(* How a block's record may change: what it was called with stays, a body that      *)
(* passed has passed, and a lookup that was missed is missed.                       *)
Follows(old, new) ==
    /\ new \in BlockStates
    /\ new.name = old.name /\ new.check = old.check /\ new.ignore = old.ignore
    /\ old.missed => new.missed
    /\ old.body = "passed" => new.body = "passed"
    /\ new.at # "start"
    /\ BlockOK(new)

LEMMA Keeps ==
  ASSUME IInv, NEW b \in Blocks, NEW new, Become(b, new), Follows(block[b], new)
  PROVE  /\ block' \in [Blocks -> BlockStates]
         /\ block'[b] = new /\ \A o \in Blocks \ {b} : block'[o] = block[o]
         /\ \A o \in Blocks : Follows(block[o], block'[o]) \/ block'[o] = block[o]
         /\ BlocksOK'
         /\ \A o \in Blocks : block'[o].at = "body" => block'[o].body = "unrun"
<1>1. block \in [Blocks -> BlockStates] /\ new \in BlockStates BY DEF IInv, TypeOK, Follows
<1>2. /\ block' \in [Blocks -> BlockStates]
      /\ block'[b] = new /\ \A o \in Blocks \ {b} : block'[o] = block[o]
  BY <1>1 DEF Become
<1>3. \A o \in Blocks : Follows(block[o], block'[o]) \/ block'[o] = block[o] BY <1>2
<1>4. BlocksOK'
  <2> SUFFICES ASSUME NEW o \in Blocks PROVE BlockOK(block'[o]) BY DEF BlocksOK, BlockOK
  <2> QED BY <1>2 DEF Follows, IInv, BlocksOK
<1>5. \A o \in Blocks : block'[o].at = "body" => block'[o].body = "unrun"
  BY <1>4 DEF BlocksOK, BlockOK
<1> QED BY <1>2, <1>3, <1>4, <1>5

(* A step that leaves the statuses alone, and ends a block of statuses only with    *)
(* its last notification lost, or before it began.                                  *)
LEMMA StatusStays ==
  ASSUME IInv, NEW b \in Blocks, NEW new, Become(b, new), Follows(block[b], new), UNCHANGED status,
         new.at \in {"returned", "threw"} => new.lost \/ block[b].check \/ block[b].at = "start"
  PROVE  StatusOK' /\ LastStatusIsOutcome'
<1>1. /\ block'[b] = new /\ \A o \in Blocks \ {b} : block'[o] = block[o]
      /\ \A o \in Blocks : Follows(block[o], block'[o]) \/ block'[o] = block[o]
  BY Keeps
<1>2. \A x \in Names : status[x] # Nobody => status[x] \in Shown /\ status[x].by \in Blocks
  BY DEF IInv, TypeOK, Shown
<1>3. StatusOK'
  <2> SUFFICES ASSUME NEW x \in Names, status[x] # Nobody
               PROVE  LET o == block'[status[x].by] IN
                      /\ status[x].name = x /\ o.name = x /\ ~o.check /\ o.at # "start"
                      /\ status[x].value = "success" => o.body = "passed"
    BY DEF StatusOK
  <2>1. status[x].by \in Blocks BY <1>2
  <2> QED BY <2>1, <1>1 DEF IInv, StatusOK, Follows
<1>4. LastStatusIsOutcome'
  <2> SUFFICES ASSUME NEW o \in Blocks,
                      status[block'[o].name] # Nobody, status[block'[o].name].by = o, ~block'[o].lost
               PROVE  /\ block'[o].at = "returned" => status[block'[o].name].value = "success"
                      /\ block'[o].at = "threw" => status[block'[o].name].value = "failure"
    BY DEF LastStatusIsOutcome
  <2>1. CASE o # b
    <3>1. block'[o] = block[o] BY <2>1, <1>1
    <3> QED BY <3>1 DEF IInv, LastStatusIsOutcome
  <2>2. CASE o = b
    <3>1. new.name = block[b].name /\ block[b].name \in Names BY DEF Follows, IInv, TypeOK, BlockStates
    <3>2. ~block[b].check /\ block[b].at # "start" BY <3>1, <2>2, <1>1 DEF IInv, StatusOK
    <3> QED BY <3>2, <2>2, <1>1
  <2> QED BY <2>1, <2>2
<1> QED BY <1>3, <1>4

(* A step that writes the status of a block, and ends the block only as it shows.   *)
LEMMA StatusWritten ==
  ASSUME IInv, NEW b \in Blocks, NEW new, Become(b, new), Follows(block[b], new),
         block[b].at = "post", SetStatus(b),
         new.at = "returned" => new.lost \/ block[b].shows = "success",
         new.at = "threw" => new.lost \/ block[b].shows = "failure"
  PROVE  /\ status' \in [Names -> Shown \cup {Nobody}]
         /\ StatusOK' /\ LastStatusIsOutcome'
<1>1. /\ block'[b] = new /\ \A o \in Blocks \ {b} : block'[o] = block[o]
      /\ \A o \in Blocks : Follows(block[o], block'[o]) \/ block'[o] = block[o]
  BY Keeps
<1> DEFINE n == block[b].name
<1>2. n \in Names /\ block[b] \in BlockStates /\ BlockOK(block[b]) BY DEF IInv, TypeOK, BlocksOK, BlockStates
<1>3. Written(b) \in Shown /\ Written(b) # Nobody BY <1>2, NoValue DEF Written, Shown, BlockStates
<1>4. status \in [Names -> Shown \cup {Nobody}] BY DEF IInv, TypeOK
<1>5. /\ status'[n] = Written(b) /\ status' \in [Names -> Shown \cup {Nobody}]
      /\ \A x \in Names \ {n} : status'[x] = status[x]
  BY <1>2, <1>3, <1>4 DEF SetStatus
<1>6. Written(b).by = b /\ Written(b).name = n /\ Written(b).value = block[b].shows BY DEF Written
<1>7. ~new.check /\ new.name = n /\ new.at # "start" BY <1>2 DEF Follows, BlockOK
<1>8. block[b].shows = "success" => new.body = "passed" BY <1>2 DEF Follows, BlockOK
<1>9. StatusOK'
  <2> SUFFICES ASSUME NEW x \in Names, status'[x] # Nobody
               PROVE  LET o == block'[status'[x].by] IN
                      /\ status'[x].name = x /\ o.name = x /\ ~o.check /\ o.at # "start"
                      /\ status'[x].value = "success" => o.body = "passed"
    BY DEF StatusOK
  <2>1. CASE x = n BY <2>1, <1>1, <1>5, <1>6, <1>7, <1>8
  <2>2. CASE x # n
    <3>1. status'[x] = status[x] /\ status[x].by \in Blocks BY <2>2, <1>4, <1>5 DEF Shown
    <3> QED BY <3>1, <1>1 DEF IInv, StatusOK, Follows
  <2> QED BY <2>1, <2>2
<1>10. LastStatusIsOutcome'
  <2> SUFFICES ASSUME NEW o \in Blocks,
                      status'[block'[o].name] # Nobody, status'[block'[o].name].by = o, ~block'[o].lost
               PROVE  /\ block'[o].at = "returned" => status'[block'[o].name].value = "success"
                      /\ block'[o].at = "threw" => status'[block'[o].name].value = "failure"
    BY DEF LastStatusIsOutcome
  <2>1. CASE o # b
    <3>1. block'[o] = block[o] /\ block[o].name \in Names BY <2>1, <1>1 DEF IInv, TypeOK, BlockStates
    <3>2. block[o].name # n BY <3>1, <2>1, <1>5, <1>6
    <3> QED BY <3>1, <3>2, <1>5 DEF IInv, LastStatusIsOutcome
  <2>2. CASE o = b BY <2>2, <1>1, <1>5, <1>6, <1>7
  <2> QED BY <2>1, <2>2
<1> QED BY <1>5, <1>9, <1>10

(* Nobody becomes undisturbed: check runs only become more.                         *)
LEMMA Fewer == ASSUME Created \subseteq Created', Cardinality(Created)' <= PageSize
               PROVE  Cardinality(Created) <= PageSize
<1>1. IsFiniteSet(Ids) BY NotifyAssumption, FS_Interval DEF Ids
<1>2. Created' \subseteq Ids BY DEF Created
<1>3. IsFiniteSet(Created') BY <1>1, <1>2, FS_Subset
<1>4. /\ IsFiniteSet(Created) /\ Cardinality(Created) <= Cardinality(Created')
      /\ Cardinality(Created) \in Nat /\ Cardinality(Created') \in Nat
  BY <1>3, FS_Subset, FS_CardinalityType
<1> QED BY <1>4, NotifyAssumption

LEMMA Disturbed ==
  ASSUME IInv, NEW b \in Blocks, NEW new, Become(b, new), Follows(block[b], new),
         Created \subseteq Created', NEW o \in Blocks, Undisturbed(o)'
  PROVE  Undisturbed(o) /\ (o # b => ~block[b].check \/ block[b].name # block[o].name)
<1>1. \A c \in Blocks : Follows(block[c], block'[c]) \/ block'[c] = block[c] BY Keeps
<1>2. \A c \in Blocks :
        /\ block'[c].check = block[c].check /\ block'[c].name = block[c].name
        /\ block[c].missed => block'[c].missed
  BY <1>1 DEF Follows
<1>3. Cardinality(Created) <= PageSize BY Fewer DEF Undisturbed
<1> QED BY <1>2, <1>3 DEF Undisturbed

(* A step that leaves the check runs alone, and ends a block of check runs only     *)
(* with its last notification lost, or before it began.                             *)
LEMMA RunsStay ==
  ASSUME IInv, NEW b \in Blocks, NEW new, Become(b, new), Follows(block[b], new), UNCHANGED runs,
         new.at = "returned" => ~new.check,
         new.at = "threw" => ~new.check \/ new.lost \/ new.shows # "failure",
         new.at = "send" =>
            IF new.found = 0
            THEN new.missed \/ ~(Cardinality(Created) <= PageSize) \/ RunsOf(new.name) = {}
            ELSE new.found \in RunsOf(new.name)
  PROVE  RunsOK' /\ OwnRuns'
<1>1. /\ block'[b] = new /\ \A o \in Blocks \ {b} : block'[o] = block[o]
      /\ \A o \in Blocks : Follows(block[o], block'[o]) \/ block'[o] = block[o]
  BY Keeps
<1>2. RunsOK'
  <2> SUFFICES ASSUME NEW r \in Ids, runs[r] # Nobody
               PROVE  LET o == block'[runs[r].by] IN
                      /\ o.name = runs[r].name /\ o.check
                      /\ runs[r].value = "success" => o.body = "passed"
    BY DEF RunsOK
  <2>1. runs[r].by \in Blocks BY DEF IInv, TypeOK, Shown
  <2> QED BY <2>1, <1>1 DEF IInv, RunsOK, Follows
<1>3. Created' = Created /\ \A x : RunsOf(x)' = RunsOf(x) BY DEF RunsOf, Created
<1>4. \A o \in Blocks : FoundOK(block[o])'
  BY <1>1, <1>3 DEF FoundOK, IInv, OwnRuns, RunOK
<1>5. OwnRuns'
  <2> SUFFICES ASSUME NEW o \in Blocks, Undisturbed(o)' PROVE RunOK(o, block[o])'
    BY <1>4 DEF OwnRuns, RunOK
  <2>1. Undisturbed(o) BY <1>3, Disturbed
  <2>2. RunOK(o, block[o]) BY DEF IInv, OwnRuns
  <2>4. CASE o # b
    <3>1. block'[o] = block[o] BY <2>4, <1>1
    <3> QED BY <3>1, <2>1, <2>2, <1>3, <1>4 DEF RunOK
  <2>5. CASE o = b
    <3>1. new.check /\ ~new.missed /\ Cardinality(Created) <= PageSize
      BY <2>1, <2>5, <1>1 DEF Undisturbed
    <3>2. new.name = block[b].name BY DEF Follows
    <3>3. \A id, other \in RunsOf(new.name) : id = other BY <2>1, <2>2, <2>5, <3>2 DEF RunOK
    <3>4. new.at = "send" => RunsOf(new.name) = (IF new.found = 0 THEN {} ELSE {new.found})
      BY <3>1, <3>3
    <3>5. new.at # "returned" /\ ~(new.at = "threw" /\ new.shows = "failure" /\ ~new.lost) BY <3>1
    <3> QED BY <3>3, <3>4, <3>5, <1>3, <1>4, <2>5, <1>1 DEF RunOK
  <2> QED BY <2>4, <2>5
<1> QED BY <1>2, <1>5

(* A step that writes the check run of a block, and ends it only as it shows.       *)
LEMMA RunWritten ==
  ASSUME IInv, NEW b \in Blocks, NEW new, Become(b, new), Follows(block[b], new),
         block[b].at = "send", SetCheckName(b), new.at # "send",
         new.at = "returned" => block[b].shows = "success",
         new.at = "threw" => new.lost \/ block[b].shows = "failure"
  PROVE  /\ runs' \in [Ids -> Shown \cup {Nobody}]
         /\ RunsOK' /\ OwnRuns'
<1>1. /\ block'[b] = new /\ \A o \in Blocks \ {b} : block'[o] = block[o]
      /\ \A o \in Blocks : Follows(block[o], block'[o]) \/ block'[o] = block[o]
  BY Keeps
<1>n. PICK n \in Names : n = block[b].name BY DEF IInv, TypeOK, BlockStates
<1>2. block[b] \in BlockStates /\ BlockOK(block[b]) BY DEF IInv, TypeOK, BlocksOK, BlockStates
<1>3. Written(b) \in Shown /\ Written(b) # Nobody BY <1>2, NoValue DEF Written, Shown, BlockStates
<1>4. runs \in [Ids -> Shown \cup {Nobody}] BY DEF IInv, TypeOK
<1>5. PICK id \in Ids :
        /\ IF block[b].found # 0 THEN id = block[b].found ELSE runs[id] = Nobody
        /\ runs' = [runs EXCEPT ![id] = Written(b)]
  BY DEF SetCheckName
<1>6. /\ runs'[id] = Written(b) /\ runs' \in [Ids -> Shown \cup {Nobody}]
      /\ \A r \in Ids \ {id} : runs'[r] = runs[r]
  BY <1>3, <1>4, <1>5
<1>7. Written(b).by = b /\ Written(b).name = n /\ Written(b).value = block[b].shows BY <1>n DEF Written
<1>8. block[b].check /\ new.check /\ new.name = n BY <1>n, <1>2 DEF Follows, BlockOK
<1>9. block[b].shows = "success" => new.body = "passed" BY <1>2 DEF Follows, BlockOK
<1>10. RunsOK'
  <2> SUFFICES ASSUME NEW r \in Ids, runs'[r] # Nobody
               PROVE  LET o == block'[runs'[r].by] IN
                      /\ o.name = runs'[r].name /\ o.check
                      /\ runs'[r].value = "success" => o.body = "passed"
    BY DEF RunsOK
  <2>1. CASE r = id BY <2>1, <1>1, <1>6, <1>7, <1>8, <1>9
  <2>2. CASE r # id
    <3>1. runs'[r] = runs[r] /\ runs[r].by \in Blocks BY <2>2, <1>4, <1>6 DEF Shown
    <3> QED BY <3>1, <1>1 DEF IInv, RunsOK, Follows
  <2> QED BY <2>1, <2>2
<1>11. runs[id] # Nobody => runs[id].name = n
  <2> SUFFICES ASSUME runs[id] # Nobody PROVE runs[id].name = n OBVIOUS
  <2>1. block[b].found # 0 BY <1>5
  <2>2. block[b].found \in RunsOf(n) BY <1>n, <2>1 DEF IInv, OwnRuns, RunOK, FoundOK
  <2> QED BY <2>1, <2>2, <1>5 DEF RunsOf
<1>12. Created \subseteq Created' /\ (\A x : RunsOf(x) \subseteq RunsOf(x)') /\ (\A x : x # n => RunsOf(x)' = RunsOf(x))
  BY <1>3, <1>6, <1>7, <1>11 DEF RunsOf, Created
<1>13. \A o \in Blocks : FoundOK(block[o])'
  <2> SUFFICES ASSUME NEW o \in Blocks PROVE FoundOK(block[o])' OBVIOUS
  <2>1. CASE o = b BY <2>1, <1>1 DEF FoundOK
  <2>2. CASE o # b
    <3>1. block'[o] = block[o] /\ FoundOK(block[o]) BY <2>2, <1>1 DEF IInv, OwnRuns, RunOK
    <3> QED BY <3>1, <1>12 DEF FoundOK
  <2> QED BY <2>1, <2>2
<1>14. OwnRuns'
  <2> SUFFICES ASSUME NEW o \in Blocks, Undisturbed(o)' PROVE RunOK(o, block[o])'
    BY <1>13 DEF OwnRuns, RunOK
  <2>1. Undisturbed(o) /\ (o # b => n # block[o].name) BY <1>n, <1>8, <1>12, Disturbed
  <2>2. RunOK(o, block[o]) BY DEF IInv, OwnRuns
  <2>3. CASE o # b
    <3>1. block'[o] = block[o] /\ RunsOf(block[o].name)' = RunsOf(block[o].name) BY <2>1, <2>3, <1>1, <1>12
    <3>2. \A r \in RunsOf(block[o].name) : runs'[r] = runs[r]
      BY <2>1, <2>3, <1>6, <1>11 DEF RunsOf, Created
    <3> QED BY <3>1, <3>2, <1>13, <2>1, <2>2 DEF RunOK
  <2>4. CASE o = b
    <3>1. RunsOf(n)' = {id}
      <4>1. RunsOf(n) = (IF block[b].found = 0 THEN {} ELSE {block[b].found})
        BY <1>n, <2>1, <2>2, <2>4 DEF RunOK
      <4>2. RunsOf(n) \subseteq {id} BY <4>1, <1>5
      <4> QED BY <4>2, <1>3, <1>6, <1>7 DEF RunsOf, Created
    <3> QED BY <3>1, <1>1, <1>6, <1>7, <1>8, <1>13, <2>4 DEF RunOK
  <2> QED BY <2>3, <2>4
<1> QED BY <1>6, <1>10, <1>14

(* The steps that write nothing outside of the block.                               *)
LEMMA Quiet ==
  ASSUME IInv, NEW b \in Blocks, NEW new, Become(b, new), Follows(block[b], new),
         UNCHANGED <<status, runs>>, new.at # "returned",
         new.at = "threw" => new.lost \/ (block[b].at = "start" /\ new.shows # "failure"),
         new.at = "send" =>
            IF new.found = 0
            THEN new.missed \/ ~(Cardinality(Created) <= PageSize) \/ RunsOf(new.name) = {}
            ELSE new.found \in RunsOf(new.name)
  PROVE  IInv'
<1>1. TypeOK' /\ BlocksOK' BY Keeps DEF IInv, TypeOK
<1>2. StatusOK' /\ LastStatusIsOutcome' BY StatusStays
<1>3. RunsOK' /\ OwnRuns' BY RunsStay
<1> QED BY <1>1, <1>2, <1>3 DEF IInv

(* The notifications: a status while the check runs stay, or the other way round.   *)
LEMMA Notified ==
  ASSUME IInv, NEW b \in Blocks, NEW new, Become(b, new), Follows(block[b], new), new.at # "send",
         new.at = "returned" => new.lost \/ block[b].shows = "success",
         new.at = "threw" => new.lost \/ block[b].shows = "failure",
         block[b].at = "post" /\ UNCHANGED runs /\ SetStatus(b)
  PROVE  IInv'
<1>1. BlockOK(block[b]) BY DEF IInv, BlocksOK
<1>2. ~new.check BY <1>1 DEF BlockOK, Follows
<1>3. status' \in [Names -> Shown \cup {Nobody}] /\ StatusOK' /\ LastStatusIsOutcome' BY StatusWritten
<1>4. RunsOK' /\ OwnRuns' BY <1>2, RunsStay
<1>5. TypeOK' /\ BlocksOK' BY <1>3, Keeps DEF IInv, TypeOK
<1> QED BY <1>3, <1>4, <1>5 DEF IInv

LEMMA Refused ==
  ASSUME IInv, NEW b \in Blocks, NEW new, Become(b, new), Follows(block[b], new), new.at # "send",
         new.at \in {"returned", "threw"} => new.lost,
         block[b].at = "post" /\ UNCHANGED runs /\ UNCHANGED status
  PROVE  IInv'
<1>1. BlockOK(block[b]) BY DEF IInv, BlocksOK
<1>2. ~new.check BY <1>1 DEF BlockOK, Follows
<1>3. StatusOK' /\ LastStatusIsOutcome' BY StatusStays
<1>4. RunsOK' /\ OwnRuns' BY <1>2, RunsStay
<1>5. TypeOK' /\ BlocksOK' BY Keeps DEF IInv, TypeOK
<1> QED BY <1>3, <1>4, <1>5 DEF IInv

LEMMA Checks ==
  ASSUME IInv, NEW b \in Blocks, NEW new, Become(b, new), Follows(block[b], new), new.at # "send",
         new.at = "returned" => block[b].shows = "success",
         new.at = "threw" => new.lost \/ block[b].shows = "failure",
         block[b].at = "send" /\ UNCHANGED status /\ SetCheckName(b)
  PROVE  IInv'
<1>1. BlockOK(block[b]) BY DEF IInv, BlocksOK
<1>2. StatusOK' /\ LastStatusIsOutcome' BY <1>1, StatusStays DEF BlockOK
<1>3. runs' \in [Ids -> Shown \cup {Nobody}] /\ RunsOK' /\ OwnRuns' BY RunWritten
<1>4. TypeOK' /\ BlocksOK' BY <1>3, Keeps DEF IInv, TypeOK
<1> QED BY <1>2, <1>3, <1>4 DEF IInv

LEMMA Stutters == ASSUME IInv, UNCHANGED vars PROVE IInv'
<1>1. TypeOK' /\ BlocksOK' /\ StatusOK' /\ RunsOK' /\ LastStatusIsOutcome'
  BY DEF IInv, TypeOK, BlocksOK, StatusOK, RunsOK, LastStatusIsOutcome, vars
<1>2. \A x : RunsOf(x)' = RunsOf(x) BY DEF RunsOf, Created, vars
<1>3. \A b \in Blocks : Undisturbed(b)' = Undisturbed(b) BY DEF Undisturbed, Created, vars
<1>4. OwnRuns' BY <1>2, <1>3 DEF IInv, OwnRuns, RunOK, FoundOK, vars
<1> QED BY <1>1, <1>4 DEF IInv

LEMMA Steps == ASSUME IInv, NEW b \in Blocks, Proceed(b) \/ Kill(b) PROVE IInv'
<1> DEFINE r == block[b]
<1>1. r \in BlockStates /\ BlockOK(r) BY DEF IInv, TypeOK, BlocksOK
<1>2. r.at = "body" => r.body = "unrun" BY DEF IInv, TypeOK
<1>3. 0 \in 0..Tries /\ 0 \in 0..MaxRuns BY NotifyAssumption
<1>4. First(b) = (IF r.check THEN "token" ELSE "post") BY DEF First
<1> USE DEF Become
<1>5. ASSUME Start(b) PROVE IInv'
  <2>1. PICK at \in {First(b), "threw"} : Become(b, [r EXCEPT !.at = at]) BY <1>5 DEF Start
  <2> DEFINE new == [r EXCEPT !.at = at]
  <2>2. new \in BlockStates BY <1>1, <1>4 DEF BlockStates, Places
  <2>3. Follows(r, new) BY <1>1, <1>4, <1>5, <2>2 DEF Follows, BlockOK, BlockStates, Start
  <2>4. Become(b, new) BY <2>1
  <2>5. new.at # "returned" /\ new.at # "send" /\ r.at = "start" /\ new.shows # "failure"
    BY <1>1, <1>4, <1>5 DEF Start, BlockOK, BlockStates
  <2> QED BY <1>5, <2>3, <2>4, <2>5, Quiet DEF Start
<1>6. ASSUME BodyPasses(b) PROVE IInv'
  <2> DEFINE new == [r EXCEPT !.at = First(b), !.shows = "success", !.body = "passed"]
  <2>1. new \in BlockStates BY <1>1, <1>4 DEF BlockStates, Places, Values
  <2>2. Follows(r, new) BY <1>1, <1>4, <2>1 DEF Follows, BlockOK, BlockStates
  <2>3. new.at \in {"token", "post"} BY <1>1, <1>4 DEF BlockStates
  <2> QED BY <1>6, <2>2, <2>3, Quiet DEF BodyPasses
<1>7. ASSUME BodyFails(b) PROVE IInv'
  <2> DEFINE new == [r EXCEPT !.at = First(b), !.shows = "failure", !.body = "failed"]
  <2>1. new \in BlockStates BY <1>1, <1>4 DEF BlockStates, Places, Values
  <2>2. Follows(r, new) BY <1>1, <1>2, <1>4, <1>7, <2>1 DEF Follows, BlockOK, BlockStates, BodyFails
  <2>3. new.at \in {"token", "post"} BY <1>1, <1>4 DEF BlockStates
  <2> QED BY <1>7, <2>2, <2>3, Quiet DEF BodyFails
<1> DEFINE thrown == [r EXCEPT !.at = IF r.shows = "failure" THEN "threw" ELSE First(b),
                               !.shows = "failure", !.i = 0, !.lost = TRUE]
<1> DEFINE returned(isLost) == [r EXCEPT !.at = AfterSent(r.shows), !.i = 0, !.lost = isLost]
<1>8. ASSUME r.at \in {"post", "token", "send"}, ~r.ignore
      PROVE  /\ Follows(r, thrown) /\ thrown.lost /\ thrown.at \in {"threw", "token", "post"}
  <2>1. thrown \in BlockStates BY <1>1, <1>3, <1>4 DEF BlockStates, Places, Values
  <2> QED BY <1>1, <1>4, <1>8, <2>1 DEF Follows, BlockOK, BlockStates
<1>9. ASSUME r.at \in {"post", "send"}, NEW isLost \in BOOLEAN
      PROVE  /\ Follows(r, returned(isLost)) /\ returned(isLost).lost = isLost
             /\ returned(isLost).at \in {"body", "returned", "threw"}
             /\ returned(isLost).at = "returned" => r.shows = "success"
             /\ returned(isLost).at = "threw" => r.shows = "failure"
  <2>1. /\ r.shows \in Values
        /\ r.shows = "begun" => AfterSent(r.shows) = "body"
        /\ r.shows = "success" => AfterSent(r.shows) = "returned"
        /\ r.shows = "failure" => AfterSent(r.shows) = "threw"
    BY <1>1 DEF AfterSent, BlockStates
  <2>2. returned(isLost) \in BlockStates BY <1>1, <1>3, <2>1 DEF BlockStates, Places, Values
  <2> QED BY <1>1, <1>9, <2>1, <2>2 DEF Follows, BlockOK, BlockStates, Values
<1> HIDE DEF thrown, returned
<1>10. ASSUME StatusSent(b) PROVE IInv'
  <2>1. r.at = "post" /\ SetStatus(b) /\ Become(b, returned(FALSE)) /\ UNCHANGED runs
    BY <1>10 DEF StatusSent, Returned, returned
  <2> QED BY <1>9, <2>1, Notified
<1>11. ASSUME StatusFails(b) PROVE IInv'
  <2> DEFINE again == [r EXCEPT !.i = r.i + 1]
  <2>1. /\ r.at = "post" /\ UNCHANGED runs /\ (SetStatus(b) \/ UNCHANGED status)
        /\ IF r.i + 1 < Tries THEN Become(b, again)
           ELSE IF r.ignore THEN Become(b, returned(TRUE)) ELSE Become(b, thrown)
    BY <1>11 DEF StatusFails, Thrown, thrown, Returned, returned
  <2>2. ASSUME r.i + 1 < Tries
        PROVE  Follows(r, again) /\ again.at = "post"
    <3>1. r.i \in 0..Tries BY <1>1 DEF BlockStates
    <3>2. r.i + 1 \in 0..Tries BY <3>1, <2>2, NotifyAssumption
    <3>3. again \in BlockStates /\ again.at = "post" BY <1>1, <2>1, <3>2 DEF BlockStates
    <3> QED BY <1>1, <3>3 DEF Follows, BlockOK, BlockStates
  <2>3. CASE r.i + 1 < Tries BY <2>1, <2>2, <2>3, Notified, Refused
  <2>4. CASE ~(r.i + 1 < Tries) /\ r.ignore BY <1>9, <2>1, <2>4, Notified, Refused
  <2>5. CASE ~(r.i + 1 < Tries) /\ ~r.ignore BY <1>8, <2>1, <2>5, Notified, Refused
  <2> QED BY <2>3, <2>4, <2>5
<1>12. ASSUME GetsToken(b) PROVE IInv'
  <2> DEFINE new == [r EXCEPT !.at = "lookup"]
  <2>1. new \in BlockStates BY <1>1 DEF BlockStates, Places
  <2>2. Follows(r, new) BY <1>1, <1>12, <2>1 DEF Follows, BlockOK, BlockStates, GetsToken
  <2>3. new.at = "lookup" BY <1>1 DEF BlockStates
  <2> QED BY <1>12, <2>2, <2>3, Quiet DEF GetsToken
<1>13. ASSUME NoToken(b) PROVE IInv'
  <2>1. r.at = "token" /\ Become(b, thrown) /\ UNCHANGED <<status, runs>>
    BY <1>13 DEF NoToken, Thrown, thrown
  <2>2. ~r.ignore BY <1>1, <2>1 DEF BlockOK
  <2> QED BY <1>8, <2>1, <2>2, Quiet
<1>14. ASSUME Lookup(b) PROVE IInv'
  <2>0. PICK page \in Pages : \E id \in FoundOn(page, r.name) :
          Become(b, [r EXCEPT !.at = "send", !.found = id])
    <3> HIDE DEF Become
    <3> QED BY <1>14 DEF Lookup
  <2>1. PICK id \in FoundOn(page, r.name) :
          Become(b, [r EXCEPT !.at = "send", !.found = id])
    BY <2>0
  <2> DEFINE new == [r EXCEPT !.at = "send", !.found = id]
  <2>2. /\ id \in 0..MaxRuns /\ (id # 0 => id \in RunsOf(r.name))
        /\ id = 0 => RunsOf(r.name) = {} \/ ~(Cardinality(Created) <= PageSize)
    <3>1. \A x \in RunsOf(r.name) : x \in 0..MaxRuns /\ x # 0 /\ x \in Created
      BY NotifyAssumption DEF RunsOf, Created, Ids
    <3>2. Cardinality(Created) <= PageSize => page = Created BY <2>0 DEF Pages
    <3> QED BY <1>3, <2>0, <2>1, <3>1, <3>2 DEF FoundOn
  <2>3. new \in BlockStates BY <1>1, <2>2 DEF BlockStates, Places
  <2>4. Follows(r, new) BY <1>1, <1>14, <2>3 DEF Follows, BlockOK, BlockStates, Lookup
  <2>5. new.at = "send" /\ new.name = r.name /\ new.found = id BY <1>1 DEF BlockStates
  <2> QED BY <1>14, <2>1, <2>2, <2>4, <2>5, Quiet DEF Lookup
<1>15. ASSUME LookupFails(b) PROVE IInv'
  <2> DEFINE new == [r EXCEPT !.at = "send", !.found = 0, !.missed = TRUE]
  <2>1. new \in BlockStates BY <1>1, <1>3 DEF BlockStates, Places
  <2>2. Follows(r, new) BY <1>1, <1>15, <2>1 DEF Follows, BlockOK, BlockStates, LookupFails
  <2>3. new.at = "send" /\ new.found = 0 /\ new.missed BY <1>1 DEF BlockStates
  <2> QED BY <1>15, <2>2, <2>3, Quiet DEF LookupFails
<1>16. ASSUME CheckSent(b) PROVE IInv'
  <2>1. r.at = "send" /\ SetCheckName(b) /\ Become(b, returned(FALSE)) /\ UNCHANGED status
    BY <1>16 DEF CheckSent, Returned, returned
  <2> QED BY <1>9, <2>1, Checks
<1>17. ASSUME CheckFails(b) PROVE IInv'
  <2>1. r.at = "send" /\ Become(b, thrown) /\ UNCHANGED status /\ (SetCheckName(b) \/ UNCHANGED runs)
    BY <1>17 DEF CheckFails, Thrown, thrown
  <2>2. r.check /\ ~r.ignore BY <1>1, <2>1 DEF BlockOK
  <2>3. CASE SetCheckName(b) BY <1>8, <2>1, <2>2, <2>3, Checks
  <2>4. CASE UNCHANGED runs BY <1>8, <2>1, <2>2, <2>4, Quiet
  <2> QED BY <2>1, <2>3, <2>4
<1>18. ASSUME Kill(b) PROVE IInv'
  <2> DEFINE new == [r EXCEPT !.at = "killed"]
  <2>1. new \in BlockStates BY <1>1 DEF BlockStates, Places
  <2>2. Follows(r, new) BY <1>1, <2>1 DEF Follows, BlockOK, BlockStates
  <2>3. new.at = "killed" BY <1>1 DEF BlockStates
  <2> QED BY <1>18, <2>2, <2>3, Quiet DEF Kill
<1> QED BY <1>5, <1>6, <1>7, <1>10, <1>11, <1>12, <1>13, <1>14, <1>15, <1>16, <1>17, <1>18 DEF Proceed

LEMMA Invariant == Spec => []IInv
<1>1. ASSUME IInv, Next PROVE IInv'
  <2>1. ASSUME NEW b \in Blocks, Proceed(b) \/ Kill(b) PROVE IInv' BY <2>1, <1>1, Steps
  <2>2. CASE Terminated BY <2>2, <1>1, Stutters DEF Terminated
  <2> QED BY <1>1, <2>1, <2>2 DEF Next
<1> QED BY Initially, <1>1, Stutters, PTL DEF Spec

(* The variables keep their types, whatever fails.                                  *)
THEOREM TypeCorrect == Spec => []TypeOK
<1>1. IInv => TypeOK BY DEF IInv
<1> QED BY <1>1, Invariant, PTL

(* A success that GitHub shows is that of a block whose body passed.                *)
THEOREM EarnedSuccess == Spec => []SuccessIsEarned
<1>1. ASSUME IInv PROVE SuccessIsEarned
  <2> SUFFICES ASSUME NEW s \in {status[x] : x \in Names} \cup {runs[r] : r \in Ids},
                      s # Nobody, s.value = "success"
               PROVE  block[s.by].body = "passed" /\ block[s.by].name = s.name
    BY DEF SuccessIsEarned
  <2>1. CASE \E x \in Names : s = status[x] BY <1>1, <2>1 DEF IInv, StatusOK
  <2>2. CASE \E r \in Ids : s = runs[r] BY <1>1, <2>2 DEF IInv, RunsOK
  <2> QED BY <2>1, <2>2
<1> QED BY <1>1, Invariant, PTL

(* Where failures of GitHub are ignored, they decide nothing.                       *)
THEOREM IgnoredAreHarmless == Spec => []IgnoredFailuresAreHarmless
<1>1. ASSUME IInv PROVE IgnoredFailuresAreHarmless
  <2> SUFFICES ASSUME NEW b \in Blocks, block[b].ignore
               PROVE  /\ block[b].at = "returned" => block[b].body = "passed"
                      /\ block[b].at = "threw" => block[b].body # "passed"
                      /\ block[b].shows # "begun" => block[b].body # "unrun"
    BY DEF IgnoredFailuresAreHarmless
  <2>1. BlockOK(block[b]) /\ block[b].shows \in Values
    BY <1>1 DEF IInv, BlocksOK, TypeOK, BlockStates
  <2> QED BY <2>1 DEF BlockOK, Values
<1> QED BY <1>1, Invariant, PTL

(* The status that a block left shows how it ended, unless its last was lost.       *)
THEOREM LastIsOutcome == Spec => []LastStatusIsOutcome
<1>1. IInv => LastStatusIsOutcome BY DEF IInv
<1> QED BY <1>1, Invariant, PTL

(* An undisturbed block has one check run, and it shows how the block ended.        *)
THEOREM OneRun == Spec => []OneRunShowsOutcome
<1>1. ASSUME IInv PROVE OneRunShowsOutcome
  <2> SUFFICES ASSUME NEW b \in Blocks, Undisturbed(b)
               PROVE  LET found == RunsOf(block[b].name)
                          shown == {runs[r].value : r \in found} IN
                      /\ Cardinality(found) <= 1
                      /\ block[b].at = "returned" => shown = {"success"}
                      /\ block[b].at = "threw" /\ block[b].shows = "failure" /\ ~block[b].lost =>
                             shown = {"failure"}
    BY DEF OneRunShowsOutcome
  <2> DEFINE found == RunsOf(block[b].name)
  <2>1. RunOK(b, block[b]) BY <1>1 DEF IInv, OwnRuns
  <2>2. found = {} \/ \E id : found = {id} BY <2>1 DEF RunOK
  <2>3. Cardinality(found) <= 1
    <3>1. CASE found = {} BY <3>1, FS_EmptySet
    <3>2. ASSUME NEW id, found = {id} PROVE Cardinality(found) <= 1
      <4>1. Cardinality({id}) = 1 BY FS_Singleton
      <4> QED BY <3>2, <4>1
    <3> QED BY <2>2, <3>1, <3>2
  <2> QED BY <2>1, <2>3 DEF RunOK
<1> QED BY <1>1, Invariant, PTL

-----------------------------------------------------------------------------------
(* The places of the step, from the node on; those where the data were collected; those   *)
(* that come after the comment.                                                         *)
OnNode == {"secret", "collect", "report", "analyze", "flaky", "commands",
           "comment", "check", "issue", "telemetry", "clean"}
Collecting == OnNode \ {"secret", "collect"}
Commented == {"check", "issue", "telemetry", "clean", "done"}

(* A build that is in the step has a node, which no other build has; no build has used    *)
(* up the tries of an issue between two steps, and deleteDir is the last thing to fail.   *)
NodesOK ==
    /\ \A b \in Builds :
          /\ build[b].node \in Nodes <=> build[b].at \in OnNode
          /\ build[b].tries < IssueTries
          /\ build[b].left => build[b].at = "done"
    /\ \A b, c \in Builds : build[b].node = build[c].node /\ build[b].node \in Nodes => b = c

(* As long as no deleteDir failed, a workspace is empty until its build has collected.    *)
WorkspacesOK ==
    \/ SomebodyLeft
    \/ /\ \A n \in Nodes :
             workspace[n] = NoFiles \/ \E b \in Builds : build[b].node = n /\ build[b].at \in Collecting
       /\ \A b \in Builds : ~build[b].stale

(* The five files can be read, and both reports are JSON.                                *)
WholeData(files) == 5 \in Readable(files) /\ IsJson(files["report"]) /\ IsJson(files["ciBuild"])

DataOK ==
    \A b \in Builds :
        build[b].at \in Collecting /\ ~build[b].outer /\ ~build[b].faulty /\ ~SomebodyLeft
        => WholeData(workspace[build[b].node])

(* The text of the report, or the empty one, is among what was noted.                     *)
HasText(notes) == {"report", "blank"} \cap notes # {}

(* What a build in the state k notes when it was asked for, and what its comment shows.   *)
ShowsOK(b, k, shown) ==
    /\ k.at \in {"analyze", "flaky", "commands", "comment"} /\ k.ask.prComment => HasText(k.notes)
    /\ shown.by = b /\ k.ask.aggregate =>
           /\ k.at \in Commented /\ shown.parts = k.notes
           /\ k.ask.prComment => HasText(k.notes)

(* A build that can still throw, or has, has told nobody anything.                       *)
SilentOK(b, k, shown, set) ==
    k.at \in {"building", "secret", "collect", "threw"} => shown.by # b /\ set # b /\ k.counted = 0

CommentsOK == \A b \in Builds : ShowsOK(b, build[b], comment)
SilenceOK == \A b \in Builds : SilentOK(b, build[b], comment, check)

NInv == NotifyTypeOK /\ NodesOK /\ WorkspacesOK /\ DataOK /\ CommentsOK /\ SilenceOK

(* What the requests and the script leave in each file.                                  *)
LEMMA RequestedFiles ==
    ASSUME NEW old, NEW answer
    PROVE  LET tests == TestsOrDefault(old["testsErrors"], answer["testsErrors"])
           IN  \A f \in Asked :
                   Requested(old, answer)[f] =
                       IF f = "testsErrors" THEN tests
                       ELSE IF f = "testsSummary" THEN Summary(old[f], answer[f], tests)
                       ELSE IF f = "coverage" THEN Coverage(old[f], answer[f])
                       ELSE FetchedOrDefault(old[f], answer[f])
BY DEF Requested

LEMMA CollectedFiles ==
    ASSUME NEW old, NEW answer
    PROVE  LET new == Collected(old, answer)
               fetched == Requested(old, answer)
               whole == \A p \in Parts : IsJson(fetched[p])
               own == \A p \in Parts : fetched[p].own
               both == own /\ old["bulk"].own
           IN  /\ \A f \in Asked : new[f] = fetched[f]
               /\ new["stepsErrors"] = StepsErrors(fetched["steps"])
               /\ new["report"] = [form |-> IF whole THEN "good" ELSE "cut", own |-> own]
               /\ new["bulk"] \in {[form |-> "good", own |-> both], old["bulk"]}
               /\ new["ciBuild"] = [form |-> IF whole THEN "good" ELSE "empty", own |-> own]
               /\ new = [f \in Files |-> new[f]]
<1> DEFINE fetched == Requested(old, answer)
           whole == \A p \in Parts : IsJson(fetched[p])
           own == \A p \in Parts : fetched[p].own
           both == own /\ old["bulk"].own
           before == [f \in Files |-> IF f \in Asked THEN fetched[f] ELSE old[f]]
           bulk == IF whole /\ fetched["testsErrors"].form = "good"
                   THEN [form |-> "good", own |-> own /\ before["bulk"].own] ELSE before["bulk"]
           new == [before EXCEPT !["stepsErrors"] = StepsErrors(fetched["steps"]),
                                 !["report"] = [form |-> IF whole THEN "good" ELSE "cut", own |-> own],
                                 !["bulk"] = bulk,
                                 !["ciBuild"] = [form |-> IF whole THEN "good" ELSE "empty", own |-> own]]
<1>1. Collected(old, answer) = new
  BY DEF Collected
<1>2. /\ Asked \subseteq Files /\ {"stepsErrors", "report", "bulk", "ciBuild"} \subseteq Files \ Asked
  BY DEF Asked, Files
<1>3. before["bulk"] = old["bulk"] /\ \A f \in Asked : before[f] = fetched[f]
  BY <1>2
<1>4. bulk \in {[form |-> "good", own |-> both], old["bulk"]}
  BY <1>3
<1>5. DOMAIN before = Files
  OBVIOUS
<1> HIDE DEF fetched, whole, own, both, bulk, before
<1>6. /\ \A f \in Asked : new[f] = fetched[f]
      /\ new["stepsErrors"] = StepsErrors(fetched["steps"])
      /\ new["report"] = [form |-> IF whole THEN "good" ELSE "cut", own |-> own]
      /\ new["bulk"] = bulk
      /\ new["ciBuild"] = [form |-> IF whole THEN "good" ELSE "empty", own |-> own]
      /\ new = [f \in Files |-> new[f]]
  BY <1>2, <1>3, <1>5
<1> QED
  BY <1>1, <1>4, <1>6 DEF fetched, whole, own, both

(* What the script leaves are files, whatever was there and whatever was answered.        *)
LEMMA RequestedType ==
    ASSUME NEW old \in [Files -> Contents], NEW answer \in [Asked -> Answers]
    PROVE  \A f \in Asked : Requested(old, answer)[f] \in Contents
<1> DEFINE tests == TestsOrDefault(old["testsErrors"], answer["testsErrors"])
           fetched == Requested(old, answer)
<1>1. \A content \in Contents, a \in Answers :
          /\ Fetched(content, a) \in Contents /\ FetchedOrDefault(content, a) \in Contents
          /\ TestsOrDefault(content, a) \in Contents /\ Coverage(content, a) \in Contents
  BY DEF Contents, Answers, Fetched, FetchedOrDefault, TestsOrDefault, Coverage, OwnFile
<1>2. \A content, t \in Contents, a \in Answers : Summary(content, a, t) \in Contents
  BY <1>1 DEF Contents, Summary, OwnFile
<1>3. Asked \subseteq Files /\ "testsErrors" \in Asked
  BY DEF Asked, Files
<1>4. \A f \in Asked : old[f] \in Contents /\ answer[f] \in Answers
  BY <1>3
<1>5. \A f \in Asked :
          fetched[f] = IF f = "testsErrors" THEN tests
                       ELSE IF f = "testsSummary" THEN Summary(old[f], answer[f], tests)
                       ELSE IF f = "coverage" THEN Coverage(old[f], answer[f])
                       ELSE FetchedOrDefault(old[f], answer[f])
  BY RequestedFiles
<1>6. tests \in Contents
  BY <1>1, <1>3, <1>4
<1> HIDE DEF tests, fetched
<1>7. ASSUME NEW f \in Asked PROVE fetched[f] \in Contents
  <2>1. Summary(old[f], answer[f], tests) \in Contents
    BY <1>2, <1>4, <1>6
  <2>2. Coverage(old[f], answer[f]) \in Contents /\ FetchedOrDefault(old[f], answer[f]) \in Contents
    BY <1>1, <1>4
  <2> QED
    BY <1>5, <1>6, <2>1, <2>2
<1> QED
  BY <1>7 DEF fetched

LEMMA CollectedType ==
    ASSUME NEW old \in [Files -> Contents], NEW answer \in [Asked -> Answers]
    PROVE  Collected(old, answer) \in [Files -> Contents]
<1> DEFINE fetched == Requested(old, answer)
           whole == \A p \in Parts : IsJson(fetched[p])
           own == \A p \in Parts : fetched[p].own
           both == own /\ old["bulk"].own
           new == Collected(old, answer)
<1>1. \A f \in Asked : fetched[f] \in Contents
  BY RequestedType
<1>2. Files = Asked \cup {"stepsErrors", "report", "bulk", "ciBuild"} /\ "steps" \in Asked
  BY DEF Asked, Files
<1>3. /\ \A f \in Asked : new[f] = fetched[f]
      /\ new["stepsErrors"] = StepsErrors(fetched["steps"])
      /\ new["report"] = [form |-> IF whole THEN "good" ELSE "cut", own |-> own]
      /\ new["bulk"] \in {[form |-> "good", own |-> both], old["bulk"]}
      /\ new["ciBuild"] = [form |-> IF whole THEN "good" ELSE "empty", own |-> own]
      /\ new = [f \in Files |-> new[f]]
  BY CollectedFiles
<1>4. own \in BOOLEAN /\ both \in BOOLEAN
  OBVIOUS
<1> HIDE DEF own, both, whole, fetched, new
<1>5. new["stepsErrors"] \in Contents
  BY <1>1, <1>2, <1>3 DEF StepsErrors, OwnFile, Contents
<1>6. new["report"] \in Contents
  BY <1>3, <1>4 DEF Contents
<1>7. new["ciBuild"] \in Contents
  BY <1>3, <1>4 DEF Contents
<1>8. new["bulk"] \in Contents
  <2>1. [form |-> "good", own |-> both] \in Contents
    BY <1>4 DEF Contents
  <2>2. old["bulk"] \in Contents
    BY <1>2
  <2> QED
    BY <1>3, <2>1, <2>2
<1>9. \A f \in Files : new[f] \in Contents
  BY <1>1, <1>2, <1>3, <1>5, <1>6, <1>7, <1>8
<1>10. new \in [Files -> Contents]
  BY <1>3, <1>9
<1> QED
  BY <1>10 DEF new

(* In an empty workspace nothing is read but what was written for this build.             *)
LEMMA OwnData ==
    ASSUME NEW answer \in [Asked -> Answers]
    PROVE  \A f \in Files : Collected(NoFiles, answer)[f].own = TRUE
<1> DEFINE tests == TestsOrDefault(NoFiles["testsErrors"], answer["testsErrors"])
           fetched == Requested(NoFiles, answer)
           whole == \A p \in Parts : IsJson(fetched[p])
           own == \A p \in Parts : fetched[p].own
           both == own /\ NoFiles["bulk"].own
           new == Collected(NoFiles, answer)
<1>1. \A content, t, a : content.own = TRUE /\ t.own = TRUE =>
          /\ Fetched(content, a).own = TRUE /\ FetchedOrDefault(content, a).own = TRUE
          /\ TestsOrDefault(content, a).own = TRUE /\ Coverage(content, a).own = TRUE
          /\ Summary(content, a, t).own = TRUE
  BY DEF Fetched, FetchedOrDefault, TestsOrDefault, Coverage, Summary, OwnFile
<1>2. Files = Asked \cup {"stepsErrors", "report", "bulk", "ciBuild"}
      /\ "steps" \in Asked /\ "testsErrors" \in Asked /\ Parts \subseteq Asked
  BY DEF Asked, Files, Parts
<1>3. \A f \in Files : NoFiles[f].own = TRUE
  BY DEF NoFiles, Absent
<1>4. \A f \in Asked :
          fetched[f] = IF f = "testsErrors" THEN tests
                       ELSE IF f = "testsSummary" THEN Summary(NoFiles[f], answer[f], tests)
                       ELSE IF f = "coverage" THEN Coverage(NoFiles[f], answer[f])
                       ELSE FetchedOrDefault(NoFiles[f], answer[f])
  BY RequestedFiles
<1>5. /\ \A f \in Asked : new[f] = fetched[f]
      /\ new["stepsErrors"] = StepsErrors(fetched["steps"])
      /\ new["report"] = [form |-> IF whole THEN "good" ELSE "cut", own |-> own]
      /\ new["bulk"] \in {[form |-> "good", own |-> both], NoFiles["bulk"]}
      /\ new["ciBuild"] = [form |-> IF whole THEN "good" ELSE "empty", own |-> own]
  BY CollectedFiles
<1>6. tests.own = TRUE
  BY <1>1, <1>2, <1>3
<1> HIDE DEF tests, fetched, new
<1>7. ASSUME NEW f \in Asked PROVE fetched[f].own = TRUE
  <2>1. NoFiles[f].own = TRUE
    BY <1>2, <1>3
  <2>2. Summary(NoFiles[f], answer[f], tests).own = TRUE
    BY <1>1, <1>6, <2>1
  <2>3. Coverage(NoFiles[f], answer[f]).own = TRUE /\ FetchedOrDefault(NoFiles[f], answer[f]).own = TRUE
    BY <1>1, <2>1
  <2> QED
    BY <1>4, <1>6, <2>2, <2>3
<1>8. own = TRUE /\ both = TRUE
  BY <1>2, <1>3, <1>7
<1> HIDE DEF own, both, whole
<1>9. new["report"].own = TRUE /\ new["ciBuild"].own = TRUE
  BY <1>5, <1>8
<1>10. new["bulk"].own = TRUE
  <2>1. new["bulk"] = [form |-> "good", own |-> both] \/ new["bulk"] = NoFiles["bulk"]
    BY <1>5
  <2>2. NoFiles["bulk"].own = TRUE
    BY <1>2, <1>3
  <2> QED
    BY <1>8, <2>1, <2>2
<1>11. new["stepsErrors"].own = TRUE
  <2>1. fetched["steps"].own = TRUE
    BY <1>2, <1>7
  <2>2. new["stepsErrors"] = StepsErrors(fetched["steps"])
    BY <1>5
  <2> QED
    BY <2>1, <2>2 DEF StepsErrors, OwnFile
<1>12. \A f \in Files : new[f].own = TRUE
  BY <1>2, <1>5, <1>7, <1>9, <1>10, <1>11
<1> QED
  BY <1>12 DEF new

(* There, answers that are neither empty nor cut off, or none, leave data that can be     *)
(* read: the defaults stand in for what is not there.                                    *)
LEMMA WholeFromScratch ==
    ASSUME NEW answer \in [Asked -> Answers],
           \A f \in Asked : answer[f] \notin {"empty", "cut"},
           \A f \in Asked \ {"testsErrors"} : answer[f] # "noTests"
    PROVE  WholeData(Collected(NoFiles, answer))
<1> DEFINE tests == TestsOrDefault(NoFiles["testsErrors"], answer["testsErrors"])
           fetched == Requested(NoFiles, answer)
           whole == \A p \in Parts : IsJson(fetched[p])
           own == \A p \in Parts : fetched[p].own
           both == own /\ NoFiles["bulk"].own
           new == Collected(NoFiles, answer)
<1>1. \A a \in {"good", "failed"} :
          /\ IsJson(FetchedOrDefault(Absent, a)) /\ IsJson(Coverage(Absent, a))
          /\ \A t : IsJson(Summary(Absent, a, t))
  BY DEF Fetched, FetchedOrDefault, Coverage, Summary, OwnFile, Absent, IsJson
<1>2. \A a \in {"good", "failed", "noTests"} : IsJson(TestsOrDefault(Absent, a))
  BY DEF Fetched, FetchedOrDefault, TestsOrDefault, OwnFile, Absent, IsJson
<1>3. Asked \subseteq Files /\ "testsErrors" \in Asked /\ Parts \subseteq Asked
      /\ {"build", "changeSet", "testsErrors", "testsSummary"} \subseteq Asked
  BY DEF Asked, Files, Parts
<1>4. \A f \in Asked : NoFiles[f] = Absent
  BY <1>3 DEF NoFiles
<1>5. \A f \in Asked : answer[f] \in {"good", "failed", "noTests"}
                       /\ (f # "testsErrors" => answer[f] \in {"good", "failed"})
  BY DEF Answers
<1>6. \A f \in Asked :
          fetched[f] = IF f = "testsErrors" THEN tests
                       ELSE IF f = "testsSummary" THEN Summary(NoFiles[f], answer[f], tests)
                       ELSE IF f = "coverage" THEN Coverage(NoFiles[f], answer[f])
                       ELSE FetchedOrDefault(NoFiles[f], answer[f])
  BY RequestedFiles
<1>7. /\ \A f \in Asked : new[f] = fetched[f]
      /\ new["stepsErrors"] = StepsErrors(fetched["steps"])
      /\ new["report"] = [form |-> IF whole THEN "good" ELSE "cut", own |-> own]
      /\ new["bulk"] \in {[form |-> "good", own |-> both], NoFiles["bulk"]}
      /\ new["ciBuild"] = [form |-> IF whole THEN "good" ELSE "empty", own |-> own]
  BY CollectedFiles
<1> HIDE DEF tests, fetched, new
<1>8. IsJson(fetched["testsErrors"])
  BY <1>2, <1>3, <1>4, <1>5, <1>6 DEF tests
<1>9. \A f \in Asked : IsJson(fetched[f])
  BY <1>1, <1>4, <1>5, <1>6, <1>8
<1>10. whole
  BY <1>3, <1>9
<1> HIDE DEF whole, own, both
<1>11. \A f \in Asked : IsJson(new[f])
  BY <1>7, <1>9
<1>12. new["report"].form = "good" /\ new["ciBuild"].form = "good"
  BY <1>7, <1>10
<1>13. IsJson(new["stepsErrors"])
  BY <1>7 DEF StepsErrors, OwnFile, IsJson
<1>14. \A i \in 1..5 : IsJson(new[ReadOrder[i]])
  <2>1. /\ ReadOrder[1] = "build" /\ ReadOrder[2] = "changeSet" /\ ReadOrder[3] = "stepsErrors"
        /\ ReadOrder[4] = "testsErrors" /\ ReadOrder[5] = "testsSummary"
    BY DEF ReadOrder
  <2>2. \A i \in 1..5 : i = 1 \/ i = 2 \/ i = 3 \/ i = 4 \/ i = 5
    OBVIOUS
  <2> QED
    BY <1>3, <1>11, <1>13, <2>1, <2>2
<1>15. 5 \in 0..Len(ReadOrder)
  BY DEF ReadOrder
<1>16. 5 \in Readable(new)
  BY <1>14, <1>15 DEF Readable
<1> QED
  BY <1>16, <1>12 DEF WholeData, IsJson, new

(* What the step of a build does to the others: nothing, as it writes to its own          *)
(* workspace only, and leaves the comment and the check, or makes them its own.          *)
LEMMA BuildStep ==
    ASSUME NInv, NEW b \in Builds, NEW new \in BuildStates, BuildBecomes(b, new),
           build[b].at # "done",
           new.node \in Nodes <=> new.at \in OnNode, new.tries < IssueTries,
           new.left => new.at = "done",
           new.node \in Nodes => new.node = build[b].node \/ Free(new.node),
           workspace' \in [Nodes -> [Files -> Contents]],
           \A n \in Nodes : workspace'[n] = workspace[n] \/ n = build[b].node,
           SomebodyLeft \/ new.left \/ ~new.stale,
           build[b].node \in Nodes =>
               \/ SomebodyLeft \/ new.left \/ workspace'[build[b].node] = NoFiles
               \/ new.node = build[b].node /\ new.at \in Collecting,
           new.at \in Collecting /\ ~new.outer /\ ~new.faulty =>
               SomebodyLeft \/ new.left \/ WholeData(workspace'[new.node]),
           comment' \in {comment} \cup [by : {b}, parts : SUBSET Notes],
           check' \in {check, b},
           ShowsOK(b, new, comment'), SilentOK(b, new, comment', check')
    PROVE  NInv'
<1>1. /\ build' \in [Builds -> BuildStates] /\ build'[b] = new
      /\ \A c \in Builds : c # b => build'[c] = build[c]
  BY DEF NInv, NotifyTypeOK, BuildBecomes
<1>2. NotifyTypeOK'
  <2>1. comment' \in [by : Builds \cup {0}, parts : SUBSET Notes] /\ check' \in Builds \cup {0}
    BY DEF NInv, NotifyTypeOK
  <2> QED
    BY <1>1, <2>1 DEF NotifyTypeOK
<1>3. SomebodyLeft' <=> SomebodyLeft \/ new.left
  BY <1>1 DEF SomebodyLeft, NInv, NodesOK
<1>4. NodesOK'
  <2>1. \A c, d \in Builds : build'[c].node = build'[d].node /\ build'[c].node \in Nodes => c = d
    BY <1>1 DEF NInv, NodesOK, Free
  <2> QED
    BY <1>1, <2>1 DEF NInv, NodesOK
<1>5. WorkspacesOK'
  <2> SUFFICES ASSUME ~SomebodyLeft, ~new.left PROVE WorkspacesOK'
    BY <1>3 DEF WorkspacesOK
  <2>1. ASSUME NEW n \in Nodes, workspace'[n] # NoFiles
        PROVE  \E c \in Builds : build'[c].node = n /\ build'[c].at \in Collecting
    <3>1. CASE n = build[b].node
      BY <1>1, <2>1, <3>1
    <3>2. CASE n # build[b].node
      <4>1. PICK c \in Builds : build[c].node = n /\ build[c].at \in Collecting
        BY <2>1, <3>2 DEF NInv, WorkspacesOK
      <4> QED
        BY <1>1, <3>2, <4>1
    <3> QED
      BY <3>1, <3>2
  <2>2. \A c \in Builds : ~build'[c].stale
    BY <1>1 DEF NInv, WorkspacesOK
  <2> QED
    BY <2>1, <2>2 DEF WorkspacesOK
<1>6. DataOK'
  <2> SUFFICES ASSUME NEW c \in Builds, build'[c].at \in Collecting, ~build'[c].outer, ~build'[c].faulty,
                      ~SomebodyLeft, ~new.left
               PROVE  WholeData(workspace'[build'[c].node])
    BY <1>3 DEF DataOK
  <2>1. CASE c = b
    BY <1>1, <2>1
  <2>2. CASE c # b
    <3>1. build'[c] = build[c] /\ build[c].node \in Nodes
      BY <1>1, <2>2 DEF NInv, NodesOK, Collecting
    <3>2. build[c].node # build[b].node
      BY <2>2, <3>1 DEF NInv, NodesOK
    <3>3. WholeData(workspace[build[c].node])
      BY <3>1 DEF NInv, DataOK
    <3> QED
      BY <3>1, <3>2, <3>3
  <2> QED
    BY <2>1, <2>2
<1>7. ASSUME NEW c \in Builds, c # b
      PROVE  ShowsOK(c, build'[c], comment') /\ SilentOK(c, build'[c], comment', check')
  <2>1. build'[c] = build[c] /\ (comment' = comment \/ comment'.by # c) /\ (check' = check \/ check' # c)
    BY <1>1, <1>7
  <2>2. ShowsOK(c, build[c], comment) /\ SilentOK(c, build[c], comment, check)
    BY DEF NInv, CommentsOK, SilenceOK
  <2> QED
    BY <2>1, <2>2 DEF ShowsOK, SilentOK
<1>8. CommentsOK' /\ SilenceOK'
  BY <1>1, <1>7 DEF CommentsOK, SilenceOK
<1> QED
  BY <1>2, <1>4, <1>5, <1>6, <1>8 DEF NInv

(* A build that goes on at its node, and leaves its workspace alone.                      *)
LEMMA OrdinaryStep ==
    ASSUME NInv, NEW b \in Builds, NEW new \in BuildStates, BuildBecomes(b, new), UNCHANGED workspace,
           build[b].at \in OnNode, new.at \in OnNode,
           new.node = build[b].node, new.stale = build[b].stale, new.left = build[b].left,
           new.tries < IssueTries,
           build[b].at \in Collecting => new.at \in Collecting,
           new.at \in Collecting /\ ~new.outer =>
               build[b].at \in Collecting /\ ~build[b].outer /\ new.faulty = build[b].faulty,
           comment' \in {comment} \cup [by : {b}, parts : SUBSET Notes],
           check' \in {check, b},
           ShowsOK(b, new, comment'), SilentOK(b, new, comment', check')
    PROVE  NInv'
<1>1. /\ workspace' \in [Nodes -> [Files -> Contents]]
      /\ \A n \in Nodes : workspace'[n] = workspace[n]
  BY DEF NInv, NotifyTypeOK
<1>2. build[b].at # "done" /\ build[b].node \in Nodes /\ ~build[b].left
  BY DEF NInv, NodesOK, OnNode
<1>3. SomebodyLeft \/ ~new.stale
  BY DEF NInv, WorkspacesOK
<1>4. \/ SomebodyLeft \/ workspace'[build[b].node] = NoFiles
      \/ new.node = build[b].node /\ new.at \in Collecting
  <2>1. ASSUME NEW c \in Builds, build[c].node = build[b].node, build[c].at \in Collecting
        PROVE  new.at \in Collecting
    BY <1>2, <2>1 DEF NInv, NodesOK
  <2> QED
    BY <1>1, <1>2, <2>1 DEF NInv, WorkspacesOK
<1>5. new.at \in Collecting /\ ~new.outer /\ ~new.faulty => SomebodyLeft \/ WholeData(workspace'[new.node])
  BY <1>1, <1>2 DEF NInv, DataOK
<1> QED
  BY <1>1, <1>2, <1>3, <1>4, <1>5, BuildStep

(* The three ways in which most steps go on: to another place, there with a notification, *)
(* and past all that is left of the notifications.                                       *)
LEMMA GoesStep ==
    ASSUME NInv, NEW b \in Builds, NEW place \in OnNode, Goes(b, place), UNCHANGED workspace,
           build[b].at \in OnNode, build[b].at \in Collecting <=> place \in Collecting,
           comment' \in {comment} \cup [by : {b}, parts : SUBSET Notes], check' \in {check, b},
           place \in {"analyze", "flaky", "commands", "comment"} /\ build[b].ask.prComment
               => HasText(build[b].notes),
           comment'.by = b /\ build[b].ask.aggregate =>
               /\ place \in Commented /\ comment'.parts = build[b].notes
               /\ build[b].ask.prComment => HasText(build[b].notes),
           place \in {"secret", "collect"} =>
               comment'.by # b /\ check' # b /\ build[b].counted = 0
    PROVE  NInv'
<1> DEFINE new == [build[b] EXCEPT !.at = place]
<1>1. build[b] \in BuildStates /\ build[b].tries < IssueTries
  BY DEF NInv, NotifyTypeOK, NodesOK
<1>2. place \in NotifyPlaces /\ place \notin {"building", "threw", "done"}
  BY DEF OnNode, NotifyPlaces
<1>3. new \in BuildStates
  BY <1>1, <1>2 DEF BuildStates
<1>4. /\ new.at = place /\ new.node = build[b].node /\ new.ask = build[b].ask /\ new.stale = build[b].stale
      /\ new.faulty = build[b].faulty /\ new.notes = build[b].notes /\ new.tries = build[b].tries
      /\ new.counted = build[b].counted /\ new.outer = build[b].outer /\ new.left = build[b].left
  BY <1>1 DEF BuildStates
<1>5. BuildBecomes(b, new)
  BY DEF Goes
<1> HIDE DEF new
<1>6. ShowsOK(b, new, comment') /\ SilentOK(b, new, comment', check')
  BY <1>2, <1>4 DEF ShowsOK, SilentOK
<1> QED
  BY <1>1, <1>3, <1>4, <1>5, <1>6, OrdinaryStep

LEMMA NotedStep ==
    ASSUME NInv, NEW b \in Builds, NEW place \in Collecting, NEW note \in Notes, Noted(b, note, place),
           UNCHANGED workspace, build[b].at \in Collecting,
           comment' \in {comment} \cup [by : {b}, parts : SUBSET Notes], check' \in {check, b},
           build[b].ask.prComment => note \in {"report", "blank"} \/ HasText(build[b].notes),
           ~(comment'.by = b /\ build[b].ask.aggregate)
    PROVE  NInv'
<1> DEFINE notes == build[b].notes \cup {note}
           new == [build[b] EXCEPT !.at = place, !.notes = notes]
<1>1. build[b] \in BuildStates /\ build[b].tries < IssueTries
  BY DEF NInv, NotifyTypeOK, NodesOK
<1>2. place \in NotifyPlaces /\ place \notin {"building", "secret", "collect", "threw", "done"}
  BY DEF Collecting, OnNode, NotifyPlaces
<1>3. notes \in SUBSET Notes
  BY <1>1 DEF BuildStates
<1>4. build[b].ask.prComment => HasText(notes)
  BY DEF HasText
<1>5. BuildBecomes(b, new)
  BY DEF Noted
<1> HIDE DEF notes
<1>6. new \in BuildStates
  BY <1>1, <1>2, <1>3 DEF BuildStates
<1>7. /\ new.at = place /\ new.node = build[b].node /\ new.ask = build[b].ask /\ new.stale = build[b].stale
      /\ new.faulty = build[b].faulty /\ new.notes = notes /\ new.tries = build[b].tries
      /\ new.counted = build[b].counted /\ new.outer = build[b].outer /\ new.left = build[b].left
  BY <1>1 DEF BuildStates
<1> HIDE DEF new
<1>8. ShowsOK(b, new, comment') /\ SilentOK(b, new, comment', check')
  BY <1>2, <1>4, <1>7 DEF ShowsOK, SilentOK
<1>9. build[b].at \in OnNode /\ place \in OnNode
  BY DEF Collecting
<1> QED
  BY <1>1, <1>5, <1>6, <1>7, <1>8, <1>9, OrdinaryStep

LEMMA OuterStep ==
    ASSUME NInv, NEW b \in Builds, OuterCatches(b), UNCHANGED workspace, build[b].at \in OnNode,
           comment' \in {comment} \cup [by : {b}, parts : SUBSET Notes], check' \in {check, b},
           comment'.by = b /\ build[b].ask.aggregate =>
               /\ comment'.parts = build[b].notes
               /\ build[b].ask.prComment => HasText(build[b].notes)
    PROVE  NInv'
<1> DEFINE new == [build[b] EXCEPT !.at = "telemetry", !.outer = TRUE]
<1>1. build[b] \in BuildStates /\ build[b].tries < IssueTries
  BY DEF NInv, NotifyTypeOK, NodesOK
<1>2. "telemetry" \in NotifyPlaces /\ "telemetry" \in Collecting /\ "telemetry" \in OnNode
      /\ "telemetry" \in Commented
  BY DEF Collecting, OnNode, NotifyPlaces, Commented
<1>3. new \in BuildStates
  BY <1>1, <1>2 DEF BuildStates
<1>4. /\ new.at = "telemetry" /\ new.node = build[b].node /\ new.ask = build[b].ask
      /\ new.stale = build[b].stale /\ new.notes = build[b].notes /\ new.tries = build[b].tries
      /\ new.outer = TRUE /\ new.left = build[b].left
  BY <1>1 DEF BuildStates
<1>5. BuildBecomes(b, new)
  BY DEF OuterCatches
<1> HIDE DEF new
<1>6. ShowsOK(b, new, comment') /\ SilentOK(b, new, comment', check')
  BY <1>2, <1>4 DEF ShowsOK, SilentOK
<1> QED
  BY <1>1, <1>2, <1>3, <1>4, <1>5, <1>6, OrdinaryStep

(* What a build at a place knows of itself.                                              *)
LEMMA AtPlace ==
    ASSUME NInv, NEW b \in Builds
    PROVE  /\ build[b] \in BuildStates /\ build[b].tries < IssueTries
           /\ build[b].at \in OnNode <=> build[b].node \in Nodes
           /\ build[b].at # "done" => ~build[b].left
           /\ comment \in [by : Builds \cup {0}, parts : SUBSET Notes] /\ check \in Builds \cup {0}
           /\ workspace \in [Nodes -> [Files -> Contents]]
           /\ ShowsOK(b, build[b], comment) /\ SilentOK(b, build[b], comment, check)
BY DEF NInv, NotifyTypeOK, NodesOK, CommentsOK, SilenceOK

LEMMA BeginOK == ASSUME NInv, NEW b \in Builds, NEW n \in Nodes, Begin(b, n) PROVE NInv'
<1> DEFINE new == [build[b] EXCEPT !.at = "secret", !.node = n]
<1>1. /\ build[b].at = "building" /\ Free(n) /\ UNCHANGED <<comment, check, workspace>>
      /\ BuildBecomes(b, new)
  BY DEF Begin, At
<1>2. build[b] \in BuildStates /\ build[b].tries < IssueTries /\ ~build[b].left
      /\ workspace \in [Nodes -> [Files -> Contents]]
      /\ build[b].node \notin Nodes
  BY <1>1, AtPlace DEF OnNode
<1>3. "secret" \in OnNode /\ "secret" \notin Collecting /\ "secret" \in NotifyPlaces
      /\ "secret" \notin Commented
  BY DEF OnNode, Collecting, NotifyPlaces, Commented
<1>4. new \in BuildStates
  BY <1>2, <1>3 DEF BuildStates
<1>5. /\ new.at = "secret" /\ new.node = n /\ new.ask = build[b].ask /\ new.stale = build[b].stale
      /\ new.tries = build[b].tries /\ new.counted = build[b].counted /\ new.left = build[b].left
  BY <1>2 DEF BuildStates
<1> HIDE DEF new
<1>6. SomebodyLeft \/ ~build[b].stale
  BY DEF NInv, WorkspacesOK
<1>7. comment.by # b /\ check # b /\ build[b].counted = 0
  BY <1>1, AtPlace DEF SilentOK
<1>8. ShowsOK(b, new, comment') /\ SilentOK(b, new, comment', check')
  BY <1>1, <1>5, <1>7 DEF ShowsOK, SilentOK
<1> QED
  BY <1>1, <1>2, <1>3, <1>4, <1>5, <1>6, <1>8, BuildStep

LEMMA ReadSecretOK == ASSUME NInv, NEW b \in Builds, ReadSecret(b) PROVE NInv'
<1>1. /\ build[b].at = "secret" /\ UNCHANGED <<comment, check, workspace>>
  BY DEF ReadSecret, At
<1>2. comment.by # b /\ check # b /\ build[b].counted = 0
  BY <1>1, AtPlace DEF SilentOK
<1>3. CASE Goes(b, "collect")
  <2>1. {"secret", "collect"} \subseteq OnNode /\ "secret" \notin Collecting /\ "collect" \notin Collecting
    BY DEF OnNode, Collecting
  <2> QED
    BY <1>1, <1>2, <1>3, <2>1, GoesStep
<1>4. CASE BuildBecomes(b, [build[b] EXCEPT !.at = "threw", !.node = "none"])
  <2> DEFINE new == [build[b] EXCEPT !.at = "threw", !.node = "none"]
  <2>1. build[b] \in BuildStates /\ build[b].tries < IssueTries /\ ~build[b].left /\ build[b].node \in Nodes
        /\ workspace \in [Nodes -> [Files -> Contents]]
    BY <1>1, AtPlace DEF OnNode
  <2>2. "threw" \in NotifyPlaces /\ "threw" \notin OnNode /\ "threw" \notin Collecting /\ "secret" \notin Collecting
    BY DEF OnNode, Collecting, NotifyPlaces
  <2>3. new \in BuildStates
    BY <2>1, <2>2 DEF BuildStates
  <2>4. /\ new.at = "threw" /\ new.node = "none" /\ new.ask = build[b].ask /\ new.stale = build[b].stale
        /\ new.tries = build[b].tries /\ new.counted = build[b].counted /\ new.left = build[b].left
    BY <2>1 DEF BuildStates
  <2>5. BuildBecomes(b, new) /\ "none" \notin Nodes
    BY <1>4, BuildNotifyAssumption
  <2> HIDE DEF new
  <2>6. SomebodyLeft \/ ~build[b].stale
    BY DEF NInv, WorkspacesOK
  <2>7. SomebodyLeft \/ workspace[build[b].node] = NoFiles
    BY <1>1, <2>1, <2>2 DEF NInv, WorkspacesOK, NodesOK
  <2>8. ShowsOK(b, new, comment') /\ SilentOK(b, new, comment', check')
    BY <1>1, <1>2, <2>4 DEF ShowsOK, SilentOK
  <2> QED
    BY <1>1, <2>1, <2>2, <2>3, <2>4, <2>5, <2>6, <2>7, <2>8, BuildStep
<1> QED
  BY <1>3, <1>4 DEF ReadSecret

LEMMA AnswersAreAnswers ==
    ASSUME NEW answer \in AnswersPossible
    PROVE  answer \in [Asked -> Answers] /\ \A f \in Asked \ {"testsErrors"} : answer[f] # "noTests"
<1>1. PICK given \in [Unreliable -> Answers] :
          /\ \A f \in Unreliable \ {"testsErrors"} : given[f] # "noTests"
          /\ answer = [f \in Asked |-> IF f \in Unreliable THEN given[f] ELSE "good"]
  BY DEF AnswersPossible
<1>2. "good" \in Answers
  BY DEF Answers
<1> QED
  BY <1>1, <1>2

LEMMA CollectOK == ASSUME NInv, NEW b \in Builds, Collect(b) PROVE NInv'
<1>1. build[b].at = "collect" /\ UNCHANGED <<comment, check>>
  BY DEF Collect, At
<1>2. build[b] \in BuildStates /\ build[b].tries < IssueTries /\ ~build[b].left /\ build[b].node \in Nodes
      /\ workspace \in [Nodes -> [Files -> Contents]]
      /\ comment.by # b /\ check # b /\ build[b].counted = 0
  BY <1>1, AtPlace DEF OnNode, SilentOK
<1>3. PICK answer \in AnswersPossible :
          LET files == Collected(workspace[build[b].node], answer)
          IN  /\ workspace' = [workspace EXCEPT ![build[b].node] = files]
              /\ \E n \in Readable(files), flaky \in 0..MaxFlaky :
                     BuildBecomes(b, [build[b] EXCEPT
                         !.at = AfterCollect(build[b].ask), !.outer = build[b].ask.titled,
                         !.flaky = flaky,
                         !.stale = \E i \in 1..n : ~files[ReadOrder[i]].own,
                         !.faulty = \E f \in Asked : answer[f] \in {"empty", "cut"}])
  BY DEF Collect
<1> DEFINE files == Collected(workspace[build[b].node], answer)
<1>4. PICK n \in Readable(files), flaky \in 0..MaxFlaky :
          BuildBecomes(b, [build[b] EXCEPT
              !.at = AfterCollect(build[b].ask), !.outer = build[b].ask.titled,
              !.flaky = flaky,
              !.stale = \E i \in 1..n : ~files[ReadOrder[i]].own,
              !.faulty = \E f \in Asked : answer[f] \in {"empty", "cut"}])
  BY <1>3
<1> DEFINE place == AfterCollect(build[b].ask)
           titled == build[b].ask.titled
           stale == \E i \in 1..n : ~files[ReadOrder[i]].own
           faulty == \E f \in Asked : answer[f] \in {"empty", "cut"}
           new == [build[b] EXCEPT !.at = place, !.outer = titled, !.flaky = flaky,
                                   !.stale = stale, !.faulty = faulty]
<1>5. answer \in [Asked -> Answers] /\ \A f \in Asked \ {"testsErrors"} : answer[f] # "noTests"
  BY AnswersAreAnswers
<1>6. /\ files \in [Files -> Contents] /\ workspace' = [workspace EXCEPT ![build[b].node] = files]
  BY <1>2, <1>3, <1>5, CollectedType
<1>7. SomebodyLeft \/ workspace[build[b].node] = NoFiles
  BY <1>1, <1>2 DEF NInv, WorkspacesOK, NodesOK, Collecting
<1>8. SomebodyLeft \/ ~stale
  <2> SUFFICES ASSUME ~SomebodyLeft, NEW i \in 1..n PROVE files[ReadOrder[i]].own
    OBVIOUS
  <2>1. ReadOrder[i] \in Files
    <3>1. i \in 1..5
      BY DEF Readable, ReadOrder
    <3>2. i = 1 \/ i = 2 \/ i = 3 \/ i = 4 \/ i = 5
      BY <3>1
    <3> QED
      BY <3>2 DEF ReadOrder, Files
  <2> QED
    BY <1>5, <1>7, <2>1, OwnData
<1>9. SomebodyLeft \/ faulty \/ WholeData(files)
  BY <1>5, <1>7, WholeFromScratch
<1>10. BuildBecomes(b, new)
  BY <1>4
<1>11. stale \in BOOLEAN /\ faulty \in BOOLEAN
  OBVIOUS
<1>12. titled \in BOOLEAN /\ place \in {"telemetry", "report"}
  <2>1. build[b].ask \in Requests
    BY <1>2 DEF BuildStates
  <2> QED
    BY <2>1, BuildNotifyAssumption DEF AfterCollect
<1> HIDE DEF files, stale, faulty, place, titled
<1>13. {"telemetry", "report"} \subseteq Collecting /\ {"telemetry", "report"} \subseteq OnNode
      /\ {"telemetry", "report"} \subseteq NotifyPlaces
  BY DEF Collecting, OnNode, NotifyPlaces
<1>14. new \in BuildStates
  BY <1>2, <1>11, <1>12, <1>13 DEF BuildStates
<1>15. /\ new.at = place /\ new.node = build[b].node /\ new.stale = stale /\ new.faulty = faulty
       /\ new.tries = build[b].tries /\ new.left = build[b].left
  BY <1>2 DEF BuildStates
<1> HIDE DEF new
<1>16. ShowsOK(b, new, comment') /\ SilentOK(b, new, comment', check')
  BY <1>1, <1>2, <1>12, <1>15 DEF ShowsOK, SilentOK
<1>17. /\ workspace' \in [Nodes -> [Files -> Contents]] /\ workspace'[build[b].node] = files
       /\ \A m \in Nodes : workspace'[m] = workspace[m] \/ m = build[b].node
  BY <1>2, <1>6
<1> QED
  BY <1>1, <1>2, <1>8, <1>9, <1>10, <1>12, <1>13, <1>14, <1>15, <1>16, <1>17, BuildStep

LEMMA CollectFailsOK == ASSUME NInv, NEW b \in Builds, CollectFails(b) PROVE NInv'
<1>1. build[b].at = "collect" /\ UNCHANGED <<comment, check, workspace>> /\ OuterCatches(b)
  BY DEF CollectFails, At
<1>2. comment.by # b /\ build[b].at \in OnNode
  BY <1>1, AtPlace DEF SilentOK, OnNode
<1> QED
  BY <1>1, <1>2, OuterStep

(* Where nothing is shown yet, an aggregated comment is not the build's.                  *)
LEMMA NotYetShown ==
    ASSUME NInv, NEW b \in Builds, build[b].at \in {"report", "analyze", "flaky", "commands", "comment"}
    PROVE  /\ build[b].at \in OnNode /\ build[b].at \in Collecting
           /\ ~(comment.by = b /\ build[b].ask.aggregate)
           /\ build[b].at # "report" /\ build[b].ask.prComment => HasText(build[b].notes)
BY AtPlace DEF OnNode, Collecting, ShowsOK, Commented

LEMMA CommentsNowOK ==
    ASSUME NInv, NEW b \in Builds, NEW parts \in SUBSET Notes, CommentsNow(b, parts),
           ~(comment.by = b /\ build[b].ask.aggregate)
    PROVE  /\ comment' \in {comment} \cup [by : {b}, parts : SUBSET Notes]
           /\ ~(comment'.by = b /\ build[b].ask.aggregate)
BY DEF CommentsNow

LEMMA ReportOK == ASSUME NInv, NEW b \in Builds, Report(b) PROVE NInv'
<1>1. build[b].at = "report" /\ UNCHANGED <<check, workspace>> /\ {"report", "blank"} \subseteq Notes
  BY DEF Report, At, Notes
<1>2. {"analyze"} \subseteq Collecting /\ {"analyze"} \subseteq OnNode
  BY DEF Collecting, OnNode
<1>3. CASE build[b].ask.prComment
  <2>1. PICK text \in {"report", "blank"} : Noted(b, text, "analyze") /\ CommentsNow(b, {text})
    BY <1>3 DEF Report
  <2>2. {text} \in SUBSET Notes /\ text \in Notes
    BY <1>1
  <2>3. /\ comment' \in {comment} \cup [by : {b}, parts : SUBSET Notes]
        /\ ~(comment'.by = b /\ build[b].ask.aggregate)
    BY <1>1, <2>1, <2>2, NotYetShown, CommentsNowOK
  <2> QED
    BY <1>1, <1>2, <2>1, <2>2, <2>3, NotYetShown, NotedStep
<1>4. CASE ~build[b].ask.prComment
  BY <1>1, <1>2, <1>4, NotYetShown, GoesStep DEF Report
<1> QED
  BY <1>3, <1>4

LEMMA AnalyzeOK == ASSUME NInv, NEW b \in Builds, Analyze(b) PROVE NInv'
<1>1. build[b].at = "analyze" /\ UNCHANGED <<comment, check, workspace>>
  BY DEF Analyze, At
<1>2. {"flaky", "commands"} \subseteq Collecting /\ {"flaky", "commands"} \subseteq OnNode
  BY DEF Collecting, OnNode
<1> QED
  BY <1>1, <1>2, NotYetShown, GoesStep DEF Analyze

(* The issues for flaky tests are between two places of the build.                        *)
LEMMA FlakyStep ==
    ASSUME NInv, NEW b \in Builds, build[b].at = "flaky", UNCHANGED <<comment, check, workspace>>,
           NEW flaky \in 0..MaxFlaky, NEW tries \in 0..IssueTries, NEW counted \in 0..MaxIssues,
           tries < IssueTries,
           BuildBecomes(b, [build[b] EXCEPT !.flaky = flaky, !.tries = tries, !.counted = counted])
    PROVE  NInv'
<1> DEFINE new == [build[b] EXCEPT !.flaky = flaky, !.tries = tries, !.counted = counted]
<1>1. build[b] \in BuildStates
  BY AtPlace
<1>2. new \in BuildStates
  BY <1>1 DEF BuildStates
<1>3. /\ new.at = build[b].at /\ new.node = build[b].node /\ new.ask = build[b].ask
      /\ new.stale = build[b].stale /\ new.faulty = build[b].faulty /\ new.notes = build[b].notes
      /\ new.tries = tries /\ new.outer = build[b].outer /\ new.left = build[b].left
  BY <1>1 DEF BuildStates
<1> HIDE DEF new
<1>4. ShowsOK(b, new, comment') /\ SilentOK(b, new, comment', check')
  BY <1>3, NotYetShown DEF ShowsOK, SilentOK
<1>5. build[b].at \in OnNode /\ build[b].at \in Collecting
  BY NotYetShown
<1>6. BuildBecomes(b, new)
  BY DEF new
<1> QED
  BY <1>2, <1>3, <1>4, <1>5, <1>6, OrdinaryStep

LEMMA CreateIssueOK == ASSUME NInv, NEW b \in Builds, CreateIssue(b) PROVE NInv'
<1>1. /\ build[b].at = "flaky" /\ UNCHANGED <<comment, check, workspace>>
      /\ build[b].flaky > 0 /\ build[b].counted < MaxIssues
  BY DEF CreateIssue, At
<1>2. build[b].flaky \in 0..MaxFlaky /\ build[b].counted \in 0..MaxIssues
  BY AtPlace DEF BuildStates
<1>3. /\ build[b].flaky - 1 \in 0..MaxFlaky /\ build[b].counted + 1 \in 0..MaxIssues
      /\ 0 \in 0..IssueTries /\ 0 < IssueTries
  BY <1>1, <1>2, BuildNotifyAssumption
<1>4. BuildBecomes(b, [build[b] EXCEPT !.flaky = build[b].flaky - 1, !.tries = 0,
                                       !.counted = build[b].counted + 1])
  BY DEF CreateIssue
<1> QED
  BY <1>1, <1>3, <1>4, FlakyStep

LEMMA CreateIssueFailsOK == ASSUME NInv, NEW b \in Builds, CreateIssueFails(b) PROVE NInv'
<1> DEFINE last == build[b].tries + 1 = IssueTries
           flaky == IF last THEN build[b].flaky - 1 ELSE build[b].flaky
           tries == IF last THEN 0 ELSE build[b].tries + 1
<1>1. /\ build[b].at = "flaky" /\ UNCHANGED <<comment, check, workspace>> /\ build[b].flaky > 0
  BY DEF CreateIssueFails, At
<1>2. /\ build[b].flaky \in 0..MaxFlaky /\ build[b].tries \in 0..IssueTries
      /\ build[b].counted \in 0..MaxIssues /\ build[b].tries < IssueTries
  BY AtPlace DEF BuildStates
<1>3. flaky \in 0..MaxFlaky /\ tries \in 0..IssueTries /\ tries < IssueTries
  BY <1>1, <1>2, BuildNotifyAssumption
<1>4. BuildBecomes(b, [build[b] EXCEPT !.flaky = flaky, !.tries = tries])
  BY DEF CreateIssueFails
<1> HIDE DEF flaky, tries
<1>5. [build[b] EXCEPT !.flaky = flaky, !.tries = tries]
          = [build[b] EXCEPT !.flaky = flaky, !.tries = tries, !.counted = build[b].counted]
  BY AtPlace DEF BuildStates
<1> QED
  BY <1>1, <1>2, <1>3, <1>4, <1>5, FlakyStep

LEMMA EnoughIssuesOK == ASSUME NInv, NEW b \in Builds, EnoughIssues(b) PROVE NInv'
<1> DEFINE flaky == build[b].flaky - 1
<1>1. /\ build[b].at = "flaky" /\ UNCHANGED <<comment, check, workspace>> /\ build[b].flaky > 0
  BY DEF EnoughIssues, At
<1>2. /\ build[b].flaky \in 0..MaxFlaky /\ build[b].tries \in 0..IssueTries
      /\ build[b].counted \in 0..MaxIssues /\ build[b].tries < IssueTries
  BY AtPlace DEF BuildStates
<1>3. flaky \in 0..MaxFlaky
  BY <1>1, <1>2, BuildNotifyAssumption
<1>4. BuildBecomes(b, [build[b] EXCEPT !.flaky = flaky])
  BY DEF EnoughIssues
<1> HIDE DEF flaky
<1>5. [build[b] EXCEPT !.flaky = flaky]
          = [build[b] EXCEPT !.flaky = flaky, !.tries = build[b].tries, !.counted = build[b].counted]
  BY AtPlace DEF BuildStates
<1> QED
  BY <1>1, <1>2, <1>3, <1>4, <1>5, FlakyStep

LEMMA FlakySummaryOK == ASSUME NInv, NEW b \in Builds, FlakySummary(b) PROVE NInv'
<1>1. build[b].at = "flaky" /\ UNCHANGED <<comment, check, workspace>> /\ "flaky" \in Notes
  BY DEF FlakySummary, At, Notes
<1>2. "commands" \in Collecting /\ "commands" \in OnNode
  BY DEF Collecting, OnNode
<1>3. CASE Noted(b, "flaky", "commands")
  BY <1>1, <1>2, <1>3, NotYetShown, NotedStep
<1>4. CASE Goes(b, "commands")
  BY <1>1, <1>2, <1>4, NotYetShown, GoesStep
<1> QED
  BY <1>3, <1>4 DEF FlakySummary

LEMMA CommandsOK == ASSUME NInv, NEW b \in Builds, Commands(b) PROVE NInv'
<1>1. build[b].at = "commands" /\ UNCHANGED <<check, workspace>> /\ {"commands"} \in SUBSET Notes
  BY DEF Commands, At, Notes
<1>2. "comment" \in Collecting /\ "comment" \in OnNode
  BY DEF Collecting, OnNode
<1>3. /\ comment' \in {comment} \cup [by : {b}, parts : SUBSET Notes]
      /\ ~(comment'.by = b /\ build[b].ask.aggregate)
  BY <1>1, NotYetShown, CommentsNowOK DEF Commands
<1>4. CASE Noted(b, "commands", "comment")
  BY <1>1, <1>2, <1>3, <1>4, NotYetShown, NotedStep
<1>5. CASE Goes(b, "comment")
  BY <1>1, <1>2, <1>3, <1>5, NotYetShown, GoesStep
<1> QED
  BY <1>4, <1>5 DEF Commands

LEMMA AggregateCommentsOK == ASSUME NInv, NEW b \in Builds, AggregateComments(b) PROVE NInv'
<1> DEFINE new == [by |-> b, parts |-> build[b].notes]
<1>1. build[b].at = "comment" /\ UNCHANGED <<check, workspace>>
  BY DEF AggregateComments, At
<1>2. "check" \in Collecting /\ "check" \in OnNode /\ "check" \in Commented
  BY DEF Collecting, OnNode, Commented
<1>3. build[b].notes \in SUBSET Notes
  BY AtPlace DEF BuildStates
<1>4. new \in [by : {b}, parts : SUBSET Notes] /\ new.by = b /\ new.parts = build[b].notes
  BY <1>3
<1>5. \/ comment' \in {comment, new} /\ Goes(b, "check")
      \/ comment' \in {comment, new} /\ OuterCatches(b)
  BY DEF AggregateComments
<1> HIDE DEF new
<1>6. ASSUME comment' \in {comment, new}
      PROVE  /\ comment' \in {comment} \cup [by : {b}, parts : SUBSET Notes]
             /\ comment'.by = b /\ build[b].ask.aggregate =>
                    /\ comment'.parts = build[b].notes
                    /\ build[b].ask.prComment => HasText(build[b].notes)
  BY <1>1, <1>4, <1>6, NotYetShown
<1>7. CASE Goes(b, "check")
  BY <1>1, <1>2, <1>5, <1>6, <1>7, NotYetShown, GoesStep
<1>8. CASE OuterCatches(b)
  BY <1>1, <1>5, <1>6, <1>8, NotYetShown, OuterStep
<1> QED
  BY <1>5, <1>7, <1>8

(* After the comment it shows what was noted, if it is the build's.                       *)
LEMMA ShownAfterwards ==
    ASSUME NInv, NEW b \in Builds, build[b].at \in {"check", "issue", "telemetry", "clean"}
    PROVE  /\ build[b].at \in OnNode /\ build[b].at \in Collecting
           /\ comment.by = b /\ build[b].ask.aggregate =>
                  /\ comment.parts = build[b].notes
                  /\ build[b].ask.prComment => HasText(build[b].notes)
BY AtPlace DEF OnNode, Collecting, ShowsOK

LEMMA AggregateCheckOK == ASSUME NInv, NEW b \in Builds, AggregateCheck(b) PROVE NInv'
<1>1. build[b].at = "check" /\ UNCHANGED <<comment, workspace>> /\ check' \in {check, b}
  BY DEF AggregateCheck, At
<1>2. "issue" \in Collecting /\ "issue" \in OnNode /\ "issue" \in Commented
  BY DEF Collecting, OnNode, Commented
<1>3. CASE Goes(b, "issue")
  BY <1>1, <1>2, <1>3, ShownAfterwards, GoesStep
<1>4. CASE OuterCatches(b)
  BY <1>1, <1>4, ShownAfterwards, OuterStep
<1> QED
  BY <1>3, <1>4 DEF AggregateCheck

LEMMA BuildIssueOK == ASSUME NInv, NEW b \in Builds, BuildIssue(b) PROVE NInv'
<1>1. build[b].at = "issue" /\ UNCHANGED <<comment, check, workspace>> /\ Goes(b, "telemetry")
  BY DEF BuildIssue, At
<1>2. "telemetry" \in Collecting /\ "telemetry" \in OnNode /\ "telemetry" \in Commented
  BY DEF Collecting, OnNode, Commented
<1> QED
  BY <1>1, <1>2, ShownAfterwards, GoesStep

LEMMA TelemetryOK == ASSUME NInv, NEW b \in Builds, Telemetry(b) PROVE NInv'
<1>1. build[b].at = "telemetry" /\ UNCHANGED <<comment, check, workspace>> /\ Goes(b, "clean")
  BY DEF Telemetry, At
<1>2. "clean" \in Collecting /\ "clean" \in OnNode /\ "clean" \in Commented
  BY DEF Collecting, OnNode, Commented
<1> QED
  BY <1>1, <1>2, ShownAfterwards, GoesStep

LEMMA CleanOK == ASSUME NInv, NEW b \in Builds, Clean(b) PROVE NInv'
<1>1. build[b].at = "clean" /\ UNCHANGED <<comment, check>>
  BY DEF Clean, At
<1>2. PICK fails \in BOOLEAN :
          /\ BuildBecomes(b, [New(build[b].ask) EXCEPT
                                  !.at = "done", !.notes = build[b].notes, !.left = fails])
          /\ workspace' = [workspace EXCEPT ![build[b].node] =
                               IF fails THEN Left(workspace[build[b].node]) ELSE NoFiles]
  BY DEF Clean
<1> DEFINE start == New(build[b].ask)
           new == [start EXCEPT !.at = "done", !.notes = build[b].notes, !.left = fails]
           files == IF fails THEN Left(workspace[build[b].node]) ELSE NoFiles
<1>3. build[b] \in BuildStates /\ build[b].node \in Nodes /\ workspace \in [Nodes -> [Files -> Contents]]
  BY <1>1, AtPlace, ShownAfterwards
<1>4. build[b].ask \in Requests /\ build[b].notes \in SUBSET Notes
  BY <1>3 DEF BuildStates
<1>5. start \in BuildStates /\ start.node = "none" /\ start.stale = FALSE /\ start.tries = 0
      /\ start.ask = build[b].ask
  BY <1>4, BuildNotifyAssumption DEF New, BuildStates, NotifyPlaces, Notes
<1> HIDE DEF start
<1>6. "done" \in NotifyPlaces /\ "done" \notin OnNode /\ "done" \notin Collecting /\ "done" \in Commented
  BY DEF NotifyPlaces, OnNode, Collecting, Commented
<1>7. new \in BuildStates
  BY <1>4, <1>5, <1>6 DEF BuildStates
<1>8. /\ new.at = "done" /\ new.node = "none" /\ new.ask = build[b].ask /\ new.stale = FALSE
      /\ new.notes = build[b].notes /\ new.tries = 0 /\ new.left = fails
  BY <1>5 DEF BuildStates
<1>9. BuildBecomes(b, new)
  BY <1>2 DEF start
<1> HIDE DEF new
<1>10. files \in [Files -> Contents] /\ (fails \/ files = NoFiles)
  <2>1. NoFiles \in [Files -> Contents]
    BY DEF NoFiles, Absent, Contents
  <2>2. ASSUME NEW old \in [Files -> Contents] PROVE Left(old) \in [Files -> Contents]
    BY DEF Left, Contents
  <2> QED
    BY <1>3, <2>1, <2>2
<1>11. /\ workspace' \in [Nodes -> [Files -> Contents]] /\ workspace'[build[b].node] = files
       /\ \A m \in Nodes : workspace'[m] = workspace[m] \/ m = build[b].node
  BY <1>2, <1>3, <1>10
<1> HIDE DEF files
<1>12. ShowsOK(b, new, comment') /\ SilentOK(b, new, comment', check')
  BY <1>1, <1>6, <1>8, ShownAfterwards DEF ShowsOK, SilentOK
<1>13. "none" \notin Nodes /\ 0 < IssueTries
  BY BuildNotifyAssumption
<1> QED
  BY <1>1, <1>6, <1>7, <1>8, <1>9, <1>10, <1>11, <1>12, <1>13, BuildStep

(* The builds begin with the invariant, and every step keeps it.                          *)
LEMMA InitNInv == NotifyInit => NInv
<1> SUFFICES ASSUME NotifyInit PROVE NInv
  OBVIOUS
<1>1. comment = [by |-> 0, parts |-> {}] /\ check = 0 /\ workspace = [n \in Nodes |-> NoFiles]
  BY DEF NotifyInit, NoComment
<1>2. 0 \notin Builds /\ "none" \notin Nodes
  BY BuildNotifyAssumption
<1>3. ASSUME NEW b \in Builds
      PROVE  /\ build[b] \in BuildStates /\ build[b].at = "building" /\ build[b].node = "none"
             /\ build[b].tries = 0 /\ build[b].left = FALSE /\ build[b].stale = FALSE
             /\ build[b].counted = 0
  <2>1. PICK ask \in Requests : build[b] = New(ask)
    BY DEF NotifyInit
  <2> QED
    BY <2>1, BuildNotifyAssumption DEF New, BuildStates, NotifyPlaces, Notes
<1>4. build \in [Builds -> BuildStates]
  <2>1. build \in [Builds -> {New(ask) : ask \in Requests}]
    BY DEF NotifyInit
  <2> QED
    BY <1>3, <2>1
<1>5. NoFiles \in [Files -> Contents]
  BY DEF NoFiles, Absent, Contents
<1>6. NotifyTypeOK
  BY <1>1, <1>4, <1>5 DEF NotifyTypeOK
<1>7. NodesOK
  BY <1>2, <1>3, BuildNotifyAssumption DEF NodesOK, OnNode
<1>8. WorkspacesOK
  BY <1>1, <1>3 DEF WorkspacesOK
<1>9. DataOK
  BY <1>3 DEF DataOK, Collecting, OnNode
<1>10. CommentsOK
  BY <1>1, <1>2, <1>3 DEF CommentsOK, ShowsOK
<1>11. SilenceOK
  BY <1>1, <1>2, <1>3 DEF SilenceOK, SilentOK
<1> QED
  BY <1>6, <1>7, <1>8, <1>9, <1>10, <1>11 DEF NInv

LEMMA StepNInv == NInv /\ [NotifyNext]_notifyVars => NInv'
<1> SUFFICES ASSUME NInv, [NotifyNext]_notifyVars PROVE NInv'
  OBVIOUS
<1>1. ASSUME NEW b \in Builds, Step(b) PROVE NInv'
  BY <1>1, BeginOK, ReadSecretOK, CollectOK, CollectFailsOK, ReportOK, AnalyzeOK, CreateIssueOK,
     CreateIssueFailsOK, EnoughIssuesOK, FlakySummaryOK, CommandsOK, AggregateCommentsOK,
     AggregateCheckOK, BuildIssueOK, TelemetryOK, CleanOK DEF Step
<1>2. CASE UNCHANGED notifyVars
  BY <1>2 DEF notifyVars, NInv, NotifyTypeOK, NodesOK, WorkspacesOK, DataOK, CommentsOK, SilenceOK,
      SomebodyLeft
<1> QED
  BY <1>1, <1>2 DEF NotifyNext

LEMMA NInvGives == NInv => ReportsItself /\ DefaultsHold /\ CommentIsComplete /\ NoNotificationThrows
<1> SUFFICES ASSUME NInv PROVE ReportsItself /\ DefaultsHold /\ CommentIsComplete /\ NoNotificationThrows
  OBVIOUS
<1>1. ReportsItself
  BY DEF NInv, WorkspacesOK, ReportsItself
<1>2. DefaultsHold
  BY DEF NInv, DataOK, DefaultsHold, WholeData, Collecting, OnNode
<1>3. CommentIsComplete
  BY DEF NInv, CommentsOK, ShowsOK, HasText, CommentIsComplete
<1>4. NoNotificationThrows
  BY DEF NInv, SilenceOK, SilentOK, NoNotificationThrows, At
<1> QED
  BY <1>1, <1>2, <1>3, <1>4

(* What a build tells, as an invariant of every behaviour: NotifyBuild keeps its types.   *)
THEOREM NotificationInvariant == NotifySpec => []NInv
BY InitNInv, StepNInv, PTL DEF NotifySpec

(* A build reports of itself, whatever failed in the builds before it, as long as no      *)
(* deleteDir did: for any number of builds, nodes and requests to Blue Ocean.             *)
THEOREM BuildsReportThemselves == NotifySpec => []ReportsItself
BY NotificationInvariant, NInvGives, PTL

(* The defaults of generate-build-data.sh hold for every failing request, whichever and   *)
(* however many they are.                                                               *)
THEOREM DefaultsAlwaysHold == NotifySpec => []DefaultsHold
BY NotificationInvariant, NInvGives, PTL

(* The aggregated comment shows all that was noted, the report included unless its        *)
(* template failed, for any number of builds of a pull request and whatever failed.       *)
THEOREM CommentsAreComplete == NotifySpec => []CommentIsComplete
BY NotificationInvariant, NInvGives, PTL

(* No notification can fail the build, whichever of them fail.                            *)
THEOREM NotificationsDoNotThrow == NotifySpec => []NoNotificationThrows
BY NotificationInvariant, NInvGives, PTL
===================================================================================
