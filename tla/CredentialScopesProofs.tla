-------------------------- MODULE CredentialScopesProofs --------------------------
(* Theorems about CredentialScopes, for any branches, agents and nests of any shapes, of *)
(* any depth, in which every file has a clean-up.                                       *)
EXTENDS CredentialScopes, TLAPS, SequenceTheorems

(* How deep a branch is, at each place.                                                 *)
DepthOK(b) ==
    /\ branch[b].entered \in 0..Len(branch[b].nest)
    /\ At(b, "install") \/ At(b, "read") \/ At(b, "write") \/ At(b, "login") =>
           branch[b].depth \in 1..Len(branch[b].nest) /\ branch[b].entered = branch[b].depth - 1
    /\ At(b, "body") \/ At(b, "cleanup") \/ At(b, "remove") => branch[b].depth \in 1..Len(branch[b].nest)
    /\ At(b, "body") => branch[b].depth = Len(branch[b].nest)
    /\ At(b, "remove") => Shape(b).cleanup = "check"
    /\ Ended(b) => branch[b].depth = 0

(* A step that was entered and is not around the branch any more has removed its file.   *)
Removed(b) ==
    \A d \in 1..Len(branch[b].nest) :
        (HasFile(b, d) /\ files[FileOf(b, d)] = b)
        => \/ d > branch[b].entered
           \/ branch[b].nest[d].cleanup = "elsewhere"
           \/ d <= branch[b].depth

(* An exception stays on its way; without trouble of the branch's own it can only come   *)
(* from a file in a shared HOME, which is not gone between the look and the removal      *)
(* when it is the branch's own.                                                         *)
Shares(b) == \E d \in 1..Len(branch[b].nest) : HasFile(b, d) /\ ~OwnPlace(b, d)

ErrorsKept(b) ==
    /\ branch[b].trouble => branch[b].failed
    /\ branch[b].failed => branch[b].trouble \/ Shares(b)
    /\ At(b, "returned") => ~branch[b].failed
    /\ At(b, "threw") => branch[b].failed
    /\ At(b, "remove") /\ OwnPlace(b, branch[b].depth) => files[FileOf(b, branch[b].depth)] # Nobody

BranchInv(b) == DepthOK(b) /\ Removed(b) /\ ErrorsKept(b)

IInv == TypeOK /\ \A b \in Branches : BranchInv(b)

FilesType == [FileNames \X (Branches \cup Agents) -> Branches \cup {Nobody}]

(* What holds of the step of one branch: in the files it writes no name but its own, and  *)
(* only in its own place or its agent's; and it keeps its own part of the invariant.     *)
FilesOK(b) ==
    /\ files' \in FilesType
    /\ \A k \in FileNames \X (Branches \cup Agents) :
          /\ files'[k] \in {files[k], b, Nobody}
          /\ files'[k] # files[k] => k[2] = b \/ k[2] = AgentOf[b]

StepOK(b) ==
    /\ branch' = [branch EXCEPT ![b] = branch'[b]]
    /\ branch'[b] \in BranchStates /\ branch'[b].nest = branch[b].nest
    /\ FilesOK(b)
    /\ BranchInv(b)'

(* The places on the way into the nest.                                                  *)
GoingIn == {"install", "read", "write", "login"}

(* The branches begin with the invariant.                                               *)
LEMMA InitIInv == Init => IInv
<1> SUFFICES ASSUME Init PROVE IInv
    OBVIOUS
<1> USE ScopesAssumption
<1>1. ASSUME NEW b \in Branches
      PROVE  branch[b] \in BranchStates /\ BranchInv(b)
  <2>1. PICK nest \in Nests : branch[b] = New(nest)
    BY DEF Init
  <2>2. nest \in Seq(Shapes) /\ nest # <<>>
    OBVIOUS
  <2>3. Len(nest) \in Nat /\ Len(nest) >= 1
    BY <2>2, EmptySeq, LenProperties
  <2>4. First(nest, 1) \in {"install", "read", "write"}
    BY <2>3 DEF First
  <2>5. /\ branch[b].nest = nest /\ branch[b].at = First(nest, 1) /\ branch[b].depth = 1
        /\ branch[b].entered = 0 /\ branch[b].failed = FALSE /\ branch[b].trouble = FALSE
    BY <2>1 DEF New
  <2>10. [d \in 1..Len(nest) |-> "unasked"] \in Seq(Fields \cup {"unasked"})
    BY <2>3, SeqDef
  <2>6. branch[b] \in BranchStates
    BY <2>1, <2>4, <2>10 DEF New, BranchStates, Places
  <2>7. DepthOK(b)
    BY <2>3, <2>4, <2>5 DEF DepthOK, At, Ended
  <2>8. Removed(b)
    BY <2>3, <2>5 DEF Removed
  <2>9. ErrorsKept(b)
    BY <2>4, <2>5 DEF ErrorsKept, At
  <2> QED
    BY <2>6, <2>7, <2>8, <2>9 DEF BranchInv
<1>2. branch \in [Branches -> BranchStates]
  <2>1. branch \in [Branches -> {New(nest) : nest \in Nests}]
    BY DEF Init
  <2> QED
    BY <1>1, <2>1
<1>3. files \in FilesType
    BY DEF Init, FilesType
<1> QED
    BY <1>1, <1>2, <1>3 DEF IInv, TypeOK, FilesType

(* The step of a branch does not disturb the others.                                     *)
LEMMA OthersKeep ==
    ASSUME IInv, NEW b \in Branches, StepOK(b)
    PROVE  IInv'
<1> USE ScopesAssumption
<1>1. TypeOK'
    BY DEF IInv, TypeOK, StepOK, FilesOK, FilesType
<1>2. ASSUME NEW c \in Branches, c # b
      PROVE  BranchInv(c)'
  <2>1. branch'[c] = branch[c]
    BY <1>2 DEF StepOK, IInv, TypeOK
  <2>2. ASSUME NEW d \in 1..Len(branch[c].nest)
        PROVE  /\ FileOf(c, d)' = FileOf(c, d) /\ HasFile(c, d)' = HasFile(c, d)
               /\ OwnPlace(c, d)' = OwnPlace(c, d)
               /\ FileOf(c, d) \in FileNames \X (Branches \cup Agents)
               /\ OwnPlace(c, d) => FileOf(c, d)[2] = c
    <3>1. branch[c].nest \in Nests
      BY DEF IInv, TypeOK, BranchStates
    <3>2. branch[c].nest[d].name \in FileNames
      BY <3>1 DEF FileNames
    <3>3. OwnPlace(c, d)' = OwnPlace(c, d)
      BY <2>1 DEF OwnPlace, HomeIsOwn
    <3>4. Holder(c, d)' = Holder(c, d) /\ Holder(c, d) \in Branches \cup Agents
      BY <3>3 DEF Holder
    <3>5. FileOf(c, d)' = FileOf(c, d)
      BY <2>1, <3>4 DEF FileOf
    <3> QED
      BY <2>1, <3>2, <3>3, <3>4, <3>5 DEF FileOf, HasFile, Holder
  <2>3. DepthOK(c)'
    BY <2>1 DEF IInv, BranchInv, DepthOK, At, Ended, Shape
  <2>4. Removed(c)'
    <3> SUFFICES ASSUME NEW d \in 1..Len(branch[c].nest), HasFile(c, d), files'[FileOf(c, d)] = c
                 PROVE  \/ d > branch[c].entered
                        \/ branch[c].nest[d].cleanup = "elsewhere"
                        \/ d <= branch[c].depth
      BY <2>1, <2>2 DEF Removed
    <3>1. files[FileOf(c, d)] = c
      BY <1>2, <2>2 DEF StepOK, FilesOK
    <3> QED
      BY <3>1 DEF IInv, BranchInv, Removed
  <2>5. ErrorsKept(c)'
    <3>1. Shares(c)' = Shares(c)
      BY <2>1, <2>2 DEF Shares
    <3>2. ASSUME At(c, "remove"), OwnPlace(c, branch[c].depth)
          PROVE  files'[FileOf(c, branch[c].depth)] # Nobody
      <4>1. branch[c].depth \in 1..Len(branch[c].nest)
        BY <3>2 DEF IInv, BranchInv, DepthOK
      <4>2. files[FileOf(c, branch[c].depth)] # Nobody
        BY <3>2 DEF IInv, BranchInv, ErrorsKept
      <4>3. FileOf(c, branch[c].depth)[2] = c /\ AgentOf[b] # c
        BY <3>2, <4>1, <2>2
      <4> QED
        BY <1>2, <2>2, <4>1, <4>2, <4>3 DEF StepOK, FilesOK
    <3>3. At(c, "remove") => branch[c].depth \in 1..Len(branch[c].nest)
      BY DEF IInv, BranchInv, DepthOK
    <3>4. ErrorsKept(c)
      BY DEF IInv, BranchInv
    <3>5. At(c, "remove") =>
              /\ FileOf(c, branch[c].depth)' = FileOf(c, branch[c].depth)
              /\ OwnPlace(c, branch[c].depth)' = OwnPlace(c, branch[c].depth)
      BY <2>1, <2>2, <3>3
    <3> QED
      BY <2>1, <3>1, <3>2, <3>4, <3>5 DEF ErrorsKept, At
  <2> QED
    BY <2>3, <2>4, <2>5 DEF BranchInv
<1> QED
    BY <1>1, <1>2 DEF StepOK, IInv

(* Where the files of a branch are, and what writing or removing one does.               *)
LEMMA FilePlaces ==
    ASSUME TypeOK, NEW b \in Branches, NEW d \in 1..Len(branch[b].nest)
    PROVE  /\ FileOf(b, d) \in FileNames \X (Branches \cup Agents)
           /\ FileOf(b, d)[2] = b \/ FileOf(b, d)[2] = AgentOf[b]
           /\ OwnPlace(b, d) => FileOf(b, d)[2] = b
<1> USE ScopesAssumption
<1>1. branch[b].nest \in Nests
  BY DEF TypeOK, BranchStates
<1>2. branch[b].nest[d].name \in FileNames
  BY <1>1 DEF FileNames
<1>3. Holder(b, d) \in Branches \cup Agents /\ (Holder(b, d) = b \/ Holder(b, d) = AgentOf[b])
  BY DEF Holder
<1>4. OwnPlace(b, d) => Holder(b, d) = b
  BY DEF Holder
<1> QED
  BY <1>2, <1>3, <1>4 DEF FileOf

(* A branch that writes or removes one of its files touches no other.                    *)
LEMMA OneFile ==
    ASSUME TypeOK, NEW b \in Branches, NEW d \in 1..Len(branch[b].nest), NEW who \in {b, Nobody},
           files' = [files EXCEPT ![FileOf(b, d)] = who]
    PROVE  /\ FilesOK(b) /\ files'[FileOf(b, d)] = who
           /\ who = Nobody => \A k \in FileNames \X (Branches \cup Agents) :
                                  files'[k] = files[k] \/ files'[k] = Nobody
<1>1. /\ FileOf(b, d) \in FileNames \X (Branches \cup Agents)
      /\ FileOf(b, d)[2] = b \/ FileOf(b, d)[2] = AgentOf[b]
  BY FilePlaces
<1>2. files \in FilesType
  BY DEF TypeOK, FilesType
<1>3. files' \in FilesType
  BY <1>1, <1>2 DEF FilesType
<1>4. \A k \in FileNames \X (Branches \cup Agents) :
          files'[k] = IF k = FileOf(b, d) THEN who ELSE files[k]
  BY <1>2 DEF FilesType
<1> QED
  BY <1>1, <1>3, <1>4 DEF FilesOK

(* A step that leaves the files alone writes nothing of anybody.                         *)
LEMMA NoFiles ==
    ASSUME TypeOK, NEW b \in Branches, UNCHANGED files
    PROVE  FilesOK(b)
BY DEF TypeOK, FilesOK, FilesType

(* A branch that goes to another state keeps its nest, and with it its files' places.    *)
LEMMA SamePlaces ==
    ASSUME TypeOK, NEW b \in Branches, NEW new \in BranchStates, new.nest = branch[b].nest,
           Become(b, new)
    PROVE  /\ branch'[b] = new /\ branch' = [branch EXCEPT ![b] = branch'[b]]
           /\ \A d \in 1..Len(branch[b].nest) :
                 /\ FileOf(b, d)' = FileOf(b, d) /\ HasFile(b, d)' = HasFile(b, d)
                 /\ OwnPlace(b, d)' = OwnPlace(b, d)
           /\ Shares(b)' = Shares(b)
<1>1. branch'[b] = new /\ branch' = [branch EXCEPT ![b] = branch'[b]]
  BY DEF TypeOK, Become
<1>2. ASSUME NEW d \in 1..Len(branch[b].nest)
      PROVE  /\ FileOf(b, d)' = FileOf(b, d) /\ HasFile(b, d)' = HasFile(b, d)
             /\ OwnPlace(b, d)' = OwnPlace(b, d)
  <2>1. OwnPlace(b, d)' = OwnPlace(b, d)
    BY <1>1 DEF OwnPlace, HomeIsOwn
  <2>2. Holder(b, d)' = Holder(b, d)
    BY <2>1 DEF Holder
  <2> QED
    BY <1>1, <2>1, <2>2 DEF FileOf, HasFile
<1>3. Shares(b)' = Shares(b)
  BY <1>1, <1>2 DEF Shares
<1> QED
  BY <1>1, <1>2, <1>3

(* A step further into the nest, into the body, or to the first clean-up.                *)
LEMMA Inwards ==
    ASSUME IInv, NEW b \in Branches, NEW new \in BranchStates, new.nest = branch[b].nest,
           Become(b, new), FilesOK(b),
           new.at \in GoingIn \cup {"body", "cleanup"},
           new.depth \in 1..Len(new.nest), new.entered \in 0..new.depth,
           new.at \in GoingIn => new.entered = new.depth - 1,
           new.at = "body" => new.depth = Len(new.nest),
           new.trouble => new.failed,
           new.failed => new.trouble \/ Shares(b)
    PROVE  StepOK(b)
<1>1. /\ branch'[b] = new /\ branch' = [branch EXCEPT ![b] = branch'[b]]
      /\ Shares(b)' = Shares(b)
  BY SamePlaces DEF IInv
<1>2. Len(new.nest) \in Nat
  BY ScopesAssumption, LenProperties DEF BranchStates
<1>3. DepthOK(b)'
  BY <1>1, <1>2 DEF DepthOK, At, Ended, GoingIn
<1>4. Removed(b)'
  BY <1>1, <1>2 DEF Removed
<1>5. ErrorsKept(b)'
  BY <1>1 DEF ErrorsKept, At, GoingIn
<1> QED
  BY <1>1, <1>3, <1>4, <1>5 DEF StepOK, BranchInv

(* What Outwards leaves as it is, and what it changes.                                   *)
LEMMA OutwardsGoes ==
    ASSUME NEW new \in BranchStates, NEW d \in Nat, NEW out, out = Outwards(new, d)
    PROVE  /\ out \in BranchStates
           /\ out.nest = new.nest /\ out.entered = new.entered
           /\ (out.failed <=> new.failed) /\ (out.trouble <=> new.trouble)
           /\ out.depth = d
           /\ d > 0 => out.at = "cleanup"
           /\ d = 0 /\ new.failed => out.at = "threw"
           /\ d = 0 /\ ~new.failed => out.at = "returned"
<1> "cleanup" \in Places /\ "threw" \in Places /\ "returned" \in Places
  BY DEF Places
<1>1. CASE d = 0 /\ new.failed
  <2>1. out = [new EXCEPT !.at = "threw", !.depth = 0, !.tries = 0]
    BY <1>1 DEF Outwards
  <2>2. [new EXCEPT !.at = "threw", !.depth = 0, !.tries = 0] \in BranchStates
    BY DEF BranchStates
  <2>3. out.nest = new.nest /\ out.entered = new.entered
    BY <2>1 DEF BranchStates
  <2>4. (out.failed <=> new.failed) /\ (out.trouble <=> new.trouble)
    BY <2>1 DEF BranchStates
  <2>5. out.depth = d /\ out.at = "threw"
    BY <1>1, <2>1 DEF BranchStates
  <2> QED
    BY <1>1, <2>1, <2>2, <2>3, <2>4, <2>5
<1>2. CASE d = 0 /\ ~new.failed
  <2>1. out = [new EXCEPT !.at = "returned", !.depth = 0, !.tries = 0]
    BY <1>2 DEF Outwards
  <2>2. [new EXCEPT !.at = "returned", !.depth = 0, !.tries = 0] \in BranchStates
    BY DEF BranchStates
  <2>3. out.nest = new.nest /\ out.entered = new.entered
    BY <2>1 DEF BranchStates
  <2>4. (out.failed <=> new.failed) /\ (out.trouble <=> new.trouble)
    BY <2>1 DEF BranchStates
  <2>5. out.depth = d /\ out.at = "returned"
    BY <1>2, <2>1 DEF BranchStates
  <2> QED
    BY <1>2, <2>1, <2>2, <2>3, <2>4, <2>5
<1>3. CASE d > 0
  <2>1. out = [new EXCEPT !.at = "cleanup", !.depth = d, !.tries = 0]
    BY <1>3 DEF Outwards
  <2>2. [new EXCEPT !.at = "cleanup", !.depth = d, !.tries = 0] \in BranchStates
    BY DEF BranchStates
  <2>3. out.nest = new.nest /\ out.entered = new.entered
    BY <2>1 DEF BranchStates
  <2>4. (out.failed <=> new.failed) /\ (out.trouble <=> new.trouble)
    BY <2>1 DEF BranchStates
  <2>5. out.depth = d /\ out.at = "cleanup"
    BY <1>3, <2>1 DEF BranchStates
  <2> QED
    BY <1>3, <2>1, <2>2, <2>3, <2>4, <2>5
<1> QED
  BY <1>1, <1>2, <1>3

(* A step out of the nest: the file of the step that is left is gone, or its try was not  *)
(* entered.                                                                             *)
LEMMA OutwardsOK ==
    ASSUME IInv, NEW b \in Branches, NEW new \in BranchStates, new.nest = branch[b].nest,
           NEW d \in Nat, branch[b].depth = d + 1, d + 1 <= Len(branch[b].nest),
           new.entered = branch[b].entered,
           NEW out, out = Outwards(new, d), Become(b, out), FilesOK(b),
           \A k \in FileNames \X (Branches \cup Agents) : files'[k] = files[k] \/ files'[k] = Nobody,
           \/ d + 1 > branch[b].entered \/ Shape(b).cleanup = "elsewhere"
           \/ ~HasFile(b, d + 1) \/ files'[FileOf(b, d + 1)] # b,
           new.trouble => new.failed,
           new.failed => new.trouble \/ Shares(b)
    PROVE  StepOK(b)
<1>1. /\ out \in BranchStates
      /\ out.nest = branch[b].nest /\ out.entered = branch[b].entered /\ out.depth = d
      /\ (out.failed <=> new.failed) /\ (out.trouble <=> new.trouble)
      /\ d > 0 => out.at = "cleanup"
      /\ d = 0 /\ new.failed => out.at = "threw"
      /\ d = 0 /\ ~new.failed => out.at = "returned"
  <2>1. out \in BranchStates
    BY OutwardsGoes
  <2>2. out.nest = new.nest
    BY OutwardsGoes
  <2>7. out.entered = new.entered
    BY OutwardsGoes
  <2>8. out.depth = d
    BY OutwardsGoes
  <2>3. (out.failed <=> new.failed) /\ (out.trouble <=> new.trouble)
    BY OutwardsGoes
  <2>4. d > 0 => out.at = "cleanup"
    BY OutwardsGoes
  <2>5. d = 0 /\ new.failed => out.at = "threw"
    BY OutwardsGoes
  <2>6. d = 0 /\ ~new.failed => out.at = "returned"
    BY OutwardsGoes
  <2> QED
    BY <2>1, <2>2, <2>3, <2>4, <2>5, <2>6, <2>7, <2>8
<1>2. /\ branch'[b] = out /\ branch' = [branch EXCEPT ![b] = branch'[b]]
      /\ Shares(b)' = Shares(b)
      /\ \A e \in 1..Len(branch[b].nest) :
             FileOf(b, e)' = FileOf(b, e) /\ HasFile(b, e)' = HasFile(b, e)
  BY <1>1, SamePlaces DEF IInv
<1>3. Len(branch[b].nest) \in Nat
  BY ScopesAssumption, LenProperties DEF IInv, TypeOK, BranchStates
<1>4. DepthOK(b)'
  <2>1. branch[b].entered \in 0..Len(branch[b].nest)
    BY DEF IInv, BranchInv, DepthOK
  <2> QED
    BY <1>1, <1>2, <1>3, <2>1 DEF DepthOK, At, Ended
<1>5. Removed(b)'
  <2> SUFFICES ASSUME NEW e \in 1..Len(branch[b].nest), HasFile(b, e), files'[FileOf(b, e)] = b
               PROVE  \/ e > branch[b].entered
                      \/ branch[b].nest[e].cleanup = "elsewhere"
                      \/ e <= d
    BY <1>1, <1>2 DEF Removed
  <2>1. FileOf(b, e) \in FileNames \X (Branches \cup Agents) /\ b # Nobody
    BY FilePlaces, ScopesAssumption DEF IInv
  <2>2. files[FileOf(b, e)] = b
    BY <2>1
  <2>3. e > branch[b].entered \/ branch[b].nest[e].cleanup = "elsewhere" \/ e <= d + 1
    BY <2>2 DEF IInv, BranchInv, Removed
  <2>4. CASE e = d + 1
    BY <2>4 DEF Shape
  <2>5. CASE e # d + 1
    BY <1>3, <2>3, <2>5
  <2> QED
    BY <2>4, <2>5
<1>6. ErrorsKept(b)'
  BY <1>1, <1>2 DEF ErrorsKept, At
<1> QED
  BY <1>1, <1>2, <1>4, <1>5, <1>6 DEF StepOK, BranchInv

(* An answer takes the place of what was there, and nothing else's.                       *)
LEMMA GotKeeps ==
    ASSUME NEW S, NEW got \in Seq(S), NEW d, NEW fields \in S
    PROVE  /\ [got EXCEPT ![d] = fields] \in Seq(S)
           /\ Len([got EXCEPT ![d] = fields]) = Len(got)
           /\ \A e \in 1..Len(got) : [got EXCEPT ![d] = fields][e] = IF e = d THEN fields ELSE got[e]
<1> DEFINE new == [got EXCEPT ![d] = fields]
<1>1. got \in [1..Len(got) -> S] /\ Len(got) \in Nat
  BY LenProperties
<1>2. new \in [1..Len(got) -> S] /\ \A e \in 1..Len(got) : new[e] = IF e = d THEN fields ELSE got[e]
  BY <1>1
<1>3. new \in Seq(S)
  BY <1>1, <1>2, SeqDef
<1>4. DOMAIN new = 1..Len(got)
  BY <1>2
<1> HIDE DEF new
<1>5. Len(new) = Len(got)
  BY <1>1, <1>3, <1>4, LenProperties
<1> QED
  BY <1>2, <1>3, <1>5 DEF new

(* What the invariant says of the fields of a branch.                                    *)
LEMMA BranchFields ==
    ASSUME IInv, NEW b \in Branches
    PROVE  /\ TypeOK /\ branch[b] \in BranchStates /\ Len(branch[b].nest) \in Nat
           /\ branch[b].depth \in Nat /\ branch[b].entered \in 0..Len(branch[b].nest)
           /\ branch[b].trouble => branch[b].failed
           /\ branch[b].failed => branch[b].trouble \/ Shares(b)
           /\ branch[b].at \in GoingIn \cup {"body", "cleanup", "remove"} =>
                  branch[b].depth \in 1..Len(branch[b].nest)
           /\ branch[b].at \in GoingIn => branch[b].entered = branch[b].depth - 1
           /\ branch[b].at = "body" => branch[b].depth = Len(branch[b].nest)
<1>1. TypeOK /\ branch[b] \in BranchStates
  BY DEF IInv, TypeOK
<1>2. Len(branch[b].nest) \in Nat /\ branch[b].depth \in Nat
  BY <1>1, ScopesAssumption, LenProperties DEF BranchStates
<1>3. DepthOK(b) /\ ErrorsKept(b)
  BY DEF IInv, BranchInv
<1> QED
  BY <1>1, <1>2, <1>3 DEF DepthOK, ErrorsKept, At, GoingIn

(* A branch that stays at its depth on the way in keeps the invariant.                   *)
LEMMA GoesOK ==
    ASSUME IInv, NEW b \in Branches, branch[b].at \in GoingIn, FilesOK(b),
           NEW place \in GoingIn, Goes(b, place)
    PROVE  StepOK(b)
<1> DEFINE new == [branch[b] EXCEPT !.at = place, !.tries = 0]
<1>1. branch[b] \in BranchStates /\ GoingIn \subseteq Places
  BY BranchFields DEF GoingIn, Places
<1>2. new \in BranchStates
  BY <1>1 DEF BranchStates
<1>3. /\ new.nest = branch[b].nest /\ new.at = place
      /\ new.depth = branch[b].depth /\ new.entered = branch[b].entered
  BY <1>1 DEF BranchStates
<1>4. (new.failed <=> branch[b].failed) /\ (new.trouble <=> branch[b].trouble)
  BY <1>1 DEF BranchStates
<1>5. Become(b, new)
  BY DEF Goes
<1> HIDE DEF new
<1> QED
  BY <1>2, <1>3, <1>4, <1>5, BranchFields, Inwards DEF GoingIn

(* So does one that tries again what it does there.                                      *)
LEMMA TriesOK ==
    ASSUME IInv, NEW b \in Branches, branch[b].at \in GoingIn, FilesOK(b), TriesAgain(b)
    PROVE  StepOK(b)
<1> DEFINE new == [branch[b] EXCEPT !.tries = branch[b].tries + 1]
<1>1. branch[b] \in BranchStates
  BY BranchFields
<1>2. new \in BranchStates
  BY <1>1 DEF BranchStates
<1>3. /\ new.nest = branch[b].nest /\ new.at = branch[b].at
      /\ new.depth = branch[b].depth /\ new.entered = branch[b].entered
  BY <1>1 DEF BranchStates
<1>4. (new.failed <=> branch[b].failed) /\ (new.trouble <=> branch[b].trouble)
  BY <1>1 DEF BranchStates
<1>5. Become(b, new)
  BY DEF TriesAgain
<1> HIDE DEF new
<1> QED
  BY <1>2, <1>3, <1>4, <1>5, BranchFields, Inwards DEF GoingIn

(* So does one that has read its secret.                                                *)
LEMMA ReadsOK ==
    ASSUME IInv, NEW b \in Branches, branch[b].at \in GoingIn, FilesOK(b),
           NEW fields \in Fields, Reads(b, fields)
    PROVE  StepOK(b)
<1> DEFINE new == [branch[b] EXCEPT !.at = "write", !.tries = 0,
                                      !.got[branch[b].depth] = fields]
<1>1. branch[b] \in BranchStates /\ "write" \in Places
  BY BranchFields DEF Places
<1>2. [branch[b].got EXCEPT ![branch[b].depth] = fields] \in Seq(Fields \cup {"unasked"})
  BY <1>1, GotKeeps DEF BranchStates
<1>3. new \in BranchStates
  BY <1>1, <1>2 DEF BranchStates
<1>4. /\ new.nest = branch[b].nest /\ new.at = "write"
      /\ new.depth = branch[b].depth /\ new.entered = branch[b].entered
  BY <1>1 DEF BranchStates
<1>5. (new.failed <=> branch[b].failed) /\ (new.trouble <=> branch[b].trouble)
  BY <1>1 DEF BranchStates
<1>6. Become(b, new)
  BY DEF Reads
<1>7. "write" \in GoingIn
  BY DEF GoingIn
<1> HIDE DEF new
<1> QED
  BY <1>3, <1>4, <1>5, <1>6, <1>7, BranchFields, Inwards

(* Into the try of a step, and to the next one.                                          *)
LEMMA EntersOK ==
    ASSUME IInv, NEW b \in Branches, branch[b].at \in GoingIn, FilesOK(b), Enters(b)
    PROVE  StepOK(b)
<1> DEFINE nest == branch[b].nest
           d == branch[b].depth
           place == First(nest, d + 1)
           next == IF d = Len(nest) THEN d ELSE d + 1
           new == [branch[b] EXCEPT !.at = place, !.tries = 0, !.entered = d, !.depth = next]
<1>1. /\ branch[b] \in BranchStates /\ d \in Nat /\ Len(nest) \in Nat /\ d \in 1..Len(nest)
  BY BranchFields
<1>2. Become(b, new)
  BY DEF Enters
<1>3. /\ place \in GoingIn \cup {"body"}
      /\ place = "body" => d = Len(nest)
      /\ place # "body" => d < Len(nest)
  BY <1>1 DEF First, GoingIn
<1>4. next \in 1..Len(nest) /\ (d < Len(nest) => next = d + 1) /\ (d = Len(nest) => next = d)
  BY <1>1
<1>5. place \in Places
  BY <1>3 DEF Places, GoingIn
<1> HIDE DEF place, next
<1>6. new \in BranchStates
  <2>1. next \in Nat
    BY <1>1, <1>4
  <2> QED
    BY <1>1, <1>5, <2>1 DEF BranchStates
<1>7. /\ new.nest = nest /\ new.at = place
      /\ new.depth = next /\ new.entered = d
  BY <1>1 DEF BranchStates
<1>8. (new.failed <=> branch[b].failed) /\ (new.trouble <=> branch[b].trouble)
  BY <1>1 DEF BranchStates
<1> HIDE DEF new
<1>9. /\ new.depth \in 1..Len(new.nest) /\ new.entered \in 0..new.depth
      /\ new.at \in GoingIn => new.entered = new.depth - 1
      /\ new.at = "body" => new.depth = Len(new.nest)
      /\ new.at \in GoingIn \cup {"body", "cleanup"}
  <2>1. "body" \notin GoingIn
    BY DEF GoingIn
  <2> QED
    BY <1>1, <1>3, <1>4, <1>7, <2>1
<1> QED
  BY <1>2, <1>6, <1>7, <1>8, <1>9, BranchFields, Inwards

(* To the clean-up of the step, from its write or the body, with an exception or not.    *)
LEMMA ToCleanup ==
    ASSUME IInv, NEW b \in Branches, branch[b].at \in GoingIn \cup {"body"}, FilesOK(b),
           NEW new \in BranchStates, Become(b, new),
           new.nest = branch[b].nest, new.at = "cleanup",
           new.depth = branch[b].depth, new.entered = branch[b].entered,
           \/ new.failed /\ new.trouble
           \/ (new.failed <=> branch[b].failed) /\ (new.trouble <=> branch[b].trouble)
    PROVE  StepOK(b)
<1>1. "cleanup" \notin GoingIn
  BY DEF GoingIn
<1> QED
  BY <1>1, BranchFields, Inwards

(* The write inside the try, or the body, fails.                                        *)
LEMMA FailsToCleanup ==
    ASSUME IInv, NEW b \in Branches, branch[b].at \in GoingIn \cup {"body"}, FilesOK(b),
           Become(b, [branch[b] EXCEPT !.at = "cleanup", !.failed = TRUE, !.trouble = TRUE])
    PROVE  StepOK(b)
<1> DEFINE new == [branch[b] EXCEPT !.at = "cleanup", !.failed = TRUE, !.trouble = TRUE]
<1>1. branch[b] \in BranchStates /\ "cleanup" \in Places
  BY BranchFields DEF Places
<1>2. new \in BranchStates
  BY <1>1 DEF BranchStates
<1>3. /\ new.nest = branch[b].nest /\ new.at = "cleanup"
      /\ new.depth = branch[b].depth /\ new.entered = branch[b].entered
      /\ new.failed /\ new.trouble
  BY <1>1 DEF BranchStates
<1> HIDE DEF new
<1>4. Become(b, new)
  BY DEF new
<1> QED
  BY <1>2, <1>3, <1>4, ToCleanup

(* The body is done.                                                                    *)
LEMMA GoesToCleanup ==
    ASSUME IInv, NEW b \in Branches, branch[b].at = "body", FilesOK(b), Goes(b, "cleanup")
    PROVE  StepOK(b)
<1> DEFINE new == [branch[b] EXCEPT !.at = "cleanup", !.tries = 0]
<1>1. branch[b] \in BranchStates /\ "cleanup" \in Places
  BY BranchFields DEF Places
<1>2. new \in BranchStates
  BY <1>1 DEF BranchStates
<1>3. /\ new.nest = branch[b].nest /\ new.at = "cleanup"
      /\ new.depth = branch[b].depth /\ new.entered = branch[b].entered
  BY <1>1 DEF BranchStates
<1>4. (new.failed <=> branch[b].failed) /\ (new.trouble <=> branch[b].trouble)
  BY <1>1 DEF BranchStates
<1>5. Become(b, new)
  BY DEF Goes
<1> HIDE DEF new
<1> QED
  BY <1>2, <1>3, <1>4, <1>5, ToCleanup

(* An exception of the step itself, before its try, leaves it.                           *)
LEMMA ThrowsOK ==
    ASSUME IInv, NEW b \in Branches, branch[b].at \in GoingIn, UNCHANGED files, Throws(b)
    PROVE  StepOK(b)
<1> DEFINE new == [branch[b] EXCEPT !.failed = TRUE, !.trouble = TRUE]
<1>1. /\ branch[b] \in BranchStates /\ TypeOK
      /\ branch[b].depth \in 1..Len(branch[b].nest) /\ Len(branch[b].nest) \in Nat
      /\ branch[b].entered = branch[b].depth - 1
  BY BranchFields
<1>2. new \in BranchStates
  BY <1>1 DEF BranchStates
<1>3. /\ new.nest = branch[b].nest /\ new.entered = branch[b].entered
      /\ new.failed /\ new.trouble
  BY <1>1 DEF BranchStates
<1>4. PICK d \in Nat : d = branch[b].depth - 1
  BY <1>1
<1>5. PICK out : out = Outwards(new, d)
  OBVIOUS
<1>6. Become(b, out)
  BY <1>4, <1>5 DEF Throws
<1>7. FilesOK(b)
  BY <1>1, NoFiles
<1>8. /\ branch[b].depth = d + 1 /\ d + 1 <= Len(branch[b].nest) /\ d + 1 > branch[b].entered
  BY <1>1, <1>4
<1> HIDE DEF new
<1> QED
  BY <1>2, <1>3, <1>5, <1>6, <1>7, <1>8, OutwardsOK

(* The clean-up of a step leaves it, when its file is gone or was never there to be       *)
(* removed; a failure of the removal shows that the place is shared.                     *)
LEMMA LeavesOK ==
    ASSUME IInv, NEW b \in Branches, branch[b].at \in {"cleanup", "remove"}, FilesOK(b),
           \A k \in FileNames \X (Branches \cup Agents) : files'[k] = files[k] \/ files'[k] = Nobody,
           \/ Shape(b).cleanup = "elsewhere" \/ ~HasFile(b, branch[b].depth)
           \/ files'[FileOf(b, branch[b].depth)] = Nobody,
           NEW lost \in BOOLEAN, lost => Shares(b),
           Become(b, Outwards([branch[b] EXCEPT !.failed = branch[b].failed \/ lost], branch[b].depth - 1))
    PROVE  StepOK(b)
<1> DEFINE new == [branch[b] EXCEPT !.failed = branch[b].failed \/ lost]
<1>1. /\ branch[b] \in BranchStates
      /\ branch[b].depth \in 1..Len(branch[b].nest) /\ Len(branch[b].nest) \in Nat
  BY BranchFields
<1>2. new \in BranchStates
  BY <1>1 DEF BranchStates
<1>3. /\ new.nest = branch[b].nest /\ new.entered = branch[b].entered
      /\ new.failed <=> branch[b].failed \/ lost
      /\ new.trouble <=> branch[b].trouble
  BY <1>1 DEF BranchStates
<1>4. PICK d \in Nat : d = branch[b].depth - 1
  BY <1>1
<1>5. PICK out : out = Outwards(new, d)
  OBVIOUS
<1>6. Become(b, out)
  BY <1>4, <1>5
<1>7. branch[b].depth = d + 1 /\ d + 1 <= Len(branch[b].nest)
  BY <1>1, <1>4
<1> HIDE DEF new
<1>8. (new.trouble => new.failed) /\ (new.failed => new.trouble \/ Shares(b))
  BY <1>3, BranchFields
<1>9. \/ Shape(b).cleanup = "elsewhere" \/ ~HasFile(b, d + 1) \/ files'[FileOf(b, d + 1)] # b
  BY <1>7, ScopesAssumption
<1> QED
  BY <1>2, <1>3, <1>5, <1>6, <1>7, <1>8, <1>9, OutwardsOK

(* So does a clean-up that cannot fail.                                                  *)
LEMMA LeavesQuietly ==
    ASSUME IInv, NEW b \in Branches, branch[b].at = "cleanup", FilesOK(b),
           \A k \in FileNames \X (Branches \cup Agents) : files'[k] = files[k] \/ files'[k] = Nobody,
           \/ Shape(b).cleanup = "elsewhere" \/ ~HasFile(b, branch[b].depth)
           \/ files'[FileOf(b, branch[b].depth)] = Nobody,
           Leave(b)
    PROVE  StepOK(b)
<1>1. branch[b] \in BranchStates
  BY BranchFields
<1>2. [branch[b] EXCEPT !.failed = branch[b].failed \/ FALSE] = branch[b]
  BY <1>1 DEF BranchStates
<1>3. Become(b, Outwards([branch[b] EXCEPT !.failed = branch[b].failed \/ FALSE], branch[b].depth - 1))
  BY <1>2 DEF Leave
<1> QED
  BY <1>3, LeavesOK

(* A clean-up that finds its file goes on to remove it.                                  *)
LEMMA LooksOK ==
    ASSUME IInv, NEW b \in Branches, branch[b].at = "cleanup", Shape(b).cleanup = "check",
           UNCHANGED files, files[FileOf(b, branch[b].depth)] # Nobody, Goes(b, "remove")
    PROVE  StepOK(b)
<1> DEFINE new == [branch[b] EXCEPT !.at = "remove", !.tries = 0]
           d == branch[b].depth
<1>1. branch[b] \in BranchStates /\ "remove" \in Places /\ d \in 1..Len(branch[b].nest)
  BY BranchFields DEF Places
<1>2. new \in BranchStates
  BY <1>1 DEF BranchStates
<1>3. /\ new.nest = branch[b].nest /\ new.at = "remove"
      /\ new.depth = branch[b].depth /\ new.entered = branch[b].entered
  BY <1>1 DEF BranchStates
<1>4. (new.failed <=> branch[b].failed) /\ (new.trouble <=> branch[b].trouble)
  BY <1>1 DEF BranchStates
<1>5. Become(b, new)
  BY DEF Goes
<1> HIDE DEF new
<1>6. FilesOK(b) /\ TypeOK
  BY NoFiles, BranchFields
<1>7. /\ branch'[b] = new /\ branch' = [branch EXCEPT ![b] = branch'[b]]
      /\ Shares(b)' = Shares(b)
      /\ \A e \in 1..Len(branch[b].nest) :
            /\ FileOf(b, e)' = FileOf(b, e) /\ HasFile(b, e)' = HasFile(b, e)
            /\ OwnPlace(b, e)' = OwnPlace(b, e)
  BY <1>2, <1>3, <1>5, <1>6, SamePlaces
<1>8. DepthOK(b)'
  BY <1>1, <1>3, <1>7, BranchFields DEF DepthOK, At, Ended, Shape
<1>9. Removed(b)'
  BY <1>3, <1>7 DEF IInv, BranchInv, Removed
<1>10. ErrorsKept(b)'
  <2>1. (files[FileOf(b, branch[b].depth)] # Nobody)'
    BY <1>1, <1>3, <1>7
  <2> QED
    BY <1>3, <1>4, <1>7, <2>1, BranchFields DEF ErrorsKept, At
<1> QED
  BY <1>2, <1>3, <1>6, <1>7, <1>8, <1>9, <1>10 DEF StepOK, BranchInv

(* Each action of a branch keeps its part of the invariant.                              *)
LEMMA StepKeeps ==
    ASSUME IInv, NEW b \in Branches, Step(b)
    PROVE  StepOK(b)
<1> DEFINE d == branch[b].depth
<1>0. /\ TypeOK /\ branch[b] \in BranchStates
      /\ branch[b].at \in GoingIn \cup {"body", "cleanup", "remove"} => d \in 1..Len(branch[b].nest)
  BY BranchFields
<1> {"install", "read", "write", "login"} \subseteq GoingIn
  BY DEF GoingIn
<1>a. UNCHANGED files => FilesOK(b)
  BY <1>0, NoFiles
<1>b. Fields = {"all", "blank", "missing"}
  BY DEF Fields
<1>1. CASE Install(b)
  BY <1>1, <1>a, GoesOK, TriesOK, ThrowsOK DEF Install, At
<1>2. CASE VaultSilent(b)
  BY <1>2, <1>a, TriesOK, ThrowsOK DEF VaultSilent, At
<1>3. CASE Answer(b)
  BY <1>3, <1>a, <1>b, ReadsOK, ThrowsOK DEF Answer, At
<1>4. CASE Write(b)
  <2>1. At(b, "write") /\ d \in 1..Len(branch[b].nest)
    BY <1>0, <1>4 DEF Write, At
  <2>2. files' = [files EXCEPT ![FileOf(b, d)] = b]
    BY <1>4 DEF Write
  <2>3. FilesOK(b)
    BY <1>0, <2>1, <2>2, OneFile
  <2> QED
    BY <1>4, <2>1, <2>3, GoesOK, EntersOK DEF Write, At
<1>5. CASE WriteFails(b)
  <2>1. ASSUME Become(b, [branch[b] EXCEPT !.at = "cleanup", !.failed = TRUE, !.trouble = TRUE])
        PROVE  StepOK(b)
    BY <1>5, <1>a, <2>1, FailsToCleanup DEF WriteFails, At
  <2> QED
    BY <1>5, <2>1, ThrowsOK DEF WriteFails, At
<1>6. CASE NoFile(b)
  BY <1>6, <1>a, GoesOK, EntersOK DEF NoFile, At
<1>7. CASE Login(b)
  BY <1>7, <1>a, TriesOK, EntersOK, ThrowsOK DEF Login, At
<1>8. CASE Body(b)
  <2>1. ASSUME NEW e \in 1..Len(branch[b].nest), files' = [files EXCEPT ![FileOf(b, e)] = Nobody]
        PROVE  FilesOK(b)
    BY <1>0, <2>1, OneFile
  <2>2. FilesOK(b)
    BY <1>8, <1>a, <2>1 DEF Body
  <2>3. ASSUME Goes(b, "cleanup")
        PROVE  StepOK(b)
    BY <1>8, <2>2, <2>3, GoesToCleanup DEF Body, At
  <2>4. ASSUME Become(b, [branch[b] EXCEPT !.at = "cleanup", !.failed = TRUE, !.trouble = TRUE])
        PROVE  StepOK(b)
    BY <1>8, <2>2, <2>4, FailsToCleanup DEF Body, At
  <2> QED
    BY <1>8, <2>3, <2>4 DEF Body
<1>9. CASE Look(b)
  <2>1. ASSUME files[FileOf(b, d)] = Nobody, Leave(b)
        PROVE  StepOK(b)
    BY <1>0, <1>9, <1>a, <2>1, LeavesQuietly DEF Look, At
  <2>2. ASSUME files[FileOf(b, d)] # Nobody, Goes(b, "remove")
        PROVE  StepOK(b)
    BY <1>9, <2>2, LooksOK DEF Look, At
  <2> QED
    BY <1>9, <2>1, <2>2 DEF Look
<1>10. CASE Remove(b)
  <2>1. At(b, "remove") /\ d \in 1..Len(branch[b].nest)
    BY <1>0, <1>10 DEF Remove, At
  <2>2. files' = [files EXCEPT ![FileOf(b, d)] = Nobody]
    BY <1>10 DEF Remove
  <2>3. /\ FilesOK(b) /\ files'[FileOf(b, d)] = Nobody
        /\ \A k \in FileNames \X (Branches \cup Agents) : files'[k] = files[k] \/ files'[k] = Nobody
    BY <1>0, <2>1, <2>2, OneFile
  <2>4. (files[FileOf(b, d)] = Nobody) => Shares(b)
    <3>1. branch[b].nest \in Nests /\ Shape(b).cleanup = "check"
      BY <1>0, <2>1 DEF BranchStates, IInv, BranchInv, DepthOK
    <3>2. HasFile(b, d)
      BY <2>1, <3>1, ScopesAssumption DEF HasFile, Shape
    <3>3. OwnPlace(b, d) => files[FileOf(b, d)] # Nobody
      BY <2>1 DEF IInv, BranchInv, ErrorsKept
    <3> QED
      BY <2>1, <3>2, <3>3 DEF Shares
  <2>5. Become(b, Outwards([branch[b] EXCEPT !.failed = branch[b].failed \/ files[FileOf(b, d)] = Nobody], d - 1))
    BY <1>10 DEF Remove
  <2> QED
    BY <2>1, <2>3, <2>4, <2>5, LeavesOK DEF At
<1>11. CASE CleanUp(b)
  <2>1. At(b, "cleanup") /\ d \in 1..Len(branch[b].nest) /\ Leave(b) /\ Shape(b).cleanup # "check"
    BY <1>0, <1>11 DEF CleanUp, At
  <2>2. CASE Shape(b).cleanup \in {"shell", "dir"}
    <3>1. files' = [files EXCEPT ![FileOf(b, d)] = Nobody]
      BY <1>11, <2>2 DEF CleanUp
    <3>2. /\ FilesOK(b) /\ files'[FileOf(b, d)] = Nobody
          /\ \A k \in FileNames \X (Branches \cup Agents) : files'[k] = files[k] \/ files'[k] = Nobody
      BY <1>0, <2>1, <3>1, OneFile
    <3> QED
      BY <2>1, <3>2, LeavesQuietly DEF At
  <2>3. CASE Shape(b).cleanup \notin {"shell", "dir"}
    <3>1. UNCHANGED files
      BY <1>11, <2>3 DEF CleanUp
    <3>2. Shape(b).cleanup = "elsewhere" \/ ~HasFile(b, d)
      <4>1. branch[b].nest \in Nests /\ branch[b].nest[d] \in Shapes
        BY <1>0, <2>1, ScopesAssumption, ElementOfSeq DEF BranchStates
      <4>2. Shape(b).cleanup \in {"none", "check", "shell", "dir", "elsewhere"}
        BY <4>1 DEF Shapes, Shape
      <4>3. Shape(b).cleanup = "none" => branch[b].nest[d].file = "none"
        BY <2>1, <4>1, ScopesAssumption DEF Shape
      <4> QED
        BY <2>1, <2>3, <4>2, <4>3 DEF HasFile
    <3> QED
      BY <1>a, <2>1, <3>1, <3>2, LeavesQuietly DEF At
  <2> QED
    BY <2>2, <2>3
<1> QED
  BY <1>1, <1>2, <1>3, <1>4, <1>5, <1>6, <1>7, <1>8, <1>9, <1>10, <1>11 DEF Step

(* Every step keeps the invariant.                                                      *)
LEMMA StepIInv == IInv /\ [Next]_vars => IInv'
<1> SUFFICES ASSUME IInv, [Next]_vars PROVE IInv'
  OBVIOUS
<1>1. CASE Next
  BY <1>1, StepKeeps, OthersKeep DEF Next
<1>2. CASE UNCHANGED vars
  BY <1>2 DEF vars, IInv, TypeOK, BranchInv, DepthOK, Removed, ErrorsKept, Shares, At, Ended, Shape,
      HasFile, OwnPlace, HomeIsOwn, FileOf, Holder
<1> QED
  BY <1>1, <1>2

(* The files that a branch needs on its way in and in its body: those of the steps it is *)
(* in, and of a step that logs in with it.                                               *)
Inside == GoingIn \cup {"body"}

Needs(b, d) ==
    /\ HasFile(b, d) /\ OwnPlace(b, d)
    /\ d <= branch[b].entered \/ (At(b, "login") /\ d = branch[b].depth)

Written(b) == branch[b].at \in Inside =>
    /\ \A d \in 1..Len(branch[b].nest) : Needs(b, d) => files[FileOf(b, d)] = b
    /\ At(b, "body") => branch[b].entered = Len(branch[b].nest)

AllWritten == \A b \in Branches : Written(b)

LEMMA InitWritten == Init => AllWritten
<1> SUFFICES ASSUME Init, NEW b \in Branches PROVE Written(b)
  BY DEF AllWritten
<1>1. PICK nest \in Nests : branch[b] = New(nest)
  BY DEF Init
<1>2. Len(nest) \in Nat /\ Len(nest) >= 1
  BY ScopesAssumption, EmptySeq, LenProperties
<1>3. First(nest, 1) \in {"install", "read", "write"}
  BY <1>2 DEF First
<1>4. branch[b].nest = nest /\ branch[b].at = First(nest, 1) /\ branch[b].entered = 0
  BY <1>1 DEF New
<1> QED
  BY <1>2, <1>3, <1>4 DEF Written, Needs, At

(* A step inwards writes nothing but the file that it needs from now on.                 *)
LEMMA GoesInWritten ==
    ASSUME IInv, NEW b \in Branches, Written(b), branch[b].at \in GoingIn,
           NEW new \in BranchStates, new.nest = branch[b].nest, Become(b, new),
           new.at = "body" => new.entered = Len(new.nest),
           \A k \in FileNames \X (Branches \cup Agents) : files'[k] \in {files[k], b},
           \A d \in 1..Len(branch[b].nest) :
               /\ HasFile(b, d) /\ OwnPlace(b, d)
               /\ d <= new.entered \/ (new.at = "login" /\ d = new.depth)
               => Needs(b, d) \/ files'[FileOf(b, d)] = b
    PROVE  Written(b)'
<1>1. /\ branch'[b] = new
      /\ \A d \in 1..Len(branch[b].nest) :
            /\ FileOf(b, d)' = FileOf(b, d) /\ HasFile(b, d)' = HasFile(b, d)
            /\ OwnPlace(b, d)' = OwnPlace(b, d)
  BY SamePlaces DEF IInv
<1>2. ASSUME NEW d \in 1..Len(branch[b].nest), Needs(b, d)'
      PROVE  files'[FileOf(b, d)] = b
  <2>1. Needs(b, d) \/ files'[FileOf(b, d)] = b
    BY <1>1, <1>2 DEF Needs, At
  <2>2. Needs(b, d) => files[FileOf(b, d)] = b
    BY DEF Written, Inside
  <2>3. FileOf(b, d) \in FileNames \X (Branches \cup Agents)
    BY FilePlaces DEF IInv
  <2> QED
    BY <2>1, <2>2, <2>3
<1> QED
  BY <1>1, <1>2 DEF Written, At

(* The ways out of the nest, by the end of the body or with an exception.                *)
LEMMA GoesOutside ==
    ASSUME IInv, NEW b \in Branches, NEW new, Become(b, new), new.at \notin Inside
    PROVE  branch'[b].at \notin Inside
BY BranchFields DEF Become, TypeOK

LEMMA OutwardsOutside ==
    ASSUME IInv, NEW b \in Branches, NEW new \in BranchStates, NEW d \in Nat,
           Become(b, Outwards(new, d))
    PROVE  branch'[b].at \notin Inside
<1>1. PICK out : out = Outwards(new, d)
  OBVIOUS
<1>2. out.at \in {"cleanup", "threw", "returned"}
  BY <1>1, OutwardsGoes
<1> QED
  BY <1>1, <1>2, GoesOutside DEF Inside, GoingIn

(* Each way to go on keeps the files that are needed, given what it writes.              *)
LEMMA GoesWritten ==
    ASSUME IInv, NEW b \in Branches, Written(b), branch[b].at \in GoingIn,
           NEW place \in GoingIn, Goes(b, place),
           \A k \in FileNames \X (Branches \cup Agents) : files'[k] \in {files[k], b},
           place = "login" =>
               files'[FileOf(b, branch[b].depth)] = b \/ ~HasFile(b, branch[b].depth)
    PROVE  Written(b)'
<1> DEFINE new == [branch[b] EXCEPT !.at = place, !.tries = 0]
<1>1. branch[b] \in BranchStates /\ place \in Places /\ "body" \notin GoingIn
  BY BranchFields DEF GoingIn, Places
<1>2. new \in BranchStates
  BY <1>1 DEF BranchStates
<1>3. /\ new.nest = branch[b].nest /\ new.at = place
      /\ new.depth = branch[b].depth /\ new.entered = branch[b].entered
  BY <1>1 DEF BranchStates
<1>4. Become(b, new)
  BY DEF Goes
<1> HIDE DEF new
<1> QED
  BY <1>1, <1>2, <1>3, <1>4, GoesInWritten DEF Needs

LEMMA TriesWritten ==
    ASSUME IInv, NEW b \in Branches, Written(b), branch[b].at \in GoingIn, TriesAgain(b),
           UNCHANGED files
    PROVE  Written(b)'
<1> DEFINE new == [branch[b] EXCEPT !.tries = branch[b].tries + 1]
<1>1. branch[b] \in BranchStates /\ "body" \notin GoingIn
  BY BranchFields DEF GoingIn
<1>2. new \in BranchStates
  BY <1>1 DEF BranchStates
<1>3. /\ new.nest = branch[b].nest /\ new.at = branch[b].at
      /\ new.depth = branch[b].depth /\ new.entered = branch[b].entered
  BY <1>1 DEF BranchStates
<1>4. Become(b, new)
  BY DEF TriesAgain
<1> HIDE DEF new
<1> QED
  BY <1>1, <1>2, <1>3, <1>4, GoesInWritten DEF Needs, At

LEMMA ReadsWritten ==
    ASSUME IInv, NEW b \in Branches, Written(b), branch[b].at \in GoingIn, UNCHANGED files,
           NEW fields \in Fields, Reads(b, fields)
    PROVE  Written(b)'
<1> DEFINE new == [branch[b] EXCEPT !.at = "write", !.tries = 0,
                                      !.got[branch[b].depth] = fields]
<1>1. branch[b] \in BranchStates /\ "write" \in Places
  BY BranchFields DEF Places
<1>2. [branch[b].got EXCEPT ![branch[b].depth] = fields] \in Seq(Fields \cup {"unasked"})
  BY <1>1, GotKeeps DEF BranchStates
<1>3. new \in BranchStates
  BY <1>1, <1>2 DEF BranchStates
<1>4. /\ new.nest = branch[b].nest /\ new.at = "write"
      /\ new.depth = branch[b].depth /\ new.entered = branch[b].entered
  BY <1>1 DEF BranchStates
<1>5. Become(b, new)
  BY DEF Reads
<1> HIDE DEF new
<1> QED
  BY <1>3, <1>4, <1>5, GoesInWritten DEF Needs

LEMMA EntersWritten ==
    ASSUME IInv, NEW b \in Branches, Written(b), branch[b].at \in GoingIn, Enters(b),
           \A k \in FileNames \X (Branches \cup Agents) : files'[k] \in {files[k], b},
           \/ At(b, "login") \/ ~HasFile(b, branch[b].depth)
           \/ files'[FileOf(b, branch[b].depth)] = b
    PROVE  Written(b)'
<1> DEFINE nest == branch[b].nest
           place == First(nest, branch[b].depth + 1)
           next == IF branch[b].depth = Len(nest) THEN branch[b].depth ELSE branch[b].depth + 1
           new == [branch[b] EXCEPT !.at = place, !.tries = 0, !.entered = branch[b].depth, !.depth = next]
<1>1. /\ branch[b] \in BranchStates /\ branch[b].depth \in 1..Len(nest) /\ Len(nest) \in Nat
      /\ branch[b].entered = branch[b].depth - 1
  BY BranchFields
<1>2. /\ place \in {"install", "read", "write", "body"}
      /\ place = "body" => branch[b].depth = Len(nest)
  BY <1>1 DEF First
<1>3. next \in Nat /\ branch[b].depth \in Nat /\ place \in Places
  BY <1>1, <1>2 DEF Places
<1>4. Become(b, new)
  BY DEF Enters
<1> HIDE DEF place, next
<1>5. new \in BranchStates
  BY <1>1, <1>3 DEF BranchStates
<1>6. new.nest = branch[b].nest /\ new.at = place /\ new.entered = branch[b].depth
  BY <1>1 DEF BranchStates
<1> HIDE DEF new
<1>7. \A d \in 1..Len(nest) : d <= branch[b].depth => d <= branch[b].entered \/ d = branch[b].depth
  BY <1>1
<1> QED
  BY <1>1, <1>2, <1>4, <1>5, <1>6, <1>7, GoesInWritten DEF Needs

LEMMA ThrowsOutside ==
    ASSUME IInv, NEW b \in Branches, branch[b].at \in GoingIn, Throws(b)
    PROVE  branch'[b].at \notin Inside
<1>1. branch[b] \in BranchStates /\ branch[b].depth - 1 \in Nat
  BY BranchFields
<1>2. [branch[b] EXCEPT !.failed = TRUE, !.trouble = TRUE] \in BranchStates
  BY <1>1 DEF BranchStates
<1> QED
  BY <1>1, <1>2, OutwardsOutside DEF Throws

LEMMA LeavesOutside ==
    ASSUME IInv, NEW b \in Branches, branch[b].at \in {"cleanup", "remove"}, NEW failed \in BOOLEAN,
           Become(b, Outwards([branch[b] EXCEPT !.failed = failed], branch[b].depth - 1))
    PROVE  branch'[b].at \notin Inside
<1>1. branch[b] \in BranchStates /\ branch[b].depth - 1 \in Nat
  BY BranchFields
<1>2. [branch[b] EXCEPT !.failed = failed] \in BranchStates
  BY <1>1 DEF BranchStates
<1> QED
  BY <1>1, <1>2, OutwardsOutside

LEMMA LeaveOutside ==
    ASSUME IInv, NEW b \in Branches, branch[b].at = "cleanup", Leave(b)
    PROVE  branch'[b].at \notin Inside
<1>1. branch[b] \in BranchStates /\ branch[b].depth - 1 \in Nat
  BY BranchFields
<1> QED
  BY <1>1, OutwardsOutside DEF Leave

(* To a finally clause, from the way in or the body.                                     *)
LEMMA StopsOutside ==
    ASSUME IInv, NEW b \in Branches,
           \/ Goes(b, "cleanup") \/ Goes(b, "remove")
           \/ Become(b, [branch[b] EXCEPT !.at = "cleanup", !.failed = TRUE, !.trouble = TRUE])
    PROVE  branch'[b].at \notin Inside
<1>1. branch[b] \in BranchStates
  BY BranchFields
<1>2. ASSUME NEW place \in {"cleanup", "remove"}, Goes(b, place)
      PROVE  branch'[b].at \notin Inside
  <2> DEFINE new == [branch[b] EXCEPT !.at = place, !.tries = 0]
  <2>1. new.at = place /\ Become(b, new)
    BY <1>1, <1>2 DEF BranchStates, Goes
  <2> HIDE DEF new
  <2> QED
    BY <2>1, GoesOutside DEF Inside, GoingIn
<1>3. ASSUME Become(b, [branch[b] EXCEPT !.at = "cleanup", !.failed = TRUE, !.trouble = TRUE])
      PROVE  branch'[b].at \notin Inside
  <2> DEFINE new == [branch[b] EXCEPT !.at = "cleanup", !.failed = TRUE, !.trouble = TRUE]
  <2>1. new.at = "cleanup" /\ Become(b, new)
    BY <1>1, <1>3 DEF BranchStates
  <2> HIDE DEF new
  <2> QED
    BY <2>1, GoesOutside DEF Inside, GoingIn
<1> QED
  BY <1>2, <1>3

LEMMA StepWritten ==
    ASSUME IInv, NEW b \in Branches, Written(b), Step(b)
    PROVE  Written(b)'
<1> {"install", "read", "write", "login"} \subseteq GoingIn
  BY DEF GoingIn
<1>a. UNCHANGED files => \A k \in FileNames \X (Branches \cup Agents) : files'[k] \in {files[k], b}
  OBVIOUS
<1>b. Fields = {"all", "blank", "missing"}
  BY DEF Fields
<1>c. branch'[b].at \notin Inside => Written(b)'
  BY DEF Written
<1>1. CASE Install(b)
  BY <1>c, <1>1, <1>a, GoesWritten, TriesWritten, ThrowsOutside DEF Install, At
<1>2. CASE VaultSilent(b)
  BY <1>c, <1>2, TriesWritten, ThrowsOutside DEF VaultSilent, At
<1>3. CASE Answer(b)
  BY <1>c, <1>3, <1>b, ReadsWritten, ThrowsOutside DEF Answer, At
<1>4. CASE Write(b)
  <2>1. TypeOK /\ At(b, "write") /\ branch[b].depth \in 1..Len(branch[b].nest)
    BY <1>4, BranchFields DEF Write, At
  <2>2. files' = [files EXCEPT ![FileOf(b, branch[b].depth)] = b]
    BY <1>4 DEF Write
  <2>3. files'[FileOf(b, branch[b].depth)] = b
    BY <2>1, <2>2, OneFile
  <2>4. \A k \in FileNames \X (Branches \cup Agents) : files'[k] \in {files[k], b}
    BY <2>1, <2>2 DEF TypeOK
  <2> QED
    BY <1>4, <2>1, <2>3, <2>4, GoesWritten, EntersWritten DEF Write, At
<1>5. CASE WriteFails(b)
  BY <1>c, <1>5, StopsOutside, ThrowsOutside DEF WriteFails, At
<1>6. CASE NoFile(b)
  BY <1>6, <1>a, GoesWritten, EntersWritten DEF NoFile, At
<1>7. CASE Login(b)
  BY <1>c, <1>7, <1>a, EntersWritten, TriesWritten, ThrowsOutside DEF Login, At
<1>8. CASE Body(b)
  BY <1>c, <1>8, StopsOutside DEF Body
<1>9. CASE Look(b)
  BY <1>c, <1>9, StopsOutside, LeaveOutside DEF Look, At
<1>10. CASE Remove(b)
  <2>1. PICK failed \in BOOLEAN : failed <=> branch[b].failed \/ files[FileOf(b, branch[b].depth)] = Nobody
    OBVIOUS
  <2>2. branch[b].failed \in BOOLEAN
    BY BranchFields DEF BranchStates
  <2>3. failed = (branch[b].failed \/ files[FileOf(b, branch[b].depth)] = Nobody)
    BY <2>1, <2>2
  <2> QED
    BY <1>c, <1>10, <2>3, LeavesOutside DEF Remove, At
<1>11. CASE CleanUp(b)
  BY <1>c, <1>11, LeaveOutside DEF CleanUp, At
<1> QED
  BY <1>1, <1>2, <1>3, <1>4, <1>5, <1>6, <1>7, <1>8, <1>9, <1>10, <1>11 DEF Step

(* Nobody else writes into a place of a branch's own.                                    *)
LEMMA OthersWritten ==
    ASSUME IInv, NEW b \in Branches, StepOK(b), NEW c \in Branches, c # b, Written(c)
    PROVE  Written(c)'
<1>1. branch'[c] = branch[c]
  BY DEF StepOK, IInv, TypeOK
<1>2. \A d \in 1..Len(branch[c].nest) :
          /\ FileOf(c, d)' = FileOf(c, d) /\ HasFile(c, d)' = HasFile(c, d)
          /\ OwnPlace(c, d)' = OwnPlace(c, d)
  BY <1>1 DEF FileOf, HasFile, OwnPlace, HomeIsOwn, Holder
<1>3. ASSUME NEW d \in 1..Len(branch[c].nest), Needs(c, d)'
      PROVE  files'[FileOf(c, d)] = files[FileOf(c, d)] /\ Needs(c, d)
  <2>1. Needs(c, d)
    BY <1>1, <1>2, <1>3 DEF Needs, At
  <2>2. FileOf(c, d) \in FileNames \X (Branches \cup Agents) /\ FileOf(c, d)[2] = c
    BY <2>1, FilePlaces DEF IInv, Needs
  <2>3. c # AgentOf[b]
    BY ScopesAssumption
  <2> QED
    BY <2>1, <2>2, <2>3 DEF StepOK, FilesOK
<1> QED
  BY <1>1, <1>2, <1>3 DEF Written, At

LEMMA NextWritten == IInv /\ AllWritten /\ [Next]_vars => AllWritten'
<1> SUFFICES ASSUME IInv, AllWritten, [Next]_vars, NEW c \in Branches PROVE Written(c)'
  BY DEF AllWritten
<1>1. CASE Next
  <2>1. PICK b \in Branches : Step(b)
    BY <1>1 DEF Next
  <2> QED
    BY <2>1, StepKeeps, StepWritten, OthersWritten DEF AllWritten
<1>2. CASE UNCHANGED vars
  BY <1>2 DEF vars, AllWritten, Written, Needs, At, HasFile, OwnPlace, HomeIsOwn, FileOf, Holder
<1> QED
  BY <1>1, <1>2

(* The steps that a branch is in, on its way in and in its body, have been given what     *)
(* they asked for; so has the step that it enters, once it has read.                      *)
Heard(b, d) ==
    branch[b].nest[d].secret # "none" =>
        branch[b].got[d] \in Fields /\ Suffices(branch[b].nest[d], branch[b].got[d])

Informed(b) == branch[b].at \in Inside =>
    /\ Len(branch[b].got) = Len(branch[b].nest)
    /\ \A d \in 1..Len(branch[b].nest) :
           d < branch[b].depth \/ (d = branch[b].depth /\ branch[b].at \notin {"install", "read"})
           => Heard(b, d)

AllInformed == \A b \in Branches : Informed(b)

LEMMA InitInformed == Init => AllInformed
<1> SUFFICES ASSUME Init, NEW b \in Branches PROVE Informed(b)
  BY DEF AllInformed
<1>1. PICK nest \in Nests : branch[b] = New(nest)
  BY DEF Init
<1>2. Len(nest) \in Nat /\ Len(nest) >= 1
  BY ScopesAssumption, EmptySeq, LenProperties
<1>3. First(nest, 1) \in {"install", "read", "write"} /\ (First(nest, 1) = "write" => nest[1].secret = "none")
  BY <1>2 DEF First
<1>4. [d \in 1..Len(nest) |-> "unasked"] \in Seq({"unasked"})
  BY <1>2, SeqDef
<1>5. Len([d \in 1..Len(nest) |-> "unasked"]) = Len(nest)
  BY <1>2, <1>4, LenProperties
<1>6. /\ branch[b].nest = nest /\ branch[b].at = First(nest, 1) /\ branch[b].depth = 1
      /\ Len(branch[b].got) = Len(nest)
  BY <1>1, <1>5 DEF New
<1> QED
  BY <1>2, <1>3, <1>6 DEF Informed, Heard

(* A branch that stays in its step, with the answers that it has: past the reading it     *)
(* comes without one only where there is nothing to read.                                *)
LEMMA StaysInformed ==
    ASSUME IInv, NEW b \in Branches, Informed(b), branch[b].at \in GoingIn,
           NEW new, Become(b, new), new.nest = branch[b].nest, new.got = branch[b].got,
           new.depth = branch[b].depth,
           \/ new.at \in {"install", "read"} \/ branch[b].at \notin {"install", "read"}
           \/ Shape(b).secret = "none"
    PROVE  Informed(b)'
<1>1. branch'[b] = new
  BY BranchFields DEF Become, TypeOK
<1>2. branch[b].at \in Inside
  BY DEF Inside
<1> QED
  BY <1>1, <1>2 DEF Informed, Heard, Shape

LEMMA GoesInformed ==
    ASSUME IInv, NEW b \in Branches, Informed(b), branch[b].at \in GoingIn,
           NEW place \in GoingIn, Goes(b, place),
           place = "read" \/ branch[b].at \notin {"install", "read"} \/ Shape(b).secret = "none"
    PROVE  Informed(b)'
<1> DEFINE new == [branch[b] EXCEPT !.at = place, !.tries = 0]
<1>1. branch[b] \in BranchStates
  BY BranchFields
<1>2. /\ new.nest = branch[b].nest /\ new.at = place
      /\ new.depth = branch[b].depth /\ new.got = branch[b].got
  BY <1>1 DEF BranchStates
<1>3. Become(b, new)
  BY DEF Goes
<1> HIDE DEF new
<1> QED
  BY <1>2, <1>3, StaysInformed

LEMMA TriesInformed ==
    ASSUME IInv, NEW b \in Branches, Informed(b), branch[b].at \in GoingIn, TriesAgain(b)
    PROVE  Informed(b)'
<1> DEFINE new == [branch[b] EXCEPT !.tries = branch[b].tries + 1]
<1>1. branch[b] \in BranchStates
  BY BranchFields
<1>2. /\ new.nest = branch[b].nest /\ new.at = branch[b].at
      /\ new.depth = branch[b].depth /\ new.got = branch[b].got
  BY <1>1 DEF BranchStates
<1>3. Become(b, new)
  BY DEF TriesAgain
<1> HIDE DEF new
<1> QED
  BY <1>2, <1>3, StaysInformed

(* An answer that suffices is kept for the step that asked, and for no other.             *)
LEMMA ReadsInformed ==
    ASSUME IInv, NEW b \in Branches, Informed(b), branch[b].at \in GoingIn,
           NEW fields \in Fields, Suffices(Shape(b), fields), Reads(b, fields)
    PROVE  Informed(b)'
<1> DEFINE got == [branch[b].got EXCEPT ![branch[b].depth] = fields]
           new == [branch[b] EXCEPT !.at = "write", !.tries = 0, !.got = got]
<1>1. branch[b] \in BranchStates /\ branch[b].depth \in 1..Len(branch[b].nest)
  BY BranchFields
<1>2. branch[b].got \in Seq(Fields \cup {"unasked"}) /\ branch[b].at \in Inside
  BY <1>1 DEF BranchStates, Inside
<1>3. Len(branch[b].got) = Len(branch[b].nest)
  BY <1>2 DEF Informed
<1>4. /\ Len(got) = Len(branch[b].nest)
      /\ \A d \in 1..Len(branch[b].nest) :
             got[d] = IF d = branch[b].depth THEN fields ELSE branch[b].got[d]
  BY <1>2, <1>3, GotKeeps
<1> HIDE DEF got
<1>5. new.nest = branch[b].nest /\ new.at = "write" /\ new.depth = branch[b].depth /\ new.got = got
  BY <1>1 DEF BranchStates
<1>6. Become(b, new)
  BY DEF Reads, got
<1> HIDE DEF new
<1>7. branch'[b] = new
  BY <1>6, BranchFields DEF Become, TypeOK
<1>8. \A d \in 1..Len(branch[b].nest) : d < branch[b].depth => Heard(b, d)
  BY <1>2 DEF Informed
<1> QED
  BY <1>1, <1>4, <1>5, <1>7, <1>8 DEF Informed, Heard, Shape

(* The step that is entered has read what it asked for, and the next one has not yet,     *)
(* unless it asks for nothing.                                                          *)
LEMMA EntersInformed ==
    ASSUME IInv, NEW b \in Branches, Informed(b), branch[b].at \in {"write", "login"}, Enters(b)
    PROVE  Informed(b)'
<1> DEFINE nest == branch[b].nest
           place == First(nest, branch[b].depth + 1)
           next == IF branch[b].depth = Len(nest) THEN branch[b].depth ELSE branch[b].depth + 1
           new == [branch[b] EXCEPT !.at = place, !.tries = 0, !.entered = branch[b].depth, !.depth = next]
<1>1. branch[b].at \in GoingIn /\ branch[b].at \in Inside
  BY DEF GoingIn, Inside
<1>2. branch[b] \in BranchStates /\ branch[b].depth \in 1..Len(nest) /\ Len(nest) \in Nat
  BY <1>1, BranchFields
<1>3. \/ place \in {"install", "read"} /\ next = branch[b].depth + 1
      \/ place = "body" /\ next = branch[b].depth
      \/ place = "write" /\ next = branch[b].depth + 1 /\ nest[next].secret = "none"
  BY <1>2 DEF First
<1>4. Become(b, new)
  BY DEF Enters
<1> HIDE DEF place, next
<1>5. new.nest = nest /\ new.at = place /\ new.depth = next /\ new.got = branch[b].got
  BY <1>2 DEF BranchStates
<1> HIDE DEF new
<1>6. branch'[b] = new
  BY <1>4, BranchFields DEF Become, TypeOK
<1>7. /\ Len(branch[b].got) = Len(nest)
      /\ \A d \in 1..Len(nest) : d <= branch[b].depth => Heard(b, d)
  BY <1>1, <1>2 DEF Informed
<1> QED
  BY <1>2, <1>3, <1>5, <1>6, <1>7 DEF Informed, Heard

LEMMA StepInformed ==
    ASSUME IInv, NEW b \in Branches, Informed(b), Step(b)
    PROVE  Informed(b)'
<1> {"install", "read", "write", "login"} \subseteq GoingIn
  BY DEF GoingIn
<1>a. branch'[b].at \notin Inside => Informed(b)'
  BY DEF Informed
<1>b. Fields = {"all", "blank", "missing"}
  BY DEF Fields
<1>1. CASE Install(b)
  BY <1>1, <1>a, GoesInformed, TriesInformed, ThrowsOutside DEF Install, At
<1>2. CASE VaultSilent(b)
  BY <1>2, <1>a, TriesInformed, ThrowsOutside DEF VaultSilent, At
<1>3. CASE Answer(b)
  BY <1>3, <1>a, <1>b, ReadsInformed, ThrowsOutside DEF Answer, At
<1>4. CASE Write(b)
  BY <1>4, GoesInformed, EntersInformed DEF Write, At
<1>5. CASE WriteFails(b)
  BY <1>5, <1>a, StopsOutside, ThrowsOutside DEF WriteFails, At
<1>6. CASE NoFile(b)
  BY <1>6, GoesInformed, EntersInformed DEF NoFile, At
<1>7. CASE Login(b)
  BY <1>7, <1>a, EntersInformed, TriesInformed, ThrowsOutside DEF Login, At
<1>8. CASE Body(b)
  BY <1>8, <1>a, StopsOutside DEF Body
<1>9. CASE Look(b)
  BY <1>9, <1>a, StopsOutside, LeaveOutside DEF Look, At
<1>10. CASE Remove(b)
  <2>1. PICK failed \in BOOLEAN : failed <=> branch[b].failed \/ files[FileOf(b, branch[b].depth)] = Nobody
    OBVIOUS
  <2>2. branch[b].failed \in BOOLEAN
    BY BranchFields DEF BranchStates
  <2>3. failed = (branch[b].failed \/ files[FileOf(b, branch[b].depth)] = Nobody)
    BY <2>1, <2>2
  <2> QED
    BY <1>10, <1>a, <2>3, LeavesOutside DEF Remove, At
<1>11. CASE CleanUp(b)
  BY <1>11, <1>a, LeaveOutside DEF CleanUp, At
<1> QED
  BY <1>1, <1>2, <1>3, <1>4, <1>5, <1>6, <1>7, <1>8, <1>9, <1>10, <1>11 DEF Step

(* What a branch was given, no other one changes.                                        *)
LEMMA NextInformed == IInv /\ AllInformed /\ [Next]_vars => AllInformed'
<1> SUFFICES ASSUME IInv, AllInformed, [Next]_vars, NEW c \in Branches PROVE Informed(c)'
  BY DEF AllInformed
<1>1. CASE Next
  <2>1. PICK b \in Branches : Step(b)
    BY <1>1 DEF Next
  <2>2. b # c => branch'[c] = branch[c]
    BY <2>1, StepKeeps DEF StepOK, IInv, TypeOK
  <2> QED
    BY <2>1, <2>2, StepInformed DEF AllInformed, Informed, Heard
<1>2. CASE UNCHANGED vars
  BY <1>2 DEF vars, AllInformed, Informed, Heard
<1> QED
  BY <1>1, <1>2

(* The invariant gives what is said of the branches that ended.                          *)
LEMMA IInvGives == IInv => TypeOK /\ EnteredIsCleaned /\ ErrorsArePassedOn
<1> SUFFICES ASSUME IInv PROVE EnteredIsCleaned /\ ErrorsArePassedOn
  BY DEF IInv
<1>1. ASSUME NEW b \in Branches PROVE DepthOK(b) /\ Removed(b) /\ ErrorsKept(b)
  BY DEF IInv, BranchInv
<1>2. EnteredIsCleaned
  BY <1>1 DEF EnteredIsCleaned, Removed, DepthOK
<1>3. ErrorsArePassedOn
  BY <1>1 DEF ErrorsArePassedOn, ErrorsKept, Shares
<1> QED
  BY <1>2, <1>3

(* The invariant holds of every behaviour.                                              *)
THEOREM Invariant == Spec => []IInv
BY InitIInv, StepIInv, PTL DEF Spec

(* The variables keep their types, for nests of any depth.                               *)
THEOREM TypeCorrect == Spec => []TypeOK
BY Invariant, IInvGives, PTL

(* No file outlives the step that wrote it, once its try was entered: for any number of   *)
(* branches, any agents and any nests.                                                  *)
THEOREM CleansWhatWasEntered == Spec => []EnteredIsCleaned
BY Invariant, IInvGives, PTL

(* No exception is lost, and none comes from nowhere, for any nests.                      *)
THEOREM PassesErrorsOn == Spec => []ErrorsArePassedOn
BY Invariant, IInvGives, PTL

(* The body finds the files of all steps around it whose places are the branch's own, for *)
(* any nests and any number of branches beside it.                                       *)
THEOREM BodyFindsItsFiles == Spec => []BodyHasItsFile
<1>1. ASSUME IInv, AllWritten PROVE BodyHasItsFile
  <2> SUFFICES ASSUME NEW b \in Branches, NEW d \in 1..Len(branch[b].nest), At(b, "body"),
                      HasFile(b, d), OwnPlace(b, d)
               PROVE  files[<<branch[b].nest[d].name, b>>] = b
    BY DEF BodyHasItsFile, OwnPlace
  <2>1. branch[b].entered = Len(branch[b].nest) /\ Len(branch[b].nest) \in Nat /\ branch[b].at \in Inside
    BY <1>1, BranchFields DEF AllWritten, Written, At, Inside
  <2>2. Needs(b, d)
    BY <2>1 DEF Needs
  <2>3. FileOf(b, d) = <<branch[b].nest[d].name, b>>
    BY DEF FileOf, Holder
  <2> QED
    BY <1>1, <2>1, <2>2, <2>3 DEF AllWritten, Written
<1> QED
  BY <1>1, InitWritten, NextWritten, Invariant, PTL DEF Spec

(* The body runs with the fields that the steps around it ask for, whatever the vault     *)
(* answers and however often it is silent: for any nests and any number of tries.        *)
THEOREM BodyGetsItsSecrets == Spec => []BodyHasItsSecrets
<1>1. ASSUME IInv, AllInformed PROVE BodyHasItsSecrets
  <2> SUFFICES ASSUME NEW b \in Branches, At(b, "body"), NEW d \in 1..Len(branch[b].nest),
                      branch[b].nest[d].secret # "none"
               PROVE  branch[b].got[d] \in {"all"}
                          \cup (IF branch[b].nest[d].blank THEN {"blank"} ELSE {})
                          \cup (IF branch[b].nest[d].plain THEN {"blank", "missing"} ELSE {})
    BY DEF BodyHasItsSecrets
  <2>1. branch[b].depth = Len(branch[b].nest) /\ Len(branch[b].nest) \in Nat /\ branch[b].at \in Inside
    BY <1>1, BranchFields DEF At, Inside
  <2>2. branch[b].got[d] \in Fields /\ Suffices(branch[b].nest[d], branch[b].got[d])
    BY <1>1, <2>1 DEF AllInformed, Informed, Heard, At
  <2> QED
    BY <2>2 DEF Fields, Suffices
<1> QED
  BY <1>1, InitInformed, NextInformed, Invariant, PTL DEF Spec
====================================================================================
