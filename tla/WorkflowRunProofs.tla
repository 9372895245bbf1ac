---------------------------- MODULE WorkflowRunProofs ----------------------------
(* Theorems about WorkflowRun, for any number of calls, argument maps, listed runs  *)
(* and polls: the run that a call returns was triggered with its argument map.      *)
(* And about GitCheckout, which is where a build is before it triggers anything.    *)
EXTENDS WorkflowRun, GitCheckout, TLAPS

(* A lookup id is that of a call with the map, the first one that was made.         *)
LookupIdsOK == \A m \in Maps : lookupId[m] # Nobody => call[lookupId[m]].map = m

(* A run that shows a lookup id was triggered by a call with the map of that id.    *)
RunsOK ==
    \A r \in 1..Len(runs) :
        runs[r].id # Nobody => runs[r].by # Nobody /\ call[runs[r].by].map = call[runs[r].id].map

(* A call with record k looks for an id of its map, among the runs that there are,  *)
(* and takes a run that was triggered with its map.                                 *)
CallOK(k) ==
    /\ k.at \in {"list", "view"} => k.id # Nobody /\ call[k.id].map = k.map
    /\ \A i \in 1..Len(k.list) : k.list[i] \in 1..Len(runs)
    /\ k.run <= Len(runs) /\ (k.at = "poll" => k.run \in 1..MaxInt)
    /\ k.run # 0 => runs[k.run].by # Nobody /\ call[runs[k.run].by].map = k.map
CallsOK == \A c \in Calls : CallOK(call[c])

IInv == TypeOK /\ LookupIdsOK /\ RunsOK /\ CallsOK

LEMMA Initially == Init => IInv
<1> SUFFICES ASSUME Init PROVE IInv OBVIOUS
<1>1. 0 \in 0..MaxPolls BY WorkflowAssumption
<1>2. call \in [Calls -> CallStates]
  <2>1. DOMAIN call = Calls /\ call = [c \in Calls |-> call[c]] BY DEF Init
  <2>2. <<>> \in Seq(Nat) /\ 0 \in Nat OBVIOUS
  <2>3. \A c \in Calls : call[c] \in CallStates BY <1>1, <2>2 DEF Init, CallStates, Places
  <2> QED BY <2>1, <2>3
<1>3. \A c \in Calls : call[c].at = "trigger" /\ call[c].run = 0 /\ call[c].list = <<>>
  BY DEF Init
<1>4. runs = <<>> /\ Len(runs) = 0 /\ runs \in Seq(Runs) BY DEF Init
<1>5. TypeOK BY <1>2, <1>3, <1>4 DEF TypeOK, Init, At
<1>6. LookupIdsOK /\ RunsOK BY <1>4 DEF LookupIdsOK, RunsOK, Init
<1>7. CallsOK
  <2> SUFFICES ASSUME NEW c \in Calls PROVE CallOK(call[c]) BY DEF CallsOK
  <2>1. call[c].at = "trigger" /\ call[c].run = 0 /\ Len(call[c].list) = 0 BY <1>3
  <2> QED BY <1>4, <2>1 DEF CallOK
<1> QED BY <1>5, <1>6, <1>7 DEF IInv

(* The runs that there are keep who triggered them, and with which id.              *)
RunsGrow ==
    /\ runs' \in Seq(Runs) /\ Len(runs) <= Len(runs')
    /\ \A r \in 1..Len(runs) : runs'[r].id = runs[r].id /\ runs'[r].by = runs[r].by

LEMMA AppendedRun ==
  ASSUME IInv, NEW run \in Runs, runs' = Append(runs, run)
  PROVE  RunsGrow /\ Len(runs') = Len(runs) + 1 /\ runs'[Len(runs) + 1] = run
<1>1. runs \in Seq(Runs) BY DEF IInv, TypeOK
<1> QED BY <1>1 DEF RunsGrow

LEMMA SameRuns == ASSUME IInv, UNCHANGED runs PROVE RunsGrow
BY DEF RunsGrow, IInv, TypeOK

(* A step of call c that keeps its map, and what is there.                          *)
LEMMA CallMoves ==
  ASSUME IInv, RunsGrow, NEW c \in Calls, NEW new \in CallStates, Become(c, new),
         new.map = call[c].map, CallOK(new)
  PROVE  /\ call' \in [Calls -> CallStates]
         /\ \A o \in Calls : call'[o].map = call[o].map
         /\ CallsOK' /\ \A o \in Calls : call[o].run <= Len(runs)
         /\ \A o \in Calls : call'[o].run <= Len(runs') /\ (call'[o].at = "poll" => call'[o].run \in 1..MaxInt)
<1>1. /\ call \in [Calls -> CallStates] /\ runs \in Seq(Runs) /\ Len(runs) \in Nat BY DEF IInv, TypeOK
<1>2. /\ call' \in [Calls -> CallStates]
      /\ call'[c] = new /\ \A o \in Calls \ {c} : call'[o] = call[o]
  BY <1>1 DEF Become
<1>3. \A o \in Calls : call'[o].map = call[o].map BY <1>2
<1>4. \A o \in Calls : CallOK(call'[o]) BY <1>2 DEF IInv, CallsOK
<1>5. \A o \in Calls : call[o].run <= Len(runs) BY DEF IInv, TypeOK
<1>6. \A o \in Calls : call'[o] \in CallStates BY <1>2
<1>7. ASSUME NEW o \in Calls PROVE CallOK(call[o])'
  <2> DEFINE k == call'[o]
  <2>1. k \in CallStates /\ CallOK(k) BY <1>4, <1>6
  <2>2. k.run \in Nat /\ k.list \in Seq(Nat) /\ k.id \in Calls \cup {Nobody} BY <2>1 DEF CallStates
  <2>3. k.at \in {"list", "view"} => k.id # Nobody /\ call'[k.id].map = k.map
    BY <1>3, <2>1, <2>2 DEF CallOK
  <2>4. \A i \in 1..Len(k.list) : k.list[i] \in 1..Len(runs')
    BY <1>1, <2>1 DEF CallOK, RunsGrow
  <2>5. k.run <= Len(runs') /\ (k.at = "poll" => k.run \in 1..MaxInt)
    BY <1>1, <2>1, <2>2 DEF CallOK, RunsGrow
  <2>6. k.run # 0 => runs'[k.run].by # Nobody /\ call'[runs'[k.run].by].map = k.map
    <3> SUFFICES ASSUME k.run # 0 PROVE runs'[k.run].by # Nobody /\ call'[runs'[k.run].by].map = k.map OBVIOUS
    <3>1. k.run \in 1..Len(runs) BY <1>1, <2>1, <2>2 DEF CallOK
    <3>2. runs[k.run] \in Runs /\ runs'[k.run].by = runs[k.run].by BY <1>1, <3>1 DEF RunsGrow
    <3>3. runs[k.run].by # Nobody /\ call[runs[k.run].by].map = k.map BY <2>1 DEF CallOK
    <3>4. runs[k.run].by \in Calls BY <3>2, <3>3 DEF Runs
    <3> QED BY <1>3, <3>2, <3>3, <3>4
  <2> QED BY <2>3, <2>4, <2>5, <2>6 DEF CallOK
<1>8. CallsOK' BY <1>7 DEF CallsOK
<1> QED BY <1>2, <1>3, <1>5, <1>7, <1>8 DEF CallOK

LEMMA RunsKeep ==
  ASSUME IInv, \A o \in Calls : call'[o].map = call[o].map, UNCHANGED runs
  PROVE  RunsOK'
<1> SUFFICES ASSUME NEW r \in 1..Len(runs), runs[r].id # Nobody
             PROVE  runs[r].by # Nobody /\ call'[runs[r].by].map = call'[runs[r].id].map
  BY DEF RunsOK
<1>1. runs[r] \in Runs BY DEF IInv, TypeOK
<1>2. runs[r].by # Nobody /\ call[runs[r].by].map = call[runs[r].id].map BY DEF IInv, RunsOK
<1>3. runs[r].by \in Calls /\ runs[r].id \in Calls BY <1>1, <1>2 DEF Runs
<1> QED BY <1>2, <1>3

(* A step of call c that leaves everything else alone.                              *)
LEMMA Looks ==
  ASSUME IInv, NEW c \in Calls, NEW new \in CallStates, Become(c, new),
         new.map = call[c].map, CallOK(new), UNCHANGED <<lookupId, runs>>
  PROVE  IInv'
<1>1. RunsGrow BY SameRuns
<1>2. /\ call' \in [Calls -> CallStates] /\ CallsOK'
      /\ \A o \in Calls : call'[o].map = call[o].map
      /\ \A o \in Calls : call'[o].run <= Len(runs') /\ (call'[o].at = "poll" => call'[o].run \in 1..MaxInt)
  BY <1>1, CallMoves
<1>3. TypeOK' BY <1>2 DEF IInv, TypeOK, At
<1>4. LookupIdsOK' BY <1>2 DEF IInv, TypeOK, LookupIdsOK
<1>5. RunsOK' BY <1>2, RunsKeep
<1> QED BY <1>2, <1>3, <1>4, <1>5 DEF IInv

(* The id that a call takes is of a call with its map.                              *)
LEMMA LookupIds ==
  ASSUME IInv, NEW c \in Calls
  PROVE  LookupIdOf(c) \in Calls /\ call[LookupIdOf(c)].map = call[c].map
<1>1. call[c].map \in Maps /\ lookupId[call[c].map] \in Calls \cup {Nobody}
  BY DEF IInv, TypeOK, CallStates
<1> QED BY <1>1 DEF IInv, LookupIdsOK, LookupIdOf

LEMMA IdStays ==
  ASSUME IInv, NEW c \in Calls, \A o \in Calls : call'[o].map = call[o].map,
         lookupId' = [lookupId EXCEPT ![call[c].map] = LookupIdOf(c)]
  PROVE  lookupId' \in [Maps -> Calls \cup {Nobody}] /\ LookupIdsOK'
<1>1. lookupId \in [Maps -> Calls \cup {Nobody}] /\ call[c].map \in Maps BY DEF IInv, TypeOK, CallStates
<1>2. LookupIdOf(c) \in Calls /\ call[LookupIdOf(c)].map = call[c].map BY LookupIds
<1>3. lookupId' \in [Maps -> Calls \cup {Nobody}] BY <1>1, <1>2
<1>4. LookupIdsOK'
  <2> SUFFICES ASSUME NEW m \in Maps, lookupId'[m] # Nobody PROVE call'[lookupId'[m]].map = m
    BY DEF LookupIdsOK
  <2>1. CASE m = call[c].map BY <1>1, <1>2, <2>1
  <2>2. CASE m # call[c].map
    <3>1. lookupId'[m] = lookupId[m] BY <1>1, <2>2
    <3> QED BY <1>1, <3>1 DEF IInv, LookupIdsOK
  <2> QED BY <2>1, <2>2
<1> QED BY <1>3, <1>4

LEMMA Triggers == ASSUME IInv, NEW c \in Calls, Trigger(c) PROVE IInv'
<1> DEFINE id == LookupIdOf(c)
<1> DEFINE run == [id |-> id, by |-> c, state |-> "queued"]
<1>1. id \in Calls /\ call[id].map = call[c].map BY LookupIds
<1>2. run \in Runs BY <1>1 DEF Runs
<1>3. runs' = Append(runs, run) BY DEF Trigger
<1>4. RunsGrow /\ Len(runs') = Len(runs) + 1 /\ runs'[Len(runs) + 1] = run BY <1>2, <1>3, AppendedRun
<1>5. PICK at \in {"list", "error"} : Become(c, [call[c] EXCEPT !.at = at, !.id = id]) BY DEF Trigger
<1> DEFINE new == [call[c] EXCEPT !.at = at, !.id = id]
<1>6. call[c] \in CallStates /\ CallOK(call[c]) BY DEF IInv, TypeOK, CallsOK
<1>7. new \in CallStates BY <1>1, <1>5, <1>6 DEF CallStates, Places
<1>8. /\ new.map = call[c].map /\ new.id = id /\ new.list = call[c].list /\ new.run = call[c].run
      /\ new.at \in {"list", "error"}
  BY <1>5, <1>6 DEF CallStates
<1>9. CallOK(new)
  <2>1. id # Nobody BY <1>1, WorkflowAssumption
  <2> HIDE DEF new, id
  <2> QED BY <1>1, <1>6, <1>8, <2>1 DEF CallOK
<1>10. Become(c, new) BY <1>5
<1> HIDE DEF new, run, id
<1>11. /\ call' \in [Calls -> CallStates] /\ CallsOK'
       /\ \A o \in Calls : call'[o].map = call[o].map
       /\ \A o \in Calls : call'[o].run <= Len(runs') /\ (call'[o].at = "poll" => call'[o].run \in 1..MaxInt)
  BY <1>4, <1>7, <1>8, <1>9, <1>10, CallMoves
<1>12. lookupId' \in [Maps -> Calls \cup {Nobody}] /\ LookupIdsOK' BY <1>11, IdStays DEF Trigger
<1>13. TypeOK' BY <1>4, <1>11, <1>12 DEF TypeOK, At, RunsGrow
<1>14. RunsOK'
  <2> SUFFICES ASSUME NEW r \in 1..Len(runs'), runs'[r].id # Nobody
               PROVE  runs'[r].by # Nobody /\ call'[runs'[r].by].map = call'[runs'[r].id].map
    BY DEF RunsOK
  <2>1. CASE r = Len(runs) + 1
    <3>1. runs'[r].id = id /\ runs'[r].by = c BY <1>4, <2>1 DEF run
    <3> QED BY <1>1, <1>11, <3>1, WorkflowAssumption DEF id
  <2>2. CASE r # Len(runs) + 1
    <3>1. Len(runs) \in Nat /\ r \in 1..Len(runs) BY <1>4, <2>2 DEF IInv, TypeOK
    <3>2. runs[r] \in Runs /\ runs'[r].id = runs[r].id /\ runs'[r].by = runs[r].by
      BY <1>4, <3>1 DEF IInv, TypeOK, RunsGrow
    <3>3. runs[r].by # Nobody /\ call[runs[r].by].map = call[runs[r].id].map BY <3>1, <3>2 DEF IInv, RunsOK
    <3>4. runs[r].by \in Calls /\ runs[r].id \in Calls BY <3>2, <3>3 DEF Runs
    <3> QED BY <1>11, <3>2, <3>3, <3>4
  <2> QED BY <2>1, <2>2
<1> QED BY <1>11, <1>12, <1>13, <1>14 DEF IInv

(* Others only add runs, or let one go on: no call, map or id is touched.           *)
LEMMA Outside ==
  ASSUME IInv, RunsGrow, UNCHANGED <<call, lookupId>>,
         \A r \in 1..Len(runs') : r > Len(runs) => runs'[r].id = Nobody
  PROVE  IInv'
<1>1. /\ call \in [Calls -> CallStates] /\ runs \in Seq(Runs) /\ Len(runs) \in Nat
      /\ runs' \in Seq(Runs) /\ Len(runs') \in Nat
  BY DEF IInv, TypeOK, RunsGrow
<1>2. \A c \in Calls : call[c].run \in Nat /\ call[c].list \in Seq(Nat) BY <1>1 DEF CallStates
<1>3. TypeOK' BY <1>1, <1>2 DEF IInv, TypeOK, RunsGrow, At
<1>4. LookupIdsOK' BY DEF IInv, LookupIdsOK
<1>5. RunsOK'
  <2> SUFFICES ASSUME NEW r \in 1..Len(runs'), runs'[r].id # Nobody
               PROVE  runs'[r].by # Nobody /\ call[runs'[r].by].map = call[runs'[r].id].map
    BY DEF RunsOK
  <2>1. r \in 1..Len(runs) BY <1>1
  <2> QED BY <2>1 DEF IInv, RunsOK, RunsGrow
<1>6. CallsOK'
  <2> SUFFICES ASSUME NEW c \in Calls PROVE CallOK(call[c])' BY DEF CallsOK
  <2> DEFINE k == call[c]
  <2>1. CallOK(k) BY DEF IInv, CallsOK
  <2>2. \A i \in 1..Len(k.list) : k.list[i] \in 1..Len(runs') BY <1>1, <2>1 DEF CallOK, RunsGrow
  <2>3. k.run # 0 => runs'[k.run].by = runs[k.run].by
    <3>1. k.run # 0 => k.run \in 1..Len(runs) BY <1>1, <1>2, <2>1 DEF CallOK
    <3> QED BY <3>1 DEF RunsGrow
  <2>4. k.run <= Len(runs') BY <1>1, <1>2, <2>1 DEF CallOK, RunsGrow
  <2> QED BY <2>1, <2>2, <2>3, <2>4 DEF CallOK
<1> QED BY <1>3, <1>4, <1>5, <1>6 DEF IInv

LEMMA ProgressKeeps == ASSUME IInv, NEW r \in DOMAIN runs, Progress(r) PROVE IInv'
<1>1. runs \in Seq(Runs) /\ r \in 1..Len(runs) BY DEF IInv, TypeOK
<1> DEFINE state == IF runs[r].state = "queued" THEN "running" ELSE "completed"
<1> DEFINE new == [runs[r] EXCEPT !.state = state]
<1>2. new \in Runs /\ new.id = runs[r].id /\ new.by = runs[r].by
  <2>1. runs[r] \in Runs /\ state \in {"running", "completed"} BY <1>1
  <2> HIDE DEF state
  <2> QED BY <2>1 DEF Runs
<1>3. runs' = [runs EXCEPT ![r] = new] BY DEF Progress
<1> HIDE DEF new
<1>4. runs' \in Seq(Runs) /\ Len(runs') = Len(runs) BY <1>1, <1>2, <1>3
<1>5. RunsGrow BY <1>1, <1>2, <1>3, <1>4 DEF RunsGrow
<1>6. \A o \in 1..Len(runs') : ~(o > Len(runs)) BY <1>1, <1>4
<1> QED BY <1>5, <1>6, Outside DEF Progress

LEMMA OthersKeep == ASSUME IInv, OthersTrigger PROVE IInv'
<1> DEFINE run == [id |-> Nobody, by |-> Nobody, state |-> "queued"]
<1>1. run \in Runs BY DEF Runs
<1>2. runs' = Append(runs, run) BY DEF OthersTrigger
<1>3. RunsGrow /\ Len(runs') = Len(runs) + 1 /\ runs'[Len(runs) + 1] = run BY <1>1, <1>2, AppendedRun
<1>4. Len(runs) \in Nat BY DEF IInv, TypeOK
<1>5. \A r \in 1..Len(runs') : r > Len(runs) => r = Len(runs) + 1 BY <1>3, <1>4
<1> QED BY <1>3, <1>5, Outside DEF OthersTrigger

LEMMA Stutters == ASSUME IInv, UNCHANGED vars PROVE IInv'
BY DEF IInv, TypeOK, LookupIdsOK, RunsOK, CallsOK, CallOK, At, vars

(* Steps of a call after it triggered, and its errors.                              *)
LEMMA LooksUp ==
  ASSUME IInv, NEW c \in Calls, List(c) \/ View(c) \/ NotFound(c) \/ Poll(c) \/ GhFails(c)
  PROVE  IInv'
<1> DEFINE k == call[c]
<1>1. k \in CallStates /\ CallOK(k) /\ UNCHANGED <<lookupId, runs>>
  BY DEF IInv, TypeOK, CallsOK, List, View, NotFound, Poll, GhFails
<1>2. runs \in Seq(Runs) /\ Len(runs) \in Nat BY DEF IInv, TypeOK
<1>3. ASSUME NEW at \in {"returned", "error", "timedOut"}, Become(c, [k EXCEPT !.at = at]) PROVE IInv'
  <2> DEFINE new == [k EXCEPT !.at = at]
  <2>1. new \in CallStates BY <1>1 DEF CallStates, Places
  <2>2. new.map = k.map /\ new.list = k.list /\ new.run = k.run /\ new.at = at BY <1>1 DEF CallStates
  <2>3. CallOK(new) BY <1>1, <2>2 DEF CallOK
  <2> QED BY <1>1, <1>3, <2>1, <2>2, <2>3, Looks
<1>4. ASSUME List(c) PROVE IInv'
  <2> DEFINE at == IF Listed = <<>> THEN "error" ELSE "view"
  <2> DEFINE new == [k EXCEPT !.at = at, !.list = Listed]
  <2>1. Listed \in Seq(Nat) /\ \A i \in 1..Len(Listed) : Listed[i] \in 1..Len(runs)
    <3> DEFINE n == IF Len(runs) < Limit THEN Len(runs) ELSE Limit
    <3>1. n \in Nat /\ n <= Len(runs) BY <1>2, WorkflowAssumption
    <3>2. Listed = [i \in 1..n |-> Len(runs) + 1 - i] BY DEF Listed
    <3> HIDE DEF n
    <3>3. \A i \in 1..n : Len(runs) + 1 - i \in 1..Len(runs) BY <3>1, <1>2
    <3>4. \A i \in 1..n : Len(runs) + 1 - i \in Nat BY <3>3
    <3>5. Listed \in Seq(Nat) /\ Len(Listed) = n BY <3>1, <3>2, <3>4
    <3> QED BY <3>2, <3>3, <3>5
  <2>2. at \in {"error", "view"} OBVIOUS
  <2>3. Become(c, new) /\ k.at = "list" BY <1>4 DEF List, At
  <2> HIDE DEF at
  <2>4. new \in CallStates BY <1>1, <2>1, <2>2 DEF CallStates, Places
  <2>5. /\ new.map = k.map /\ new.id = k.id /\ new.list = Listed /\ new.run = k.run /\ new.at = at
    BY <1>1 DEF CallStates
  <2> HIDE DEF new
  <2>6. CallOK(new) BY <1>1, <2>1, <2>2, <2>3, <2>5 DEF CallOK
  <2> QED BY <1>1, <2>3, <2>4, <2>5, <2>6, Looks
<1>5. ASSUME View(c) PROVE IInv'
  <2> DEFINE r == Head(k.list)
  <2>1. k.at = "view" /\ k.list # <<>> /\ k.list \in Seq(Nat) /\ k.id \in Calls \cup {Nobody}
    BY <1>1, <1>5 DEF View, At, CallStates
  <2>2. r = k.list[1] /\ Len(k.list) >= 1 /\ r \in 1..Len(runs) BY <1>1, <2>1 DEF CallOK
  <2>3. runs[r] \in Runs BY <1>2, <2>2
  <2>4. r \in Nat BY <1>2, <2>2
  <2> HIDE DEF r
  <2>5. CASE runs[r].state # "queued" /\ runs[r].id = k.id
    <3> DEFINE at == IF r <= MaxInt THEN "poll" ELSE "error"
    <3> DEFINE new == [k EXCEPT !.list = <<>>, !.run = r, !.at = at]
    <3>1. Become(c, new) BY <1>5, <2>5 DEF View, r
    <3>2. at \in {"poll", "error"} /\ (at = "poll" => r \in 1..MaxInt)
      BY <1>2, <2>2, WorkflowAssumption
    <3> HIDE DEF at
    <3>3. new \in CallStates
      <4>1. <<>> \in Seq(Nat) OBVIOUS
      <4> QED BY <1>1, <2>4, <3>2, <4>1 DEF CallStates, Places
    <3>4. new.map = k.map /\ new.list = <<>> /\ new.run = r /\ new.at = at BY <1>1 DEF CallStates
    <3> HIDE DEF new
    <3>5. k.id # Nobody /\ call[k.id].map = k.map BY <1>1, <2>1 DEF CallOK
    <3>6. runs[r].by # Nobody /\ call[runs[r].by].map = k.map BY <2>2, <2>5, <3>5 DEF IInv, RunsOK
    <3>7. r <= Len(runs) BY <1>2, <2>2
    <3>8. CallOK(new) BY <3>2, <3>4, <3>6, <3>7 DEF CallOK
    <3> QED BY <1>1, <3>1, <3>3, <3>4, <3>8, Looks
  <2>6. CASE ~(runs[r].state # "queued" /\ runs[r].id = k.id)
    <3> DEFINE new == [k EXCEPT !.list = Tail(k.list)]
    <3>1. Become(c, new) BY <1>5, <2>6 DEF View, r
    <3>2. Tail(k.list) \in Seq(Nat) /\ \A i \in 1..Len(Tail(k.list)) : Tail(k.list)[i] \in 1..Len(runs)
      BY <1>1, <2>1 DEF CallOK
    <3>3. new \in CallStates BY <1>1, <3>2 DEF CallStates
    <3>4. /\ new.map = k.map /\ new.list = Tail(k.list) /\ new.run = k.run /\ new.at = k.at /\ new.id = k.id
      BY <1>1 DEF CallStates
    <3> HIDE DEF new
    <3>5. CallOK(new) BY <1>1, <3>2, <3>4 DEF CallOK
    <3> QED BY <1>1, <3>1, <3>3, <3>4, <3>5, Looks
  <2> QED BY <2>5, <2>6
<1>6. ASSUME NotFound(c) PROVE IInv' BY <1>3, <1>6 DEF NotFound
<1>7. ASSUME Poll(c) PROVE IInv'
  <2> DEFINE again == [k EXCEPT !.polls = k.polls + 1]
  <2>1. CASE k.polls = MaxPolls BY <1>3, <1>7, <2>1 DEF Poll
  <2>2. CASE k.polls # MaxPolls /\ runs[k.run].state = "completed" BY <1>3, <1>7, <2>2 DEF Poll
  <2>3. CASE k.polls # MaxPolls /\ runs[k.run].state # "completed"
    <3>1. Become(c, again) BY <1>7, <2>3 DEF Poll
    <3>2. k.polls \in 0..MaxPolls BY <1>1 DEF CallStates
    <3>3. k.polls + 1 \in 0..MaxPolls BY <2>3, <3>2, WorkflowAssumption
    <3>4. again \in CallStates BY <1>1, <3>3 DEF CallStates
    <3>5. again.map = k.map /\ again.id = k.id /\ again.list = k.list /\ again.run = k.run /\ again.at = k.at
      BY <1>1 DEF CallStates
    <3> HIDE DEF again
    <3>6. CallOK(again) BY <1>1, <3>5 DEF CallOK
    <3> QED BY <1>1, <3>1, <3>4, <3>5, <3>6, Looks
  <2> QED BY <2>1, <2>2, <2>3
<1>8. ASSUME GhFails(c) PROVE IInv' BY <1>3, <1>8 DEF GhFails
<1> QED BY <1>4, <1>5, <1>6, <1>7, <1>8

(* A call that fails before its workflow is triggered leaves its id in the map.     *)
LEMMA TriggerFailsKeeps == ASSUME IInv, NEW c \in Calls, TriggerFails(c) PROVE IInv'
<1> DEFINE new == [call[c] EXCEPT !.at = "error"]
<1>1. call[c] \in CallStates /\ CallOK(call[c]) BY DEF IInv, TypeOK, CallsOK
<1>2. new \in CallStates BY <1>1 DEF CallStates, Places
<1>3. /\ new.map = call[c].map /\ new.list = call[c].list /\ new.run = call[c].run /\ new.at = "error"
  BY <1>1 DEF CallStates
<1>4. Become(c, new) /\ UNCHANGED runs BY DEF TriggerFails
<1> HIDE DEF new
<1>5. CallOK(new) BY <1>1, <1>3 DEF CallOK
<1>6. CASE lookupId' = lookupId BY <1>2, <1>3, <1>4, <1>5, <1>6, Looks
<1>7. CASE lookupId' = [lookupId EXCEPT ![call[c].map] = LookupIdOf(c)]
  <2>1. RunsGrow BY <1>4, SameRuns
  <2>2. /\ call' \in [Calls -> CallStates] /\ CallsOK'
        /\ \A o \in Calls : call'[o].map = call[o].map
        /\ \A o \in Calls : call'[o].run <= Len(runs') /\ (call'[o].at = "poll" => call'[o].run \in 1..MaxInt)
    BY <2>1, <1>2, <1>3, <1>4, <1>5, CallMoves
  <2>3. lookupId' \in [Maps -> Calls \cup {Nobody}] /\ LookupIdsOK' BY <2>2, <1>7, IdStays
  <2>4. TypeOK' BY <2>1, <2>2, <2>3 DEF TypeOK, At, RunsGrow
  <2>5. RunsOK' BY <1>4, <2>2, RunsKeep
  <2> QED BY <2>2, <2>3, <2>4, <2>5 DEF IInv
<1> QED BY <1>6, <1>7 DEF TriggerFails

LEMMA Invariant == Spec => []IInv
<1>1. ASSUME IInv, Next PROVE IInv'
  <2>1. ASSUME NEW c \in Calls, Proceed(c) \/ TriggerFails(c) \/ GhFails(c) PROVE IInv'
    BY <2>1, <1>1, Triggers, LooksUp, TriggerFailsKeeps DEF Proceed
  <2>2. ASSUME NEW r \in DOMAIN runs, Progress(r) PROVE IInv' BY <2>2, <1>1, ProgressKeeps
  <2>3. CASE OthersTrigger BY <2>3, <1>1, OthersKeep
  <2>4. CASE Terminated BY <2>4, <1>1, Stutters DEF Terminated
  <2> QED BY <1>1, <2>1, <2>2, <2>3, <2>4 DEF Next
<1> QED BY Initially, <1>1, Stutters, PTL DEF Spec

(* The variables keep their types: a listed or polled run is one of GitHub's.       *)
THEOREM TypeCorrect == Spec => []TypeOK
<1>1. IInv => TypeOK BY DEF IInv
<1> QED BY <1>1, Invariant, PTL

(* The run that a call returns is its own, if nobody else has its map.              *)
THEOREM OwnRun == Spec => []RunIsOwn
<1>1. ASSUME IInv PROVE RunIsOwn
  <2> SUFFICES ASSUME NEW c \in Calls, call[c].run # 0,
                      \A o \in Calls \ {c} : call[o].map # call[c].map
               PROVE  runs[call[c].run].by = c
    BY DEF RunIsOwn
  <2>1. call[c] \in CallStates /\ CallOK(call[c]) /\ runs \in Seq(Runs)
    BY <1>1 DEF IInv, TypeOK, CallsOK
  <2>2. call[c].run \in 1..Len(runs) BY <2>1 DEF CallOK, CallStates
  <2>3. runs[call[c].run] \in Runs BY <2>1, <2>2
  <2> QED BY <2>1, <2>3 DEF CallOK, Runs
<1> QED BY <1>1, Invariant, PTL
--------------------------------------------------------------------------------
(* GitCheckout, for any number of builds, lanes, commits and steps: what is tagged  *)
(* was built, what is skipped ran, and an unapproved pull request stops.            *)

(* The environment names what the build has seen. Until a build starts it has      *)
(* nothing.                                                                        *)
BuildOK(k) ==
    /\ k.rev = Unset => k.seen = {} /\ k.base = Unset
    /\ k.base \in k.seen \cup {Unset}
    /\ k.base # Unset => k.url # "none"
BuildsOK == \A b \in Builds : BuildOK(build[b])

(* A lane with record r in build k: what is in its work tree, what it is about to  *)
(* tag, and who let it past its checkout.                                          *)
LaneOK(r, k) ==
    /\ r.repo = "none" => r.commit = k.rev
    /\ r.repo # "none" => r.commit \in k.seen
    /\ r.at \in {"refs", "env"} => r.repo # "none"
    /\ r.at = "env" => k.url # "none" /\ r.ref \in k.seen \cup {Unset}
    /\ r.at \in {"tag", "push"} => r.repo # "none" /\ k.url # "none"
    /\ r.at = "push" => r.tag \in k.seen
    /\ r.at \in {"out"} \cup InRelease /\ r.repo # "none" /\ k.cause = "checked" =>
           k.reviews = "yes" \/ k.aborts = 2
LanesOK == \A l \in Lanes : LaneOK(lane[l], B(l))

(* Once githubEnv exported it, and until its next checkout, the only lane of a     *)
(* build for a branch has what GIT_BASE_COMMIT names.                              *)
Settled == {"out", "check", "sleep", "tag", "push", "rollback"}
Agrees(r, k) == r.at \in Settled /\ k.base # Unset => k.base = r.commit
AgreesOK == ~IsPR => \A l \in Lanes : Alone(lane[l].of) => Agrees(lane[l], B(l))

(* A lane that asked for a stage stays where it is, and asked for a commit that    *)
(* its build has seen; for its own, if it is the only lane of a build for a branch. *)
Asks(l) ==
    /\ lane[l].at \in {"out", "stopped"}
    /\ request[l].stage \in B(l).seen \cup {Unset}
    /\ ~IsPR /\ Alone(lane[l].of) => request[l].stage \in {lane[l].commit, Unset}
AskedOK == \A l \in Lanes : phase[l] = "asked" => Asks(l)

(* A tag is at a commit that its build has seen.                                   *)
TagsOK == \A t \in tags : t.commit \in build[t.build].seen

(* What is remembered ran, unless somebody was misled about it.                    *)
MemoOK == \A c \in memo : c = Unset \/ c \in ran \/ Misled(c)

GitInv == GitTypeOK /\ BuildsOK /\ LanesOK /\ AgreesOK /\ AskedOK /\ TagsOK /\ MemoOK

(* What the commits are.                                                           *)
LEMMA Commits ==
  /\ Own \subseteq Shas /\ Merges \subseteq Shas
  /\ Foreign \in Shas /\ ForeignPr \in Shas /\ Unset \in Shas
  /\ Unset \notin Own
  /\ \A n \in 1..MaxCommits : <<"own", n>> \in Own /\ Merge(n) \in Merges
BY DEF Shas, Own, Merges, Merge, Foreign, ForeignPr, Unset

(* How the record of a build may change while it runs.                             *)
Grows(k, e) ==
    /\ e.rev = k.rev /\ e.cause = k.cause /\ k.seen \subseteq e.seen
    /\ k.url # "none" => e.url # "none"
    /\ k.reviews = "yes" => e.reviews = "yes"
    /\ k.aborts = 2 => e.aborts = 2

(* As a build goes on, its lanes stay in order.                                    *)
LEMMA LaneStays == ASSUME NEW k, NEW e, Grows(k, e), NEW r, LaneOK(r, k) PROVE LaneOK(r, e)
BY DEF Grows, LaneOK

(* Who was misled about a commit stays so.                                         *)
LEMMA MisledStays ==
  ASSUME UNCHANGED job, \A l \in Lanes : lane'[l].of = lane[l].of,
         \A b \in Builds : build[b].seen \subseteq build'[b].seen
                           /\ (build[b].seen = {} \/ build'[b].rev = build[b].rev),
         NEW c, Misled(c)
  PROVE  Misled(c)'
<1>1. PICK b \in Builds : Misleads(b) /\ c \in build[b].seen BY DEF Misled
<1>2. Alone(b)' <=> Alone(b) BY DEF Alone
<1>3. Misleads(b)' BY <1>1, <1>2 DEF Misleads, IsPR
<1> QED BY <1>1, <1>3 DEF Misled

(* A step of lane l, with its record and that of its build afterwards: nothing of  *)
(* it concerns other builds, or a lane of its own build that is the only one.      *)
LEMMA LaneMoves ==
  ASSUME GitInv, NEW l \in Lanes, NEW new \in LaneStates, NEW env \in BuildStates,
         new.of = lane[l].of, LaneOK(new, env), BuildOK(env), Grows(B(l), env),
         ~IsPR /\ Alone(lane[l].of) => Agrees(new, env),
         phase[l] = "asked" => new.at = "stopped" /\ new.commit = lane[l].commit,
         LaneBecomes(l, new), Export(l, env), UNCHANGED <<job, head, stages>>,
         steps' \in 0..MaxSteps[job]
  PROVE  /\ GitTypeOK' <=> tags' \subseteq [build : Builds, repo : Repos, commit : Shas]
         /\ BuildsOK' /\ LanesOK' /\ AgreesOK' /\ AskedOK' /\ MemoOK'
         /\ \A b \in Builds : Grows(build[b], build'[b])
<1>1. /\ build \in [Builds -> BuildStates] /\ lane \in [Lanes -> LaneStates]
      /\ UNCHANGED <<job, head, request, phase, memo, ran>>
  BY DEF GitInv, GitTypeOK, stages
<1>2. \A o \in Lanes : lane[o].of \in Builds BY <1>1 DEF LaneStates
<1>3. /\ build' \in [Builds -> BuildStates] /\ build'[lane[l].of] = env
      /\ \A b \in Builds \ {lane[l].of} : build'[b] = build[b]
  BY <1>1, <1>2 DEF Export
<1>4. /\ lane' \in [Lanes -> LaneStates] /\ lane'[l] = new
      /\ \A o \in Lanes \ {l} : lane'[o] = lane[o]
  BY <1>1 DEF LaneBecomes
<1>5. \A b \in Builds : Grows(build[b], build'[b])
  <2> SUFFICES ASSUME NEW b \in Builds, b # lane[l].of PROVE Grows(build[b], build'[b])
    BY <1>3 DEF B
  <2> QED BY <1>3 DEF Grows
<1>6. \A b \in Builds : BuildOK(build'[b]) BY <1>3 DEF GitInv, BuildsOK
<1>7. \A o \in Lanes : lane'[o].of = lane[o].of BY <1>4
<1>8. \A o \in Lanes : LaneOK(lane'[o], build'[lane[o].of])
  <2> SUFFICES ASSUME NEW o \in Lanes, o # l PROVE LaneOK(lane'[o], build'[lane[o].of])
    BY <1>3, <1>4
  <2>1. LaneOK(lane[o], build[lane[o].of]) BY DEF GitInv, LanesOK, B
  <2> QED BY <1>2, <1>4, <1>5, <2>1, LaneStays
<1>9. BuildsOK' BY <1>6 DEF BuildsOK, BuildOK
<1>10. LanesOK' BY <1>7, <1>8 DEF LanesOK, LaneOK, B
<1>11. \A b \in Builds : Alone(b)' <=> Alone(b) BY <1>7 DEF Alone
<1>12. AgreesOK'
  <2> SUFFICES ASSUME ~IsPR, NEW o \in Lanes, Alone(lane[o].of)
               PROVE  Agrees(lane'[o], build'[lane[o].of])
    BY <1>1, <1>2, <1>7, <1>11 DEF AgreesOK, IsPR, B, Agrees
  <2>1. CASE o = l BY <1>3, <1>4, <2>1
  <2>2. CASE o # l
    <3>1. lane[o].of # lane[l].of BY <2>2 DEF Alone
    <3>2. Agrees(lane[o], B(o)) BY DEF GitInv, AgreesOK
    <3> QED BY <1>2, <1>3, <1>4, <2>2, <3>1, <3>2 DEF B
  <2> QED BY <2>1, <2>2
<1>13. AskedOK'
  <2> SUFFICES ASSUME NEW o \in Lanes, phase[o] = "asked" PROVE Asks(o)'
    BY <1>1 DEF AskedOK
  <2>1. Asks(o) BY DEF GitInv, AskedOK
  <2>2. B(o).seen \subseteq B(o)'.seen BY <1>2, <1>5, <1>7 DEF Grows, B
  <2>3. lane'[o].at \in {"out", "stopped"} /\ lane'[o].commit = lane[o].commit
    BY <1>4, <2>1 DEF Asks
  <2> QED BY <1>1, <1>2, <1>7, <1>11, <2>1, <2>2, <2>3 DEF Asks, IsPR
<1>14. MemoOK'
  <2> SUFFICES ASSUME NEW c \in memo, Misled(c) PROVE Misled(c)'
    BY <1>1 DEF GitInv, MemoOK
  <2> QED BY <1>1, <1>5, <1>7, MisledStays DEF Grows
<1>15. GitTypeOK' <=> tags' \subseteq [build : Builds, repo : Repos, commit : Shas]
  BY <1>1, <1>3, <1>4 DEF GitInv, GitTypeOK
<1> QED BY <1>5, <1>9, <1>10, <1>12, <1>13, <1>14, <1>15

(* As it does, the tags that there are stay in order.                              *)
LEMMA TagsStay ==
  ASSUME GitInv, UNCHANGED tags, \A b \in Builds : build[b].seen \subseteq build'[b].seen
  PROVE  TagsOK' /\ tags' \subseteq [build : Builds, repo : Repos, commit : Shas]
<1>1. tags \subseteq [build : Builds, repo : Repos, commit : Shas] BY DEF GitInv, GitTypeOK
<1>2. \A t \in tags : t.build \in Builds BY <1>1
<1> QED BY <1>1, <1>2 DEF GitInv, TagsOK

(* A step of a lane, and no tag.                                                   *)
LEMMA LaneProceeds ==
  ASSUME GitInv, NEW l \in Lanes, NEW new \in LaneStates, NEW env \in BuildStates,
         new.of = lane[l].of, LaneOK(new, env), BuildOK(env), Grows(B(l), env),
         ~IsPR /\ Alone(lane[l].of) => Agrees(new, env),
         phase[l] = "asked" => new.at = "stopped" /\ new.commit = lane[l].commit,
         LaneBecomes(l, new), Export(l, env), UNCHANGED <<github, tags, stages>>,
         steps' \in 0..MaxSteps[job]
  PROVE  GitInv'
<1>1. UNCHANGED tags /\ UNCHANGED <<job, head, stages>> BY DEF github
<1>2. /\ GitTypeOK' <=> tags' \subseteq [build : Builds, repo : Repos, commit : Shas]
      /\ BuildsOK' /\ LanesOK' /\ AgreesOK' /\ AskedOK' /\ MemoOK'
      /\ \A b \in Builds : Grows(build[b], build'[b])
  BY <1>1, LaneMoves
<1>3. TagsOK' /\ tags' \subseteq [build : Builds, repo : Repos, commit : Shas]
  BY <1>1, <1>2, TagsStay DEF Grows
<1> QED BY <1>2, <1>3 DEF GitInv

(* A lane that is at something else than a stage did not ask for one.              *)
LEMMA NotAsked ==
  ASSUME GitInv, NEW l \in Lanes,
         lane[l].at \notin {"out", "stopped"} \/ phase[l] \in Memo!Idle
  PROVE  phase[l] # "asked"
BY DEF GitInv, AskedOK, Asks, Memo!Idle

(* What is known of a lane and of its build.                                       *)
LEMMA LaneHas ==
  ASSUME GitInv, NEW l \in Lanes
  PROVE  /\ lane[l] \in LaneStates /\ B(l) \in BuildStates /\ lane[l].of \in Builds
         /\ LaneOK(lane[l], B(l)) /\ BuildOK(B(l)) /\ Grows(B(l), B(l))
         /\ ~IsPR /\ Alone(lane[l].of) => Agrees(lane[l], B(l))
         /\ build' = build => Export(l, B(l))
         /\ steps \in 0..MaxSteps[job]
<1>1. /\ build \in [Builds -> BuildStates] /\ lane \in [Lanes -> LaneStates]
      /\ steps \in 0..MaxSteps[job]
  BY DEF GitInv, GitTypeOK
<1>2. lane[l] \in LaneStates /\ lane[l].of \in Builds BY <1>1 DEF LaneStates
<1>3. B(l) \in BuildStates /\ BuildOK(B(l)) BY <1>1, <1>2 DEF B, GitInv, BuildsOK
<1>4. LaneOK(lane[l], B(l)) BY DEF GitInv, LanesOK
<1>5. Grows(B(l), B(l)) BY DEF Grows
<1>6. build' = build => Export(l, B(l)) BY <1>1 DEF Export, B
<1>7. ~IsPR /\ Alone(lane[l].of) => Agrees(lane[l], B(l)) BY DEF GitInv, AgreesOK
<1> QED BY <1>1, <1>2, <1>3, <1>4, <1>5, <1>6, <1>7

(* The number of steps after one begins, or goes on.                               *)
LEMMA Counted ==
  ASSUME GitInv, NEW l \in Lanes, NEW from, NEW place,
         Begins(l, from) \/ LaneAt(l, place) \/ UNCHANGED steps
  PROVE  steps' \in 0..MaxSteps[job]
<1>1. job \in Jobs /\ steps \in 0..MaxSteps[job] BY DEF GitInv, GitTypeOK
<1>2. MaxSteps[job] \in Nat BY <1>1, CheckoutAssumption
<1> QED BY <1>1, <1>2 DEF Begins, LaneAt

(* Whatever a checkout finds, the build has seen it from then on.                  *)
LEMMA ToCheckedOut ==
  ASSUME GitInv, NEW l \in Lanes, NEW repo \in Repos, NEW commit \in Shas,
         NEW arg \in Repos \cup {"none"}, CheckedOut(l, repo, commit, arg)
  PROVE  GitInv'
<1> DEFINE fresh == [lane[l] EXCEPT !.upstream = FALSE, !.tag = Unset]
           env == [B(l) EXCEPT !.url = UrlGiven(l, arg), !.seen = B(l).seen \cup {commit}]
<1>1. /\ Begins(l, {"out", "failed"}) /\ B(l).rev # Unset /\ phase[l] \in Memo!Idle
      /\ Export(l, env) /\ UNCHANGED <<github, tags, stages>>
  BY DEF CheckedOut, Begins, Alive
<1>2. PICK old \in {fresh, lane[l]} :
         LaneBecomes(l, [old EXCEPT !.at = "refs", !.repo = repo, !.commit = commit])
  BY DEF CheckedOut
<1> DEFINE new == [old EXCEPT !.at = "refs", !.repo = repo, !.commit = commit]
<1>3. LaneBecomes(l, new) BY <1>2
<1>4. lane[l] \in LaneStates /\ B(l) \in BuildStates /\ BuildOK(B(l)) BY LaneHas
<1>5. fresh \in LaneStates /\ fresh.of = lane[l].of BY <1>4, Commits DEF LaneStates
<1>6. old \in LaneStates /\ old.of = lane[l].of BY <1>4, <1>5
<1> HIDE DEF fresh
<1>7. /\ new \in LaneStates /\ new.of = lane[l].of /\ new.at = "refs" /\ new.repo = repo
      /\ new.commit = commit
  BY <1>6 DEF LaneStates, LanePlaces, InCheckout
<1>8. UrlGiven(l, arg) \in Repos \cup {"none"} /\ (B(l).url # "none" => UrlGiven(l, arg) = B(l).url)
  BY <1>4 DEF UrlGiven, BuildStates
<1>9. /\ env \in BuildStates /\ env.rev = B(l).rev /\ env.seen = B(l).seen \cup {commit}
      /\ env.url = UrlGiven(l, arg) /\ env.base = B(l).base
      /\ env.cause = B(l).cause /\ env.reviews = B(l).reviews /\ env.aborts = B(l).aborts
  BY <1>4, <1>8 DEF BuildStates
<1> HIDE DEF new, env
<1>10. Grows(B(l), env) BY <1>8, <1>9 DEF Grows
<1>11. BuildOK(env) BY <1>1, <1>4, <1>8, <1>9 DEF BuildOK
<1>12. LaneOK(new, env) BY <1>7, <1>9 DEF LaneOK, Repos, InRelease
<1>13. Agrees(new, env) BY <1>7 DEF Agrees, Settled
<1>14. steps' \in 0..MaxSteps[job] BY <1>1, Counted
<1>15. phase[l] # "asked" BY <1>1, NotAsked
<1> QED BY <1>1, <1>3, <1>7, <1>9, <1>10, <1>11, <1>12, <1>13, <1>14, <1>15, LaneProceeds

(* The four ways of gitCheckout.                                                   *)
LEMMA ToCheckout ==
  ASSUME GitInv, NEW l \in Lanes,
         CheckoutScm(l) \/ CheckoutCustomised(l) \/ CheckoutBranch(l) \/ CheckoutRefused(l)
  PROVE  GitInv'
<1>1. /\ lane[l] \in LaneStates /\ B(l) \in BuildStates /\ BuildOK(B(l)) /\ LaneOK(lane[l], B(l))
      /\ "own" \in Repos /\ head \in 1..MaxCommits
  BY LaneHas DEF Repos, GitInv, GitTypeOK
<1>2. Latest \subseteq Shas
  <2>1. <<"own", head>> \in Shas BY <1>1, Commits
  <2>2. \A n \in head + 1..MaxCommits : Merge(n) \in Shas
    <3> SUFFICES ASSUME NEW n \in head + 1..MaxCommits PROVE Merge(n) \in Shas OBVIOUS
    <3>1. n \in 1..MaxCommits BY <1>1, CheckoutAssumption
    <3> QED BY <3>1, Commits
  <2> QED BY <2>1, <2>2 DEF Latest
<1>3. CASE CheckoutScm(l)
  <2>1. B(l).rev \in Shas BY <1>1, Commits DEF BuildStates
  <2> QED BY <1>1, <1>3, <2>1, ToCheckedOut DEF CheckoutScm
<1>4. CASE CheckoutCustomised(l) BY <1>1, <1>2, <1>4, ToCheckedOut DEF CheckoutCustomised
<1>5. CASE CheckoutBranch(l)
  <2>1. PICK repo \in Repos, commit \in Shas : CheckedOut(l, repo, commit, repo)
    BY <1>2, <1>5, Commits DEF CheckoutBranch
  <2> QED BY <2>1, ToCheckedOut
<1>6. CASE CheckoutRefused(l)
  <2>1. PICK arg \in Repos \cup {"none"} : Export(l, [B(l) EXCEPT !.url = UrlGiven(l, arg)])
    BY <1>6 DEF CheckoutRefused
  <2> DEFINE new == [lane[l] EXCEPT !.at = "failed"]
             env == [B(l) EXCEPT !.url = UrlGiven(l, arg)]
  <2>2. /\ Begins(l, {"out", "failed"}) /\ B(l).rev # Unset /\ phase[l] \in Memo!Idle
        /\ Goto(l, "failed") /\ UNCHANGED <<github, tags, stages>>
    BY <1>6 DEF CheckoutRefused, Begins, Alive
  <2>3. LaneBecomes(l, new) /\ Export(l, env) BY <1>1, <2>1, <2>2 DEF Goto, LaneBecomes
  <2>4. /\ new \in LaneStates /\ new.of = lane[l].of /\ new.at = "failed" /\ new.repo = lane[l].repo
        /\ new.commit = lane[l].commit
    BY <1>1 DEF LaneStates, LanePlaces
  <2>5. UrlGiven(l, arg) \in Repos \cup {"none"} /\ (B(l).url # "none" => UrlGiven(l, arg) = B(l).url)
    BY <1>1 DEF UrlGiven, BuildStates
  <2>6. /\ env \in BuildStates /\ env.rev = B(l).rev /\ env.seen = B(l).seen
        /\ env.url = UrlGiven(l, arg) /\ env.base = B(l).base
        /\ env.cause = B(l).cause /\ env.reviews = B(l).reviews /\ env.aborts = B(l).aborts
    BY <1>1, <2>5 DEF BuildStates
  <2> HIDE DEF new, env
  <2>7. Grows(B(l), env) BY <2>5, <2>6 DEF Grows
  <2>8. BuildOK(env) BY <1>1, <2>2, <2>5, <2>6 DEF BuildOK
  <2>9. LaneOK(new, env) BY <1>1, <2>4, <2>6 DEF LaneOK, InRelease
  <2>10. Agrees(new, env) BY <2>4 DEF Agrees, Settled
  <2>11. steps' \in 0..MaxSteps[job] BY <2>2, Counted
  <2>12. phase[l] # "asked" BY <2>2, NotAsked
  <2> QED BY <2>2, <2>3, <2>4, <2>6, <2>7, <2>8, <2>9, <2>10, <2>11, <2>12, LaneProceeds
<1> QED BY <1>3, <1>4, <1>5, <1>6

(* The pull request may be at another commit by now: then the build has seen it.   *)
LEMMA ToRefs == ASSUME GitInv, NEW l \in Lanes, Refs(l) PROVE GitInv'
<1>1. /\ LaneAt(l, "refs") /\ lane[l].at = "refs" /\ B(l).rev # Unset
      /\ UNCHANGED <<github, tags, stages>>
  BY DEF Refs, LaneAt, Alive
<1>2. PICK ref \in IF IsPR THEN PullRefs(UrlOf(l)) ELSE {Unset} :
         /\ LaneBecomes(l, [lane[l] EXCEPT !.at = "env", !.ref = ref])
         /\ Export(l, [B(l) EXCEPT !.url = UrlOf(l), !.seen = @ \cup ({ref} \ {Unset})])
  BY Zenon DEF Refs
<1> DEFINE new == [lane[l] EXCEPT !.at = "env", !.ref = ref]
           seen == B(l).seen \cup ({ref} \ {Unset})
           env == [B(l) EXCEPT !.url = UrlOf(l), !.seen = seen]
<1>3. LaneBecomes(l, new) BY <1>2
<1>4. Export(l, env) BY <1>2
<1>5. /\ lane[l] \in LaneStates /\ B(l) \in BuildStates /\ BuildOK(B(l)) /\ LaneOK(lane[l], B(l))
  BY LaneHas
<1>6. ref \in Shas
  <2>1. head \in 1..MaxCommits BY DEF GitInv, GitTypeOK
  <2>2. <<"own", head>> \in Shas BY <2>1, Commits
  <2> QED BY <1>2, <2>2, Commits DEF PullRefs
<1>7. lane[l].repo # "none" BY <1>1, <1>5 DEF LaneOK
<1>8. UrlOf(l) \in Repos /\ UrlOf(l) # "none" /\ (B(l).url # "none" => UrlOf(l) = B(l).url)
  BY <1>5, <1>7 DEF UrlOf, BuildStates, LaneStates, Repos
<1>9. seen \subseteq Shas /\ B(l).seen \subseteq seen /\ ref \in seen \cup {Unset}
  BY <1>5, <1>6 DEF BuildStates
<1> HIDE DEF seen
<1>10. /\ new \in LaneStates /\ new.of = lane[l].of /\ new.at = "env" /\ new.repo = lane[l].repo
       /\ new.commit = lane[l].commit /\ new.ref = ref
  BY <1>5, <1>6 DEF LaneStates, LanePlaces, InCheckout
<1>11. /\ env \in BuildStates /\ env.rev = B(l).rev /\ env.seen = seen
       /\ env.url = UrlOf(l) /\ env.base = B(l).base
       /\ env.cause = B(l).cause /\ env.reviews = B(l).reviews /\ env.aborts = B(l).aborts
  BY <1>5, <1>8, <1>9 DEF BuildStates
<1> HIDE DEF new, env
<1>12. Grows(B(l), env) BY <1>8, <1>9, <1>11 DEF Grows
<1>13. BuildOK(env) BY <1>1, <1>5, <1>8, <1>9, <1>11 DEF BuildOK
<1>14. LaneOK(new, env) BY <1>5, <1>7, <1>8, <1>9, <1>10, <1>11 DEF LaneOK, InRelease
<1>15. Agrees(new, env) BY <1>10 DEF Agrees, Settled
<1>16. steps' \in 0..MaxSteps[job] BY <1>1, Counted
<1>17. phase[l] # "asked" BY <1>1, NotAsked
<1> QED BY <1>1, <1>3, <1>4, <1>10, <1>11, <1>12, <1>13, <1>14, <1>15, <1>16, <1>17, LaneProceeds

(* GIT_BASE_COMMIT names what this lane checked out, or the head that it fetched.  *)
LEMMA ToEnv == ASSUME GitInv, NEW l \in Lanes, Env(l) PROVE GitInv'
<1> DEFINE at == IF Unchecked(l) THEN "out" ELSE "check"
           new == [lane[l] EXCEPT !.at = at, !.ref = Unset]
           env == [B(l) EXCEPT !.base = BaseCommit(l)]
<1>1. /\ LaneAt(l, "env") /\ lane[l].at = "env" /\ B(l).rev # Unset /\ BaseCommit(l) # Unset
      /\ Export(l, env) /\ LaneBecomes(l, new) /\ UNCHANGED <<github, tags, stages>>
  BY DEF Env, LaneAt, Alive
<1>2. /\ lane[l] \in LaneStates /\ B(l) \in BuildStates /\ BuildOK(B(l)) /\ LaneOK(lane[l], B(l))
  BY LaneHas
<1>3. BaseCommit(l) \in Shas BY <1>2 DEF BaseCommit, LaneStates
<1>4. lane[l].repo # "none" /\ lane[l].commit \in B(l).seen /\ B(l).url # "none"
  BY <1>1, <1>2 DEF LaneOK
<1>5. BaseCommit(l) \in B(l).seen /\ (~IsPR => BaseCommit(l) = lane[l].commit)
  BY <1>1, <1>2, <1>4 DEF BaseCommit, LaneOK
<1>6. at \in {"out", "check"} /\ (at = "out" => B(l).cause # "checked") BY DEF Unchecked
<1> HIDE DEF at
<1>7. /\ new \in LaneStates /\ new.of = lane[l].of /\ new.at = at /\ new.repo = lane[l].repo
      /\ new.commit = lane[l].commit
  BY <1>2, <1>6, Commits DEF LaneStates, LanePlaces, InCheckout
<1>8. /\ env \in BuildStates /\ env.rev = B(l).rev /\ env.seen = B(l).seen
      /\ env.url = B(l).url /\ env.base = BaseCommit(l)
      /\ env.cause = B(l).cause /\ env.reviews = B(l).reviews /\ env.aborts = B(l).aborts
  BY <1>2, <1>3 DEF BuildStates
<1> HIDE DEF new, env
<1>9. Grows(B(l), env) BY <1>8 DEF Grows
<1>10. BuildOK(env) BY <1>1, <1>4, <1>5, <1>8 DEF BuildOK
<1>11. LaneOK(new, env) BY <1>4, <1>6, <1>7, <1>8 DEF LaneOK, InRelease
<1>12. ~IsPR => Agrees(new, env) BY <1>5, <1>7, <1>8 DEF Agrees
<1>13. steps' \in 0..MaxSteps[job] BY <1>1, Counted
<1>14. phase[l] # "asked" BY <1>1, NotAsked
<1> QED BY <1>1, <1>7, <1>8, <1>9, <1>10, <1>11, <1>12, <1>13, <1>14, LaneProceeds

(* The answer about a pull request and the abort of its build: the first answer    *)
(* stays.                                                                          *)
LEMMA ToAnswer ==
  ASSUME GitInv, NEW l \in Lanes, Approves(l) \/ Aborts(l) \/ AbortAgain(l) PROVE GitInv'
<1>1. PICK env \in {[B(l) EXCEPT !.reviews = "yes"], [B(l) EXCEPT !.reviews = "no", !.aborts = 1],
                    [B(l) EXCEPT !.aborts = 2]},
           p \in {"out", "sleep"} :
         /\ Export(l, env) /\ Goto(l, p) /\ UNCHANGED <<github, tags, stages>>
         /\ B(l).aborts < 2 /\ UNCHANGED steps /\ lane[l].at \in {"check", "sleep"}
         /\ B(l).reviews = "yes" => env.reviews = "yes"
         /\ p = "out" => env.reviews = "yes" \/ env.aborts = 2
  <2>1. /\ lane[l] \in LaneStates /\ B(l) \in BuildStates BY LaneHas
  <2>2. CASE Approves(l)
    <3> DEFINE e == [B(l) EXCEPT !.reviews = "yes"]
    <3>1. e.reviews = "yes" BY <2>1 DEF BuildStates
    <3> QED BY <2>2, <3>1 DEF Approves, LaneAt, Alive
  <2>3. CASE Aborts(l)
    BY <2>3 DEF Aborts, LaneAt, Alive
  <2>4. CASE AbortAgain(l)
    <3> DEFINE e == [B(l) EXCEPT !.aborts = 2]
    <3>1. e.aborts = 2 /\ e.reviews = B(l).reviews BY <2>1 DEF BuildStates
    <3> QED BY <2>4, <3>1 DEF AbortAgain, LaneAt, Alive
  <2> QED BY <2>2, <2>3, <2>4
<1> DEFINE new == [lane[l] EXCEPT !.at = p]
<1>2. /\ lane[l] \in LaneStates /\ B(l) \in BuildStates /\ BuildOK(B(l)) /\ LaneOK(lane[l], B(l))
      /\ ~IsPR /\ Alone(lane[l].of) => Agrees(lane[l], B(l))
      /\ steps \in 0..MaxSteps[job]
  BY LaneHas
<1>3. LaneBecomes(l, new) BY <1>1, <1>2 DEF Goto, LaneBecomes
<1>4. /\ new \in LaneStates /\ new.of = lane[l].of /\ new.at = p /\ new.repo = lane[l].repo
      /\ new.commit = lane[l].commit
  BY <1>1, <1>2 DEF LaneStates, LanePlaces, InCheckout
<1>5. /\ env \in BuildStates /\ env.rev = B(l).rev /\ env.seen = B(l).seen
      /\ env.url = B(l).url /\ env.base = B(l).base /\ env.cause = B(l).cause
  <2>1. CASE env = [B(l) EXCEPT !.reviews = "yes"] BY <1>2, <2>1 DEF BuildStates
  <2>2. CASE env = [B(l) EXCEPT !.reviews = "no", !.aborts = 1]
    <3> DEFINE k == [B(l) EXCEPT !.reviews = "no"]
    <3>1. /\ k \in BuildStates /\ k.rev = B(l).rev /\ k.seen = B(l).seen /\ k.url = B(l).url
          /\ k.base = B(l).base /\ k.cause = B(l).cause
      BY <1>2 DEF BuildStates
    <3>2. env = [k EXCEPT !.aborts = 1] BY <1>2, <2>2 DEF BuildStates
    <3> HIDE DEF k
    <3> QED BY <3>1, <3>2 DEF BuildStates
  <2>3. CASE env = [B(l) EXCEPT !.aborts = 2] BY <1>2, <2>3 DEF BuildStates
  <2> QED BY <1>1, <2>1, <2>2, <2>3
<1> HIDE DEF new
<1>6. B(l).aborts # 2 BY <1>1
<1>7. Grows(B(l), env) BY <1>1, <1>5, <1>6 DEF Grows
<1>8. BuildOK(env) BY <1>2, <1>5 DEF BuildOK
<1>9. LaneOK(new, env) BY <1>1, <1>2, <1>4, <1>5 DEF LaneOK, InRelease
<1>10. ~IsPR /\ Alone(lane[l].of) => Agrees(new, env)
  BY <1>1, <1>2, <1>4, <1>5 DEF Agrees, Settled
<1>11. phase[l] # "asked" BY <1>1, NotAsked
<1>12. steps' \in 0..MaxSteps[job] BY <1>1, <1>2
<1> QED BY <1>1, <1>3, <1>4, <1>5, <1>7, <1>8, <1>9, <1>10, <1>11, <1>12, LaneProceeds

(* Steps of a lane that give up what it was at, and mean nothing for its build.    *)
LEMMA ToElsewhere ==
  ASSUME GitInv, NEW l \in Lanes, CheckoutFails(l) \/ SetupFails(l) \/ ReleaseFails(l) \/ Interrupt(l)
  PROVE  GitInv'
<1>1. /\ lane[l] \in LaneStates /\ B(l) \in BuildStates /\ LaneOK(lane[l], B(l)) /\ BuildOK(B(l))
      /\ Grows(B(l), B(l)) /\ steps \in 0..MaxSteps[job]
  BY LaneHas
<1>2. PICK new \in LaneStates :
         /\ LaneBecomes(l, new) /\ UNCHANGED <<github, build, tags, stages>>
         /\ new.of = lane[l].of /\ new.repo = lane[l].repo /\ new.commit = lane[l].commit
         /\ new.at \in {"failed", "undo", "stopped"}
         /\ new.at = "undo" => lane[l].at \in {"out"} \cup InRelease
         /\ new.at # "stopped" => phase[l] # "asked"
         /\ steps' \in 0..MaxSteps[job]
  <2> DEFINE Given(p) == [lane[l] EXCEPT !.at = p]
             Reset(p) == [lane[l] EXCEPT !.at = p, !.ref = Unset]
  <2>1. ASSUME NEW p \in {"failed", "undo", "stopped"}
        PROVE  \A new \in {Given(p), Reset(p)} :
                  /\ new \in LaneStates /\ new.at = p
                  /\ new.of = lane[l].of /\ new.repo = lane[l].repo /\ new.commit = lane[l].commit
    BY <1>1, <2>1, Commits DEF LaneStates, LanePlaces, InRelease
  <2>2. CASE CheckoutFails(l)
    <3>1. /\ lane[l].at \in {"refs", "env", "check"} /\ LaneBecomes(l, Reset("failed"))
          /\ UNCHANGED <<github, build, tags, stages>> /\ UNCHANGED steps
      BY <2>2 DEF CheckoutFails, LaneAt
    <3>2. phase[l] # "asked" BY <3>1, NotAsked
    <3> HIDE DEF Given, Reset
    <3> QED BY <1>1, <2>1, <3>1, <3>2
  <2>3. CASE SetupFails(l)
    <3>1. /\ Begins(l, {"out"}) /\ lane[l].at = "out" /\ phase[l] \in Memo!Idle
          /\ LaneBecomes(l, Given("undo")) /\ UNCHANGED <<github, build, tags, stages>>
      BY <1>1, <2>3 DEF SetupFails, Begins, Goto, LaneBecomes
    <3>2. steps' \in 0..MaxSteps[job] /\ phase[l] # "asked" BY <3>1, Counted, NotAsked
    <3> HIDE DEF Given, Reset
    <3> QED BY <2>1, <3>1, <3>2
  <2>4. CASE ReleaseFails(l)
    <3>1. /\ lane[l].at \in {"tag", "push"} /\ LaneBecomes(l, Given("undo"))
          /\ UNCHANGED <<github, build, tags, stages>> /\ UNCHANGED steps
      BY <2>4 DEF ReleaseFails, LaneAt, Goto, LaneBecomes
    <3>2. phase[l] # "asked" BY <3>1, NotAsked
    <3> HIDE DEF Given, Reset
    <3> QED BY <1>1, <2>1, <3>1, <3>2 DEF InRelease
  <2>5. CASE Interrupt(l)
    <3>1. /\ LaneBecomes(l, Reset("stopped"))
          /\ UNCHANGED <<github, build, tags, stages>> /\ UNCHANGED steps
      BY <2>5 DEF Interrupt
    <3> HIDE DEF Given, Reset
    <3> QED BY <1>1, <2>1, <3>1
  <2> QED BY <2>2, <2>3, <2>4, <2>5
<1>3. LaneOK(new, B(l)) BY <1>1, <1>2 DEF LaneOK, InRelease
<1>4. Agrees(new, B(l)) BY <1>2 DEF Agrees, Settled
<1>5. Export(l, B(l)) BY <1>2, LaneHas
<1>6. UNCHANGED <<github, tags, stages>> BY <1>2
<1> QED BY <1>1, <1>2, <1>3, <1>4, <1>5, <1>6, LaneProceeds

(* A release resets the work tree to GIT_BASE_COMMIT.                              *)
LEMMA ToSetup == ASSUME GitInv, NEW l \in Lanes, Setup(l) PROVE GitInv'
<1> DEFINE new == [lane[l] EXCEPT !.at = "tag", !.commit = Released(l)]
<1>1. /\ Begins(l, {"out"}) /\ lane[l].at = "out" /\ B(l).base # Unset /\ ~IsPR /\ lane[l].repo # "none"
      /\ LaneBecomes(l, new) /\ UNCHANGED <<github, build, tags, stages>> /\ phase[l] \in Memo!Idle
  BY DEF Setup, Begins
<1>2. /\ lane[l] \in LaneStates /\ B(l) \in BuildStates /\ BuildOK(B(l)) /\ LaneOK(lane[l], B(l))
      /\ Grows(B(l), B(l)) /\ Export(l, B(l))
  BY <1>1, LaneHas
<1>3. Released(l) = B(l).base /\ Released(l) \in B(l).seen /\ B(l).url # "none" /\ Released(l) \in Shas
  BY <1>1, <1>2 DEF Released, BuildOK, BuildStates
<1>4. /\ new \in LaneStates /\ new.of = lane[l].of /\ new.at = "tag" /\ new.repo = lane[l].repo
      /\ new.commit = Released(l)
  BY <1>2, <1>3 DEF LaneStates, LanePlaces, InRelease
<1> HIDE DEF new
<1>5. LaneOK(new, B(l)) BY <1>1, <1>2, <1>3, <1>4 DEF LaneOK, InRelease
<1>6. Agrees(new, B(l)) BY <1>3, <1>4 DEF Agrees
<1>7. steps' \in 0..MaxSteps[job] /\ phase[l] # "asked" BY <1>1, Counted, NotAsked
<1>8. UNCHANGED <<github, tags, stages>> BY <1>1
<1> QED BY <1>1, <1>2, <1>4, <1>5, <1>6, <1>7, <1>8, LaneProceeds

(* The tag is at what is in the work tree.                                         *)
LEMMA ToTag == ASSUME GitInv, NEW l \in Lanes, Tag(l) PROVE GitInv'
<1> DEFINE new == [lane[l] EXCEPT !.at = "push", !.tag = lane[l].commit]
<1>1. /\ LaneAt(l, "tag") /\ lane[l].at = "tag"
      /\ LaneBecomes(l, new) /\ UNCHANGED <<github, build, tags, stages>>
  BY DEF Tag, LaneAt
<1>2. /\ lane[l] \in LaneStates /\ B(l) \in BuildStates /\ BuildOK(B(l)) /\ LaneOK(lane[l], B(l))
      /\ Grows(B(l), B(l)) /\ Export(l, B(l)) /\ (~IsPR /\ Alone(lane[l].of) => Agrees(lane[l], B(l)))
  BY <1>1, LaneHas
<1>3. /\ new \in LaneStates /\ new.of = lane[l].of /\ new.at = "push" /\ new.repo = lane[l].repo
      /\ new.commit = lane[l].commit /\ new.tag = lane[l].commit
  BY <1>2 DEF LaneStates, LanePlaces, InRelease
<1> HIDE DEF new
<1>4. LaneOK(new, B(l)) BY <1>1, <1>2, <1>3 DEF LaneOK, InRelease
<1>5. ~IsPR /\ Alone(lane[l].of) => Agrees(new, B(l)) BY <1>1, <1>2, <1>3 DEF Agrees, Settled
<1>6. steps' \in 0..MaxSteps[job] /\ phase[l] # "asked" BY <1>1, Counted, NotAsked
<1>7. UNCHANGED <<github, tags, stages>> BY <1>1
<1> QED BY <1>1, <1>2, <1>3, <1>4, <1>5, <1>6, <1>7, LaneProceeds

(* A lane that is done with its release goes on, or throws.                        *)
LEMMA ToRollback == ASSUME GitInv, NEW l \in Lanes, Rollback(l) PROVE GitInv'
<1> DEFINE at == IF lane[l].at = "undo" THEN "failed" ELSE "out"
           new == [lane[l] EXCEPT !.at = at, !.upstream = TRUE]
<1>1. /\ LaneAt(l, lane[l].at) /\ lane[l].at \in {"rollback", "undo"}
      /\ LaneBecomes(l, new) /\ UNCHANGED <<github, build, tags, stages>>
  BY DEF Rollback, LaneAt
<1>2. /\ lane[l] \in LaneStates /\ B(l) \in BuildStates /\ BuildOK(B(l)) /\ LaneOK(lane[l], B(l))
      /\ Grows(B(l), B(l)) /\ Export(l, B(l)) /\ (~IsPR /\ Alone(lane[l].of) => Agrees(lane[l], B(l)))
  BY <1>1, LaneHas
<1>3. at \in {"failed", "out"} /\ (at = "out" => lane[l].at = "rollback") BY <1>1
<1> HIDE DEF at
<1>4. /\ new \in LaneStates /\ new.of = lane[l].of /\ new.at = at /\ new.repo = lane[l].repo
      /\ new.commit = lane[l].commit
  BY <1>2, <1>3 DEF LaneStates, LanePlaces
<1> HIDE DEF new
<1>5. LaneOK(new, B(l)) BY <1>1, <1>2, <1>3, <1>4 DEF LaneOK, InRelease
<1>6. ~IsPR /\ Alone(lane[l].of) => Agrees(new, B(l)) BY <1>2, <1>3, <1>4 DEF Agrees, Settled
<1>7. steps' \in 0..MaxSteps[job] /\ phase[l] # "asked" BY <1>1, Counted, NotAsked
<1>8. UNCHANGED <<github, tags, stages>> BY <1>1
<1> QED BY <1>1, <1>2, <1>4, <1>5, <1>6, <1>7, <1>8, LaneProceeds

(* What is pushed to the repository of GIT_URL, the build has seen.                *)
LEMMA ToPushTag == ASSUME GitInv, NEW l \in Lanes, PushTag(l) PROVE GitInv'
<1> DEFINE new == [lane[l] EXCEPT !.at = "rollback"]
<1>1. /\ LaneAt(l, "push") /\ lane[l].at = "push" /\ Goto(l, "rollback")
      /\ tags' = tags \cup {Pushed(l)} /\ UNCHANGED build /\ UNCHANGED <<github, stages>>
  BY DEF PushTag, LaneAt
<1>2. /\ lane[l] \in LaneStates /\ B(l) \in BuildStates /\ BuildOK(B(l)) /\ LaneOK(lane[l], B(l))
      /\ Grows(B(l), B(l)) /\ Export(l, B(l)) /\ lane[l].of \in Builds
      /\ ~IsPR /\ Alone(lane[l].of) => Agrees(lane[l], B(l))
  BY <1>1, LaneHas
<1>3. LaneBecomes(l, new) BY <1>1, <1>2 DEF Goto, LaneBecomes
<1>4. /\ new \in LaneStates /\ new.of = lane[l].of /\ new.at = "rollback" /\ new.repo = lane[l].repo
      /\ new.commit = lane[l].commit
  BY <1>2 DEF LaneStates, LanePlaces, InRelease
<1> HIDE DEF new
<1>5. LaneOK(new, B(l)) BY <1>1, <1>2, <1>4 DEF LaneOK, InRelease
<1>6. ~IsPR /\ Alone(lane[l].of) => Agrees(new, B(l)) BY <1>1, <1>2, <1>4 DEF Agrees, Settled
<1>7. steps' \in 0..MaxSteps[job] /\ phase[l] # "asked" BY <1>1, Counted, NotAsked
<1>8. UNCHANGED <<job, head, stages>> BY <1>1 DEF github
<1>9. /\ GitTypeOK' <=> tags' \subseteq [build : Builds, repo : Repos, commit : Shas]
      /\ BuildsOK' /\ LanesOK' /\ AgreesOK' /\ AskedOK' /\ MemoOK'
  BY <1>2, <1>3, <1>4, <1>5, <1>6, <1>7, <1>8, LaneMoves
<1>10. lane[l].tag \in B(l).seen /\ B(l).url # "none" BY <1>1, <1>2 DEF LaneOK
<1>11. Pushed(l) \in [build : Builds, repo : Repos, commit : Shas]
  BY <1>2, <1>10 DEF Pushed, BuildStates, LaneStates
<1>12. Pushed(l).commit \in build[Pushed(l).build].seen BY <1>10 DEF Pushed, B
<1>13. tags' \subseteq [build : Builds, repo : Repos, commit : Shas]
  BY <1>1, <1>11 DEF GitInv, GitTypeOK
<1>14. TagsOK' BY <1>1, <1>12 DEF GitInv, TagsOK
<1> QED BY <1>9, <1>13, <1>14 DEF GitInv

(* A build that starts is for the latest commit, and its lanes have it in their    *)
(* work trees: nothing was checked out or asked for before.                        *)
LEMMA ToStart ==
  ASSUME GitInv, NEW s \in Builds, NEW cause \in Causes, Start(s, cause) PROVE GitInv'
<1> DEFINE rev == <<"own", head>>
           env == [build[s] EXCEPT !.rev = rev, !.cause = cause]
<1>1. /\ build[s].rev = Unset /\ build' = [build EXCEPT ![s].rev = rev, ![s].cause = cause]
      /\ lane' = [l \in Lanes |-> IF lane[l].of = s THEN [lane[l] EXCEPT !.commit = rev] ELSE lane[l]]
      /\ UNCHANGED <<github, steps, tags, stages>>
  BY DEF Start
<1>2. UNCHANGED <<job, head, steps, tags, request, phase, memo, ran>> BY <1>1 DEF github, stages
<1>3. build \in [Builds -> BuildStates] /\ lane \in [Lanes -> LaneStates] /\ head \in 1..MaxCommits
  BY DEF GitInv, GitTypeOK
<1>4. rev \in Own /\ rev \in Shas /\ rev # Unset BY <1>3, Commits
<1>5. build[s] \in BuildStates BY <1>3
<1> HIDE DEF rev
<1>6. /\ env \in BuildStates /\ env.rev = rev /\ env.seen = build[s].seen
      /\ env.url = build[s].url /\ env.base = build[s].base
  BY <1>4, <1>5 DEF BuildStates
<1>7. build' = [build EXCEPT ![s] = env] BY <1>1, <1>3
<1> HIDE DEF env
<1>8. /\ build' \in [Builds -> BuildStates] /\ build'[s] = env
      /\ \A b \in Builds \ {s} : build'[b] = build[b]
  BY <1>3, <1>6, <1>7
<1>9. build[s].seen = {} /\ build[s].base = Unset
  <2>1. BuildOK(build[s]) BY DEF GitInv, BuildsOK
  <2> QED BY <1>1, <2>1 DEF BuildOK
<1>10. BuildOK(env) BY <1>4, <1>6, <1>9 DEF BuildOK
<1>11. BuildsOK'
  <2>1. \A b \in Builds : BuildOK(build'[b]) BY <1>8, <1>10 DEF GitInv, BuildsOK
  <2> QED BY <2>1 DEF BuildsOK, BuildOK
<1>12. ASSUME NEW l \in Lanes
       PROVE  /\ lane'[l] \in LaneStates /\ lane'[l].of = lane[l].of /\ lane[l].of \in Builds
              /\ LaneOK(lane'[l], build'[lane[l].of])
              /\ lane'[l].at = lane[l].at
              /\ lane[l].of # s => lane'[l] = lane[l] /\ build'[lane[l].of] = B(l)
  <2>1. lane[l] \in LaneStates /\ lane[l].of \in Builds /\ LaneOK(lane[l], B(l)) BY LaneHas
  <2>2. CASE lane[l].of # s BY <1>1, <1>8, <2>1, <2>2 DEF B
  <2>3. CASE lane[l].of = s
    <3> DEFINE new == [lane[l] EXCEPT !.commit = rev]
    <3>1. lane'[l] = new BY <1>1, <2>3
    <3>2. /\ new \in LaneStates /\ new.of = lane[l].of /\ new.repo = lane[l].repo /\ new.at = lane[l].at
          /\ new.commit = rev /\ new.ref = lane[l].ref /\ new.tag = lane[l].tag
      BY <1>4, <2>1 DEF LaneStates
    <3> HIDE DEF new
    <3>3. lane[l].repo = "none" BY <1>9, <2>1, <2>3 DEF LaneOK, B
    <3>4. lane[l].at # "push" /\ lane[l].at # "env" /\ lane[l].at # "refs" /\ lane[l].at # "tag"
      BY <2>1, <3>3 DEF LaneOK
    <3>5. LaneOK(new, env) BY <1>6, <3>2, <3>3, <3>4 DEF LaneOK
    <3> QED BY <1>8, <2>1, <2>3, <3>1, <3>2, <3>5
  <2> QED BY <2>2, <2>3
<1>13. LanesOK' BY <1>12 DEF LanesOK, LaneOK, B
<1>14. lane' \in [Lanes -> LaneStates] BY <1>1, <1>12
<1>15. GitTypeOK' BY <1>2, <1>8, <1>14 DEF GitInv, GitTypeOK
<1>16. \A b \in Builds : Alone(b)' <=> Alone(b) BY <1>12 DEF Alone
<1>17. AgreesOK'
  <2> SUFFICES ASSUME ~IsPR, NEW l \in Lanes, Alone(lane[l].of)
               PROVE  Agrees(lane'[l], build'[lane[l].of])
    BY <1>2, <1>12, <1>16 DEF AgreesOK, IsPR, B, Agrees
  <2>1. CASE lane[l].of = s BY <1>6, <1>8, <1>9, <2>1 DEF Agrees
  <2>2. CASE lane[l].of # s BY <1>12, <2>2 DEF GitInv, AgreesOK
  <2> QED BY <2>1, <2>2
<1>18. AskedOK'
  <2> SUFFICES ASSUME NEW l \in Lanes, phase[l] = "asked" PROVE Asks(l)'
    BY <1>2 DEF AskedOK
  <2>1. Asks(l) BY DEF GitInv, AskedOK
  <2>2. CASE lane[l].of = s
    <3>1. request[l].stage = Unset BY <1>9, <2>1, <2>2 DEF Asks, B
    <3> QED BY <1>2, <1>12, <2>1, <3>1 DEF Asks
  <2>3. CASE lane[l].of # s
    BY <1>2, <1>12, <1>16, <2>1, <2>3 DEF Asks, B, IsPR
  <2> QED BY <2>2, <2>3
<1>19. TagsOK'
  <2> SUFFICES ASSUME NEW t \in tags PROVE t.commit \in build'[t.build].seen
    BY <1>2 DEF TagsOK
  <2>1. t.commit \in build[t.build].seen /\ t.build \in Builds BY DEF GitInv, TagsOK, GitTypeOK
  <2>2. t.build # s BY <1>9, <2>1
  <2> QED BY <1>8, <2>1, <2>2
<1>20. MemoOK'
  <2> SUFFICES ASSUME NEW c \in memo, Misled(c) PROVE Misled(c)'
    BY <1>2 DEF GitInv, MemoOK
  <2>1. \A b \in Builds : build[b].seen \subseteq build'[b].seen
                          /\ (build[b].seen = {} \/ build'[b].rev = build[b].rev)
    BY <1>6, <1>8, <1>9
  <2> QED BY <1>2, <1>12, <2>1, MisledStays
<1> QED BY <1>11, <1>13, <1>15, <1>17, <1>18, <1>19, <1>20 DEF GitInv

(* A step of the stage leaves checkouts and releases alone.                        *)
LEMMA StageMoves ==
  ASSUME GitInv, UNCHANGED <<github, build, lane, tags>>, steps' \in 0..MaxSteps[job],
         ran' \subseteq Shas, memo' \subseteq Shas, request' \in [Lanes -> Memo!Requests],
         phase' \in [Lanes -> Memo!Idle \cup {"asked", "ran"}]
  PROVE  /\ GitTypeOK' /\ BuildsOK' /\ LanesOK' /\ AgreesOK' /\ TagsOK'
         /\ \A c : Misled(c)' <=> Misled(c)
<1>1. UNCHANGED <<job, head, build, lane, tags>> BY DEF github
<1>2. GitTypeOK' BY <1>1 DEF GitInv, GitTypeOK
<1>3. BuildsOK' BY <1>1 DEF GitInv, BuildsOK, BuildOK
<1>4. LanesOK' BY <1>1 DEF GitInv, LanesOK, LaneOK, B
<1>5. AgreesOK' BY <1>1 DEF GitInv, AgreesOK, Agrees, Alone, B, IsPR
<1>6. TagsOK' BY <1>1 DEF GitInv, TagsOK
<1>7. \A c : Misled(c)' <=> Misled(c) BY <1>1 DEF Misled, Misleads, Alone, IsPR
<1> QED BY <1>2, <1>3, <1>4, <1>5, <1>6, <1>7

(* Unless somebody was misled about it, the commit that a lane asked for is the    *)
(* one in its work tree: of the revision of its build, or of its own checkout.     *)
LEMMA AskedIsThere ==
  ASSUME GitInv, NEW l \in Lanes, phase[l] = "asked", request[l].stage # Unset,
         ~Misled(request[l].stage)
  PROVE  request[l].stage = lane[l].commit
<1>1. Asks(l) BY DEF GitInv, AskedOK
<1>2. LaneOK(lane[l], B(l)) /\ lane[l].of \in Builds BY LaneHas
<1>3. request[l].stage \in B(l).seen BY <1>1 DEF Asks
<1>4. CASE ~IsPR /\ Alone(lane[l].of) BY <1>1, <1>4 DEF Asks
<1>5. CASE IsPR \/ ~Alone(lane[l].of)
  <2>1. ~Misleads(lane[l].of) BY <1>2, <1>3 DEF Misled, B
  <2>2. B(l).seen \subseteq {B(l).rev} BY <1>5, <2>1 DEF Misleads, B
  <2>3. lane[l].commit = B(l).rev BY <1>2, <2>2 DEF LaneOK
  <2> QED BY <1>3, <2>2, <2>3
<1> QED BY <1>4, <1>5

(* A lane asks for what GIT_BASE_COMMIT names: its build has seen that, and its    *)
(* own work tree has it when it is the only lane of a build for a branch.          *)
LEMMA ToAskStage == ASSUME GitInv, NEW l \in Lanes, AskStage(l) PROVE GitInv'
<1>1. /\ Begins(l, {"out"}) /\ lane[l].at = "out" /\ Memo!Ask(l) /\ request'[l].stage = B(l).base
      /\ UNCHANGED <<github, build, lane, tags, ran>>
  BY DEF AskStage, Begins
<1>2. PICK r \in Memo!Requests : request' = [request EXCEPT ![l] = r] BY <1>1 DEF Memo!Ask
<1>3. phase' = [phase EXCEPT ![l] = "asked"] /\ UNCHANGED memo BY <1>1 DEF Memo!Ask
<1>4. /\ request \in [Lanes -> Memo!Requests] /\ phase \in [Lanes -> Memo!Idle \cup {"asked", "ran"}]
      /\ memo \subseteq Shas /\ ran \subseteq Shas
  BY DEF GitInv, GitTypeOK
<1>5. /\ request' \in [Lanes -> Memo!Requests] /\ phase' \in [Lanes -> Memo!Idle \cup {"asked", "ran"}]
      /\ phase'[l] = "asked" /\ \A o \in Lanes \ {l} : request'[o] = request[o] /\ phase'[o] = phase[o]
  BY <1>2, <1>3, <1>4
<1>6. steps' \in 0..MaxSteps[job] BY <1>1, Counted
<1>7. /\ GitTypeOK' /\ BuildsOK' /\ LanesOK' /\ AgreesOK' /\ TagsOK'
      /\ \A c : Misled(c)' <=> Misled(c)
  BY <1>1, <1>3, <1>4, <1>5, <1>6, StageMoves
<1>8. MemoOK' BY <1>1, <1>3, <1>7 DEF GitInv, MemoOK
<1>9. UNCHANGED <<job, build, lane>> BY <1>1 DEF github
<1>10. AskedOK'
  <2> SUFFICES ASSUME NEW o \in Lanes, phase'[o] = "asked" PROVE Asks(o)' BY DEF AskedOK
  <2>1. CASE o = l
    <3>1. BuildOK(B(l)) /\ (~IsPR /\ Alone(lane[l].of) => Agrees(lane[l], B(l))) BY LaneHas
    <3>2. B(l).base \in B(l).seen \cup {Unset} BY <3>1 DEF BuildOK
    <3>3. ~IsPR /\ Alone(lane[l].of) => B(l).base \in {lane[l].commit, Unset}
      BY <1>1, <3>1 DEF Agrees, Settled
    <3> QED BY <1>1, <1>9, <2>1, <3>2, <3>3 DEF Asks, B, IsPR, Alone
  <2>2. CASE o # l
    <3>1. Asks(o) /\ request'[o] = request[o] BY <1>5, <2>2 DEF GitInv, AskedOK
    <3> QED BY <1>9, <3>1 DEF Asks, B, IsPR, Alone
  <2> QED BY <2>1, <2>2
<1> QED BY <1>7, <1>8, <1>10 DEF GitInv

(* And what it runs, it runs on that commit.                                       *)
LEMMA ToRunStage == ASSUME GitInv, NEW l \in Lanes, RunStage(l) PROVE GitInv'
<1>1. /\ LaneAt(l, "out") /\ Memo!Run(l) /\ ran' = ran \cup {lane[l].commit}
      /\ UNCHANGED <<github, build, lane, tags>>
  BY DEF RunStage
<1>2. /\ phase[l] = "asked" /\ phase' = [phase EXCEPT ![l] = "ran"]
      /\ memo' = memo \cup {request[l].stage} /\ UNCHANGED request
  BY <1>1 DEF Memo!Run
<1>3. /\ request \in [Lanes -> Memo!Requests] /\ phase \in [Lanes -> Memo!Idle \cup {"asked", "ran"}]
      /\ memo \subseteq Shas /\ ran \subseteq Shas
  BY DEF GitInv, GitTypeOK
<1>4. lane[l] \in LaneStates BY LaneHas
<1>5. request[l].stage \in Shas /\ lane[l].commit \in Shas
  BY <1>3, <1>4 DEF Memo!Requests, LaneStates
<1>6. /\ phase' \in [Lanes -> Memo!Idle \cup {"asked", "ran"}] /\ phase'[l] = "ran"
      /\ \A o \in Lanes \ {l} : phase'[o] = phase[o]
  BY <1>2, <1>3
<1>7. steps' \in 0..MaxSteps[job] BY <1>1, Counted
<1>8. /\ GitTypeOK' /\ BuildsOK' /\ LanesOK' /\ AgreesOK' /\ TagsOK'
      /\ \A c : Misled(c)' <=> Misled(c)
  BY <1>1, <1>2, <1>3, <1>5, <1>6, <1>7, StageMoves
<1>9. AskedOK' BY <1>1, <1>2, <1>6 DEF GitInv, AskedOK, Asks, B, IsPR, Alone, github
<1>10. MemoOK'
  <2>1. request[l].stage = Unset \/ request[l].stage \in ran' \/ Misled(request[l].stage)
    BY <1>1, <1>2, AskedIsThere
  <2>2. \A c \in memo : c = Unset \/ c \in ran' \/ Misled(c) BY <1>1 DEF GitInv, MemoOK
  <2> QED BY <1>2, <1>8, <2>1, <2>2 DEF MemoOK
<1> QED BY <1>8, <1>9, <1>10 DEF GitInv

(* A stage that is skipped, or ends, is no longer asked for.                       *)
LEMMA ToGoOnStage == ASSUME GitInv, NEW l \in Lanes, GoOnStage(l) PROVE GitInv'
<1>1. /\ LaneAt(l, "out") /\ (Memo!Skip(l) \/ Memo!Finish(l) \/ Memo!Fail(l))
      /\ UNCHANGED <<github, build, lane, tags, ran>>
  BY DEF GoOnStage
<1>2. PICK p \in Memo!Idle : phase' = [phase EXCEPT ![l] = p] /\ UNCHANGED <<request, memo>>
  BY <1>1 DEF Memo!Skip, Memo!Finish, Memo!Fail, Memo!Idle
<1>3. /\ request \in [Lanes -> Memo!Requests] /\ phase \in [Lanes -> Memo!Idle \cup {"asked", "ran"}]
      /\ memo \subseteq Shas /\ ran \subseteq Shas
  BY DEF GitInv, GitTypeOK
<1>4. /\ phase' \in [Lanes -> Memo!Idle \cup {"asked", "ran"}] /\ phase'[l] # "asked"
      /\ \A o \in Lanes \ {l} : phase'[o] = phase[o]
  BY <1>2, <1>3 DEF Memo!Idle
<1>5. steps' \in 0..MaxSteps[job] BY <1>1, Counted
<1>6. /\ GitTypeOK' /\ BuildsOK' /\ LanesOK' /\ AgreesOK' /\ TagsOK'
      /\ \A c : Misled(c)' <=> Misled(c)
  BY <1>1, <1>2, <1>3, <1>4, <1>5, StageMoves
<1>7. AskedOK' BY <1>1, <1>2, <1>4 DEF GitInv, AskedOK, Asks, B, IsPR, Alone, github
<1>8. MemoOK' BY <1>1, <1>2, <1>6 DEF GitInv, MemoOK
<1> QED BY <1>6, <1>7, <1>8 DEF GitInv

(* A push changes nothing that a build knows.                                      *)
LEMMA ToPush == ASSUME GitInv, Push PROVE GitInv'
<1>1. head' = head + 1 /\ head < MaxCommits /\ UNCHANGED <<job, build, lane, steps, tags, stages>>
  BY DEF Push
<1>2. UNCHANGED <<request, phase, memo, ran>> BY <1>1 DEF stages
<1>3. GitTypeOK' BY <1>1, <1>2, CheckoutAssumption DEF GitInv, GitTypeOK
<1>4. BuildsOK' BY <1>1 DEF GitInv, BuildsOK, BuildOK
<1>5. LanesOK' BY <1>1 DEF GitInv, LanesOK, LaneOK, B
<1>6. AgreesOK' BY <1>1 DEF GitInv, AgreesOK, Agrees, Alone, B, IsPR
<1>7. AskedOK' BY <1>1, <1>2 DEF GitInv, AskedOK, Asks, Alone, B, IsPR
<1>8. TagsOK' BY <1>1 DEF GitInv, TagsOK
<1>9. MemoOK' BY <1>1, <1>2 DEF GitInv, MemoOK, Misled, Misleads, Alone, IsPR
<1> QED BY <1>3, <1>4, <1>5, <1>6, <1>7, <1>8, <1>9 DEF GitInv

(* A step of somebody else.                                                        *)
LEMMA GitStutters == ASSUME GitInv, UNCHANGED gitVars PROVE GitInv'
<1>1. UNCHANGED <<job, head, build, lane, steps, tags, ran, request, phase, memo>> BY DEF gitVars
<1>2. GitTypeOK' BY <1>1 DEF GitInv, GitTypeOK
<1>3. BuildsOK' BY <1>1 DEF GitInv, BuildsOK, BuildOK
<1>4. LanesOK' BY <1>1 DEF GitInv, LanesOK, LaneOK, B
<1>5. AgreesOK' BY <1>1 DEF GitInv, AgreesOK, Agrees, Alone, B, IsPR
<1>6. AskedOK' BY <1>1 DEF GitInv, AskedOK, Asks, Alone, B, IsPR
<1>7. TagsOK' BY <1>1 DEF GitInv, TagsOK
<1>8. MemoOK' BY <1>1 DEF GitInv, MemoOK, Misled, Misleads, Alone, IsPR
<1> QED BY <1>2, <1>3, <1>4, <1>5, <1>6, <1>7, <1>8 DEF GitInv

(* At first there is nothing.                                                      *)
LEMMA GitInitially == ASSUME GitInit PROVE GitInv
<1> DEFINE new == [rev |-> Unset, cause |-> "checked", url |-> "none", base |-> Unset,
                   reviews |-> "unread", aborts |-> 0, seen |-> {}]
<1>1. build = [b \in Builds |-> new] /\ new \in BuildStates
  BY Commits DEF GitInit, BuildStates, Causes
<1>2. build \in [Builds -> BuildStates] /\ \A b \in Builds : build[b] = new BY <1>1
<1>3. BuildOK(new) BY DEF BuildOK
<1>4. ASSUME NEW l \in Lanes
      PROVE  /\ lane[l] \in LaneStates /\ lane[l].of \in Builds /\ lane[l].repo = "none"
             /\ lane[l].commit = Unset /\ lane[l].at = "out"
  <2>1. PICK b \in Builds : lane[l] = [at |-> "out", of |-> b, repo |-> "none", commit |-> Unset,
                                      ref |-> Unset, upstream |-> FALSE, tag |-> Unset]
    BY DEF GitInit
  <2> QED BY <2>1, Commits DEF LaneStates, LanePlaces
<1>5. lane \in [Lanes -> LaneStates] BY <1>4 DEF GitInit
<1>6. LanesOK /\ AgreesOK BY <1>2, <1>4 DEF LanesOK, LaneOK, AgreesOK, Agrees, B
<1>7. BuildsOK BY <1>2, <1>3 DEF BuildsOK
<1>8. request \in [Lanes -> Memo!Requests] BY Commits DEF GitInit, Memo!Requests
<1>9. memo = {} /\ phase = [l \in Lanes |-> "idle"] BY DEF GitInit, Memo!Init
<1>10. phase \in [Lanes -> Memo!Idle \cup {"asked", "ran"}] /\ \A l \in Lanes : phase[l] # "asked"
  BY <1>9 DEF Memo!Idle
<1>11. head \in 1..MaxCommits /\ job \in Jobs /\ steps \in 0..MaxSteps[job]
  <2>1. job \in Jobs /\ steps = 0 /\ head = 1 BY DEF GitInit
  <2> QED BY <2>1, CheckoutAssumption
<1>12. GitTypeOK BY <1>2, <1>5, <1>8, <1>9, <1>10, <1>11 DEF GitTypeOK, GitInit
<1>13. TagsOK /\ AskedOK /\ MemoOK BY <1>9, <1>10 DEF TagsOK, AskedOK, MemoOK, GitInit
<1> QED BY <1>6, <1>7, <1>12, <1>13 DEF GitInv

(* The invariant of GitCheckout, one case for each action.                         *)
LEMMA GitSteps == ASSUME GitInv, [GitNext]_gitVars PROVE GitInv'
<1>1. ASSUME NEW b \in Builds, NEW cause \in Causes, Start(b, cause) PROVE GitInv'
  BY <1>1, ToStart
<1>2. ASSUME NEW l \in Lanes, LaneStep(l) PROVE GitInv'
  <2>1. CheckoutScm(l) \/ CheckoutCustomised(l) \/ CheckoutBranch(l) \/ CheckoutRefused(l) => GitInv'
    BY ToCheckout
  <2>2. Refs(l) => GitInv' BY ToRefs
  <2>3. Env(l) => GitInv' BY ToEnv
  <2>4. Approves(l) \/ Aborts(l) \/ AbortAgain(l) => GitInv' BY ToAnswer
  <2>5. CheckoutFails(l) \/ SetupFails(l) \/ ReleaseFails(l) \/ Interrupt(l) => GitInv'
    BY ToElsewhere
  <2>6. AskStage(l) \/ RunStage(l) \/ GoOnStage(l) => GitInv'
    BY ToAskStage, ToRunStage, ToGoOnStage
  <2>7. Setup(l) \/ Tag(l) \/ PushTag(l) \/ Rollback(l) => GitInv'
    BY ToSetup, ToTag, ToPushTag, ToRollback
  <2> QED BY <1>2, <2>1, <2>2, <2>3, <2>4, <2>5, <2>6, <2>7 DEF LaneStep
<1>3. Push => GitInv' BY ToPush
<1>4. GitTerminated => GitInv' BY GitStutters DEF GitTerminated
<1>5. UNCHANGED gitVars => GitInv' BY GitStutters
<1> QED BY <1>1, <1>2, <1>3, <1>4, <1>5 DEF GitNext

LEMMA GitInvariant == GitSpec => []GitInv
BY GitInitially, GitSteps, PTL DEF GitSpec

(* The variables keep their types: the environment names commits and repositories  *)
(* of the job, and the lanes take no more steps than they may.                     *)
THEOREM CheckoutTypeCorrect == GitSpec => []GitTypeOK
<1>1. GitInv => GitTypeOK BY DEF GitInv
<1> QED BY <1>1, GitInvariant, PTL

(* A tag is at a commit that the build which pushed it had checked out             *)
(* (setup-git-release.sh:70).                                                      *)
THEOREM TagsAreBuilt == GitSpec => []TagIsBuilt
<1>1. GitInv => TagIsBuilt BY DEF GitInv, TagsOK, TagIsBuilt
<1> QED BY <1>1, GitInvariant, PTL

(* A lane skips its stage only if the stage succeeded on the commit in its work    *)
(* tree, in whichever build and lane, unless somebody was misled about the commit  *)
(* that it asked for (stageStatusCache.groovy:31).                                 *)
THEOREM SkipsWhatRan == GitSpec => SkippedWasRun
<1> DEFINE Shown ==
      \A l \in Lanes :
          phase'[l] = "skipped" /\ phase[l] # "skipped"
          /\ request[l].stage # Unset /\ ~Misled(request[l].stage)
          => lane[l].commit \in ran
<1>1. ASSUME GitInv, [GitNext]_gitVars PROVE Shown
  <2> SUFFICES ASSUME NEW l \in Lanes, phase'[l] = "skipped", phase[l] # "skipped",
                      request[l].stage # Unset, ~Misled(request[l].stage)
               PROVE  lane[l].commit \in ran
    OBVIOUS
  <2>1. phase \in [Lanes -> Memo!Idle \cup {"asked", "ran"}] BY <1>1 DEF GitInv, GitTypeOK
  <2>2. ~UNCHANGED stages BY DEF stages
  <2>3. PICK o \in Lanes : Memo!Ask(o) \/ Memo!Run(o) \/ GoOnStage(o)
    <3>1. ASSUME NEW b \in Builds, NEW cause \in Causes, Start(b, cause) PROVE UNCHANGED stages
      BY <3>1, Zenon DEF Start
    <3>2. Push \/ GitTerminated \/ UNCHANGED gitVars => UNCHANGED stages
      BY DEF Push, GitTerminated, gitVars, stages
    <3>3. PICK o \in Lanes : LaneStep(o) BY <1>1, <2>2, <3>1, <3>2 DEF GitNext
    <3>4. CheckoutScm(o) \/ CheckoutCustomised(o) \/ CheckoutBranch(o) \/ CheckoutRefused(o)
             => UNCHANGED stages
      BY Zenon DEF CheckoutScm, CheckoutCustomised, CheckoutBranch, CheckoutRefused, CheckedOut
    <3>5. Refs(o) \/ Env(o) \/ CheckoutFails(o) \/ Interrupt(o) => UNCHANGED stages
      BY Zenon DEF Refs, Env, CheckoutFails, Interrupt
    <3>6. Approves(o) \/ Aborts(o) \/ AbortAgain(o) => UNCHANGED stages
      BY Zenon DEF Approves, Aborts, AbortAgain
    <3>7. Setup(o) \/ SetupFails(o) \/ Tag(o) \/ PushTag(o) \/ ReleaseFails(o) \/ Rollback(o)
             => UNCHANGED stages
      BY Zenon DEF Setup, SetupFails, Tag, PushTag, ReleaseFails, Rollback
    <3>8. AskStage(o) \/ RunStage(o) => Memo!Ask(o) \/ Memo!Run(o) BY Zenon DEF AskStage, RunStage
    <3> QED BY <2>2, <3>3, <3>4, <3>5, <3>6, <3>7, <3>8 DEF LaneStep
  <2>4. Memo!Skip(l) BY <2>1, <2>3 DEF GoOnStage, Memo!Ask, Memo!Run, Memo!Skip, Memo!Finish, Memo!Fail
  <2>5. phase[l] = "asked" /\ request[l].stage \in memo BY <2>4 DEF Memo!Skip
  <2>6. request[l].stage = lane[l].commit BY <1>1, <2>5, AskedIsThere
  <2> QED BY <1>1, <2>5, <2>6 DEF GitInv, MemoOK
<1>2. GitInv /\ [GitNext]_gitVars => [Shown]_gitVars BY <1>1
<1> QED BY <1>2, GitInvariant, PTL DEF GitSpec, SkippedWasRun

(* Past its checkout a lane of an unapproved pull request has nothing left but to  *)
(* be stopped (githubPrCheckApproved.groovy:67).                                   *)
THEOREM UnapprovedAreStopped == GitSpec => []UnapprovedStops
<1>1. GitInv => UnapprovedStops
  BY DEF GitInv, LanesOK, LaneOK, UnapprovedStops, Unchecked
<1> QED BY <1>1, GitInvariant, PTL
==================================================================================
