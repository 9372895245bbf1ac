---------------------------- MODULE BuildStatusProofs ----------------------------
(* Theorems about BuildStatus, for any number of jobs, snapshots, attempts and      *)
(* troubles, and any setups: what is told is earned, combined, and never silent.    *)
EXTENDS BuildStatus, TLAPS

SameRun == run' \in RunStates /\ run'.attempt = run.attempt /\ run'.setup = run.setup

(* What holds of job j while its record is b.                                       *)
PlaceOK(j, b) ==
    /\ j = Status => b.at \in {"queued", "check", "prepare", "slack", "done"}
    /\ j \in Jobs => b.at # "check"
    /\ b.at # "done" => b.status # "skipped"
RanOK(b) == b.attempt <= run.attempt /\ (b.at # "done" => b.attempt = run.attempt)
EarnedOK(j, b) ==
    j \in Jobs =>
        /\ b.at = "report" => b.status # "success"
        /\ b.at \in {"prepare", "slack"} /\ b.status = "success" => Uploaded(j, run.attempt)
PayloadOK(j, b) ==
    b.at = "slack" =>
        /\ b.payload # NoPayload
        /\ b.payload.attempt = run.attempt
        /\ j \in Jobs /\ b.payload.status = "success" => Uploaded(j, run.attempt)
        /\ j = Status => b.payload.status = b.verdict
AllOver(a) == \A k \in Jobs : results[a][k] # "none"
Green(a) == \A k \in Jobs : results[a][k] = "success"
VerdictOK(j, b) ==
    j = Status =>
        /\ b.at \in {"check", "prepare", "slack"} => AllOver(run.attempt)
        /\ b.at \in {"prepare", "slack"} =>
              b.verdict \in {"success", "failure"} /\ (b.verdict = "success" <=> Green(run.attempt))
OptionsOK(b) == b.options \in {NoOptions, Args(run.setup.env)}

JobOK(j, b) ==
    PlaceOK(j, b) /\ RanOK(b) /\ EarnedOK(j, b) /\ PayloadOK(j, b) /\ VerdictOK(j, b) /\ OptionsOK(b)

JobsOK == \A j \in AllJobs : JobOK(j, job[j])

(* A job has a result in this attempt when, and only when, it is over.              *)
ResultsKept == \A j \in AllJobs : results[run.attempt][j] = "none" <=> job[j].at # "done"

(* A success of an attempt is that of an upload in it or before it.                 *)
ResultsEarned ==
    \A a \in 1..run.attempt, j \in Jobs :
        results[a][j] = "success" => \E b \in 1..a : Uploaded(j, b)

(* What was told of an attempt stays true of it: its results do not change any more. *)
MessageOK(m) ==
    /\ m.payload.attempt <= run.attempt
    /\ m.job \in Jobs /\ m.payload.status = "success" => Uploaded(m.job, m.payload.attempt)
    /\ m.job = Status =>
          AllOver(m.payload.attempt) /\ (m.payload.status = "success" <=> Green(m.payload.attempt))
SlackOK == \A m \in slack : MessageOK(m)

IInv == TypeOK /\ JobsOK /\ ResultsKept /\ ResultsEarned /\ SlackOK /\ NoSilentGreen

USE DEF AllJobs, Attempts

LEMMA Initially == Init => IInv
<1> SUFFICES ASSUME Init PROVE IInv OBVIOUS
<1>a. 1 \in Attempts /\ 0 \in 0..MaxTroubles BY StatusAssumption
<1>b. run \in RunStates /\ run.attempt = 1 BY <1>a DEF Init, RunStates
<1>1. /\ run \in RunStates /\ run.attempt = 1 /\ 1 \in Attempts
      /\ job = [j \in AllJobs |-> Queued(1)] /\ bucket = {} /\ slack = {}
      /\ results = [a \in Attempts |-> [j \in AllJobs |-> "none"]]
  BY <1>a, <1>b DEF Init
<1>2. Queued(1) \in JobStates
  BY <1>1 DEF Queued, JobStates, Places, Statuses, OptionLists, Payloads
<1>3. TypeOK
  BY <1>1, <1>2 DEF TypeOK, Results
<1>4. \A j \in AllJobs : /\ job[j].at = "queued" /\ job[j].attempt = 1 /\ job[j].options = NoOptions
                              /\ job[j].status = "success"
  BY <1>1 DEF Queued
<1>5. JobsOK
  BY <1>1, <1>4 DEF JobsOK, JobOK, PlaceOK, RanOK, EarnedOK, PayloadOK, VerdictOK, OptionsOK
<1>6. \A a \in Attempts, j \in AllJobs : results[a][j] = "none"
  BY <1>1
<1>7. ResultsKept BY <1>1, <1>4, <1>6 DEF ResultsKept
<1>8. ResultsEarned BY <1>1, <1>6 DEF ResultsEarned
<1>9. SlackOK /\ NoSilentGreen
  BY <1>1, <1>6 DEF SlackOK, NoSilentGreen
<1> QED BY <1>3, <1>5, <1>7, <1>8, <1>9 DEF IInv

(* A step of job j that does not end it, and puts nothing outside of it.            *)
LEMMA Moves ==
  ASSUME IInv, SameRun, NEW j \in AllJobs, job[j].at # "done",
         NEW new \in JobStates, job' = [job EXCEPT ![j] = new],
         new.at # "done", new.attempt = job[j].attempt, JobOK(j, new),
         UNCHANGED <<results, slack, bucket>>
  PROVE  IInv'
<1> USE DEF IInv
<1>1. job \in [AllJobs -> JobStates] BY DEF TypeOK
<1>2. job'[j] = new /\ \A k \in AllJobs \ {j} : job'[k] = job[k] BY <1>1
<1>3. TypeOK' BY <1>1 DEF TypeOK, SameRun
<1>4. JobsOK'
  <2> SUFFICES ASSUME NEW k \in AllJobs PROVE JobOK(k, job[k])' BY DEF JobsOK
  <2> USE DEF JobOK, PlaceOK, RanOK, EarnedOK, PayloadOK, VerdictOK, OptionsOK, Uploaded, AllOver, Green
  <2>1. CASE k = j BY <2>1, <1>2 DEF SameRun
  <2>2. CASE k # j BY <2>2, <1>2 DEF SameRun, JobsOK
  <2> QED BY <2>1, <2>2
<1>5. ResultsKept' BY <1>2 DEF ResultsKept, SameRun
<1>6. ResultsEarned' BY DEF ResultsEarned, SameRun, Uploaded
<1>7. SlackOK' BY DEF SlackOK, MessageOK, SameRun, Uploaded, AllOver, Green
<1>8. NoSilentGreen' BY <1>2 DEF NoSilentGreen, SameRun
<1> QED BY <1>3, <1>4, <1>5, <1>6, <1>7, <1>8

(* A step that ends job j, with or without its message: a success has told so.      *)
LEMMA EndsWell ==
  ASSUME IInv, SameRun, NEW j \in AllJobs, job[j].at # "done",
         NEW result \in Results \ {"none"}, NEW lost \in BOOLEAN, Ends(j, result, lost),
         slack' = slack \/ (job[j].at = "slack" /\ slack' = slack \cup {Message(j)}),
         result = "success" =>
            /\ job[j].at \in {"prepare", "slack"} /\ job[j].status = "success"
            /\ run.setup.channel => job[j].at = "slack" /\ Message(j) \in slack',
         UNCHANGED bucket
  PROVE  IInv'
<1> USE DEF IInv
<1> DEFINE a == run.attempt
<1> DEFINE over == Over(result, lost)
<1>1. /\ job \in [AllJobs -> JobStates] /\ results \in [Attempts -> [AllJobs -> Results]]
      /\ a \in Attempts /\ run.setup \in Setups
  BY DEF TypeOK, RunStates
<1>2. over \in JobStates
  BY <1>1 DEF Over, Queued, JobStates, Places, Statuses, Results, OptionLists, Payloads
<1>3. /\ over.at = "done" /\ over.attempt = a /\ over.options = NoOptions
  BY DEF Over, Queued
<1> HIDE DEF over
<1>4. /\ job'[j] = over /\ job' \in [AllJobs -> JobStates]
      /\ \A k \in AllJobs \ {j} : job'[k] = job[k]
  BY <1>1, <1>2 DEF Ends, over
<1>5. /\ results' \in [Attempts -> [AllJobs -> Results]]
      /\ results'[a][j] = result
      /\ \A k \in AllJobs \ {j} : results'[a][k] = results[a][k]
      /\ \A c \in Attempts \ {a} : results'[c] = results[c]
  BY <1>1 DEF Ends
<1>6. results[a][j] = "none" BY DEF ResultsKept
<1>7. JobOK(j, job[j]) /\ job[j] \in JobStates /\ job[j].attempt = a BY <1>1 DEF JobsOK, JobOK, RanOK
<1>8. job[j].at = "slack" =>
        /\ Message(j) \in Messages /\ Message(j).job = j /\ Message(j).payload = job[j].payload
        /\ job[j].payload.attempt = a
  <2>1. job[j].payload \in Payloads BY <1>7 DEF JobStates
  <2>2. job[j].at = "slack" => job[j].payload # NoPayload /\ job[j].payload.attempt = a
    BY <1>7 DEF JobOK, PayloadOK
  <2> QED BY <2>1, <2>2 DEF Message, Messages
<1>9. TypeOK' BY <1>4, <1>5, <1>8 DEF TypeOK, SameRun
<1>10. j = Status \/ ~AllOver(a) BY <1>6 DEF AllOver
<1>11. j = Status => \A c \in Attempts, k \in Jobs : results'[c][k] = results[c][k]
  <2>1. j = Status => \A k \in Jobs : k # j BY StatusAssumption
  <2> QED BY <2>1, <1>5
<1>12. JobsOK'
  <2> SUFFICES ASSUME NEW k \in AllJobs PROVE JobOK(k, job[k])' BY DEF JobsOK
  <2>1. CASE k = j
    BY <2>1, <1>1, <1>3, <1>4 DEF SameRun, JobOK, PlaceOK, RanOK, EarnedOK, PayloadOK, VerdictOK, OptionsOK
  <2>2. CASE k # j
    <3>1. JobOK(k, job[k]) /\ job'[k] = job[k] BY <2>2, <1>4 DEF JobsOK
    <3>2. PlaceOK(k, job[k])' /\ RanOK(job[k])' /\ EarnedOK(k, job[k])' /\ PayloadOK(k, job[k])' /\ OptionsOK(job[k])'
      BY <3>1 DEF SameRun, JobOK, PlaceOK, RanOK, EarnedOK, PayloadOK, OptionsOK, Uploaded
    <3>3. VerdictOK(k, job[k])'
      <4> SUFFICES ASSUME k = Status, job[k].at \in {"check", "prepare", "slack"} PROVE VerdictOK(k, job[k])'
        BY <3>1 DEF VerdictOK
      <4>1. AllOver(a) BY <3>1 DEF JobOK, VerdictOK
      <4> QED BY <4>1, <1>10, <2>2
    <3> QED BY <3>2, <3>3 DEF JobOK
  <2> QED BY <2>1, <2>2
<1>13. ResultsKept'
  BY <1>3, <1>4, <1>5 DEF ResultsKept, SameRun
<1>14. ResultsEarned'
  <2> SUFFICES ASSUME NEW c \in 1..a, NEW k \in Jobs, results'[c][k] = "success"
               PROVE  \E b \in 1..c : Uploaded(k, b)
    BY DEF ResultsEarned, SameRun, Uploaded
  <2>1. CASE c = a /\ k = j
    <3>1. Uploaded(j, a) BY <2>1, <1>5, <1>7 DEF JobOK, EarnedOK
    <3> QED BY <3>1, <2>1
  <2>2. CASE ~(c = a /\ k = j)
    <3>0. c \in Attempts BY <1>1, StatusAssumption
    <3>1. results[c][k] = "success" BY <2>2, <1>1, <1>5, <3>0
    <3> QED BY <3>1 DEF ResultsEarned
  <2> QED BY <2>1, <2>2
<1>15. SlackOK'
  <2> SUFFICES ASSUME NEW m \in slack' PROVE MessageOK(m)' BY DEF SlackOK
  <2>1. CASE m \in slack
    <3>a. m \in Messages BY <2>1 DEF TypeOK
    <3>b. m.payload \in Payloads \ {NoPayload} BY <3>a DEF Messages
    <3>1. MessageOK(m) /\ m.payload.attempt \in Attempts
      BY <2>1, <3>b DEF SlackOK, Payloads
    <3>2. m.job = Status => \A k \in Jobs : results'[m.payload.attempt][k] = results[m.payload.attempt][k]
      BY <3>1, <1>1, <1>5, <1>10, <1>11 DEF MessageOK, AllOver
    <3> QED BY <3>1, <3>2 DEF MessageOK, SameRun, Uploaded, AllOver, Green
  <2>2. CASE m \notin slack
    <3>1. m = Message(j) /\ job[j].at = "slack" BY <2>2
    <3>2. m.job = j /\ m.payload = job[j].payload /\ m.payload.attempt = a BY <3>1, <1>8
    <3>3. m.job \in Jobs /\ m.payload.status = "success" => Uploaded(m.job, a)
      BY <3>1, <3>2, <1>7 DEF JobOK, PayloadOK
    <3>4. m.job = Status => AllOver(a) /\ (m.payload.status = "success" <=> Green(a))
      BY <3>1, <3>2, <1>7 DEF JobOK, PayloadOK, VerdictOK
    <3>5. m.job = Status => AllOver(a)' /\ (m.payload.status = "success" <=> Green(a)')
      BY <3>2, <3>4, <1>1, <1>11 DEF AllOver, Green, SameRun
    <3> QED BY <3>2, <3>3, <3>5, <1>1 DEF MessageOK, SameRun, Uploaded, AllOver, Green
  <2> QED BY <2>1, <2>2
<1>16. NoSilentGreen'
  <2> SUFFICES ASSUME NEW k \in AllJobs, run.setup.channel, results'[a][k] = "success"
               PROVE  \E m \in slack' : m.job = k /\ m.payload.attempt = job'[k].attempt
    BY DEF NoSilentGreen, SameRun
  <2>1. CASE k = j BY <2>1, <1>3, <1>4, <1>5, <1>8
  <2>2. CASE k # j BY <2>2, <1>4, <1>5 DEF NoSilentGreen
  <2> QED BY <2>1, <2>2
<1> QED BY <1>9, <1>12, <1>13, <1>14, <1>15, <1>16


LEMMA Troubled == ASSUME TypeOK, Trouble PROVE SameRun
<1>1. run.troubles \in 0..MaxTroubles /\ run.troubles < MaxTroubles BY DEF TypeOK, RunStates, Trouble
<1>2. run.troubles + 1 \in 0..MaxTroubles BY <1>1, StatusAssumption
<1> QED BY <1>2 DEF Trouble, TypeOK, RunStates, SameRun

LEMMA Untroubled == ASSUME TypeOK, UNCHANGED run PROVE SameRun
BY DEF TypeOK, SameRun

(* The steps of a job that go on to another place: one way for all of them, which    *)
(* says what the new record keeps of the old one.                                   *)
LEMMA GoesOn ==
  ASSUME IInv, SameRun, NEW j \in AllJobs, NEW place \in Places \ {"done", "slack", "check"},
         NEW status \in Statuses,
         job' = [job EXCEPT ![j].at = place, ![j].status = status],
         UNCHANGED <<results, slack, bucket>>, job[j].at # "done",
         j \in Jobs,
         place = "report" => status # "success",
         place = "prepare" /\ status = "success" => Uploaded(j, run.attempt)
  PROVE  IInv'
<1> DEFINE new == [job[j] EXCEPT !.at = place, !.status = status]
<1>1. job \in [AllJobs -> JobStates] /\ JobOK(j, job[j]) BY DEF IInv, TypeOK, JobsOK
<1>2. new \in JobStates
  <2>1. job[j] \in JobStates /\ place \in Places /\ status \in Statuses \cup {"skipped"} BY <1>1
  <2> QED BY <2>1 DEF JobStates
<1>3. /\ new.at = place /\ new.status = status /\ new.attempt = job[j].attempt
      /\ new.options = job[j].options
  BY <1>1 DEF JobStates
<1>a. status # "skipped" BY DEF Statuses
<1>4. job' = [job EXCEPT ![j] = new] BY <1>1
<1> HIDE DEF new
<1>5. JobOK(j, new)
  BY <1>1, <1>a, <1>3, StatusAssumption DEF JobOK, PlaceOK, RanOK, EarnedOK, PayloadOK, VerdictOK, OptionsOK
<1> QED BY <1>2, <1>3, <1>4, <1>5, Moves

LEMMA Steps == ASSUME IInv, NEW j \in AllJobs, Step(j) PROVE IInv'
<1> USE DEF At
<1>1. /\ TypeOK /\ job \in [AllJobs -> JobStates] /\ job[j] \in JobStates /\ JobOK(j, job[j])
      /\ run \in RunStates /\ run.setup \in Setups
  BY DEF IInv, TypeOK, JobsOK, RunStates
<1>2. /\ job[j].status \in Statuses \cup {"skipped"} /\ (job[j].at # "done" => job[j].status \in Statuses)
      /\ Failed(job[j].status) \in Statuses /\ Failed(job[j].status) # "success"
  BY <1>1 DEF JobStates, Failed, Statuses, JobOK, PlaceOK
<1>3. job[j].at \in {"build", "snapshoty", "upload", "report"} => j \in Jobs
  BY <1>1 DEF JobOK, PlaceOK
<1>4. UNCHANGED run => SameRun BY <1>1, Untroubled
<1>5. Trouble => SameRun BY <1>1, Troubled
<1>6. ASSUME NEW place \in Places \ {"done", "slack", "check"}, j \in Jobs, Goes(j, place), UNCHANGED <<run, results, slack, bucket>>,
             job[j].at # "done", place = "report" => job[j].status # "success",
             place = "prepare" /\ job[j].status = "success" => Uploaded(j, run.attempt)
      PROVE  IInv'
  <2>1. job' = [job EXCEPT ![j].at = place, ![j].status = job[j].status]
    BY <1>1, <1>6 DEF Goes, JobStates
  <2> QED BY <2>1, <1>2, <1>4, <1>6, GoesOn
<1>7. ASSUME NEW place \in {"report", "prepare"}, j \in Jobs, FailsTo(j, place), SameRun, UNCHANGED <<results, slack, bucket>>,
             job[j].at # "done"
      PROVE  IInv'
  <2>1. job' = [job EXCEPT ![j].at = place, ![j].status = Failed(job[j].status)]
    BY <1>1, <1>7 DEF FailsTo
  <2>2. place \in Places \ {"done", "slack", "check"} BY DEF Places
  <2> QED BY <2>1, <2>2, <1>2, <1>7, GoesOn
<1>8. CASE Begin(j) BY <1>6, <1>8 DEF Begin, Places
<1>9. CASE BuildPasses(j) BY <1>3, <1>6, <1>9 DEF BuildPasses, Places
<1>10. CASE BuildFails(j) BY <1>3, <1>5, <1>7, <1>10 DEF BuildFails
<1>11. CASE SnapshotyFails(j) BY <1>3, <1>4, <1>5, <1>7, <1>11 DEF SnapshotyFails
<1>12. CASE UploadEnds(j)
  <2>1. Uploaded(j, run.attempt) BY <1>12 DEF UploadEnds, Uploaded
  <2> QED BY <2>1, <1>3, <1>6, <1>12 DEF UploadEnds, Places
<1>13. CASE UploadFails(j) BY <1>3, <1>5, <1>7, <1>13 DEF UploadFails
<1>14. CASE Report(j)
  <2>1. job[j].status # "success" BY <1>1, <1>3, <1>14 DEF Report, JobOK, EarnedOK
  <2> QED BY <2>1, <1>3, <1>6, <1>14 DEF Report, Places
<1>15. CASE Skip(j)
  <2>1. "skipped" \in Results \ {"none"} BY DEF Results
  <2> QED BY <2>1, <1>4, <1>15, EndsWell DEF Skip
<1>16. CASE CheckFails(j)
  <2>1. "failure" \in Results \ {"none"} BY DEF Results, Statuses
  <2> QED BY <2>1, <1>5, <1>16, EndsWell DEF CheckFails
<1>17. CASE SetFailed(j)
  <2>1. Failed(job[j].status) \in Results \ {"none"} BY <1>2 DEF Results, Statuses
  <2>2. SameRun BY <1>4, <1>5, <1>17 DEF SetFailed
  <2> QED BY <2>1, <2>2, <1>2, <1>17, EndsWell DEF SetFailed
<1>18. CASE PostFails(j)
  <2>1. Failed(job[j].status) \in Results \ {"none"} BY <1>2 DEF Results, Statuses
  <2> QED BY <2>1, <1>2, <1>5, <1>18, EndsWell DEF PostFails
<1>19. CASE Post(j)
  <2>1. job[j].status \in Results \ {"none"} BY <1>2 DEF Results, Statuses
  <2> QED BY <2>1, <1>4, <1>19, EndsWell DEF Post
<1>20. CASE Snapshoty(j)
  <2> DEFINE new == [job[j] EXCEPT !.at = "upload", !.options = Args(run.setup.env)]
  <2>1. Args(run.setup.env) \in OptionLists BY <1>1 DEF OptionLists
  <2>2. new \in JobStates BY <2>1, <1>1 DEF JobStates, Places
  <2>3. new.at = "upload" /\ new.attempt = job[j].attempt /\ new.options = Args(run.setup.env) /\ new.status = job[j].status
    BY <1>1 DEF JobStates
  <2>4. job' = [job EXCEPT ![j] = new] /\ job[j].at = "snapshoty" /\ UNCHANGED <<run, results, slack, bucket>>
    BY <1>1, <1>20 DEF Snapshoty
  <2> HIDE DEF new
  <2>5. JobOK(j, new)
    BY <2>3, <2>4, <1>1, <1>3, StatusAssumption
    DEF JobOK, PlaceOK, RanOK, EarnedOK, PayloadOK, VerdictOK, OptionsOK
  <2> QED BY <2>2, <2>3, <2>4, <2>5, <1>4, Moves
<1>21. CASE \E f \in Files : UploadFile(j, f)
  <2>1. PICK f \in Files : UploadFile(j, f) BY <1>21
  <2>2. bucket' = bucket \cup {<<j, f, run.attempt>>} /\ UNCHANGED <<run, job, results, slack>> /\ j \in Jobs
    BY <2>1, <1>3 DEF UploadFile
  <2>3. TypeOK' BY <2>2 DEF IInv, TypeOK, RunStates
  <2>4. \A k \in Jobs, b \in Attempts : Uploaded(k, b) => Uploaded(k, b)' BY <2>2 DEF Uploaded
  <2>5. JobsOK'
    BY <2>2, <2>4, <1>1
    DEF IInv, JobsOK, JobOK, PlaceOK, RanOK, EarnedOK, PayloadOK, VerdictOK, OptionsOK, Green, AllOver, RunStates
  <2>6. ResultsEarned'
    <3> SUFFICES ASSUME NEW a \in 1..run.attempt, NEW k \in Jobs, results[a][k] = "success"
                 PROVE  \E b \in 1..a : Uploaded(k, b)'
      BY <2>2 DEF ResultsEarned
    <3>1. PICK b \in 1..a : Uploaded(k, b) BY DEF IInv, ResultsEarned
    <3>2. b \in Attempts BY <1>1, StatusAssumption DEF RunStates
    <3> QED BY <3>1, <3>2, <2>4
  <2>7. SlackOK'
    <3> SUFFICES ASSUME NEW m \in slack PROVE MessageOK(m)' BY <2>2 DEF SlackOK
    <3>1. MessageOK(m) BY DEF IInv, SlackOK
    <3>2. m.payload \in Payloads \ {NoPayload} BY DEF IInv, TypeOK, Messages
    <3>3. m.payload.attempt \in Attempts BY <3>2 DEF Payloads
    <3> QED BY <3>1, <3>3, <2>2, <2>4 DEF MessageOK, AllOver, Green
  <2>8. ResultsKept' /\ NoSilentGreen' BY <2>2 DEF IInv, ResultsKept, NoSilentGreen
  <2> QED BY <2>3, <2>5, <2>6, <2>7, <2>8 DEF IInv
<1>22. CASE Wakes(j)
  <2> DEFINE new == [job[j] EXCEPT !.at = "check"]
  <2>1. new \in JobStates BY <1>1 DEF JobStates, Places
  <2>2. new.at = "check" /\ new.attempt = job[j].attempt /\ new.status = job[j].status /\ new.options = job[j].options
    BY <1>1 DEF JobStates
  <2>3. /\ job' = [job EXCEPT ![j] = new] /\ job[j].at = "queued" /\ UNCHANGED <<run, results, slack, bucket>>
        /\ j = Status /\ AllOver(run.attempt)
    BY <1>1, <1>22 DEF Wakes, Goes, AllOver
  <2> HIDE DEF new
  <2>4. JobOK(j, new)
    BY <2>2, <2>3, <1>1, StatusAssumption DEF JobOK, PlaceOK, RanOK, EarnedOK, PayloadOK, VerdictOK, OptionsOK
  <2> QED BY <2>1, <2>2, <2>3, <2>4, <1>4, Moves
<1>23. CASE Check(j)
  <2> DEFINE verdict == IF AllSuccess(results[run.attempt]) THEN "success" ELSE "failure"
  <2> DEFINE new == [job[j] EXCEPT !.at = "prepare", !.verdict = verdict]
  <2>1. verdict \in {"success", "failure"} /\ (verdict = "success" <=> Green(run.attempt))
    BY DEF AllSuccess, Green
  <2>2. job' = [job EXCEPT ![j] = new] /\ job[j].at = "check" /\ UNCHANGED <<run, results, slack, bucket>>
    BY <1>1, <1>23 DEF Check
  <2> HIDE DEF verdict
  <2>3. new \in JobStates BY <2>1, <1>1 DEF JobStates, Places
  <2>4. /\ new.at = "prepare" /\ new.attempt = job[j].attempt /\ new.options = job[j].options
        /\ new.status = job[j].status /\ new.verdict = verdict
    BY <1>1 DEF JobStates
  <2> HIDE DEF new
  <2>5. j = Status BY <2>2, <1>1 DEF JobOK, PlaceOK
  <2>6. JobOK(j, new)
    BY <2>1, <2>2, <2>4, <2>5, <1>1, StatusAssumption DEF JobOK, PlaceOK, RanOK, EarnedOK, PayloadOK, VerdictOK, OptionsOK
  <2> QED BY <2>2, <2>3, <2>4, <2>6, <1>4, Moves
<1>24. CASE SetOutputs(j) /\ ~run.setup.channel
  <2>1. job[j].status \in Results \ {"none"} BY <1>2 DEF Results, Statuses
  <2> QED BY <2>1, <1>4, <1>24, EndsWell DEF SetOutputs
<1>25. CASE SetOutputs(j) /\ run.setup.channel
  <2> DEFINE payload == SlackPayload(j)
  <2> DEFINE new == [job[j] EXCEPT !.at = "slack", !.payload = payload]
  <2>1. /\ job' = [job EXCEPT ![j] = new] /\ job[j].at = "prepare" /\ UNCHANGED <<run, results, slack, bucket>>
        /\ JobStatus(j) # ""
    BY <1>1, <1>25 DEF SetOutputs, AllDefined, Required, CheckEnvVar
  <2>2. j \in Jobs => JobStatus(j) = job[j].status
    BY <2>1, <1>1, StatusAssumption DEF JobStatus, StatusInput, SetupStates
  <2>3. j = Status => JobStatus(j) = job[j].verdict /\ job[j].verdict \in {"success", "failure"}
    BY <2>1, <1>1 DEF JobStatus, StatusInput, JobOK, VerdictOK
  <2>4. JobStatus(j) \in Statuses BY <2>1, <2>2, <2>3, <1>2 DEF Statuses
  <2>5. payload \in Payloads /\ payload.status = JobStatus(j) /\ payload.attempt = run.attempt
    BY <2>4, <1>1 DEF SlackPayload, Payloads, ColorByJobStatus, Sha, RunStates
  <2>6. payload # NoPayload
    BY <2>4 DEF SlackPayload, NoPayload, Statuses
  <2> HIDE DEF payload
  <2>7. new \in JobStates BY <2>5, <1>1 DEF JobStates, Places
  <2>8. /\ new.at = "slack" /\ new.attempt = job[j].attempt /\ new.options = job[j].options
        /\ new.status = job[j].status /\ new.verdict = job[j].verdict /\ new.payload = payload
    BY <1>1 DEF JobStates
  <2> HIDE DEF new
  <2>9. JobOK(j, new)
    BY <2>1, <2>2, <2>3, <2>5, <2>6, <2>8, <1>1, StatusAssumption
    DEF JobOK, PlaceOK, RanOK, EarnedOK, PayloadOK, VerdictOK, OptionsOK
  <2> QED BY <2>1, <2>7, <2>8, <2>9, <1>4, Moves
<1> QED BY <1>8, <1>9, <1>10, <1>11, <1>12, <1>13, <1>14, <1>15, <1>16, <1>17, <1>18, <1>19, <1>20, <1>21, <1>22,
          <1>23, <1>24, <1>25
    DEF Step, Prepare


LEMMA Cancels == ASSUME IInv, Cancel PROVE IInv'
<1> USE DEF At, IInv
<1> DEFINE a == run.attempt
<1>1. /\ TypeOK /\ job \in [AllJobs -> JobStates] /\ results \in [Attempts -> [AllJobs -> Results]]
      /\ run \in RunStates /\ a \in Attempts
  BY DEF TypeOK, RunStates
<1>2. /\ job' = [j \in AllJobs |-> Cancelled(j)] /\ UNCHANGED <<slack, bucket>>
      /\ results' = [results EXCEPT ![a] =
            [j \in AllJobs |-> IF Cancelled(j).at = "done" /\ @[j] = "none" THEN "cancelled" ELSE @[j]]]
  BY DEF Cancel
<1>3. SameRun
  <2>1. run.troubles + 1 \in 0..MaxTroubles BY <1>1, StatusAssumption DEF Cancel, RunStates
  <2> QED BY <2>1, <1>1 DEF Cancel, SameRun, RunStates
<1>4. ASSUME NEW j \in AllJobs
      PROVE  /\ job'[j] \in JobStates /\ JobOK(j, job'[j])
             /\ job'[j].attempt = job[j].attempt
             /\ job[j].at = "done" => job'[j] = job[j]
             /\ job[j].at # "done" => job'[j].status # "success" \/ (j = Status /\ job'[j].at = "queued")
  <2>1. job[j] \in JobStates /\ JobOK(j, job[j]) /\ job'[j] = Cancelled(j) BY <1>1, <1>2 DEF JobsOK
  <2>2. CASE job[j].at = "done" \/ (j = Status /\ job[j].at = "queued") BY <2>1, <2>2 DEF Cancelled
  <2>3. CASE ~(job[j].at = "done" \/ (j = Status /\ job[j].at = "queued")) /\ (j = Status \/ job[j].at = "queued")
    <3>1. job'[j] = Over("cancelled", TRUE) /\ job[j].attempt = a BY <2>1, <2>3 DEF Cancelled, JobOK, RanOK
    <3>2. Over("cancelled", TRUE) \in JobStates
      BY <1>1 DEF Over, Queued, JobStates, Places, Statuses, OptionLists, Payloads
    <3>3. /\ job'[j].at = "done" /\ job'[j].attempt = a /\ job'[j].options = NoOptions /\ job'[j].status = "cancelled"
      BY <3>1 DEF Over, Queued
    <3>4. JobOK(j, job'[j])
      BY <3>3, <1>1 DEF JobOK, PlaceOK, RanOK, EarnedOK, PayloadOK, VerdictOK, OptionsOK, RunStates
    <3> QED BY <2>3, <3>1, <3>2, <3>3, <3>4
  <2>4. CASE j # Status /\ job[j].at \notin {"done", "queued"}
    <3> DEFINE place == IF job[j].at = "slack" THEN "slack" ELSE "prepare"
    <3>1. job'[j] = [job[j] EXCEPT !.at = place, !.status = "cancelled"]
      BY <2>1, <2>4 DEF Cancelled
    <3>2. place \in {"slack", "prepare"} /\ (place = "slack" => job[j].at = "slack") OBVIOUS
    <3> HIDE DEF place
    <3>3. job'[j] \in JobStates BY <2>1, <3>1, <3>2 DEF JobStates, Places, Statuses
    <3>4. /\ job'[j].at = place /\ job'[j].attempt = job[j].attempt /\ job'[j].options = job[j].options
          /\ job'[j].status = "cancelled" /\ job'[j].payload = job[j].payload /\ job'[j].verdict = job[j].verdict
      BY <2>1, <3>1 DEF JobStates
    <3>5. JobOK(j, job'[j])
      BY <2>1, <2>4, <3>2, <3>4 DEF JobOK, PlaceOK, RanOK, EarnedOK, PayloadOK, VerdictOK, OptionsOK
    <3> QED BY <2>4, <3>3, <3>4, <3>5
  <2> QED BY <2>2, <2>3, <2>4
<1>5. /\ results' \in [Attempts -> [AllJobs -> Results]]
      /\ \A c \in Attempts \ {a} : results'[c] = results[c]
      /\ \A j \in AllJobs : results'[a][j] =
            IF job'[j].at = "done" /\ results[a][j] = "none" THEN "cancelled" ELSE results[a][j]
  <2>1. "cancelled" \in Results BY DEF Results, Statuses
  <2> QED BY <1>1, <1>2, <2>1
<1>6. TypeOK' BY <1>2, <1>3, <1>4, <1>5 DEF TypeOK, SameRun
<1>7. \A c \in Attempts, j \in AllJobs : results[c][j] # "none" => results'[c][j] = results[c][j] BY <1>5
<1>8. \A c \in Attempts, j \in AllJobs : results'[c][j] = "success" <=> results[c][j] = "success" BY <1>5
<1>10. JobsOK'
  <2> SUFFICES ASSUME NEW j \in AllJobs PROVE JobOK(j, job[j])' BY DEF JobsOK
  <2>1. JobOK(j, job'[j]) BY <1>4
  <2>2. PlaceOK(j, job[j])' /\ RanOK(job[j])' /\ EarnedOK(j, job[j])' /\ PayloadOK(j, job[j])' /\ OptionsOK(job[j])'
    BY <2>1, <1>2, <1>3 DEF JobOK, PlaceOK, RanOK, EarnedOK, PayloadOK, OptionsOK, SameRun, Uploaded
  <2>3. (AllOver(a) => AllOver(a)') /\ (Green(a) <=> Green(a)')
    BY <1>1, <1>3, <1>7, <1>8 DEF AllOver, Green, SameRun
  <2>4. VerdictOK(j, job[j])' BY <2>1, <2>3 DEF JobOK, VerdictOK
  <2> QED BY <2>2, <2>4 DEF JobOK
<1>11. ResultsKept' BY <1>3, <1>4, <1>5, <1>1 DEF ResultsKept, SameRun
<1>12. ResultsEarned'
  <2>1. \A c \in 1..a : c \in Attempts BY <1>1, StatusAssumption
  <2> QED BY <2>1, <1>2, <1>3, <1>8 DEF ResultsEarned, SameRun, Uploaded
<1>13. SlackOK'
  <2> SUFFICES ASSUME NEW m \in slack PROVE MessageOK(m)' BY <1>2 DEF SlackOK
  <2>1. MessageOK(m) BY DEF SlackOK
  <2>2. m.payload \in Payloads \ {NoPayload} BY DEF TypeOK, Messages
  <2>3. m.payload.attempt \in Attempts BY <2>2 DEF Payloads
  <2>4. \A k \in Jobs : results[m.payload.attempt][k] # "none" =>
            results'[m.payload.attempt][k] = results[m.payload.attempt][k] BY <2>3, <1>7
  <2> QED BY <2>1, <2>4, <1>2, <1>3 DEF MessageOK, AllOver, Green, SameRun, Uploaded
<1>14. NoSilentGreen'
  <2> SUFFICES ASSUME NEW j \in AllJobs, run.setup.channel, results'[a][j] = "success"
               PROVE  \E m \in slack : m.job = j /\ m.payload.attempt = job'[j].attempt
    BY <1>2, <1>3 DEF NoSilentGreen, SameRun
  <2>1. results[a][j] = "success" BY <1>1, <1>8
  <2> QED BY <2>1, <1>4 DEF NoSilentGreen
<1> QED BY <1>6, <1>10, <1>11, <1>12, <1>13, <1>14

LEMMA Reruns == ASSUME IInv, Rerun PROVE IInv'
<1> USE DEF At, IInv
<1> DEFINE a == run.attempt
<1>1. /\ TypeOK /\ job \in [AllJobs -> JobStates] /\ results \in [Attempts -> [AllJobs -> Results]]
      /\ run \in RunStates /\ a \in Attempts
  BY DEF TypeOK, RunStates
<1>2. a + 1 \in Attempts BY <1>1, StatusAssumption DEF Rerun
<1>3. /\ run' \in RunStates /\ run'.attempt = a + 1 /\ run'.setup = run.setup
      /\ UNCHANGED <<slack, bucket>> /\ \A j \in AllJobs : job[j].at = "done"
  BY <1>1, <1>2 DEF Rerun, RunStates
<1>4. PICK again \in SUBSET AllJobs :
        /\ Status \in again
        /\ job' = [j \in AllJobs |-> IF j \in again THEN Queued(a + 1) ELSE job[j]]
        /\ results' = [results EXCEPT ![a + 1] =
              [j \in AllJobs |-> IF j \in again THEN "none" ELSE results[a][j]]]
  BY DEF Rerun, Unsuccessful
<1>5. /\ Queued(a + 1) \in JobStates
      /\ Queued(a + 1).at = "queued" /\ Queued(a + 1).attempt = a + 1 /\ Queued(a + 1).options = NoOptions
      /\ Queued(a + 1).status = "success"
  BY <1>2 DEF Queued, JobStates, Places, Statuses, OptionLists, Payloads
<1>6. ASSUME NEW j \in AllJobs
      PROVE  /\ job'[j] \in JobStates
             /\ j \in again => job'[j] = Queued(a + 1) /\ results'[a + 1][j] = "none"
             /\ j \notin again => job'[j] = job[j] /\ results'[a + 1][j] = results[a][j]
  BY <1>1, <1>2, <1>4, <1>5
<1>7. /\ results' \in [Attempts -> [AllJobs -> Results]]
      /\ \A c \in Attempts \ {a + 1} : results'[c] = results[c]
  <2>1. [j \in AllJobs |-> IF j \in again THEN "none" ELSE results[a][j]] \in [AllJobs -> Results]
    BY <1>1 DEF Results
  <2> QED BY <2>1, <1>1, <1>2, <1>4
<1>8. job' \in [AllJobs -> JobStates] BY <1>4, <1>6
<1>9. TypeOK' BY <1>3, <1>7, <1>8 DEF TypeOK
<1>10. JobsOK'
  <2> SUFFICES ASSUME NEW j \in AllJobs PROVE JobOK(j, job[j])' BY DEF JobsOK
  <2>1. CASE j \in again
    <3>1. job'[j] = Queued(a + 1) BY <2>1, <1>6
    <3> QED BY <3>1, <1>2, <1>3, <1>5 DEF JobOK, PlaceOK, RanOK, EarnedOK, PayloadOK, VerdictOK, OptionsOK
  <2>2. CASE j \notin again
    <3>1. job'[j] = job[j] /\ job[j].at = "done" /\ JobOK(j, job[j]) /\ job[j] \in JobStates
      BY <2>2, <1>1, <1>3, <1>6 DEF JobsOK
    <3>2. job[j].attempt <= a + 1
      <4>1. job[j].attempt \in Attempts BY <3>1 DEF JobStates
      <4>2. job[j].attempt <= a BY <3>1 DEF JobOK, RanOK
      <4> QED BY <4>1, <4>2, <1>1, StatusAssumption
    <3> QED BY <3>1, <3>2, <1>3 DEF JobOK, PlaceOK, RanOK, EarnedOK, PayloadOK, VerdictOK, OptionsOK
  <2> QED BY <2>1, <2>2
<1>11. ResultsKept'
  <2> SUFFICES ASSUME NEW j \in AllJobs PROVE results'[a + 1][j] = "none" <=> job'[j].at # "done"
    BY <1>3 DEF ResultsKept
  <2>1. results[a][j] = "none" <=> job[j].at # "done" BY DEF ResultsKept
  <2> QED BY <2>1, <1>3, <1>5, <1>6
<1>12. ResultsEarned'
  <2> SUFFICES ASSUME NEW c \in 1..(a + 1), NEW j \in Jobs, results'[c][j] = "success"
               PROVE  \E b \in 1..c : Uploaded(j, b)
    BY <1>3 DEF ResultsEarned, Uploaded
  <2>1. CASE c = a + 1
    <3>1. results[a][j] = "success" BY <2>1, <1>6
    <3>2. a \in 1..a /\ \A b \in 1..a : b \in 1..c BY <2>1, <1>1, StatusAssumption
    <3> QED BY <3>1, <3>2 DEF ResultsEarned
  <2>2. CASE c # a + 1
    <3>1. c \in 1..a /\ c \in Attempts BY <2>2, <1>1, StatusAssumption
    <3> QED BY <2>2, <3>1, <1>7 DEF ResultsEarned
  <2> QED BY <2>1, <2>2
<1>13. SlackOK'
  <2> SUFFICES ASSUME NEW m \in slack PROVE MessageOK(m)' BY <1>3 DEF SlackOK
  <2>1. MessageOK(m) BY DEF SlackOK
  <2>2. m.payload \in Payloads \ {NoPayload} BY DEF TypeOK, Messages
  <2>3. m.payload.attempt \in Attempts BY <2>2 DEF Payloads
  <2>4. m.payload.attempt <= a + 1 /\ m.payload.attempt # a + 1
    BY <2>1, <2>3, <1>1, StatusAssumption DEF MessageOK
  <2>5. results'[m.payload.attempt] = results[m.payload.attempt] BY <2>3, <2>4, <1>7
  <2> QED BY <2>1, <2>4, <2>5, <1>3 DEF MessageOK, AllOver, Green, Uploaded
<1>14. NoSilentGreen'
  <2> SUFFICES ASSUME NEW j \in AllJobs, run.setup.channel, results'[a + 1][j] = "success"
               PROVE  \E m \in slack : m.job = j /\ m.payload.attempt = job'[j].attempt
    BY <1>3 DEF NoSilentGreen
  <2>1. job'[j] = job[j] /\ results[a][j] = "success" BY <1>6
  <2> QED BY <2>1 DEF NoSilentGreen
<1> QED BY <1>9, <1>10, <1>11, <1>12, <1>13, <1>14

LEMMA Kills == ASSUME IInv, NEW j \in AllJobs, Kill(j) PROVE IInv'
<1>1. "cancelled" \in Results \ {"none"} BY DEF Results, Statuses
<1>2. SameRun BY Untroubled DEF IInv, Kill
<1> QED BY <1>1, <1>2, EndsWell DEF Kill

LEMMA Stutters == ASSUME IInv, UNCHANGED vars PROVE IInv'
BY DEF vars, IInv, TypeOK, JobsOK, JobOK, PlaceOK, RanOK, EarnedOK, PayloadOK, VerdictOK, OptionsOK, ResultsKept,
       ResultsEarned, SlackOK, MessageOK, NoSilentGreen, Uploaded, AllOver, Green

LEMMA Invariant == Spec => []IInv
<1>1. Init => IInv BY Initially
<1>2. IInv /\ [Next]_vars => IInv'
  <2> SUFFICES ASSUME IInv, [Next]_vars PROVE IInv' OBVIOUS
  <2> QED BY Steps, Kills, Cancels, Reruns, Stutters DEF Next, Terminated
<1> QED BY <1>1, <1>2, PTL DEF Spec

(* The variables keep their types, and no run is run more often than it may be.      *)
THEOREM TypeCorrect == Spec => []TypeOK
<1>1. IInv => TypeOK BY DEF IInv
<1> QED BY <1>1, Invariant, PTL

(* What is told as a success, by a job or by Status for all of them, was uploaded.   *)
THEOREM GoodNews == Spec => []GoodNewsIsEarned
<1>1. IInv => GoodNewsIsEarned
  <2> SUFFICES ASSUME IInv, NEW m \in slack, m.payload.status = "success"
               PROVE  IF m.job = Status
                      THEN \A j \in Jobs : \E a \in 1..m.payload.attempt : Uploaded(j, a)
                      ELSE Uploaded(m.job, m.payload.attempt)
    BY DEF GoodNewsIsEarned
  <2>1. MessageOK(m) /\ m \in Messages /\ run \in RunStates BY DEF IInv, SlackOK, TypeOK
  <2>2. m.job \in AllJobs /\ m.payload \in Payloads \ {NoPayload} BY <2>1 DEF Messages
  <2>3. m.payload.attempt \in 1..run.attempt
    <3>1. m.payload.attempt \in Attempts BY <2>2 DEF Payloads
    <3> QED BY <3>1, <2>1, StatusAssumption DEF MessageOK, RunStates
  <2>4. CASE m.job = Status
    <3>1. \A j \in Jobs : results[m.payload.attempt][j] = "success" BY <2>1, <2>4 DEF MessageOK, Green
    <3> QED BY <3>1, <2>3, <2>4 DEF IInv, ResultsEarned
  <2>5. CASE m.job # Status BY <2>1, <2>2, <2>5 DEF MessageOK
  <2> QED BY <2>4, <2>5
<1> QED BY <1>1, Invariant, PTL

(* Status tells a success of exactly those attempts of which every job was one.      *)
THEOREM CombinedVerdict == Spec => []VerdictIsCombined
<1>1. IInv => VerdictIsCombined
  BY DEF IInv, SlackOK, MessageOK, VerdictIsCombined, Green
<1> QED BY <1>1, Invariant, PTL

(* A job with a channel is a success only if it has told so.                         *)
THEOREM SilentGreen == Spec => []NoSilentGreen
<1>1. IInv => NoSilentGreen BY DEF IInv
<1> QED BY <1>1, Invariant, PTL

(* What docker makes of the options of index.js, for any environment: the last option *)
(* of a name decides, and there is no other for its name.                            *)
LEMMA LastDecides ==
  ASSUME NEW options, DOMAIN options \in SUBSET Nat, NEW name, NEW p, IsLast(options, name, p)
  PROVE  ContainerEnv(options)[name] = options[p].value
<1>1. p \in DOMAIN options /\ name \in {options[q].name : q \in DOMAIN options} BY DEF IsLast
<1> DEFINE last == CHOOSE q \in DOMAIN options : IsLast(options, name, q)
<1>2. last \in DOMAIN options /\ IsLast(options, name, last) BY <1>1
<1>3. ContainerEnv(options)[name] = options[last].value BY <1>1 DEF ContainerEnv
<1> HIDE DEF last
<1>4. last = p
  <2>1. last <= p /\ p <= last BY <1>1, <1>2 DEF IsLast
  <2> QED BY <2>1, <1>1, <1>2
<1> QED BY <1>3, <1>4

LEMMA InputNames ==
  /\ \A p \in 1..4 : Inputs[p].name \in GcsNames /\ Inputs[p].value = "input"
  /\ \A n \in GcsNames : \E p \in 1..4 : Inputs[p].name = n
  /\ \A p, q \in 1..4 : Inputs[p].name = Inputs[q].name => p = q
<1>1. /\ Inputs[1].name = <<"GCS_CLIENT_EMAIL">> /\ Inputs[2].name = <<"GCS_PRIVATE_KEY">>
      /\ Inputs[3].name = <<"GCS_PRIVATE_KEY_ID">> /\ Inputs[4].name = <<"GCS_PROJECT">>
      /\ \A p \in 1..4 : Inputs[p].value = "input"
  BY DEF Inputs
<1>2. \A x, y : <<x>> = <<y>> => x = y OBVIOUS
<1>3. \A p \in 1..4 : p = 1 \/ p = 2 \/ p = 3 \/ p = 4 OBVIOUS
<1> QED BY <1>1, <1>2, <1>3 DEF GcsNames

LEMMA ContainerOfArgs ==
  ASSUME NEW env, Len(env) \in Nat
  PROVE  LET container == ContainerEnv(Args(env))
         IN /\ DOMAIN container = GcsNames \cup {PassedName(env[i]) : i \in PassedAt(env)}
            /\ \A i \in PassedAt(env) : ~Overridden(env, i) => container[PassedName(env[i])] = env[i].value
            /\ \A n \in GcsNames : (\A i \in PassedAt(env) : PassedName(env[i]) # n) => container[n] = "input"
<1> DEFINE options == Args(env)
<1>1. PassedAt(env) \subseteq 1..Len(env) BY DEF PassedAt
<1>2. DOMAIN options = 1..4 \cup {4 + i : i \in PassedAt(env)} BY DEF Args
<1>3. DOMAIN options \in SUBSET Nat BY <1>1, <1>2
<1>4. \A p \in 1..4 : p \in DOMAIN options /\ options[p] = Inputs[p] BY DEF Args
<1>5. \A i \in PassedAt(env) :
        /\ 4 + i \in DOMAIN options
        /\ options[4 + i].name = PassedName(env[i]) /\ options[4 + i].value = env[i].value
  <2> TAKE i \in PassedAt(env)
  <2>1. i \in 1..Len(env) /\ ~(4 + i <= 4) /\ (4 + i) - 4 = i BY <1>1
  <2>2. 4 + i \in DOMAIN options /\ options[4 + i] = Passed(env[i]) BY <1>2, <2>1 DEF Args
  <2> QED BY <2>2 DEF Passed
<1>6. \A p \in DOMAIN options : p \in 1..4 \/ \E i \in PassedAt(env) : p = 4 + i BY <1>2
<1> HIDE DEF options
<1>7. DOMAIN ContainerEnv(options) = GcsNames \cup {PassedName(env[i]) : i \in PassedAt(env)}
  <2>1. DOMAIN ContainerEnv(options) = {options[p].name : p \in DOMAIN options} BY DEF ContainerEnv
  <2>2. \A p \in DOMAIN options :
          options[p].name \in GcsNames \cup {PassedName(env[i]) : i \in PassedAt(env)}
    BY <1>4, <1>5, <1>6, InputNames
  <2>3. \A n \in GcsNames : \E p \in DOMAIN options : options[p].name = n BY <1>4, InputNames
  <2>4. \A i \in PassedAt(env) : \E p \in DOMAIN options : options[p].name = PassedName(env[i]) BY <1>5
  <2> QED BY <2>1, <2>2, <2>3, <2>4
<1>8. ASSUME NEW i \in PassedAt(env), ~Overridden(env, i)
      PROVE  ContainerEnv(options)[PassedName(env[i])] = env[i].value
  <2>1. IsLast(options, PassedName(env[i]), 4 + i)
    <3> SUFFICES ASSUME NEW q \in DOMAIN options, options[q].name = PassedName(env[i]) PROVE q <= 4 + i
      BY <1>5 DEF IsLast
    <3>1. CASE q \in 1..4 BY <3>1, <1>1
    <3>2. CASE \E k \in PassedAt(env) : q = 4 + k
      <4>1. PICK k \in PassedAt(env) : q = 4 + k BY <3>2
      <4>2. PassedName(env[k]) = PassedName(env[i]) BY <4>1, <1>5
      <4>3. ~(k > i) BY <4>2, <1>8 DEF Overridden
      <4> QED BY <4>1, <4>3, <1>1
    <3> QED BY <3>1, <3>2, <1>6
  <2>2. ContainerEnv(options)[PassedName(env[i])] = options[4 + i].value BY <2>1, <1>3, LastDecides
  <2> QED BY <2>2, <1>5
<1>9. ASSUME NEW n \in GcsNames, \A i \in PassedAt(env) : PassedName(env[i]) # n
      PROVE  ContainerEnv(options)[n] = "input"
  <2>1. PICK p \in 1..4 : Inputs[p].name = n BY InputNames
  <2>2. IsLast(options, n, p)
    <3> SUFFICES ASSUME NEW q \in DOMAIN options, options[q].name = n PROVE q <= p
      BY <2>1, <1>4 DEF IsLast
    <3>1. q \in 1..4 BY <1>5, <1>6, <1>9
    <3> QED BY <3>1, <2>1, <1>4, InputNames
  <2>3. ContainerEnv(options)[n] = options[p].value BY <2>2, <1>3, LastDecides
  <2> QED BY <2>1, <2>3, <1>4, InputNames
<1> QED BY <1>7, <1>8, <1>9 DEF options

(* The container of every job gets the environment that the README of snapshoty       *)
(* promises, whatever the environment of the runner and its order.                    *)
THEOREM ContainerEnvironment == Spec => []SnapshotGetsItsEnv
<1>1. IInv => SnapshotGetsItsEnv
  <2> SUFFICES ASSUME IInv, NEW j \in Jobs, job[j].options # NoOptions
               PROVE  LET env == run.setup.env
                          container == ContainerEnv(job[j].options)
                      IN /\ DOMAIN container = GcsNames \cup {PassedName(env[i]) : i \in PassedAt(env)}
                         /\ \A i \in PassedAt(env) : ~Overridden(env, i) => container[PassedName(env[i])] = env[i].value
                         /\ \A n \in GcsNames :
                              (\A i \in PassedAt(env) : PassedName(env[i]) # n) => container[n] = "input"
    BY DEF SnapshotGetsItsEnv
  <2>1. job[j].options = Args(run.setup.env) BY DEF IInv, JobsOK, JobOK, OptionsOK
  <2>2. run.setup.env \in Seq(Variables) BY StatusAssumption DEF IInv, TypeOK, RunStates, SetupStates
  <2>3. Len(run.setup.env) \in Nat BY <2>2
  <2> QED BY <2>1, <2>3, ContainerOfArgs
<1> QED BY <1>1, Invariant, PTL

==================================================================================
