--------------------------------- MODULE BuildData --------------------------------
(* resources/scripts/generate-build-data.sh: what Blue Ocean says of a build, put  *)
(* into files that getBuildInfoJsonFiles reads and that go to Elasticsearch. Every *)
(* request may fail, give nothing or be cut off; the script never stops, and its   *)
(* exit status is not looked at. Here it is a function from the files that are in  *)
(* the workspace and the answers to the files that are there afterwards.           *)
EXTENDS Naturals, Sequences

Files == {"steps", "stepsErrors", "testsErrors", "log", "job", "changeSet", "artifacts",
          "testsSummary", "coverage", "build", "report", "bulk", "ciBuild"}
Asked == Files \ {"stepsErrors", "report", "bulk", "ciBuild"}

Answers == {"good", "noTests", "failed", "empty", "cut"}

(* The form of a file, and whether it was written for this build.                  *)
Contents == [form : {"none", "good", "noTests", "empty", "cut", "default", "counted"}, own : BOOLEAN]
Absent == [form |-> "none", own |-> TRUE]
OwnFile(form) == [form |-> form, own |-> TRUE]
NoFiles == [f \in Files |-> Absent]

IsJson(content) == content.form \in {"good", "default", "counted"}

(* fetch: curl --fail -o leaves the file alone when the server answers an error.   *)
Fetched(old, answer) == IF answer = "failed" THEN old ELSE OwnFile(answer)

DefaultForEmptyOnly(old, answer) ==
    IF Fetched(old, answer).form = "empty" THEN OwnFile("default") ELSE Fetched(old, answer)

(* fetchAndDefault: the default replaces an absent and an empty file.              *)
FetchedOrDefault(old, answer) ==
    LET file == Fetched(old, answer)
    IN IF file.form \in {"none", "empty"} THEN OwnFile("default") ELSE file

(* jq -e 'select(.code==404)': a build without tests is answered by a message.     *)
TestsOrDefault(old, answer) ==
    LET file == FetchedOrDefault(old, answer)
    IN IF file.form = "noTests" THEN OwnFile("default") ELSE file

(* fetchAndDefaultStepsInfo writes the failed steps, from whatever steps are there. *)
StepsErrors(steps) ==
    IF steps.form = "good" THEN [form |-> "good", own |-> steps.own] ELSE OwnFile("default")

(* fetchAndPrepareTestSummaryReport: an absent summary, not an empty one, is       *)
(* counted from the failed tests, if those are JSON.                               *)
Summary(old, answer, tests) ==
    LET file == Fetched(old, answer)
    IN IF file.form # "none" THEN file
       ELSE IF IsJson(tests) THEN [form |-> "counted", own |-> tests.own]
       ELSE OwnFile("default")

(* fetchAndPrepareTestCoverageReport: only an absent file is replaced.             *)
Coverage(old, answer) ==
    LET file == Fetched(old, answer)
    IN IF file.form = "none" THEN OwnFile("default") ELSE file

(* What build-report.json is put together from.                                    *)
Parts == {"job", "changeSet", "artifacts", "testsErrors", "testsSummary", "coverage", "build"}

(* What the requests leave in the files that they are for.                          *)
Requested(old, answer) ==
    LET tests == TestsOrDefault(old["testsErrors"], answer["testsErrors"])
    IN [[f \in Asked |-> FetchedOrDefault(old[f], answer[f])] EXCEPT
            !["testsErrors"] = tests,
            !["testsSummary"] = Summary(old["testsSummary"], answer["testsSummary"], tests),
            !["coverage"] = Coverage(old["coverage"], answer["coverage"])]

(* The script. build-report.json is begun anew; the bulk of failed tests is only    *)
(* appended to, and not at all when the report is not JSON, of which jq makes an    *)
(* empty ci-build-report.json.                                                     *)
Collected(old, answer) ==
    LET fetched == Requested(old, answer)
        whole == \A p \in Parts : IsJson(fetched[p])
        own == \A p \in Parts : fetched[p].own
    IN [[f \in Files |-> IF f \in Asked THEN fetched[f] ELSE old[f]] EXCEPT
            !["stepsErrors"] = StepsErrors(fetched["steps"]),
            !["report"] = [form |-> IF whole THEN "good" ELSE "cut", own |-> own],
            !["bulk"] = IF whole /\ fetched["testsErrors"].form = "good"
                        THEN [form |-> "good", own |-> own /\ @.own] ELSE @,
            !["ciBuild"] = [form |-> IF whole THEN "good" ELSE "empty", own |-> own]]

(* getBuildInfoJsonFiles reads the files in this order and keeps what it has when   *)
(* one cannot be read.                                                             *)
ReadOrder == <<"build", "changeSet", "stepsErrors", "testsErrors", "testsSummary">>
Readable(files) ==
    {n \in 0..Len(ReadOrder) : \A i \in 1..n : IsJson(files[ReadOrder[i]])}

(* The files of an earlier build: the same, and no longer this build's.             *)
Left(files) == [f \in Files |-> [files[f] EXCEPT !.own = @ /\ files[f].form = "none"]]
==================================================================================
