------------------------------ MODULE CredentialScopes ------------------------------
(* The with...Env steps: each gets a secret, puts it into a file or the environment,   *)
(* runs a body and takes it back. Branches of builds nest them and run in parallel on   *)
(* agents; branches on one agent share its HOME, and each has its own workspace and     *)
(* the tmp directory beside it. The steps differ in what Shapes says of them.           *)
EXTENDS Naturals, Sequences, FiniteSets

CONSTANTS
    Branches,
    Agents,
    AgentOf,      \* the agent of each branch
    Nests,        \* the nests of steps that branches run, outermost step first
    VaultTries    \* 3 in the code: the tries of getVaultSecret

Shapes ==
    [file : {"none", "home", "workspace", "tmp"},     \* where the file is by default
     name : STRING,                                   \* the name of the file
     secret : {"none", "vault", "jenkins"},
     blank : BOOLEAN,          \* a field without text counts as there
     plain : BOOLEAN,          \* without the fields the body runs without them
     install : Nat,            \* the tries to install a tool, 0 for no tool
     login : Nat,              \* the tries of a command that uses the secret, before the try
     write : {"before", "inside", "retried"},   \* the try, or with the reading in a retry
     cleanup : {"none", "check", "shell", "dir", "elsewhere"},
     home : BOOLEAN]           \* sets HOME to the workspace

Nobody == "nobody"

ASSUME ScopesAssumption ==
    /\ AgentOf \in [Branches -> Agents] /\ VaultTries \in Nat \ {0}
    /\ Branches \cap Agents = {} /\ Nobody \notin Branches
    /\ Nests \subseteq Seq(Shapes) \ {<<>>}
    /\ \A nest \in Nests : \A d \in 1..Len(nest) :
           nest[d].file = "none" <=> nest[d].cleanup = "none"    \* every file has a clean-up

VaultStep ==
    [file |-> "none", name |-> "", secret |-> "vault", blank |-> TRUE, plain |-> FALSE, install |-> 0,
     login |-> 0, write |-> "before", cleanup |-> "none", home |-> FALSE]
VaultFile(dir, file) == [VaultStep EXCEPT !.file = dir, !.name = file, !.cleanup = "check"]
ToolStep(tries) == [VaultStep EXCEPT !.secret = "none", !.install = tries]

WithSecretVault == VaultStep
WithTotpVault == VaultStep
WithEsEnv == VaultStep
WithDockerEnv == [VaultStep EXCEPT !.login = 3]
WithAzureEnv == [VaultStep EXCEPT !.blank = FALSE]
WithCloudEnv == [VaultStep EXCEPT !.blank = FALSE]
WithElasticsearchDeploymentEnv == [VaultStep EXCEPT !.blank = FALSE]
WithKibanaDeploymentEnv == [VaultStep EXCEPT !.blank = FALSE]
WithFleetDeploymentEnv == [VaultStep EXCEPT !.blank = FALSE]
WithAPMEnv == [VaultStep EXCEPT !.blank = FALSE, !.plain = TRUE]
WithOtelEnv == [VaultStep EXCEPT !.secret = "jenkins", !.plain = TRUE, !.install = 1]

(* withClusterEnv nests the steps that its arguments enable.                            *)
WithClusterEnv(elasticsearch, kibana, fleet) ==
    (IF elasticsearch THEN <<WithElasticsearchDeploymentEnv>> ELSE <<>>)
        \o (IF kibana THEN <<WithKibanaDeploymentEnv>> ELSE <<>>)
        \o (IF fleet THEN <<WithFleetDeploymentEnv>> ELSE <<>>)

WithNpmrc == VaultFile("home", ".npmrc")
WithAzureCredentials == VaultFile("home", ".credentials.json")
WithVaultToken == [VaultFile("workspace", ".vault-token") EXCEPT !.write = "retried"]
WithAWSEnv == [VaultFile("tmp", "aws-credentials.json") EXCEPT
                   !.blank = FALSE, !.install = 1, !.login = 1]
(* The file is written to the tmp directory and looked for in another one.              *)
WithGCPEnv == [VaultFile("tmp", "google-cloud-credentials.json") EXCEPT
                   !.blank = FALSE, !.install = 1, !.login = 1, !.cleanup = "elsewhere"]
WithHubCredentials == [VaultFile("home", ".config/hub") EXCEPT
                           !.secret = "jenkins", !.write = "inside", !.cleanup = "dir"]
(* rubygemsLogin and rubygemsLogin.withApi: one script writes the file, and does not      *)
(* notice when curl fails.                                                              *)
RubygemsLogin == [VaultFile("home", ".gem/credentials") EXCEPT !.cleanup = "shell"]

WithGhEnv == [ToolStep(1) EXCEPT !.secret = "jenkins"]
WithTerraformEnv == ToolStep(5)
WithPackerEnv == ToolStep(5)
WithGoEnvUnix == [ToolStep(3) EXCEPT !.home = TRUE]
WithNodeJSEnvUnix == [ToolStep(3) EXCEPT !.home = TRUE]

VARIABLES
    branch,       \* each branch: where in its nest it is
    files         \* the branch that wrote each file, or Nobody

vars == <<branch, files>>

Fields == {"all", "blank", "missing"}

Places == {"install", "read", "write", "login", "body", "cleanup", "remove", "returned", "threw"}

BranchStates ==
    [nest : Nests, at : Places,
     depth : Nat,                       \* the step of the nest that is meant
     tries : Nat,                       \* of what is tried at this place
     got : Seq(Fields \cup {"unasked"}), \* what the vault gave to each step of the nest
     failed : BOOLEAN,                  \* an exception is on its way
     trouble : BOOLEAN,                 \* something of the branch's own went wrong
     entered : Nat]                     \* the steps of which the try was entered

(* Where the branch begins with the step at depth d.                                    *)
First(nest, d) ==
    IF d > Len(nest) THEN "body"
    ELSE IF nest[d].install > 0 THEN "install"
    ELSE IF nest[d].secret # "none" THEN "read" ELSE "write"

New(nest) ==
    [nest |-> nest, at |-> First(nest, 1), depth |-> 1, tries |-> 0,
     got |-> [d \in 1..Len(nest) |-> "unasked"], failed |-> FALSE, trouble |-> FALSE, entered |-> 0]

Shape(b) == branch[b].nest[branch[b].depth]
At(b, place) == branch[b].at = place
Ended(b) == branch[b].at \in {"returned", "threw"}
Become(b, new) == branch' = [branch EXCEPT ![b] = new]

(* HOME is the agent's, unless a step outside has set it to the workspace.              *)
HomeIsOwn(b, d) == \E e \in 1..(d - 1) : branch[b].nest[e].home
OwnPlace(b, d) == branch[b].nest[d].file \in {"workspace", "tmp"} \/ HomeIsOwn(b, d)

HolderIgnoresHome(b, d) ==
    IF branch[b].nest[d].file \in {"workspace", "tmp"} THEN b ELSE AgentOf[b]

Holder(b, d) == IF OwnPlace(b, d) THEN b ELSE AgentOf[b]

FileOf(b, d) == <<branch[b].nest[d].name, Holder(b, d)>>
HasFile(b, d) == branch[b].nest[d].file # "none"
FileNames == UNION {{nest[d].name : d \in 1..Len(nest)} : nest \in Nests}

Init ==
    /\ branch \in [Branches -> {New(nest) : nest \in Nests}]
    /\ files = [p \in FileNames \X (Branches \cup Agents) |-> Nobody]

(* An exception leaves the step at depth d: the finally clauses of those outside run.   *)
Outwards(new, d) ==
    IF d = 0
    THEN [new EXCEPT !.at = IF new.failed THEN "threw" ELSE "returned", !.depth = 0, !.tries = 0]
    ELSE [new EXCEPT !.at = "cleanup", !.depth = d, !.tries = 0]

Throws(b) ==
    Become(b, Outwards([branch[b] EXCEPT !.failed = TRUE, !.trouble = TRUE],
                       branch[b].depth - 1))

Goes(b, place) == Become(b, [branch[b] EXCEPT !.at = place, !.tries = 0])
TriesAgain(b) == Become(b, [branch[b] EXCEPT !.tries = @ + 1])

(* Into the try of the step, and on to the next step or the body.                       *)
Enters(b) ==
    LET d == branch[b].depth
    IN Become(b, [branch[b] EXCEPT !.at = First(branch[b].nest, d + 1), !.tries = 0, !.entered = d,
                                   !.depth = IF d = Len(branch[b].nest) THEN d ELSE d + 1])

Reads(b, fields) ==
    Become(b, [branch[b] EXCEPT !.at = "write", !.tries = 0,
                                   !.got[branch[b].depth] = fields])

(* isInstalled, or a download with the tries that the step has; what follows it (unzip, a *)
(* check that the tool is there) has one try, and so has the plugin of withOtelEnv.       *)
Install(b) ==
    /\ At(b, "install")
    /\ \/ Goes(b, IF Shape(b).secret # "none" THEN "read" ELSE "write")
       \/ branch[b].tries + 1 < Shape(b).install /\ TriesAgain(b)
       \/ Throws(b)
    /\ UNCHANGED files

(* getVaultSecret: a vault that does not answer is asked again; what it answers may be   *)
(* errors, or lack a field, or have a field without text. withVaultToken tries again also *)
(* after an answer without a token and after a write that failed. A credential of Jenkins *)
(* that a tracing step names must be there, one that nobody configured need not.         *)
VaultSilent(b) ==
    /\ At(b, "read") /\ Shape(b).secret = "vault"
    /\ IF branch[b].tries + 1 < VaultTries THEN TriesAgain(b) ELSE Throws(b)
    /\ UNCHANGED files

AnySuffices(shape, fields) == fields # "missing" \/ shape.plain

Suffices(shape, fields) ==
    fields = "all" \/ (fields = "blank" /\ shape.blank) \/ shape.plain

Answer(b) ==
    /\ At(b, "read")
    /\ \E fields \in {"all", "blank", "missing"} :
       /\ Shape(b).secret = "jenkins" => fields # "blank"
       /\ Shape(b).write = "retried" => fields # "missing"
       /\ \/ Suffices(Shape(b), fields) /\ Reads(b, fields)
          \/ ~Suffices(Shape(b), fields) /\ Throws(b)
          \/ Shape(b).secret = "jenkins" /\ fields = "missing" /\ Throws(b)
    /\ UNCHANGED files

(* writeFile, or for a step without a file nothing, and withEnv or withEnvMask.          *)
Write(b) ==
    /\ At(b, "write") /\ HasFile(b, branch[b].depth)
    /\ files' = [files EXCEPT ![FileOf(b, branch[b].depth)] = b]
    /\ IF Shape(b).login > 0 THEN Goes(b, "login") ELSE Enters(b)

(* The write inside the try leads to the finally clause, one outside does not.           *)
WriteFails(b) ==
    /\ At(b, "write") /\ HasFile(b, branch[b].depth) /\ Shape(b).write # "retried"
    /\ IF Shape(b).write = "inside"
       THEN Become(b, [branch[b] EXCEPT !.at = "cleanup", !.failed = TRUE, !.trouble = TRUE])
       ELSE Throws(b)
    /\ UNCHANGED files

NoFile(b) ==
    /\ At(b, "write") /\ ~HasFile(b, branch[b].depth)
    /\ IF Shape(b).login > 0 THEN Goes(b, "login") ELSE Enters(b)
    /\ UNCHANGED files

(* docker login, aws configure, gcloud auth: before the try.                             *)
Login(b) ==
    /\ At(b, "login")
    /\ \/ Enters(b)
       \/ IF branch[b].tries + 1 < Shape(b).login THEN TriesAgain(b) ELSE Throws(b)
    /\ UNCHANGED files

(* The body may fail, and may remove the file of a step.                                *)
BodySkipsFinally(b) ==
    /\ At(b, "body")
    /\ Become(b, [branch[b] EXCEPT !.at = "threw", !.depth = 0]) \/ Goes(b, "cleanup")
    /\ UNCHANGED files

Body(b) ==
    /\ At(b, "body")
    /\ \/ Goes(b, "cleanup")
       \/ Become(b, [branch[b] EXCEPT !.at = "cleanup", !.failed = TRUE, !.trouble = TRUE])
    /\ \/ UNCHANGED files
       \/ \E d \in 1..Len(branch[b].nest) :
          HasFile(b, d) /\ files' = [files EXCEPT ![FileOf(b, d)] = Nobody]

(* The finally clauses. Most look for the file, and remove it in another step.           *)
Leave(b) == Become(b, Outwards(branch[b], branch[b].depth - 1))

RemovesUnseen(b) ==
    /\ At(b, "cleanup") /\ Shape(b).cleanup = "check" /\ Goes(b, "remove")
    /\ UNCHANGED files

Look(b) ==
    /\ At(b, "cleanup") /\ Shape(b).cleanup = "check"
    /\ IF files[FileOf(b, branch[b].depth)] = Nobody THEN Leave(b) ELSE Goes(b, "remove")
    /\ UNCHANGED files

(* rm fails when somebody else has removed the file since.                              *)
Remove(b) ==
    /\ At(b, "remove")
    /\ LET file == FileOf(b, branch[b].depth)
       IN /\ files' = [files EXCEPT ![file] = Nobody]
          /\ Become(b, Outwards([branch[b] EXCEPT !.failed = @ \/ files[file] = Nobody],
                                branch[b].depth - 1))

CleanUp(b) ==
    /\ At(b, "cleanup") /\ Shape(b).cleanup # "check"
    /\ files' = IF Shape(b).cleanup \in {"shell", "dir"}
                THEN [files EXCEPT ![FileOf(b, branch[b].depth)] = Nobody] ELSE files
    /\ Leave(b)

Step(b) ==
    \/ Install(b) \/ VaultSilent(b) \/ Answer(b)
    \/ Write(b) \/ WriteFails(b) \/ NoFile(b) \/ Login(b)
    \/ Body(b) \/ Look(b) \/ Remove(b) \/ CleanUp(b)

Next == \E b \in Branches : Step(b)
Spec == Init /\ [][Next]_vars

(* The variables keep their types.                                                      *)
TypeOK ==
    /\ branch \in [Branches -> BranchStates]
    /\ files \in [FileNames \X (Branches \cup Agents) -> Branches \cup {Nobody}]

(* No file outlives the step that wrote it, once the try of the step was entered, be it   *)
(* that the body failed, an inner step threw or branches share the file; except that      *)
(* withGCPEnv looks for its file in a directory where it is not.                         *)
EnteredIsCleaned ==
    \A b \in Branches : \A d \in 1..Len(branch[b].nest) :
        (Ended(b) /\ HasFile(b, d) /\ files[FileOf(b, d)] = b)
        => d > branch[b].entered \/ branch[b].nest[d].cleanup = "elsewhere"

(* While the body runs, the file of every step around it whose place is the branch's      *)
(* own is there and holds what the branch wrote: HOME of withGoEnv and withNodeJSEnv      *)
(* keeps the files of parallel branches apart.                                           *)
BodyHasItsFile ==
    \A b \in Branches : \A d \in 1..Len(branch[b].nest) :
        (At(b, "body") /\ HasFile(b, d)
            /\ (branch[b].nest[d].file \in {"workspace", "tmp"} \/ HomeIsOwn(b, d)))
        => files[<<branch[b].nest[d].name, b>>] = b

(* No exception is lost in the catch and finally clauses of nested steps, and a branch     *)
(* whose files are its own throws for nothing else.                                      *)
ErrorsArePassedOn ==
    \A b \in Branches :
        /\ At(b, "returned") => ~branch[b].trouble
        /\ (At(b, "threw") /\ \A d \in 1..Len(branch[b].nest) : HasFile(b, d) => OwnPlace(b, d))
           => branch[b].trouble

(* The body runs with the fields that every step around it asks for; only the tracing     *)
(* steps do without them, and only some steps take a field without text.                 *)
BodyHasItsSecrets ==
    \A b \in Branches : At(b, "body") =>
        \A d \in 1..Len(branch[b].nest) :
            LET shape == branch[b].nest[d]
            IN shape.secret # "none" =>
                   branch[b].got[d] \in {"all"} \cup (IF shape.blank THEN {"blank"} ELSE {})
                                               \cup (IF shape.plain THEN {"blank", "missing"} ELSE {})

====================================================================================
