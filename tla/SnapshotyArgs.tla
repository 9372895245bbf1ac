------------------------------ MODULE SnapshotyArgs ------------------------------
(* .github/actions/snapshoty/index.js: the -e options of the docker command that it   *)
(* builds from its inputs and the environment, and what docker makes of them. The     *)
(* name of a variable is the sequence of its prefixes and the rest, and an            *)
(* environment is a sequence of variables, in the order of Object.keys(process.env).  *)
EXTENDS Naturals, Sequences

GcsNames == {<<"GCS_CLIENT_EMAIL">>, <<"GCS_PRIVATE_KEY">>, <<"GCS_PRIVATE_KEY_ID">>, <<"GCS_PROJECT">>}
Token == <<"GITHUB_", "TOKEN">>

StartsWith(key, prefix) == key # <<>> /\ Head(key) = prefix
IsForwarded(variable) == StartsWith(variable.key, "GITHUB_") \/ StartsWith(variable.key, "RUNNER_")
IsInjected(variable) == StartsWith(variable.key, "SNAPSHOTY_")
IsPassed(variable) == IsForwarded(variable) \/ IsInjected(variable)

(* key.replace("SNAPSHOTY_", "")                                                      *)
PassedName(variable) == IF IsInjected(variable) THEN Tail(variable.key) ELSE variable.key

(* The options are a function from their positions in the command, of which only the   *)
(* order counts: those of the inputs come first, whose values the caller gave, then    *)
(* one for each variable that is passed, in the order of the environment.              *)
Inputs ==
    << [name |-> <<"GCS_CLIENT_EMAIL">>, value |-> "input"], [name |-> <<"GCS_PRIVATE_KEY">>, value |-> "input"],
       [name |-> <<"GCS_PRIVATE_KEY_ID">>, value |-> "input"], [name |-> <<"GCS_PROJECT">>, value |-> "input"] >>

PassedAt(env) == {i \in 1..Len(env) : IsPassed(env[i])}
Passed(variable) == [name |-> PassedName(variable), value |-> variable.value]

InputsLast(env) ==
    [p \in PassedAt(env) \cup {Len(env) + i : i \in 1..4} |->
        IF p <= Len(env) THEN Passed(env[p]) ELSE Inputs[p - Len(env)]]

Args(env) ==
    [p \in 1..4 \cup {4 + i : i \in PassedAt(env)} |-> IF p <= 4 THEN Inputs[p] ELSE Passed(env[p - 4])]

(* docker run: of two options with one name the later one counts, and an option        *)
(* without a name is refused.                                                          *)
Accepted(options) == \A p \in DOMAIN options : options[p].name # <<>>

IsLast(options, name, p) ==
    /\ p \in DOMAIN options /\ options[p].name = name
    /\ \A q \in DOMAIN options : options[q].name = name => q <= p

ContainerEnv(options) ==
    [name \in {options[p].name : p \in DOMAIN options} |-> options[CHOOSE p \in DOMAIN options : IsLast(options, name, p)].value]
==================================================================================
