------------------------------ MODULE MCBuildStatus ------------------------------
(* Instances of BuildStatus for TLC. The environments have a variable that replaces  *)
(* another one of GitHub's, before and after it, one that replaces a credential, one *)
(* that is not passed on, and the prefix alone, which makes an option without a name. *)
EXTENDS BuildStatus

Var(key, value) == [key |-> key, value |-> value]
GithubToken == Var(Token, "github")
InjectedToken == Var(<<"SNAPSHOTY_">> \o Token, "injected")
InjectedProject == Var(<<"SNAPSHOTY_", "GCS_PROJECT">>, "injected")
Home == Var(<<"HOME">>, "home")

Setup(event, channel, status, env) == [event |-> event, channel |-> channel, status |-> status, env |-> env]

MCSetups ==
    {Setup("pull_request", TRUE, "auto", <<InjectedToken, Home, GithubToken, InjectedProject>>),
     Setup("push", FALSE, "auto", <<Var(<<"SNAPSHOTY_">>, "injected"), Home>>),
     Setup("pull_request_target", TRUE, "", <<GithubToken, InjectedToken>>)}
==================================================================================
