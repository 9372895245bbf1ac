-------------------------------- MODULE StageMemo --------------------------------
(* What stageStatusCache promises, with no files, bucket or retries: a memory of *)
(* the stages that succeeded. A request for a stage either runs it, and a        *)
(* success is remembered, or skips it, which takes a remembered success and a    *)
(* request that does not insist on running.                                      *)
CONSTANTS Clients, Stages

VARIABLES
    request,  \* what each client asks for: a stage, and whether it insists
    phase,    \* how far the request is
    memo      \* the stages remembered as successful

vars == <<request, phase, memo>>

Requests == [stage : Stages, insists : BOOLEAN]

Idle == {"idle", "ok", "skipped", "failed"}

Init ==
    /\ request \in [Clients -> Requests]
    /\ phase = [c \in Clients |-> "idle"]
    /\ memo = {}

Ask(c) ==
    /\ phase[c] \in Idle
    /\ \E r \in Requests : request' = [request EXCEPT ![c] = r]
    /\ phase' = [phase EXCEPT ![c] = "asked"]
    /\ UNCHANGED memo

Skip(c) ==
    /\ phase[c] = "asked"
    /\ ~request[c].insists /\ request[c].stage \in memo
    /\ phase' = [phase EXCEPT ![c] = "skipped"]
    /\ UNCHANGED <<request, memo>>

Run(c) ==
    /\ phase[c] = "asked"
    /\ phase' = [phase EXCEPT ![c] = "ran"]
    /\ memo' = memo \cup {request[c].stage}
    /\ UNCHANGED request

Finish(c) ==
    /\ phase[c] = "ran"
    /\ phase' = [phase EXCEPT ![c] = "ok"]
    /\ UNCHANGED <<request, memo>>

Fail(c) ==
    /\ phase[c] \in {"asked", "ran"}
    /\ phase' = [phase EXCEPT ![c] = "failed"]
    /\ UNCHANGED <<request, memo>>

Next == \E c \in Clients : Ask(c) \/ Skip(c) \/ Run(c) \/ Finish(c) \/ Fail(c)

Spec == Init /\ [][Next]_vars
================================================================================
