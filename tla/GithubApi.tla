-------------------------------- MODULE GithubApi --------------------------------
(* apiVars/githubApiCall.groovy within one build: parallel branches call GitHub with *)
(* one token, and share a cache whose key is the token and the URL. A call with   *)
(* noCache asks anyway, and still stores the answer. Reads of reviews and the     *)
(* like use the cache, those of comments do not; releases are created and         *)
(* published by POSTs that do.                                                    *)
EXTENDS Naturals, Sequences

CONSTANTS
    Branches,     \* parallel branches of the build
    Pages,        \* the URLs that are read
    Tags,         \* the releases that are created
    MaxVersion,   \* a bound on the changes of a page
    MaxReleases,  \* a bound on the releases
    Nothing,      \* not cached, or no answer yet
    Error         \* [message: ...], what a failed request is turned into

(* The URLs of pages are none of those of the releases, see Urls.                 *)
ASSUME ApiAssumption ==
    /\ MaxVersion \in Nat /\ MaxReleases \in Nat
    /\ Nothing # Error /\ {Nothing, Error} \cap Nat = {}
    /\ Pages \cap (0..MaxReleases) = {}

VARIABLES
    cache,        \* the @Field of the script, by URL
    page,         \* GitHub: how often each page has changed
    releases,     \* GitHub: the releases, in order of creation
    call          \* each branch: its current or its last call

apiVars == <<cache, page, releases, call>>

ReleasesUrl == 0                                       \* .../releases
Urls == Pages \cup {ReleasesUrl} \cup (1..MaxReleases) \* .../releases/<id>
Answers == Nat \cup {Nothing, Error}

Reads     == [op : {"read"}, url : Pages, noCache : BOOLEAN]
Creates   == [op : {"create"}, url : {ReleasesUrl}, noCache : {FALSE}, tag : Tags, draft : BOOLEAN]
Publishes == [op : {"publish"}, url : 1..MaxReleases, noCache : {FALSE}]
Requests  == Reads \cup Creates \cup Publishes

Calls ==
    [at : {"called", "asking", "returned", "threw"},
     request : Requests,
     answer : Answers,
     since : 0..MaxVersion]       \* what a page read showed when it was called

Idle == [at |-> "returned"]

ApiInit ==
    /\ cache = [u \in Urls |-> Nothing]
    /\ page = [p \in Pages |-> 0]
    /\ releases = <<>>
    /\ call = [b \in Branches |-> Idle]

CallBecomes(b, new) == call' = [call EXCEPT ![b] = new]

(* The steps around it: githubPrReviews, githubPrInfo, githubRepoGetUserPermission *)
(* and isMemberOf read through the cache; githubPrLatestComment and the like do   *)
(* not; githubReleaseCreate and githubReleasePublish send data and use the cache. *)
Call(b, r) ==
    /\ call[b].at \in {"returned", "threw"}
    /\ r.op = "publish" => r.url <= Len(releases)
    /\ CallBecomes(b, [at |-> "called", request |-> r, answer |-> Nothing,
                  since |-> IF r.op = "read" THEN page[r.url] ELSE 0])
    /\ UNCHANGED <<cache, page, releases>>

HitAnyway(b) ==
    LET r == call[b].request IN
    /\ call[b].at = "called"
    /\ cache[r.url] # Nothing
    /\ CallBecomes(b, [call[b] EXCEPT !.at = "returned", !.answer = cache[r.url]])
    /\ UNCHANGED <<cache, page, releases>>

Hit(b) ==
    LET r == call[b].request IN
    /\ call[b].at = "called"
    /\ cache[r.url] # Nothing /\ ~r.noCache
    /\ CallBecomes(b, [call[b] EXCEPT !.at = "returned", !.answer = cache[r.url]])
    /\ UNCHANGED <<cache, page, releases>>

Miss(b) ==
    LET r == call[b].request IN
    /\ call[b].at = "called"
    /\ cache[r.url] = Nothing \/ r.noCache
    /\ CallBecomes(b, [call[b] EXCEPT !.at = "asking"])
    /\ UNCHANGED <<cache, page, releases>>

(* What GitHub does for a request, and the answer it has then.                    *)
Effect(r) ==
    CASE r.op = "read" -> releases' = releases
      [] r.op = "create" ->
             /\ Len(releases) < MaxReleases
             /\ releases' = Append(releases, [tag |-> r.tag, draft |-> r.draft])
      [] r.op = "publish" -> releases' = [releases EXCEPT ![r.url].draft = FALSE]

AnswerTo(r) ==
    CASE r.op = "read" -> page[r.url]
      [] r.op = "create" -> Len(releases')
      [] r.op = "publish" -> r.url

CachedBeforeTheAnswer(b) ==
    LET r == call[b].request IN
    /\ call[b].at = "asking"
    /\ Effect(r)
    /\ cache' = [cache EXCEPT ![r.url] = IF r.op = "read" THEN call[b].since ELSE AnswerTo(r)]
    /\ CallBecomes(b, [call[b] EXCEPT !.at = "returned", !.answer = AnswerTo(r)])
    /\ UNCHANGED page

(* The request, the store into the cache and the return of the answer: no step of *)
(* Jenkins runs between them.                                                     *)
Answered(b) ==
    LET r == call[b].request IN
    /\ call[b].at = "asking"
    /\ Effect(r)
    /\ cache' = [cache EXCEPT ![r.url] = AnswerTo(r)]
    /\ CallBecomes(b, [call[b] EXCEPT !.at = "returned", !.answer = AnswerTo(r)])
    /\ UNCHANGED page

(* The request throws, perhaps after GitHub did it: the message is the answer of a *)
(* call with failNever and the error of any other, and it is not stored.          *)
Fails(b) ==
    LET r == call[b].request IN
    /\ call[b].at = "asking"
    /\ Effect(r) \/ UNCHANGED releases
    /\ \E at \in {"threw", "returned"} : CallBecomes(b, [call[b] EXCEPT !.at = at, !.answer = Error])
    /\ UNCHANGED <<cache, page>>

(* Somebody else changes what a page shows.                                       *)
Change(p) ==
    /\ page[p] < MaxVersion
    /\ page' = [page EXCEPT ![p] = page[p] + 1]
    /\ UNCHANGED <<cache, releases, call>>

ApiNext ==
    \/ \E b \in Branches : (\E r \in Requests : Call(b, r)) \/ Hit(b) \/ Miss(b) \/ Answered(b) \/ Fails(b)
    \/ \E p \in Pages : Change(p)

ApiSpec == ApiInit /\ [][ApiNext]_apiVars
--------------------------------------------------------------------------------
ApiTypeOK ==
    /\ cache \in [Urls -> Answers]
    /\ page \in [Pages -> 0..MaxVersion]
    /\ releases \in Seq([tag : Tags, draft : BOOLEAN])
    /\ call \in [Branches -> Calls \cup {Idle}]
    /\ \A u \in Urls : cache[u] # Error

Answer(b) == call[b].at = "returned" /\ call[b] # Idle /\ call[b].answer # Error

(* A read that asks for no cache shows the page no older than when it was called, *)
(* whatever the other branches cache meanwhile.                                   *)
UncachedIsFresh ==
    \A b \in Branches :
        Answer(b) /\ call[b].request.op = "read" /\ call[b].request.noCache =>
            call[b].answer >= call[b].since

(* A page that was cached is never replaced by an older one: two branches that    *)
(* both missed store in the order in which GitHub answered.                       *)
CacheNeverGoesBack ==
    [][\A p \in Pages : cache[p] # Nothing => cache'[p] # Nothing /\ cache'[p] >= cache[p]]_apiVars

(* "Create a GitHub release for a project": a create that returned a release made *)
(* one for its tag.                                                               *)
CreatedIsForItsTag ==
    \A b \in Branches :
        Answer(b) /\ call[b].request.op = "create" =>
            releases[call[b].answer].tag = call[b].request.tag
================================================================================
