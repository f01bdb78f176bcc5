----------------------------- MODULE ResponseCache -----------------------------
(***************************************************************************)
(* The exact response cache: rows of response_cache, found by endpoint,    *)
(* model and a hash of what is asked, valid for a fixed time.  Chat,       *)
(* portal and job requests look an answer up, and store the one they get   *)
(* from the backend; an administrator changes the client's system prompt,  *)
(* the model's prompt template, and clears the table.                      *)
(*                                                                         *)
(* One user message and one model are considered: two requests differ in   *)
(* their endpoint, in the system prompt they send and in the template they *)
(* are asked under.  The template is passed to the proxy beside the        *)
(* messages and is not part of the hash.  A request holds its copies of    *)
(* client and model while it runs.  Streams never reach the cache and are  *)
(* left out, as are /v1/completions, which fails before it, and the hit    *)
(* counters, which only the statistics read.                               *)
(***************************************************************************)
EXTENDS Naturals

CONSTANTS
    Requests,      \* concurrent requests and workers
    Prompts,       \* system prompts of the client
    NoPrompt,      \* no system prompt
    TTL,           \* response_cache_ttl_seconds
    NoRow,
    MaxClock,      \* bound on the clock
    MaxRequests,   \* bound on the requests made
    MaxChanges,    \* bound on the changes of prompt and template
    MaxClears      \* bound on the clearings

VARIABLES
    clock,
    prompt,      \* clients.system_prompt
    template,    \* model_registry.prompt_template, by version
    retiredAt,   \* history: when a version of the template was replaced
    rows,        \* response_cache
    req,         \* requests: program point and memory
    requests, changes, clears   \* counters for the bounds

vars == <<clock, prompt, template, retiredAt, rows, req, requests, changes, clears>>

Kinds == {"chat", "portal", "job"}
Endpoints == {"chat", "portal"}
Versions == 0..MaxChanges
Times == 0..(MaxClock + TTL)

\* What identifies a row: the endpoint and what the request hash covers.
RowKeys == [endpoint : Endpoints, prompt : Prompts]

\* An answer is determined by what the backend was asked.
Answers == [endpoint : Endpoints, prompt : Prompts, template : Versions]

\* A row; "id" tells a row from the one that took its place after a clearing,
\* and "late" (history) says that its template was replaced before it was stored.
Rows == [answer : Answers, expires : Times, id : 0..MaxClears, late : BOOLEAN]

ASSUME CacheAssumption ==
    /\ NoPrompt \in Prompts
    /\ TTL \in Nat \ {0}
    /\ {MaxClock, MaxRequests, MaxChanges, MaxClears} \subseteq Nat
    /\ NoRow \notin Rows

NoRequest == [pc |-> "idle", kind |-> "chat", prompt |-> NoPrompt, template |-> 0,
              row |-> NoRow, at |-> 0, touched |-> FALSE]

\* Program points: looking up (ready), a row was found (hit) or not (miss), the
\* answer is about to be inserted or to replace the row, or was lost (500).
\* "at" is the time of the lookup; "touched" (history): the row was inserted or
\* removed by others since it was read.
RequestState ==
    [pc : {"idle", "ready", "hit", "miss", "insert", "replace", "lost"},
     kind : Kinds, prompt : Prompts, template : Versions,
     row : Rows \cup {NoRow}, at : 0..MaxClock, touched : BOOLEAN]

TypeOK ==
    /\ clock \in 0..MaxClock
    /\ prompt \in Prompts
    /\ template \in Versions
    /\ retiredAt \in [Versions -> 0..MaxClock]
    /\ rows \in [RowKeys -> Rows \cup {NoRow}]
    /\ req \in [Requests -> RequestState]
    /\ requests \in 0..MaxRequests
    /\ changes \in 0..MaxChanges
    /\ clears \in 0..MaxClears

Init ==
    /\ clock = 0
    /\ prompt \in Prompts
    /\ template = 0
    /\ retiredAt = [v \in Versions |-> 0]
    /\ rows = [k \in RowKeys |-> NoRow]
    /\ req = [r \in Requests |-> NoRequest]
    /\ requests = 0
    /\ changes = 0
    /\ clears = 0
-------------------------------------------------------------------------------
\* A job is stored under the endpoint of the chat it stands for.
EndpointOf(kind) == IF kind = "job" THEN "chat" ELSE kind

\* A chat puts the client's system prompt first; the test chat of the portal and
\* the jobs send the messages as they came.
PromptOf(kind, p) == IF kind = "chat" THEN p ELSE NoPrompt

\* What the backend is asked.
Asked(r) == [endpoint |-> EndpointOf(req[r].kind), prompt |-> req[r].prompt,
             template |-> req[r].template]

\* The key is built from the payload, before the system prompt is applied.
KeyOfPayload(r) == [endpoint |-> EndpointOf(req[r].kind), prompt |-> NoPrompt]

\* build_chat_cache_key covers the messages, with the system prompt they begin with.
KeyOf(r) == [endpoint |-> EndpointOf(req[r].kind), prompt |-> req[r].prompt]

Answer(r) == req' = [req EXCEPT ![r] = NoRequest]
Lose(r) == req' = [req EXCEPT ![r] = [NoRequest EXCEPT !.pc = "lost", !.touched = req[r].touched]]

\* The identity of a row is its primary key, which every write goes by.
Present(r) == rows[KeyOf(r)] # NoRow /\ rows[KeyOf(r)].id = req[r].row.id

\* Others that work on the row of key k learn of its insertion too late.
Touch(k, r) ==
    [q \in Requests |->
        IF q # r /\ req[q].pc \in {"hit", "miss", "insert", "replace"} /\ KeyOf(q) = k
        THEN [req[q] EXCEPT !.touched = TRUE] ELSE req[q]]
-------------------------------------------------------------------------------
\* The request is authenticated and its model resolved: these are its copies.
Start(r, kind) ==
    /\ req[r].pc \in {"idle", "lost"}
    /\ requests < MaxRequests
    /\ requests' = requests + 1
    /\ req' = [req EXCEPT ![r] = [NoRequest EXCEPT !.pc = "ready", !.kind = kind,
                 !.prompt = PromptOf(kind, prompt), !.template = template]]
    /\ UNCHANGED <<clock, prompt, template, retiredAt, rows, changes, clears>>

\* A row is still good at the very moment it expires.
FoundAtExpiry(r) == rows[KeyOf(r)] # NoRow /\ rows[KeyOf(r)].expires >= clock

Found(r) == rows[KeyOf(r)] # NoRow /\ rows[KeyOf(r)].expires > clock

\* lookup_exact_cache.
Lookup(r) ==
    /\ req[r].pc = "ready"
    /\ req' = [req EXCEPT ![r].pc = IF Found(r) THEN "hit" ELSE "miss",
                          ![r].row = IF Found(r) THEN rows[KeyOf(r)] ELSE NoRow,
                          ![r].at = clock, ![r].touched = FALSE]
    /\ UNCHANGED <<clock, prompt, template, retiredAt, rows, requests, changes, clears>>

\* The hit is counted in the row when the usage is recorded.  If the table was
\* cleared since the lookup the UPDATE matches no row, which fails the request.
CommitHit(r) ==
    /\ req[r].pc = "hit"
    /\ IF Present(r) THEN Answer(r) ELSE Lose(r)
    /\ UNCHANGED <<clock, prompt, template, retiredAt, rows, requests, changes, clears>>

\* An error of the backend is logged and not stored.
BackendFails(r) ==
    /\ req[r].pc = "miss"
    /\ Answer(r)
    /\ UNCHANGED <<clock, prompt, template, retiredAt, rows, requests, changes, clears>>

Entry(r) == [answer |-> Asked(r), expires |-> clock + TTL, id |-> 0, late |-> FALSE]

\* The row to replace is looked for with the condition of the lookup.
StoreReadsFound(r) ==
    /\ req[r].pc = "miss"
    /\ req' = [req EXCEPT ![r].pc = IF Found(r) THEN "replace" ELSE "insert",
                          ![r].row = [Entry(r) EXCEPT !.id =
                             IF Found(r) THEN rows[KeyOf(r)].id ELSE 0],
                          ![r].touched = FALSE]
    /\ UNCHANGED <<clock, prompt, template, retiredAt, rows, requests, changes, clears>>

\* The backend has answered; store_exact_cache looks for a row, expired or not.
StoreReads(r) ==
    LET old == rows[KeyOf(r)] IN
    /\ req[r].pc = "miss"
    /\ req' = [req EXCEPT ![r].pc = IF old # NoRow THEN "replace" ELSE "insert",
                          ![r].row = [Entry(r) EXCEPT !.id = IF old # NoRow THEN old.id ELSE 0],
                          ![r].touched = FALSE]
    /\ UNCHANGED <<clock, prompt, template, retiredAt, rows, requests, changes, clears>>

Stored(r, id) == [req[r].row EXCEPT !.id = id, !.late = req[r].template # template]

\* A second row with the same key violates uq_response_cache_lookup.
CommitInsert(r) ==
    /\ req[r].pc = "insert"
    /\ \/ /\ rows[KeyOf(r)] = NoRow
          /\ rows' = [rows EXCEPT ![KeyOf(r)] = Stored(r, clears)]
          /\ req' = [Touch(KeyOf(r), r) EXCEPT ![r] = NoRequest]
       \/ /\ rows[KeyOf(r)] # NoRow
          /\ Lose(r)
          /\ UNCHANGED rows
    /\ UNCHANGED <<clock, prompt, template, retiredAt, requests, changes, clears>>

\* The UPDATE goes by the primary key: it fails when the row is gone.
CommitReplace(r) ==
    /\ req[r].pc = "replace"
    /\ \/ /\ Present(r)
          /\ rows' = [rows EXCEPT ![KeyOf(r)] = Stored(r, req[r].row.id)]
          /\ Answer(r)
       \/ /\ ~Present(r)
          /\ Lose(r)
          /\ UNCHANGED rows
    /\ UNCHANGED <<clock, prompt, template, retiredAt, requests, changes, clears>>
-------------------------------------------------------------------------------
Tick ==
    /\ clock < MaxClock
    /\ clock' = clock + 1
    /\ UNCHANGED <<prompt, template, retiredAt, rows, req, requests, changes, clears>>

PatchSystemPrompt(p) ==
    /\ changes < MaxChanges
    /\ p # prompt
    /\ prompt' = p
    /\ changes' = changes + 1
    /\ UNCHANGED <<clock, template, retiredAt, rows, req, requests, clears>>

\* No row is removed: answers given under the old template stay.
PatchPromptTemplate ==
    /\ changes < MaxChanges
    /\ template' = template + 1
    /\ retiredAt' = [retiredAt EXCEPT ![template] = clock]
    /\ changes' = changes + 1
    /\ UNCHANGED <<clock, prompt, rows, req, requests, clears>>

ClearResponseCache ==
    /\ clears < MaxClears
    /\ clears' = clears + 1
    /\ rows' = [k \in RowKeys |-> NoRow]
    /\ req' = [r \in Requests |-> IF req[r].pc \in {"hit", "miss", "insert", "replace"}
                                  THEN [req[r] EXCEPT !.touched = TRUE] ELSE req[r]]
    /\ UNCHANGED <<clock, prompt, template, retiredAt, requests, changes>>

RequestStep(r) ==
    \/ \E kind \in Kinds : Start(r, kind)
    \/ Lookup(r) \/ CommitHit(r) \/ BackendFails(r)
    \/ StoreReads(r) \/ CommitInsert(r) \/ CommitReplace(r)

\* Nothing is asked any more.
Quiet == (\A r \in Requests : req[r].pc \in {"idle", "lost"}) /\ UNCHANGED vars

Next ==
    \/ \E r \in Requests : RequestStep(r)
    \/ Tick \/ (\E p \in Prompts : PatchSystemPrompt(p))
    \/ PatchPromptTemplate \/ ClearResponseCache
    \/ Quiet

Spec == Init /\ [][Next]_vars
-------------------------------------------------------------------------------
IsHit(r) == req[r].pc = "hit"

\* A cached answer was given to the question this request asks: the same endpoint
\* and the system prompt it was asked with, whatever that has been changed to by now.
HitAnswersTheQuestion ==
    \A r \in Requests : IsHit(r) =>
        LET a == req[r].row.answer IN
        /\ a.endpoint = EndpointOf(req[r].kind)
        /\ a.prompt = req[r].prompt

\* A request may be answered as it was under an older template than its own, but only
\* for less than the TTL after that template was replaced, unless the answer was
\* stored after the replacement by a request that had been under way.
StaleTemplateBounded ==
    \A r \in Requests : IsHit(r) =>
        LET a == req[r].row.answer IN
        a.template < req[r].template =>
            req[r].at < retiredAt[a.template] + TTL \/ req[r].row.late

\* As far as the cache goes, an answer is lost after the backend has given it, or
\* the cache has, only when another request inserted the same row, or the table was
\* cleared, in between.
LostOnlyByRace == \A r \in Requests : req[r].pc = "lost" => req[r].touched
===============================================================================
