----------------------------- MODULE ModelRegistry -----------------------------
(***************************************************************************)
(* The rows of model_registry with their model_backend_routes, the admin   *)
(* handlers and the seeding that change them, and the choice of a model    *)
(* and its routes for a request.                                           *)
(*                                                                         *)
(* A handler reads rows into its session, decides on these copies (mem)    *)
(* and at its commit writes the columns in which the wanted rows (want)    *)
(* differ from them, by primary key.  No row is read FOR UPDATE.  It reads *)
(* in steps: the model, or the models of the seeds one after the other,    *)
(* the rows marked as default, and the routes that                         *)
(* _sync_model_backend_routes compares with its payload.                   *)
(***************************************************************************)
EXTENDS Naturals, Sequences, FiniteSets

CONSTANTS
    Models,      \* primary keys
    Ids, Aliases,   \* model_id and model_alias, as requests name them
    NoName,
    DefaultName, \* "default", as a request may call its model
    Backends, NoBackend,
    Unset,       \* no model, a copy not read, a field or a payload not given
    Creations,   \* the payloads of POST /admin/models
    Patches,     \* the payloads of PATCH /admin/models/{id}
    Seeds,       \* <<[id, alias, backend, fallback]>>: calls of _ensure_model_entry
    SeedUp,      \* is_active of a seeded backend in the seeding session
    Sessions,    \* sessions of admin requests and process starts
    MaxOps,      \* bound on their operations
    MaxActive    \* bound on sessions open at the same time

RouteState == {"none", "on", "off"}    \* "off" is state "disabled"

Row == [live : BOOLEAN, id : Ids \cup Models \cup {NoName},
        alias : Aliases \cup Models \cup {NoName},
        active : BOOLEAN, default : BOOLEAN,
        primary : Backends \cup {NoBackend}, routes : [Backends -> RouteState]]
NoRoutes == [b \in Backends |-> "none"]
Absent == [live |-> FALSE, id |-> NoName, alias |-> NoName, active |-> FALSE,
           default |-> FALSE, primary |-> NoBackend, routes |-> NoRoutes]
NothingRead == [m \in Models |-> Unset]

ASSUME RegistryAssumption ==
    /\ Creations \subseteq [id : Ids, alias : Aliases \cup {NoName}, active : BOOLEAN,
                            default : BOOLEAN, primary : Backends \cup {NoBackend},
                            routes : [Backends -> RouteState]]
    /\ Patches \subseteq [alias : Aliases \cup {NoName, Unset}, active : BOOLEAN \cup {Unset},
                          default : BOOLEAN \cup {Unset},
                          primary : Backends \cup {NoBackend, Unset},
                          routes : [Backends -> RouteState] \cup {Unset}]
    /\ Seeds \in Seq([id : Ids, alias : Aliases, backend : Backends,
                      fallback : SUBSET Backends])
    /\ Seeds # <<>>
    /\ \A i, k \in 1..Len(Seeds) :
          Seeds[i].id = Seeds[k].id \/ Seeds[i].alias = Seeds[k].alias => i = k
    /\ SeedUp \in [Backends -> BOOLEAN]
    /\ NoName \notin Ids \cup Aliases \cup Models
    /\ NoBackend \notin Backends
    /\ Unset \notin Models \cup Backends \cup Aliases \cup {NoName, NoBackend} \cup BOOLEAN
    /\ Unset \notin Row /\ Unset \notin [Backends -> RouteState]
    /\ MaxOps \in Nat /\ MaxActive \in Nat

VARIABLES
    row,        \* the committed rows
    step, keeper, payload,   \* session-local: next read, model, routes to be
    seeded,     \* session-local: seeds that a start has gone through
    mem, want,               \* session-local: copies read, rows wanted
    alone,      \* history: no other session has been open beside this one
    overlapped, \* history: two sessions have been open at the same time
    forced,     \* history: a model was made default and left inactive
    ops

sessionVars == <<step, keeper, payload, seeded, mem, want>>
vars == <<row, sessionVars, alone, overlapped, forced, ops>>

\* Steps of a session:
\*   idle      no transaction             seeds     the query for the next seed
\*   defaults  the query for the defaults routes    the query for the routes
\*   commit
Step == {"idle", "seeds", "defaults", "routes", "commit"}

TypeOK ==
    /\ row \in [Models -> Row]
    /\ step \in [Sessions -> Step]
    /\ keeper \in [Sessions -> Models \cup {Unset}]
    /\ payload \in [Sessions -> {Unset} \cup [Backends -> RouteState]]
    /\ seeded \in [Sessions -> 0..Len(Seeds)]
    /\ mem \in [Sessions -> [Models -> Row \cup {Unset}]]
    /\ want \in [Sessions -> [Models -> Row \cup {Unset}]]
    /\ alone \in [Sessions -> BOOLEAN]
    /\ overlapped \in BOOLEAN /\ forced \in BOOLEAN
    /\ ops \in Nat

\* What the i-th call of _ensure_model_entry, with its routes, makes of a row;
\* the first seed is the default model.
Seeded(i, r) ==
    LET x == Seeds[i] IN
    [live |-> TRUE, id |-> IF r.live THEN r.id ELSE x.id, alias |-> x.alias,
     active |-> i = 1 \/ SeedUp[x.backend], default |-> i = 1,
     primary |-> x.backend,
     routes |-> [b \in Backends |->
         IF b \in {x.backend} \cup x.fallback THEN IF SeedUp[b] THEN "on" ELSE "off"
         ELSE r.routes[b]]]

\* The first start has seeded an empty table.
Init ==
    /\ \E f \in [1..Len(Seeds) -> Models] :
          /\ \A i, k \in 1..Len(Seeds) : f[i] = f[k] => i = k
          /\ row = [m \in Models |-> IF \E i \in 1..Len(Seeds) : f[i] = m
                                     THEN Seeded(CHOOSE i \in 1..Len(Seeds) : f[i] = m, Absent)
                                     ELSE Absent]
    /\ step = [s \in Sessions |-> "idle"]
    /\ keeper = [s \in Sessions |-> Unset]
    /\ payload = [s \in Sessions |-> Unset]
    /\ seeded = [s \in Sessions |-> 0]
    /\ mem = [s \in Sessions |-> NothingRead]
    /\ want = [s \in Sessions |-> NothingRead]
    /\ alone = [s \in Sessions |-> TRUE]
    /\ overlapped = FALSE /\ forced = FALSE
    /\ ops = 0

-------------------------------------------------------------------------------
(***************************************************************************)
(* The handlers up to their first read and the checks on it.               *)
(***************************************************************************)

Active == {s \in Sessions : step[s] # "idle"}

\* A session that has read the rows old and wants new of them; m is to be the
\* default if it asks for the others, R the routes if it is to set them.
Open(s, old, new, m, R, next) ==
    /\ step[s] = "idle"
    /\ Cardinality(Active) < MaxActive
    /\ ops < MaxOps
    /\ ops' = ops + 1
    /\ mem' = [mem EXCEPT ![s] = old]
    /\ want' = [want EXCEPT ![s] = new]
    /\ keeper' = [keeper EXCEPT ![s] = m]
    /\ payload' = [payload EXCEPT ![s] = R]
    /\ step' = [step EXCEPT ![s] = next]
    /\ alone' = [u \in Sessions |-> IF u = s THEN Active = {} ELSE u \notin Active]
    /\ overlapped' = (overlapped \/ Active # {})
    /\ UNCHANGED <<row, forced>>

\* One row is read and wanted changed.
Change(s, m, new, marks, R) ==
    /\ Open(s, [NothingRead EXCEPT ![m] = row[m]], [NothingRead EXCEPT ![m] = new],
            IF marks THEN m ELSE Unset, R,
            IF marks THEN "defaults" ELSE IF R # Unset THEN "routes" ELSE "commit")
    /\ UNCHANGED seeded

\* A primary key that no session uses.
Fresh(m) == ~row[m].live /\ \A s \in Sessions : want[s][m] = Unset

\* POST /admin/models: with no routes given, one to the primary backend.
CreateModel(s, m, p) ==
    /\ Fresh(m)
    /\ ~\E n \in Models :
          row[n].live /\ (row[n].id = p.id \/ (p.alias # NoName /\ row[n].alias = p.alias))
    /\ LET R == IF p.routes = NoRoutes /\ p.primary # NoBackend
                THEN [NoRoutes EXCEPT ![p.primary] = "on"] ELSE p.routes
       IN Change(s, m, [live |-> TRUE, id |-> p.id, alias |-> p.alias, active |-> p.active,
                        default |-> p.default, primary |-> p.primary, routes |-> NoRoutes],
                 p.default, IF R = NoRoutes THEN Unset ELSE R)

Given(x, current) == IF x = Unset THEN current ELSE x

\* PATCH /admin/models/{id}.  "default model cannot be disabled" looks at the
\* copy read.  Routes given replace the routes, whatever the primary backend;
\* without them a primary backend gets a route if the copy has none.
PatchModel(s, m, p) ==
    /\ row[m].live
    /\ p.alias \in Aliases => ~\E n \in Models \ {m} : row[n].live /\ row[n].alias = p.alias
    /\ ~(p.active = FALSE /\ row[m].default)
    /\ Change(s, m, [row[m] EXCEPT !.alias = Given(p.alias, @), !.active = Given(p.active, @),
                                   !.default = Given(p.default, @),
                                   !.primary = Given(p.primary, @)],
              p.default = TRUE,
              IF p.routes = Unset /\ p.primary \in Backends /\ row[m].routes[p.primary] = "none"
              THEN [row[m].routes EXCEPT ![p.primary] = "on"] ELSE p.routes)

SetDefaultModel(s, m) ==
    /\ row[m].live
    /\ Change(s, m, [row[m] EXCEPT !.default = TRUE, !.active = TRUE], TRUE, Unset)

\* POST /admin/models/{id}/routes: the routes read, and one more.
CreateModelRoute(s, m, b, st) ==
    /\ row[m].live
    /\ row[m].routes[b] = "none"
    /\ Change(s, m, [row[m] EXCEPT !.primary = IF @ = NoBackend THEN b ELSE @],
              FALSE, [row[m].routes EXCEPT ![b] = st])

DeleteModelRoute(s, m, b) ==
    /\ row[m].routes[b] # "none"
    /\ Change(s, m, [row[m] EXCEPT !.routes[b] = "none",
                                   !.primary = IF @ = b THEN NoBackend ELSE @],
              FALSE, Unset)

\* (An optional seeded model can also be refused here: "bonsai backend offline".)
EnableModel(s, m) ==
    /\ row[m].live
    /\ Change(s, m, [row[m] EXCEPT !.active = TRUE], FALSE, Unset)

\* Without the 409.
DisableAnyModel(s, m) ==
    /\ row[m].live
    /\ Change(s, m, [row[m] EXCEPT !.active = FALSE], FALSE, Unset)

DisableModel(s, m) ==
    /\ row[m].live
    /\ ~row[m].default
    /\ Change(s, m, [row[m] EXCEPT !.active = FALSE], FALSE, Unset)

\* archive_model_identity: the names get a suffix made of the primary key.
Archived(m) ==
    [row[m] EXCEPT !.id = m, !.alias = IF @ = NoName THEN NoName ELSE m,
                   !.active = FALSE, !.default = FALSE, !.primary = NoBackend]

\* DELETE /admin/models/{id}: soft with a request history, hard without, unless
\* the mode says soft.
DeleteModel(s, m, soft) ==
    /\ row[m].live
    /\ ~row[m].default
    /\ Change(s, m, IF soft THEN Archived(m) ELSE Absent, FALSE, NoRoutes)

\* A column as the commit leaves it: written if the session has changed it.
Col(old, new, current) == IF new # old THEN new ELSE current

Merged(s, m) ==
    LET o == mem[s][m]
        w == want[s][m]
        r == row[m]
    IN IF o.live /\ ~w.live THEN Absent
       ELSE [live |-> Col(o.live, w.live, r.live), id |-> Col(o.id, w.id, r.id),
             alias |-> Col(o.alias, w.alias, r.alias),
             active |-> Col(o.active, w.active, r.active),
             default |-> Col(o.default, w.default, r.default),
             primary |-> Col(o.primary, w.primary, r.primary),
             routes |-> [b \in Backends |-> Col(o.routes[b], w.routes[b], r.routes[b])]]

Touched(s) == {m \in Models : want[s][m] # Unset}

\* The rows as the session has flushed them, and as its commit leaves them.
Saved(s) == [m \in Models |-> IF m \in Touched(s) THEN Merged(s, m) ELSE row[m]]

\* The rows that the i-th call of _ensure_model_entry selects; with two of them
\* scalar_one_or_none raises and nothing is seeded.
Matches(s, i) ==
    LET seen == Saved(s) IN
    {m \in Models : seen[m].live /\ (seen[m].id = Seeds[i].id \/ seen[m].alias = Seeds[i].alias)}

\* The row that it updates or inserts.
Takes(s, i, m) == IF Matches(s, i) = {} THEN Fresh(m) ELSE Matches(s, i) = {m}

AfterSeed(i) == IF i = Len(Seeds) THEN "defaults" ELSE "seeds"

\* ensure_default_model, at every start of a process and by /models/reload: the
\* model of the first seed is to be the default ...
EnsureDefaultModel(s) ==
    \E m \in Models :
        /\ Takes(s, 1, m)
        /\ Open(s, [NothingRead EXCEPT ![m] = row[m]],
                [NothingRead EXCEPT ![m] = Seeded(1, row[m])], m, Unset, AfterSeed(1))
        /\ seeded' = [seeded EXCEPT ![s] = 1]

\* ... and the next seeds take what the query finds, that model included.
EnsureModelEntry(s) ==
    LET i == seeded[s] + 1 IN
    /\ step[s] = "seeds"
    /\ \E m \in Models :
          /\ Takes(s, i, m)
          /\ mem' = [mem EXCEPT ![s][m] = IF @ = Unset THEN row[m] ELSE @]
          /\ want' = [want EXCEPT ![s][m] = Seeded(i, IF @ = Unset THEN row[m] ELSE @)]
    /\ seeded' = [seeded EXCEPT ![s] = i]
    /\ step' = [step EXCEPT ![s] = AfterSeed(i)]
    /\ UNCHANGED <<row, keeper, payload, alone, overlapped, forced, ops>>

-------------------------------------------------------------------------------
(***************************************************************************)
(* The later reads and the commit.                                         *)
(***************************************************************************)

\* Only the defaults that requests can reach.
OtherActiveDefaults(s) ==
    {m \in Models : row[m].live /\ row[m].default /\ row[m].active} \ {keeper[s]}

\* Without "!= model_id".
AllDefaults(s) == {m \in Models : row[m].live /\ row[m].default}

OtherDefaults(s) == {m \in Models : row[m].live /\ row[m].default} \ {keeper[s]}

\* The other defaults lose the mark.  Rows read before keep their copies.
ClearDefaults(s) ==
    LET copy(m) == IF mem[s][m] = Unset THEN row[m] ELSE mem[s][m]
        next(m) == IF want[s][m] = Unset THEN copy(m) ELSE want[s][m]
    IN
    /\ step[s] = "defaults"
    /\ mem' = [mem EXCEPT ![s] = [m \in Models |->
                  IF m \in OtherDefaults(s) THEN copy(m) ELSE @[m]]]
    /\ want' = [want EXCEPT ![s] = [m \in Models |->
                  IF m \in OtherDefaults(s) THEN [next(m) EXCEPT !.default = FALSE] ELSE @[m]]]
    /\ step' = [step EXCEPT ![s] = IF payload[s] = Unset THEN "commit" ELSE "routes"]
    /\ UNCHANGED <<row, keeper, payload, seeded, alone, overlapped, forced, ops>>

\* _sync_model_backend_routes, or remove_model_routes: the routes there are now
\* against those of the payload; a route read before keeps its copy.
SyncRoutes(s) ==
    /\ step[s] = "routes"
    /\ \E m \in Models :
          /\ want[s][m] # Unset /\ keeper[s] \in {m, Unset}
          /\ mem' = [mem EXCEPT ![s][m].routes = [b \in Backends |->
                        IF row[m].routes[b] = "none" \/ @[b] = "none"
                        THEN row[m].routes[b] ELSE @[b]]]
          /\ want' = [want EXCEPT ![s][m].routes = payload[s]]
    /\ step' = [step EXCEPT ![s] = "commit"]
    /\ UNCHANGED <<row, keeper, payload, seeded, alone, overlapped, forced, ops>>

\* The UPDATE of a row that is gone, a second route to a backend, the UPDATE
\* of a route that is gone (a DELETE of it passes), and the unique names.
Conflicts(s) ==
    \/ \E m \in Touched(s) :
          LET o == mem[s][m]
              w == want[s][m]
          IN /\ o.live /\ w.live
             /\ \/ ~row[m].live /\ (o # w \/ m = keeper[s])
                \/ \E b \in Backends :
                      /\ o.routes[b] # w.routes[b] \/ payload[s] # Unset
                      /\ w.routes[b] # "none"
                      /\ (o.routes[b] = "none") # (row[m].routes[b] = "none")
    \/ LET saved == Saved(s) IN
       \E m, n \in Models :
          /\ m # n /\ saved[m].live /\ saved[n].live
          /\ \/ saved[m].id = saved[n].id
             \/ saved[m].alias = saved[n].alias /\ saved[m].alias # NoName

Close(s) ==
    /\ step' = [step EXCEPT ![s] = "idle"]
    /\ keeper' = [keeper EXCEPT ![s] = Unset]
    /\ payload' = [payload EXCEPT ![s] = Unset]
    /\ seeded' = [seeded EXCEPT ![s] = 0]
    /\ mem' = [mem EXCEPT ![s] = NothingRead]
    /\ want' = [want EXCEPT ![s] = NothingRead]
    /\ alone' = [alone EXCEPT ![s] = TRUE]

Commit(s) ==
    /\ step[s] = "commit"
    /\ ~Conflicts(s)
    /\ row' = Saved(s)
    /\ forced' = \/ forced
                 \/ keeper[s] # Unset /\ row'[keeper[s]].default /\ ~row'[keeper[s]].active
    /\ Close(s)
    /\ UNCHANGED <<overlapped, ops>>

\* A conflict at the commit, a check that fails after the reads (a backend or
\* plan that does not exist), a deadlock or a lost connection: rolled back.
Abort(s) ==
    /\ step[s] # "idle"
    /\ Close(s)
    /\ UNCHANGED <<row, overlapped, forced, ops>>

Operation(s, m) ==
    \/ \E p \in Creations : CreateModel(s, m, p)
    \/ \E p \in Patches : PatchModel(s, m, p)
    \/ \E b \in Backends : DeleteModelRoute(s, m, b)
    \/ \E b \in Backends, st \in {"on", "off"} : CreateModelRoute(s, m, b, st)
    \/ SetDefaultModel(s, m) \/ EnableModel(s, m) \/ DisableModel(s, m)
    \/ \E soft \in BOOLEAN : DeleteModel(s, m, soft)

Next ==
    \E s \in Sessions :
        \/ \E m \in Models : Operation(s, m)
        \/ EnsureDefaultModel(s) \/ EnsureModelEntry(s)
        \/ ClearDefaults(s) \/ SyncRoutes(s) \/ Commit(s) \/ Abort(s)

Spec == Init /\ [][Next]_vars

-------------------------------------------------------------------------------
(***************************************************************************)
(* What a request gets while the backends with up[b] run (is_active).      *)
(***************************************************************************)

\* list_active_registry_models
Listed(up) == {m \in Models : row[m].live /\ row[m].active
                              /\ (row[m].primary = NoBackend \/ up[row[m].primary])}

Named(up) == {m \in Listed(up) : DefaultName \in {row[m].id, row[m].alias}}

\* resolve_requested_model for "default": the first of the models of that name,
\* or else of the listed ones, where a default comes before the others.
SelectedByDefault(up) ==
    LET pool == IF Named(up) # {} THEN Named(up) ELSE Listed(up)
        defaults == {m \in pool : row[m].default}
    IN IF defaults # {} THEN defaults ELSE pool

\* Only what the table of routes says.
CandidatesRoutesOnly(m, up) == {b \in Backends : row[m].routes[b] = "on" /\ up[b]}

\* get_routing_candidates: the primary backend stands in when no route is left.
Candidates(m, up) ==
    LET routes == {b \in Backends : row[m].routes[b] = "on" /\ up[b]} IN
    IF routes = {} THEN {b \in Backends : row[m].primary = b /\ up[b]} ELSE routes

-------------------------------------------------------------------------------
(***************************************************************************)
(* Properties.                                                             *)
(***************************************************************************)

Defaults == {m \in Models : row[m].live /\ row[m].default}

\* As long as admin operations and process starts follow one another, at most
\* one model is the default, whichever way the mark was moved, created, seeded
\* or removed with its model.
OneDefault == ~overlapped => Cardinality(Defaults) <= 1

\* "modelo default não pode ser removido nem desabilitado": unless operations
\* overlap, or one makes an inactive model the default, the default model is
\* active, and while its primary backend runs a request for "default" is sent
\* to it, if no other model bears that name, and finds a route, whatever
\* happened to its routes.
DefaultServes ==
    ~overlapped /\ ~forced =>
        \A d \in Defaults, up \in [Backends -> BOOLEAN] :
            /\ row[d].active
            /\ row[d].primary # NoBackend /\ up[row[d].primary] =>
                  /\ Named(up) \subseteq {d} => SelectedByDefault(up) = {d}
                  /\ Candidates(d, up) # {}

\* A row named like the first seed with the id of a later one.
TwoSeeds(m) ==
    /\ row[m].live /\ row[m].alias = Seeds[1].alias
    /\ \E i \in 2..Len(Seeds) : row[m].id = Seeds[i].id

\* An operation that marks a default and runs alone leaves exactly that one, also
\* when earlier ones have overlapped and left two or none; except that a start
\* which finds one row for the default seed and for another marks it, unmarks it
\* for the other seed, clears the rest and leaves no default.
DefaultDecided ==
    [][\A s \in Sessions : Commit(s) /\ keeper[s] # Unset /\ alone[s] =>
          Defaults' = IF seeded[s] > 0 /\ TwoSeeds(keeper[s]) THEN {} ELSE {keeper[s]}]_vars
===============================================================================
