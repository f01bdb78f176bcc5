-------------------------- MODULE ModelRegistryProofs --------------------------
(***************************************************************************)
(* Proofs about ModelRegistry for any number of models, backends, seeds,   *)
(* payloads and sessions.                                                  *)
(***************************************************************************)
EXTENDS ModelRegistry, FiniteSetTheorems, TLAPS

Rows == [Models -> Row \cup {Unset}]
Routes == {Unset} \cup [Backends -> RouteState]

\* An operation that makes k the default wants the mark on no other row, and on
\* k unless it is a start that has gone through n seeds.
MarksOnly(new, k, n) ==
    k # Unset =>
        /\ new[k] # Unset /\ new[k].live
        /\ n = 0 => new[k].default
        /\ \A m \in Models \ {k} : new[m] = Unset \/ ~new[m].default

\* Any other operation marks no row that is not marked, and disables no default.
KeepsMarks(new, k) ==
    k = Unset =>
        \A m \in Models : new[m] # Unset /\ new[m].live /\ new[m].default =>
            /\ row[m].live /\ row[m].default
            /\ row[m].active => new[m].active

\* The row of the default seed is also that of one of the seeds up to the n-th.
Twice(k, n) == row[k].live /\ \E i \in 2..n : row[k].id = Seeds[i].id

\* A start alone that has gone through n seeds has taken k for the first one, and
\* wants it marked unless k has answered for another one since.
SeedsSound(new, k, n, at) ==
    n > 0 =>
        /\ k # Unset
        /\ row[k].live => row[k].id = Seeds[1].id \/ row[k].alias = Seeds[1].alias
        /\ new[k].default <=> ~Twice(k, n)
        /\ at = "seeds" /\ new[k].default =>
              /\ new[k].alias = Seeds[1].alias
              /\ new[k].id = IF row[k].live THEN row[k].id ELSE Seeds[1].id

\* How far through the seeds a session is at a step.
Progress(at, n) ==
    /\ at = "idle" => n = 0
    /\ at = "seeds" => n \in 1..(Len(Seeds) - 1)
    /\ at \notin {"idle", "seeds"} => n \in {0, Len(Seeds)}

\* What a session holds, whoever else is there.
SessionSound(s) ==
    /\ \A m \in Models : mem[s][m] = Unset <=> want[s][m] = Unset
    /\ step[s] = "routes" => payload[s] # Unset
    /\ step[s] \in {"seeds", "defaults"} => keeper[s] # Unset
    /\ IF step[s] = "idle" THEN want[s] = NothingRead
       ELSE MarksOnly(want[s], keeper[s], seeded[s])
    /\ Progress(step[s], seeded[s])

\* A session that has had no company holds rows as they are, and once it has
\* asked for the other defaults it wants them changed.
AloneSound(s) ==
    step[s] # "idle" /\ alone[s] =>
        /\ \A u \in Sessions : step[u] # "idle" => u = s
        /\ \A m \in Models : mem[s][m] \in {Unset, row[m]}
        /\ KeepsMarks(want[s], keeper[s])
        /\ SeedsSound(want[s], keeper[s], seeded[s], step[s])
        /\ keeper[s] # Unset /\ step[s] \notin {"seeds", "defaults"} =>
              \A m \in Models \ {keeper[s]} : row[m].live /\ row[m].default => want[s][m] # Unset

InOrder == ~overlapped => \A s \in Sessions : step[s] # "idle" => alone[s]

Marked(m) == row[m].live /\ row[m].default

DefaultSound ==
    ~overlapped =>
        /\ \A m, n \in Models : Marked(m) /\ Marked(n) => m = n
        /\ ~forced => \A m \in Models : Marked(m) => row[m].active

IInv ==
    /\ TypeOK
    /\ \A s \in Sessions : SessionSound(s) /\ AloneSound(s)
    /\ InOrder
    /\ DefaultSound

-------------------------------------------------------------------------------
\* The rows that a model starts from and is left as.
LEMMA RowTypes ==
    /\ NoRoutes \in [Backends -> RouteState]
    /\ Absent \in Row
    /\ NothingRead \in Rows
    /\ Unset \notin Row
  BY RegistryAssumption DEF NoRoutes, RouteState, Absent, Row, NothingRead, Rows

\* The seeds are distinct and there is a first one.
LEMMA SeedTypes ==
    /\ Len(Seeds) \in Nat /\ Len(Seeds) > 0
    /\ \A i \in 1..Len(Seeds) :
          /\ Seeds[i] \in [id : Ids, alias : Aliases, backend : Backends,
                           fallback : SUBSET Backends]
          /\ i # 1 => Seeds[i].id # Seeds[1].id /\ Seeds[i].alias # Seeds[1].alias
  <1> DEFINE S == [id : Ids, alias : Aliases, backend : Backends, fallback : SUBSET Backends]
  <1>1. Seeds \in Seq(S) /\ Seeds # <<>>
    BY RegistryAssumption
  <1> HIDE DEF S
  <1>2. Len(Seeds) \in Nat /\ Len(Seeds) > 0 /\ \A i \in 1..Len(Seeds) : Seeds[i] \in S
    BY <1>1
  <1>3. \A i, k \in 1..Len(Seeds) :
           Seeds[i].id = Seeds[k].id \/ Seeds[i].alias = Seeds[k].alias => i = k
    BY RegistryAssumption
  <1>4. \A i \in 1..Len(Seeds) :
           i # 1 => Seeds[i].id # Seeds[1].id /\ Seeds[i].alias # Seeds[1].alias
    BY <1>2, <1>3
  <1> QED BY <1>2, <1>4 DEF S

\* A seeded row is one of the table, live, named as the seed, and the default, an
\* active one, for the first seed only.
LEMMA SeededRow ==
    ASSUME NEW i \in 1..Len(Seeds), NEW r \in Row
    PROVE  /\ Seeded(i, r) \in Row
           /\ Seeded(i, r).live
           /\ Seeded(i, r).default = (i = 1)
           /\ i = 1 => Seeded(i, r).active
           /\ Seeded(i, r).alias = Seeds[i].alias
           /\ Seeded(i, r).id = IF r.live THEN r.id ELSE Seeds[i].id
  <1> DEFINE x == Seeds[i]
  <1>1. x \in [id : Ids, alias : Aliases, backend : Backends, fallback : SUBSET Backends]
    BY SeedTypes
  <1> HIDE DEF x
  <1>2. SeedUp \in [Backends -> BOOLEAN]
    BY RegistryAssumption
  <1>3. [b \in Backends |->
         IF b \in {x.backend} \cup x.fallback THEN IF SeedUp[b] THEN "on" ELSE "off"
         ELSE r.routes[b]] \in [Backends -> RouteState]
    BY <1>1, <1>2 DEF Row, RouteState
  <1>4. (i = 1 \/ SeedUp[x.backend]) \in BOOLEAN
    BY <1>1, <1>2
  <1>5. Seeded(i, r) =
    [live |-> TRUE, id |-> IF r.live THEN r.id ELSE x.id, alias |-> x.alias,
     active |-> i = 1 \/ SeedUp[x.backend], default |-> i = 1,
     primary |-> x.backend,
     routes |-> [b \in Backends |->
         IF b \in {x.backend} \cup x.fallback THEN IF SeedUp[b] THEN "on" ELSE "off"
         ELSE r.routes[b]]]
    BY DEF Seeded, x
  <1> DEFINE R == [b \in Backends |->
                     IF b \in {x.backend} \cup x.fallback THEN IF SeedUp[b] THEN "on" ELSE "off"
                     ELSE r.routes[b]]
             up == i = 1 \/ SeedUp[x.backend]
             name == IF r.live THEN r.id ELSE x.id
  <1>6. name \in Ids \cup Models \cup {NoName} /\ x.alias \in Aliases /\ x.backend \in Backends
    BY <1>1 DEF Row
  <1>7. /\ Seeded(i, r) = [live |-> TRUE, id |-> name, alias |-> x.alias, active |-> up,
                           default |-> i = 1, primary |-> x.backend, routes |-> R]
        /\ R \in [Backends -> RouteState] /\ up \in BOOLEAN /\ (i = 1 => up)
        /\ (i = 1) \in BOOLEAN
    BY <1>3, <1>4, <1>5
  <1> HIDE DEF R, up, name
  <1>8. Seeded(i, r) \in Row
    BY <1>6, <1>7 DEF Row
  <1>9. /\ Seeded(i, r).live /\ Seeded(i, r).default = (i = 1)
        /\ (i = 1 => Seeded(i, r).active)
        /\ Seeded(i, r).alias = x.alias /\ Seeded(i, r).id = name
    BY <1>7
  <1> QED BY <1>8, <1>9 DEF x, name

\* The first start marks one model, and activates it.
LEMMA InitIInv == Init => IInv
  <1> SUFFICES ASSUME Init PROVE IInv
    OBVIOUS
  <1> PICK f \in [1..Len(Seeds) -> Models] :
          /\ \A i, k \in 1..Len(Seeds) : f[i] = f[k] => i = k
          /\ row = [m \in Models |-> IF \E i \in 1..Len(Seeds) : f[i] = m
                                     THEN Seeded(CHOOSE i \in 1..Len(Seeds) : f[i] = m, Absent)
                                     ELSE Absent]
    BY DEF Init
  <1>1. ASSUME NEW m \in Models
        PROVE  /\ row[m] \in Row
               /\ Marked(m) => row[m].active /\ f[1] = m
    <2>1. CASE \E i \in 1..Len(Seeds) : f[i] = m
      <3> PICK i \in 1..Len(Seeds) : i = (CHOOSE k \in 1..Len(Seeds) : f[k] = m) /\ f[i] = m
        BY <2>1
      <3>1. row[m] = Seeded(i, Absent)
        BY <2>1
      <3> QED BY <3>1, SeededRow, RowTypes DEF Marked
    <2>2. CASE ~\E i \in 1..Len(Seeds) : f[i] = m
      BY <2>2, RowTypes DEF Marked, Absent
    <2> QED BY <2>1, <2>2
  <1>2. TypeOK
    <2>1. row \in [Models -> Row]
      BY <1>1
    <2>2. 0 \in 0..Len(Seeds)
      BY SeedTypes
    <2>3. /\ step \in [Sessions -> Step] /\ keeper \in [Sessions -> Models \cup {Unset}]
          /\ payload \in [Sessions -> {Unset} \cup [Backends -> RouteState]]
          /\ seeded \in [Sessions -> 0..Len(Seeds)]
          /\ alone \in [Sessions -> BOOLEAN] /\ overlapped \in BOOLEAN /\ forced \in BOOLEAN
          /\ ops \in Nat
      BY <2>2 DEF Init, Step
    <2>4. /\ mem \in [Sessions -> [Models -> Row \cup {Unset}]]
          /\ want \in [Sessions -> [Models -> Row \cup {Unset}]]
      BY RowTypes DEF Init, Rows
    <2> QED BY <2>1, <2>3, <2>4 DEF TypeOK
  <1>3. \A s \in Sessions : SessionSound(s) /\ AloneSound(s)
    BY DEF Init, SessionSound, AloneSound, Progress
  <1>4. DefaultSound
    BY <1>1 DEF DefaultSound
  <1> QED BY <1>2, <1>3, <1>4 DEF IInv, InOrder, Init

-------------------------------------------------------------------------------
\* A session opens: what its operation must not want.
LEMMA OpenIInv ==
    ASSUME IInv, NEW s \in Sessions, NEW old \in Rows, NEW new \in Rows,
           NEW k \in Models \cup {Unset}, NEW R \in Routes,
           NEW next \in Step \ {"idle"}, NEW n \in 0..Len(Seeds),
           \A m \in Models : old[m] = Unset <=> new[m] = Unset,
           \A m \in Models : old[m] \in {Unset, row[m]},
           MarksOnly(new, k, n), KeepsMarks(new, k), SeedsSound(new, k, n, next),
           Progress(next, n),
           next = "routes" => R # Unset,
           next \in {"seeds", "defaults"} <=> k # Unset,
           Open(s, old, new, k, R, next),
           seeded' = [seeded EXCEPT ![s] = n]
    PROVE  IInv'
  <1> USE DEF IInv, Open
  <1>1. TypeOK'
    <2>1. alone' \in [Sessions -> BOOLEAN] /\ overlapped' \in BOOLEAN
      BY DEF TypeOK
    <2>2. step' \in [Sessions -> Step] /\ seeded' \in [Sessions -> 0..Len(Seeds)]
      BY DEF TypeOK
    <2>3. ops' \in Nat
      BY DEF TypeOK
    <2>4. /\ keeper' \in [Sessions -> Models \cup {Unset}]
          /\ payload' \in [Sessions -> {Unset} \cup [Backends -> RouteState]]
          /\ mem' \in [Sessions -> [Models -> Row \cup {Unset}]]
          /\ want' \in [Sessions -> [Models -> Row \cup {Unset}]]
      BY DEF TypeOK, Rows, Routes
    <2> QED BY <2>1, <2>2, <2>3, <2>4 DEF TypeOK
  <1>2. /\ mem'[s] = old /\ want'[s] = new /\ keeper'[s] = k /\ payload'[s] = R
        /\ step'[s] = next /\ seeded'[s] = n
        /\ alone'[s] = (Active = {})
        /\ row' = row
        /\ forced' = forced
        /\ overlapped' = (overlapped \/ Active # {})
    BY DEF TypeOK
  <1>3. \A u \in Sessions \ {s} :
          /\ mem'[u] = mem[u] /\ want'[u] = want[u] /\ keeper'[u] = keeper[u]
          /\ payload'[u] = payload[u] /\ step'[u] = step[u] /\ seeded'[u] = seeded[u]
          /\ alone'[u] = (u \notin Active)
    BY DEF TypeOK
  <1> HIDE DEF Open
  <1>4. ASSUME NEW u \in Sessions PROVE SessionSound(u)'
    <2>1. CASE u = s
      BY <1>2, <2>1 DEF SessionSound, MarksOnly, Progress
    <2>2. CASE u # s
      BY <1>3, <2>2 DEF SessionSound, MarksOnly, Progress
    <2> QED BY <2>1, <2>2
  <1>5. ASSUME NEW u \in Sessions PROVE AloneSound(u)'
    <2>1. CASE u = s
      <3> SUFFICES ASSUME alone'[s] PROVE AloneSound(s)'
        BY <2>1 DEF AloneSound
      <3>1. \A v \in Sessions : step'[v] # "idle" => v = s
        BY <1>2, <1>3 DEF Active
      <3>2. KeepsMarks(want[s], keeper[s])'
        BY <1>2 DEF KeepsMarks
      <3>3. SeedsSound(want[s], keeper[s], seeded[s], step[s])'
        BY <1>2 DEF SeedsSound, Twice
      <3> QED BY <1>2, <3>1, <3>2, <3>3 DEF AloneSound
    <2>2. CASE u # s
      BY <1>3, <2>2 DEF AloneSound, Active
    <2> QED BY <2>1, <2>2
  <1>6. InOrder'
    BY <1>2, <1>3 DEF InOrder, Active
  <1>7. DefaultSound'
    BY <1>2 DEF DefaultSound, Marked
  <1> QED BY <1>1, <1>4, <1>5, <1>6, <1>7

\* The operations on one row.
LEMMA ChangeIInv ==
    ASSUME IInv, NEW s \in Sessions, NEW m \in Models, NEW new \in Row,
           NEW marks \in BOOLEAN, NEW R \in Routes,
           marks => new.live /\ new.default,
           ~marks /\ new.live /\ new.default =>
               row[m].live /\ row[m].default /\ (row[m].active => new.active),
           Change(s, m, new, marks, R)
    PROVE  IInv'
  <1> DEFINE old == [NothingRead EXCEPT ![m] = row[m]]
             wanted == [NothingRead EXCEPT ![m] = new]
             k == IF marks THEN m ELSE Unset
             next == IF marks THEN "defaults" ELSE IF R # Unset THEN "routes" ELSE "commit"
  <1>1. row[m] \in Row
    BY DEF IInv, TypeOK
  <1>2. /\ old \in Rows /\ wanted \in Rows
        /\ old[m] = row[m] /\ wanted[m] = new
        /\ \A n \in Models \ {m} : old[n] = Unset /\ wanted[n] = Unset
    BY <1>1 DEF NothingRead, Rows
  <1>3. k \in Models \cup {Unset}
    OBVIOUS
  <1>4. /\ Open(s, old, wanted, k, R, next)
        /\ seeded' = [seeded EXCEPT ![s] = 0]
    <2>1. step[s] = "idle" /\ seeded' = seeded /\ Open(s, old, wanted, k, R, next)
      BY DEF Change, Open
    <2>2. seeded[s] = 0
      BY <2>1 DEF IInv, SessionSound, Progress
    <2> QED BY <2>1, <2>2 DEF IInv, TypeOK
  <1>5. MarksOnly(wanted, k, 0)
    <2> HIDE DEF wanted
    <2> QED BY <1>2, RowTypes DEF MarksOnly
  <1>6. KeepsMarks(wanted, k)
    <2> HIDE DEF wanted
    <2> QED BY <1>2, RowTypes, RegistryAssumption DEF KeepsMarks
  <1>8. /\ next \in Step \ {"idle"} /\ Progress(next, 0) /\ 0 \in 0..Len(Seeds)
        /\ next = "routes" => R # Unset
        /\ next \in {"seeds", "defaults"} <=> k # Unset
        /\ SeedsSound(wanted, k, 0, next)
    BY SeedTypes, RegistryAssumption DEF Step, Progress, SeedsSound
  <1> HIDE DEF old, wanted, k, next
  <1>7. \A n \in Models : /\ old[n] = Unset <=> wanted[n] = Unset
                          /\ old[n] \in {Unset, row[n]}
    BY <1>1, <1>2, RowTypes
  <1> QED BY <1>2, <1>3, <1>4, <1>5, <1>6, <1>7, <1>8, OpenIInv
-------------------------------------------------------------------------------
\* Every operation, up to its first read, and the seeding.
LEMMA CreateIInv ==
    ASSUME IInv, NEW s \in Sessions, NEW m \in Models, NEW p \in Creations,
           CreateModel(s, m, p)
    PROVE  IInv'
  <1> DEFINE R == IF p.routes = NoRoutes /\ p.primary # NoBackend
                  THEN [NoRoutes EXCEPT ![p.primary] = "on"] ELSE p.routes
             new == [live |-> TRUE, id |-> p.id, alias |-> p.alias, active |-> p.active,
                     default |-> p.default, primary |-> p.primary, routes |-> NoRoutes]
  <1>1. /\ p.id \in Ids /\ p.alias \in Aliases \cup {NoName} /\ p.active \in BOOLEAN
        /\ p.default \in BOOLEAN /\ p.primary \in Backends \cup {NoBackend}
        /\ p.routes \in [Backends -> RouteState]
    BY RegistryAssumption
  <1>2. R \in [Backends -> RouteState]
    BY <1>1, RowTypes DEF RouteState
  <1>3. new \in Row /\ new.live /\ new.default = p.default
    BY <1>1, RowTypes DEF Row
  <1>4. Change(s, m, new, p.default, IF R = NoRoutes THEN Unset ELSE R)
    BY DEF CreateModel
  <1>5. (IF R = NoRoutes THEN Unset ELSE R) \in Routes
    BY <1>2 DEF Routes
  <1> HIDE DEF R, new
  <1> QED BY <1>1, <1>3, <1>4, <1>5, ChangeIInv

\* PATCH refuses to disable the model it has read as default.
LEMMA PatchIInv ==
    ASSUME IInv, NEW s \in Sessions, NEW m \in Models, NEW p \in Patches,
           PatchModel(s, m, p)
    PROVE  IInv'
  <1> DEFINE new == [row[m] EXCEPT !.alias = Given(p.alias, @), !.active = Given(p.active, @),
                                   !.default = Given(p.default, @),
                                   !.primary = Given(p.primary, @)]
             R == IF p.routes = Unset /\ p.primary \in Backends /\ row[m].routes[p.primary] = "none"
                  THEN [row[m].routes EXCEPT ![p.primary] = "on"] ELSE p.routes
  <1>1. /\ p.alias \in Aliases \cup {NoName, Unset} /\ p.active \in BOOLEAN \cup {Unset}
        /\ p.default \in BOOLEAN \cup {Unset}
        /\ p.primary \in Backends \cup {NoBackend, Unset}
        /\ p.routes \in [Backends -> RouteState] \cup {Unset}
    BY RegistryAssumption
  <1>2. row[m] \in Row
    BY DEF IInv, TypeOK
  <1>3. /\ new \in Row /\ new.live = row[m].live
        /\ new.default = Given(p.default, row[m].default)
        /\ new.active = Given(p.active, row[m].active)
    <2> DEFINE a == Given(p.alias, row[m].alias)
               e == Given(p.active, row[m].active)
               d == Given(p.default, row[m].default)
               b == Given(p.primary, row[m].primary)
    <2>1. a \in Aliases \cup Models \cup {NoName}
      BY <1>1, <1>2 DEF Row, Given
    <2>2. e \in BOOLEAN
      BY <1>1, <1>2 DEF Row, Given
    <2>3. d \in BOOLEAN
      BY <1>1, <1>2 DEF Row, Given
    <2>4. b \in Backends \cup {NoBackend}
      BY <1>1, <1>2 DEF Row, Given
    <2>5. new = [row[m] EXCEPT !.alias = a, !.active = e, !.default = d, !.primary = b]
      OBVIOUS
    <2> HIDE DEF a, e, d, b, new
    <2>6. new \in Row
      BY <1>2, <2>1, <2>2, <2>3, <2>4, <2>5 DEF Row
    <2>7. new.live = row[m].live /\ new.default = d /\ new.active = e
      BY <1>2, <2>5 DEF Row
    <2> QED BY <2>6, <2>7 DEF d, e
  <1>4. R \in Routes
    BY <1>1, <1>2 DEF Routes, Row, RouteState
  <1>5. row[m].live /\ ~(p.active = FALSE /\ row[m].default)
        /\ Change(s, m, new, p.default = TRUE, R)
    BY DEF PatchModel
  <1> HIDE DEF R, new
  <1>6. p.default = TRUE => new.live /\ new.default
    <2>1. TRUE # Unset
      BY RegistryAssumption
    <2>2. p.default = TRUE => new.default = TRUE
      BY <1>3, <2>1 DEF Given
    <2> QED BY <1>3, <1>5, <2>2
  <1>7. ~(p.default = TRUE) /\ new.default =>
            row[m].default /\ (row[m].active => new.active)
    BY <1>1, <1>2, <1>3, <1>5 DEF Given, Row
  <1> PICK marks \in BOOLEAN : marks = (p.default = TRUE)
    OBVIOUS
  <1> QED BY <1>3, <1>4, <1>5, <1>6, <1>7, ChangeIInv

\* The operations that change a column or a route of the row read.
LEMMA RowIInv ==
    ASSUME IInv, NEW s \in Sessions, NEW m \in Models,
           \/ SetDefaultModel(s, m) \/ EnableModel(s, m) \/ DisableModel(s, m)
           \/ \E b \in Backends : DeleteModelRoute(s, m, b)
           \/ \E b \in Backends, st \in {"on", "off"} : CreateModelRoute(s, m, b, st)
           \/ \E soft \in BOOLEAN : DeleteModel(s, m, soft)
    PROVE  IInv'
  <1>1. row[m] \in Row
    BY DEF IInv, TypeOK
  <1>2. Unset \in Routes /\ NoRoutes \in Routes
    BY RowTypes DEF Routes
  <1>3. CASE SetDefaultModel(s, m)
    <2> DEFINE new == [row[m] EXCEPT !.default = TRUE, !.active = TRUE]
    <2>1. new \in Row /\ new.live = row[m].live /\ new.default
      BY <1>1 DEF Row
    <2>2. row[m].live /\ Change(s, m, new, TRUE, Unset)
      BY <1>3 DEF SetDefaultModel
    <2> HIDE DEF new
    <2> QED BY <1>2, <2>1, <2>2, ChangeIInv
  <1>4. CASE EnableModel(s, m)
    <2> DEFINE new == [row[m] EXCEPT !.active = TRUE]
    <2>1. new \in Row /\ new.live = row[m].live /\ new.default = row[m].default /\ new.active
      BY <1>1 DEF Row
    <2>2. Change(s, m, new, FALSE, Unset)
      BY <1>4 DEF EnableModel
    <2> HIDE DEF new
    <2> QED BY <1>2, <2>1, <2>2, ChangeIInv
  <1>5. CASE DisableModel(s, m)
    <2> DEFINE new == [row[m] EXCEPT !.active = FALSE]
    <2>1. new \in Row /\ new.default = row[m].default
      BY <1>1 DEF Row
    <2>2. ~row[m].default /\ Change(s, m, new, FALSE, Unset)
      BY <1>5 DEF DisableModel
    <2> HIDE DEF new
    <2> QED BY <1>2, <2>1, <2>2, ChangeIInv
  <1>6. ASSUME NEW b \in Backends, DeleteModelRoute(s, m, b) PROVE IInv'
    <2> DEFINE new == [row[m] EXCEPT !.routes[b] = "none",
                                     !.primary = IF @ = b THEN NoBackend ELSE @]
    <2>1. /\ new \in Row /\ new.live = row[m].live
          /\ new.default = row[m].default /\ new.active = row[m].active
      BY <1>1 DEF Row, RouteState
    <2>2. Change(s, m, new, FALSE, Unset)
      BY <1>6 DEF DeleteModelRoute
    <2> HIDE DEF new
    <2> QED BY <1>2, <2>1, <2>2, ChangeIInv
  <1>7. ASSUME NEW b \in Backends, NEW st \in {"on", "off"}, CreateModelRoute(s, m, b, st)
        PROVE  IInv'
    <2> DEFINE new == [row[m] EXCEPT !.primary = IF @ = NoBackend THEN b ELSE @]
               R == [row[m].routes EXCEPT ![b] = st]
    <2>1. /\ new \in Row /\ new.live = row[m].live
          /\ new.default = row[m].default /\ new.active = row[m].active
      BY <1>1 DEF Row
    <2>2. R \in Routes
      BY <1>1 DEF Row, RouteState, Routes
    <2>3. Change(s, m, new, FALSE, R)
      BY <1>7 DEF CreateModelRoute
    <2> HIDE DEF new, R
    <2> QED BY <2>1, <2>2, <2>3, ChangeIInv
  <1>8. ASSUME NEW soft \in BOOLEAN, DeleteModel(s, m, soft) PROVE IInv'
    <2> DEFINE new == IF soft THEN Archived(m) ELSE Absent
    <2>1. Archived(m) \in Row /\ ~Archived(m).default
      BY <1>1 DEF Archived, Row
    <2>2. new \in Row /\ ~new.default
      BY <2>1, RowTypes DEF Absent
    <2>3. Change(s, m, new, FALSE, NoRoutes)
      BY <1>8 DEF DeleteModel
    <2> HIDE DEF new
    <2> QED BY <1>2, <2>2, <2>3, ChangeIInv
  <1> QED BY <1>3, <1>4, <1>5, <1>6, <1>7, <1>8

\* A start opens with the seed that is to be the default.
LEMMA SeedIInv ==
    ASSUME IInv, NEW s \in Sessions, EnsureDefaultModel(s)
    PROVE  IInv'
  <1> PICK m \in Models :
        /\ Takes(s, 1, m)
        /\ Open(s, [NothingRead EXCEPT ![m] = row[m]],
                [NothingRead EXCEPT ![m] = Seeded(1, row[m])], m, Unset, AfterSeed(1))
        /\ seeded' = [seeded EXCEPT ![s] = 1]
    BY DEF EnsureDefaultModel
  <1> DEFINE old == [NothingRead EXCEPT ![m] = row[m]]
             new == [NothingRead EXCEPT ![m] = Seeded(1, row[m])]
             next == AfterSeed(1)
  <1>1. row[m] \in Row /\ 1 \in 1..Len(Seeds) /\ m # Unset
    BY SeedTypes, RegistryAssumption DEF IInv, TypeOK
  <1>2. /\ Seeded(1, row[m]) \in Row /\ Seeded(1, row[m]).live /\ Seeded(1, row[m]).default
        /\ Seeded(1, row[m]).alias = Seeds[1].alias
        /\ Seeded(1, row[m]).id = IF row[m].live THEN row[m].id ELSE Seeds[1].id
    BY <1>1, SeededRow
  <1>3. /\ old \in Rows /\ new \in Rows
        /\ old[m] = row[m] /\ new[m] = Seeded(1, row[m])
        /\ \A n \in Models \ {m} : old[n] = Unset /\ new[n] = Unset
    BY <1>1, <1>2 DEF NothingRead, Rows
  <1>4. Open(s, old, new, m, Unset, next)
    OBVIOUS
  <1> HIDE DEF old, new
  <1>5. MarksOnly(new, m, 1) /\ KeepsMarks(new, m)
    BY <1>1, <1>2, <1>3, RowTypes DEF MarksOnly, KeepsMarks
  <1>6. row[m].live => row[m].id = Seeds[1].id \/ row[m].alias = Seeds[1].alias
    <2> SUFFICES ASSUME row[m].live
                 PROVE  row[m].id = Seeds[1].id \/ row[m].alias = Seeds[1].alias
      OBVIOUS
    <2>1. m \in Matches(s, 1)
      BY DEF Takes, Fresh
    <2>2. step[s] = "idle"
      BY <1>4 DEF Open
    <2>3. want[s][m] = Unset
      BY <2>2 DEF IInv, SessionSound, NothingRead
    <2>4. Saved(s)[m] = row[m]
      BY <2>3 DEF Saved, Touched
    <2> QED BY <2>1, <2>4 DEF Matches
  <1>7. SeedsSound(new, m, 1, next)
    BY <1>1, <1>2, <1>3, <1>6 DEF SeedsSound, Twice
  <1>8. /\ next \in Step \ {"idle"} /\ Progress(next, 1) /\ 1 \in 0..Len(Seeds)
        /\ ~(next = "routes") /\ next \in {"seeds", "defaults"}
    <2>1. CASE Len(Seeds) = 1
      <3>1. next = "defaults" /\ 1 \in 0..Len(Seeds)
        BY <2>1 DEF AfterSeed
      <3> QED BY <2>1, <3>1 DEF Step, Progress
    <2>2. CASE Len(Seeds) # 1
      <3>1. next = "seeds"
        BY <2>2 DEF AfterSeed
      <3>2. PICK n \in Nat : n = Len(Seeds) /\ n > 0
        BY SeedTypes
      <3>3. 1 \in 1..(n - 1) /\ 1 \in 0..n
        BY <2>2, <3>2
      <3> QED BY <3>1, <3>2, <3>3 DEF Step, Progress
    <2> QED BY <2>1, <2>2
  <1>9. \A n \in Models : /\ old[n] = Unset <=> new[n] = Unset
                          /\ old[n] \in {Unset, row[n]}
    BY <1>1, <1>2, <1>3, RowTypes
  <1>10. Unset \in Routes
    BY DEF Routes
  <1> HIDE DEF next
  <1> QED BY <1>1, <1>3, <1>4, <1>5, <1>7, <1>8, <1>9, <1>10, OpenIInv

\* Every admin operation, up to its first read.
LEMMA OperationIInv ==
    ASSUME IInv, NEW s \in Sessions, NEW m \in Models, Operation(s, m)
    PROVE  IInv'
  BY CreateIInv, PatchIInv, RowIInv DEF Operation
-------------------------------------------------------------------------------
\* The others lose the mark, the keeper has it.
LEMMA ClearIInv ==
    ASSUME IInv, NEW s \in Sessions, ClearDefaults(s)
    PROVE  IInv'
  <1> DEFINE copy(m) == IF mem[s][m] = Unset THEN row[m] ELSE mem[s][m]
             next(m) == IF want[s][m] = Unset THEN copy(m) ELSE want[s][m]
             cleared(m) == [next(m) EXCEPT !.default = FALSE]
  <1> USE DEF IInv
  <1>1. /\ step[s] = "defaults"
        /\ mem' = [mem EXCEPT ![s] = [m \in Models |->
                      IF m \in OtherDefaults(s) THEN copy(m) ELSE mem[s][m]]]
        /\ want' = [want EXCEPT ![s] = [m \in Models |->
                      IF m \in OtherDefaults(s) THEN cleared(m) ELSE want[s][m]]]
        /\ step' = [step EXCEPT ![s] = IF payload[s] = Unset THEN "commit" ELSE "routes"]
        /\ UNCHANGED <<row, keeper, payload, seeded, alone, overlapped, forced, ops>>
    BY DEF ClearDefaults, TypeOK
  <1>2. ASSUME NEW m \in Models
        PROVE  copy(m) \in Row /\ cleared(m) \in Row /\ ~cleared(m).default
    <2>1. copy(m) \in Row
      BY DEF TypeOK
    <2>2. next(m) \in Row
      BY <2>1 DEF TypeOK
    <2> PICK n \in Row : n = next(m)
      BY <2>2
    <2>3. cleared(m) = [n EXCEPT !.default = FALSE]
      OBVIOUS
    <2> HIDE DEF cleared, next, copy
    <2> QED BY <2>1, <2>3 DEF Row
  <1>3. /\ mem' \in [Sessions -> [Models -> Row \cup {Unset}]]
        /\ want' \in [Sessions -> [Models -> Row \cup {Unset}]]
    <2> HIDE DEF copy, next, cleared
    <2> QED BY <1>1, <1>2 DEF TypeOK
  <1>4. \A m \in Models :
           /\ mem'[s][m] = IF m \in OtherDefaults(s) THEN copy(m) ELSE mem[s][m]
           /\ want'[s][m] = IF m \in OtherDefaults(s) THEN cleared(m) ELSE want[s][m]
    <2> HIDE DEF copy, next, cleared
    <2> QED BY <1>1 DEF TypeOK
  <1>5. \A u \in Sessions \ {s} : mem'[u] = mem[u] /\ want'[u] = want[u] /\ step'[u] = step[u]
    <2> HIDE DEF copy, next, cleared
    <2> QED BY <1>1 DEF TypeOK
  <1>6. step'[s] = IF payload[s] = Unset THEN "commit" ELSE "routes"
    BY <1>1 DEF TypeOK
  <1>7. TypeOK'
    BY <1>1, <1>3 DEF TypeOK, Step
  <1>8. \A m \in Models : mem[s][m] # Unset => copy(m) = mem[s][m]
    OBVIOUS
  <1>9. \A m \in Models : mem[s][m] \in {Unset, row[m]} => copy(m) = row[m]
    OBVIOUS
  <1> HIDE DEF copy, next, cleared
  <1>10. keeper[s] # Unset /\ keeper[s] \notin OtherDefaults(s)
    BY <1>1 DEF SessionSound, OtherDefaults
  <1>11. MarksOnly(want'[s], keeper[s], seeded[s])
    <2>1. MarksOnly(want[s], keeper[s], seeded[s])
      BY <1>1 DEF SessionSound
    <2>2. keeper[s] \in Models
      BY <1>10 DEF TypeOK
    <2> QED BY <1>2, <1>4, <1>10, <2>1, <2>2 DEF MarksOnly
  <1>12. ASSUME NEW u \in Sessions PROVE SessionSound(u)'
    <2>1. CASE u = s
      <3>1. \A m \in Models : mem'[s][m] = Unset <=> want'[s][m] = Unset
        BY <1>2, <1>4, RowTypes DEF SessionSound
      <3> QED BY <1>1, <1>6, <1>10, <1>11, <2>1, <3>1 DEF SessionSound, MarksOnly, Progress
    <2>2. CASE u # s
      BY <1>1, <1>5, <2>2 DEF SessionSound, MarksOnly, Progress
    <2> QED BY <2>1, <2>2
  <1>13. ASSUME NEW u \in Sessions PROVE AloneSound(u)'
    <2> SUFFICES ASSUME step'[u] # "idle", alone'[u] PROVE AloneSound(u)'
      BY DEF AloneSound
    <2>1. u = s
      BY <1>1, <1>5 DEF AloneSound
    <2>2. AloneSound(s) /\ alone[s] /\ step[s] # "idle"
      BY <1>1, <2>1
    <2>3. \A v \in Sessions : step'[v] # "idle" => v = s
      BY <1>5, <2>2 DEF AloneSound
    <2>4. \A m \in Models : mem'[s][m] \in {Unset, row[m]}
      BY <1>4, <1>9, <2>2 DEF AloneSound
    <2>5. \A m \in Models \ {keeper[s]} : row[m].live /\ row[m].default => want'[s][m] # Unset
      BY <1>2, <1>4, RowTypes DEF OtherDefaults
    <2>6. SeedsSound(want'[s], keeper[s], seeded[s], step'[s])
      BY <1>1, <1>4, <1>6, <1>10, <2>2 DEF AloneSound, SeedsSound, TypeOK
    <2>7. KeepsMarks(want[s], keeper[s])' /\ SeedsSound(want[s], keeper[s], seeded[s], step[s])'
      BY <1>1, <1>10, <2>6 DEF KeepsMarks, SeedsSound, Twice
    <2> QED BY <1>1, <1>10, <2>1, <2>3, <2>4, <2>5, <2>7 DEF AloneSound
  <1>14. InOrder'
    BY <1>1, <1>5 DEF InOrder
  <1>15. DefaultSound'
    BY <1>1 DEF DefaultSound, Marked
  <1> QED BY <1>7, <1>12, <1>13, <1>14, <1>15

\* The routes change and nothing else of the rows wanted.
LEMMA SyncIInv ==
    ASSUME IInv, NEW s \in Sessions, SyncRoutes(s)
    PROVE  IInv'
  <1> USE DEF IInv
  <1> PICK m \in Models :
          /\ want[s][m] # Unset /\ keeper[s] \in {m, Unset}
          /\ mem' = [mem EXCEPT ![s][m].routes = [b \in Backends |->
                        IF row[m].routes[b] = "none" \/ @[b] = "none" THEN row[m].routes[b] ELSE @[b]]]
          /\ want' = [want EXCEPT ![s][m].routes = payload[s]]
    BY DEF SyncRoutes
  <1>1. /\ step[s] = "routes" /\ step' = [step EXCEPT ![s] = "commit"]
        /\ UNCHANGED <<row, keeper, payload, seeded, alone, overlapped, forced, ops>>
    BY DEF SyncRoutes
  <1>2. mem[s][m] \in Row /\ want[s][m] \in Row /\ row[m] \in Row
        /\ payload[s] \in [Backends -> RouteState]
    BY <1>1 DEF TypeOK, SessionSound
  <1> DEFINE o == mem[s][m]
             routes == [b \in Backends |->
                 IF row[m].routes[b] = "none" \/ o.routes[b] = "none"
                 THEN row[m].routes[b] ELSE o.routes[b]]
             read == [o EXCEPT !.routes = routes]
             new == [want[s][m] EXCEPT !.routes = payload[s]]
  <1>3. routes \in [Backends -> RouteState]
    BY <1>2 DEF Row
  <1>4. /\ read \in Row
        /\ o = row[m] => read = row[m]
    <2>1. o = row[m] => routes = row[m].routes
      BY <1>2 DEF Row
    <2> HIDE DEF routes
    <2> QED BY <1>2, <1>3, <2>1 DEF Row
  <1>5. /\ new \in Row /\ new.live = want[s][m].live
        /\ new.default = want[s][m].default /\ new.active = want[s][m].active
    BY <1>2 DEF Row
  <1>6. mem' = [mem EXCEPT ![s][m] = read] /\ want' = [want EXCEPT ![s][m] = new]
    BY <1>2 DEF TypeOK
  <1> HIDE DEF o, routes, read, new
  <1>7. /\ mem'[s][m] = read /\ want'[s][m] = new
        /\ \A n \in Models \ {m} : mem'[s][n] = mem[s][n] /\ want'[s][n] = want[s][n]
        /\ step'[s] = "commit"
    BY <1>1, <1>6 DEF TypeOK
  <1>8. \A u \in Sessions \ {s} : mem'[u] = mem[u] /\ want'[u] = want[u] /\ step'[u] = step[u]
    BY <1>1, <1>6 DEF TypeOK
  <1>9. TypeOK'
    <2>1. /\ mem' \in [Sessions -> [Models -> Row \cup {Unset}]]
          /\ want' \in [Sessions -> [Models -> Row \cup {Unset}]]
      <3> DEFINE A == [mem[s] EXCEPT ![m] = read]
                 B == [want[s] EXCEPT ![m] = new]
      <3>1. A \in [Models -> Row \cup {Unset}] /\ B \in [Models -> Row \cup {Unset}]
        BY <1>4, <1>5 DEF TypeOK
      <3>2. mem' = [mem EXCEPT ![s] = A] /\ want' = [want EXCEPT ![s] = B]
        BY <1>6 DEF TypeOK
      <3>3. /\ mem \in [Sessions -> [Models -> Row \cup {Unset}]]
            /\ want \in [Sessions -> [Models -> Row \cup {Unset}]]
        BY DEF TypeOK
      <3> HIDE DEF A, B, IInv
      <3>4. mem' \in [Sessions -> [Models -> Row \cup {Unset}]]
        BY <3>1, <3>2, <3>3
      <3>5. want' \in [Sessions -> [Models -> Row \cup {Unset}]]
        BY <3>1, <3>2, <3>3
      <3> QED BY <3>4, <3>5
    <2> QED BY <1>1, <2>1 DEF TypeOK, Step
  <1>10. ASSUME NEW u \in Sessions PROVE SessionSound(u)'
    <2>1. CASE u = s
      <3>1. \A n \in Models : mem'[s][n] = Unset <=> want'[s][n] = Unset
        BY <1>4, <1>5, <1>7, RowTypes DEF SessionSound
      <3>2. MarksOnly(want[s], keeper[s], seeded[s])
        BY <1>1 DEF SessionSound
      <3>3. MarksOnly(want'[s], keeper[s], seeded[s])
        <4>1. \A n \in Models :
                  want[s][n] # Unset => /\ want'[s][n] # Unset
                                        /\ want'[s][n].live = want[s][n].live
                                        /\ want'[s][n].default = want[s][n].default
          BY <1>5, <1>7, RowTypes
        <4>2. \A n \in Models : want[s][n] = Unset => want'[s][n] = Unset
          BY <1>7
        <4>3. keeper[s] \in Models \cup {Unset}
          BY DEF TypeOK
        <4> HIDE DEF IInv
        <4> QED BY <3>2, <4>1, <4>2, <4>3 DEF MarksOnly
      <3>4. seeded[s] \in {0, Len(Seeds)}
        BY <1>1 DEF SessionSound, Progress
      <3>5. /\ step'[s] = "commit" /\ keeper'[s] = keeper[s] /\ seeded'[s] = seeded[s]
            /\ payload'[s] = payload[s]
        BY <1>1, <1>7
      <3> HIDE DEF IInv
      <3>6. SessionSound(s)'
        BY <3>1, <3>3, <3>4, <3>5 DEF SessionSound, MarksOnly, Progress
      <3> QED BY <2>1, <3>6
    <2>2. CASE u # s
      BY <1>1, <1>8, <2>2 DEF SessionSound, MarksOnly, Progress
    <2> QED BY <2>1, <2>2
  <1>11. ASSUME NEW u \in Sessions PROVE AloneSound(u)'
    <2> SUFFICES ASSUME step'[u] # "idle", alone'[u] PROVE AloneSound(u)'
      BY DEF AloneSound
    <2>1. u = s
      BY <1>1, <1>8 DEF AloneSound
    <2>2. AloneSound(s) /\ alone[s] /\ step[s] # "idle" /\ step[s] # "defaults"
      BY <1>1, <2>1
    <2>3. \A v \in Sessions : step'[v] # "idle" => v = s
      BY <1>8, <2>2 DEF AloneSound
    <2>4. \A n \in Models : mem'[s][n] \in {Unset, row[n]}
      <3>1. o = row[m]
        BY <1>2, <2>2, RowTypes DEF AloneSound, o
      <3> QED BY <1>4, <1>7, <2>2, <3>1 DEF AloneSound
    <2>5. KeepsMarks(want'[s], keeper[s])
      BY <1>5, <1>7, <2>2 DEF AloneSound, KeepsMarks
    <2>6. keeper[s] # Unset =>
             \A n \in Models \ {keeper[s]} : row[n].live /\ row[n].default => want'[s][n] # Unset
      <3>1. keeper[s] # Unset =>
               \A n \in Models \ {keeper[s]} : row[n].live /\ row[n].default => want[s][n] # Unset
        BY <1>1, <2>2 DEF AloneSound
      <3>2. \A n \in Models : want[s][n] # Unset => want'[s][n] # Unset
        BY <1>5, <1>7, RowTypes
      <3>3. keeper[s] # Unset => keeper[s] \in Models
        BY DEF TypeOK
      <3> HIDE DEF IInv
      <3> QED BY <3>1, <3>2, <3>3
    <2>7. SeedsSound(want'[s], keeper[s], seeded[s], "commit")
      <3> SUFFICES ASSUME seeded[s] > 0
                   PROVE  SeedsSound(want'[s], keeper[s], seeded[s], "commit")
        BY DEF SeedsSound
      <3>1. keeper[s] \in Models /\ SeedsSound(want[s], keeper[s], seeded[s], step[s])
        BY <2>2 DEF AloneSound, SeedsSound, TypeOK
      <3>2. want'[s][keeper[s]].default = want[s][keeper[s]].default
        BY <1>5, <1>7, <3>1
      <3> QED BY <3>1, <3>2 DEF SeedsSound
    <2>8. KeepsMarks(want[s], keeper[s])' /\ SeedsSound(want[s], keeper[s], seeded[s], step[s])'
      BY <1>1, <1>7, <2>5, <2>7 DEF KeepsMarks, SeedsSound, Twice
    <2> HIDE DEF IInv
    <2>9. AloneSound(s)'
      BY <1>1, <1>7, <2>3, <2>4, <2>6, <2>8 DEF AloneSound
    <2> QED BY <2>1, <2>9
  <1>12. InOrder'
    BY <1>1, <1>8 DEF InOrder
  <1>13. DefaultSound'
    BY <1>1 DEF DefaultSound, Marked
  <1> QED BY <1>9, <1>10, <1>11, <1>12, <1>13
-------------------------------------------------------------------------------
\* The end of a session: the others stay as they are.
LEMMA CloseSound ==
    ASSUME IInv, NEW s \in Sessions, Close(s), ~overlapped' <=> ~overlapped,
           \/ row' = row
           \/ \A u \in Sessions \ {s} : step[u] # "idle" => ~alone[u]
    PROVE  \A u \in Sessions : SessionSound(u)' /\ AloneSound(u)'
  <1> USE DEF IInv
  <1>1. /\ step'[s] = "idle" /\ keeper'[s] = Unset /\ mem'[s] = NothingRead
        /\ want'[s] = NothingRead /\ seeded'[s] = 0
    BY DEF Close, TypeOK
  <1>2. \A u \in Sessions \ {s} :
          /\ mem'[u] = mem[u] /\ want'[u] = want[u] /\ keeper'[u] = keeper[u]
          /\ payload'[u] = payload[u] /\ step'[u] = step[u] /\ alone'[u] = alone[u]
          /\ seeded'[u] = seeded[u]
    BY DEF Close, TypeOK
  <1>3. ASSUME NEW u \in Sessions PROVE SessionSound(u)'
    <2>1. CASE u = s
      BY <1>1, <2>1 DEF SessionSound, NothingRead, Progress
    <2>2. CASE u # s
      BY <1>2, <2>2 DEF SessionSound, MarksOnly, Progress
    <2> QED BY <2>1, <2>2
  <1>4. ASSUME NEW u \in Sessions PROVE AloneSound(u)'
    <2> SUFFICES ASSUME step'[u] # "idle", alone'[u] PROVE AloneSound(u)'
      BY DEF AloneSound
    <2>1. u # s /\ step[u] # "idle" /\ alone[u]
      BY <1>1, <1>2
    <2>2. row' = row
      BY <2>1
    <2>3. KeepsMarks(want[u], keeper[u])' /\ SeedsSound(want[u], keeper[u], seeded[u], step[u])'
      BY <1>2, <2>1, <2>2 DEF AloneSound, KeepsMarks, SeedsSound, Twice
    <2> QED BY <1>1, <1>2, <2>1, <2>2, <2>3 DEF AloneSound
  <1> QED BY <1>3, <1>4

\* A session that ends forgets its copies.
LEMMA CloseType ==
    ASSUME TypeOK, NEW s \in Sessions, Close(s)
    PROVE  /\ step' \in [Sessions -> Step]
           /\ seeded' \in [Sessions -> 0..Len(Seeds)]
           /\ keeper' \in [Sessions -> Models \cup {Unset}]
           /\ payload' \in [Sessions -> {Unset} \cup [Backends -> RouteState]]
           /\ mem' \in [Sessions -> [Models -> Row \cup {Unset}]]
           /\ want' \in [Sessions -> [Models -> Row \cup {Unset}]]
           /\ alone' \in [Sessions -> BOOLEAN]
  BY RowTypes, SeedTypes DEF TypeOK, Close, Rows, Step

\* A session that is rolled back leaves the rows alone.
LEMMA AbortIInv ==
    ASSUME IInv, NEW s \in Sessions, Abort(s)
    PROVE  IInv'
  <1>1. UNCHANGED <<row, overlapped, forced, ops>> /\ Close(s) /\ TypeOK
    BY DEF Abort, IInv
  <1>2. TypeOK'
    BY <1>1, CloseType DEF TypeOK
  <1>3. \A u \in Sessions : SessionSound(u)' /\ AloneSound(u)'
    BY <1>1, CloseSound
  <1>4. InOrder'
    BY <1>1 DEF Close, InOrder, IInv, TypeOK
  <1>5. DefaultSound'
    BY <1>1 DEF IInv, DefaultSound, Marked
  <1> QED BY <1>2, <1>3, <1>4, <1>5 DEF IInv

-------------------------------------------------------------------------------
\* What a commit leaves of the rows it touches, whatever the others did.
LEMMA SavedType ==
    ASSUME IInv, NEW s \in Sessions
    PROVE  Saved(s) \in [Models -> Row]
  <1>1. ASSUME NEW m \in Touched(s) PROVE Merged(s, m) \in Row
    <2>1. m \in Models /\ row[m] \in Row
      BY DEF Touched, IInv, TypeOK
    <2>2. want[s][m] \in Row /\ mem[s][m] \in Row
      BY <1>1 DEF Touched, IInv, TypeOK, SessionSound
    <2> PICK o \in Row, w \in Row, r \in Row : o = mem[s][m] /\ w = want[s][m] /\ r = row[m]
      BY <2>1, <2>2
    <2> DEFINE routes == [b \in Backends |-> Col(o.routes[b], w.routes[b], r.routes[b])]
    <2>3. routes \in [Backends -> RouteState]
      BY DEF Col, Row
    <2>4. /\ Col(o.live, w.live, r.live) \in BOOLEAN
          /\ Col(o.active, w.active, r.active) \in BOOLEAN
          /\ Col(o.default, w.default, r.default) \in BOOLEAN
          /\ Col(o.id, w.id, r.id) \in Ids \cup Models \cup {NoName}
          /\ Col(o.alias, w.alias, r.alias) \in Aliases \cup Models \cup {NoName}
          /\ Col(o.primary, w.primary, r.primary) \in Backends \cup {NoBackend}
      BY DEF Col, Row
    <2>5. Merged(s, m) =
             IF o.live /\ ~w.live THEN Absent
             ELSE [live |-> Col(o.live, w.live, r.live), id |-> Col(o.id, w.id, r.id),
                   alias |-> Col(o.alias, w.alias, r.alias),
                   active |-> Col(o.active, w.active, r.active),
                   default |-> Col(o.default, w.default, r.default),
                   primary |-> Col(o.primary, w.primary, r.primary),
                   routes |-> routes]
      BY DEF Merged
    <2> HIDE DEF routes
    <2> QED BY <2>3, <2>4, <2>5, RowTypes DEF Row
  <1> QED BY <1>1 DEF Saved, IInv, TypeOK

\* A session alone leaves the rows that it touches as it wants them.
LEMMA SavedAlone ==
    ASSUME IInv, NEW s \in Sessions, step[s] # "idle", alone[s], NEW m \in Models
    PROVE  IF want[s][m] = Unset THEN Saved(s)[m] = row[m]
           ELSE /\ Saved(s)[m].live = want[s][m].live
                /\ want[s][m].live => /\ Saved(s)[m].default = want[s][m].default
                                      /\ Saved(s)[m].active = want[s][m].active
                                      /\ Saved(s)[m].id = want[s][m].id
                                      /\ Saved(s)[m].alias = want[s][m].alias
  <1>1. CASE want[s][m] = Unset
    BY <1>1 DEF Saved, Touched
  <1>2. CASE want[s][m] # Unset
    <2>1. want[s][m] \in Row /\ mem[s][m] = row[m] /\ row[m] \in Row
      BY <1>2, RowTypes DEF IInv, TypeOK, SessionSound, AloneSound
    <2>2. Saved(s)[m] = Merged(s, m)
      BY <1>2 DEF Saved, Touched
    <2> PICK w \in Row, r \in Row : w = want[s][m] /\ r = row[m]
      BY <2>1
    <2>3. CASE r.live /\ ~w.live
      <3>1. Merged(s, m) = Absent
        BY <2>1, <2>3 DEF Merged
      <3>2. Absent.live = FALSE
        BY DEF Absent
      <3>3. w.live \in BOOLEAN
        BY DEF Row
      <3>4. want[s][m].live = FALSE
        BY <2>3, <3>3
      <3> QED BY <1>2, <2>2, <3>1, <3>2, <3>4
    <2>4. CASE ~(r.live /\ ~w.live)
      <3>1. /\ Merged(s, m).live = Col(r.live, w.live, r.live)
            /\ Merged(s, m).default = Col(r.default, w.default, r.default)
            /\ Merged(s, m).active = Col(r.active, w.active, r.active)
            /\ Merged(s, m).id = Col(r.id, w.id, r.id)
            /\ Merged(s, m).alias = Col(r.alias, w.alias, r.alias)
        BY <2>1, <2>4 DEF Merged
      <3> QED BY <1>2, <2>2, <3>1 DEF Col
    <2> QED BY <2>3, <2>4
  <1> QED BY <1>1, <1>2

\* An operation that makes k the default and has had no company leaves k, and k
\* only, as the default, or none if it is a start in which k answered for two seeds.
LEMMA KeeperDecides ==
    ASSUME IInv, NEW s \in Sessions, Commit(s), keeper[s] # Unset, alone[s]
    PROVE  \A m \in Models : row'[m].live /\ row'[m].default <=>
               m = keeper[s] /\ ~(seeded[s] > 0 /\ TwoSeeds(keeper[s]))
  <1>1. step[s] = "commit" /\ row' = Saved(s)
    BY DEF Commit
  <1>2. keeper[s] \in Models /\ MarksOnly(want[s], keeper[s], seeded[s])
    BY <1>1 DEF IInv, TypeOK, SessionSound
  <1>3. want[s][keeper[s]].default <=> ~(seeded[s] > 0 /\ TwoSeeds(keeper[s]))
    <2>1. seeded[s] \in {0, Len(Seeds)} /\ Len(Seeds) > 0
      BY <1>1, SeedTypes DEF IInv, SessionSound, Progress
    <2>2. CASE seeded[s] = 0
      BY <1>2, <2>2 DEF MarksOnly
    <2>3. CASE seeded[s] = Len(Seeds)
      <3>1. SeedsSound(want[s], keeper[s], Len(Seeds), step[s])
        BY <1>1, <2>3 DEF IInv, AloneSound
      <3>2. Twice(keeper[s], Len(Seeds)) <=> TwoSeeds(keeper[s])
        <4>1. \A i \in 2..Len(Seeds) : Seeds[i].id # Seeds[1].id
          BY SeedTypes
        <4> QED BY <2>1, <3>1, <4>1 DEF SeedsSound, Twice, TwoSeeds
      <3> QED BY <2>1, <2>3, <3>1, <3>2 DEF SeedsSound
    <2> QED BY <2>1, <2>2, <2>3
  <1> TAKE m \in Models
  <1>4. CASE m = keeper[s]
    <2>1. want[s][m] # Unset /\ want[s][m].live
      BY <1>2, <1>4 DEF MarksOnly
    <2> QED BY <1>1, <1>3, <1>4, <2>1, SavedAlone
  <1>5. CASE m # keeper[s]
    <2>1. want[s][m] = Unset \/ ~want[s][m].default
      BY <1>2, <1>5 DEF MarksOnly
    <2>2. want[s][m] = Unset => ~(row[m].live /\ row[m].default)
      BY <1>1, <1>5 DEF IInv, AloneSound
    <2> QED BY <1>1, <1>5, <2>1, <2>2, SavedAlone
  <1> QED BY <1>4, <1>5

\* The next seed takes the keeper only by an id the keeper's row has had.
LEMMA EntryTakes ==
    ASSUME IInv, NEW s \in Sessions, step[s] = "seeds", alone[s],
           NEW i \in 2..Len(Seeds), i = seeded[s] + 1, NEW m \in Models, Takes(s, i, m)
    PROVE  IF m = keeper[s] THEN Twice(keeper[s], i)
           ELSE Twice(keeper[s], i) <=> Twice(keeper[s], seeded[s])
  <1> DEFINE k == keeper[s]
             seen == Saved(s)
  <1>0. seeded[s] \in Nat /\ seeded[s] > 0 /\ i \in 1..Len(Seeds) /\ i # 1
    BY SeedTypes DEF IInv, SessionSound, Progress
  <1>1. /\ k \in Models /\ want[s][k] # Unset /\ want[s][k].live
        /\ SeedsSound(want[s], k, seeded[s], "seeds")
    BY DEF IInv, SessionSound, MarksOnly, AloneSound, TypeOK
  <1>2. seen[k].live /\ seen[k].id = want[s][k].id /\ seen[k].alias = want[s][k].alias
    BY <1>1, SavedAlone
  <1>3. Seeds[i].id # Seeds[1].id /\ Seeds[i].alias # Seeds[1].alias
    BY <1>0, SeedTypes
  <1>4. Twice(k, i) <=> Twice(k, seeded[s]) \/ (row[k].live /\ row[k].id = Seeds[i].id)
    BY <1>0 DEF Twice
  <1>5. k \in Matches(s, i) <=> want[s][k].id = Seeds[i].id \/ want[s][k].alias = Seeds[i].alias
    BY <1>1, <1>2 DEF Matches
  <1> HIDE DEF k, seen
  <1>6. CASE Twice(k, seeded[s])
    BY <1>4, <1>6 DEF k
  <1>7. CASE ~Twice(k, seeded[s])
    <2>1. /\ want[s][k].alias = Seeds[1].alias
          /\ want[s][k].id = IF row[k].live THEN row[k].id ELSE Seeds[1].id
      BY <1>0, <1>1, <1>7 DEF SeedsSound
    <2>2. k \in Matches(s, i) <=> row[k].live /\ row[k].id = Seeds[i].id
      BY <1>3, <1>5, <2>1
    <2>3. m = k <=> k \in Matches(s, i)
      <3>1. Matches(s, i) = {} => m # k
        BY <1>1 DEF Takes, Fresh
      <3>2. Matches(s, i) # {} => Matches(s, i) = {m}
        BY DEF Takes
      <3> QED BY <3>1, <3>2
    <2> QED BY <1>4, <1>7, <2>2, <2>3 DEF k
  <1> QED BY <1>6, <1>7

\* The seeds after the first one mark nothing, and may unmark the keeper.
LEMMA EntryIInv ==
    ASSUME IInv, NEW s \in Sessions, EnsureModelEntry(s)
    PROVE  IInv'
  <1> DEFINE i == seeded[s] + 1
             k == keeper[s]
  <1> PICK m \in Models :
          /\ Takes(s, i, m)
          /\ mem' = [mem EXCEPT ![s][m] = IF @ = Unset THEN row[m] ELSE @]
          /\ want' = [want EXCEPT ![s][m] = Seeded(i, IF @ = Unset THEN row[m] ELSE @)]
    BY DEF EnsureModelEntry
  <1> USE DEF IInv
  <1>1. /\ step[s] = "seeds" /\ step' = [step EXCEPT ![s] = AfterSeed(i)]
        /\ seeded' = [seeded EXCEPT ![s] = i]
        /\ UNCHANGED <<row, keeper, payload, alone, overlapped, forced, ops>>
    BY DEF EnsureModelEntry
  <1>2. /\ i \in 2..Len(Seeds) /\ i \in 1..Len(Seeds) /\ i # 1
        /\ seeded[s] \in 1..(Len(Seeds) - 1)
    BY <1>1, SeedTypes DEF SessionSound, Progress
  <1>3. k \in Models /\ k # Unset /\ want[s][k] # Unset /\ want[s][k].live
    BY <1>1, RegistryAssumption DEF SessionSound, MarksOnly, TypeOK
  <1>4. row[m] \in Row /\ mem[s][m] \in Row \cup {Unset} /\ want[s][m] \in Row \cup {Unset}
    BY DEF TypeOK
  <1> DEFINE read == IF mem[s][m] = Unset THEN row[m] ELSE mem[s][m]
             base == IF want[s][m] = Unset THEN row[m] ELSE want[s][m]
             new == Seeded(i, base)
  <1>5. read \in Row /\ base \in Row
    BY <1>4
  <1>6. new \in Row /\ new.live /\ ~new.default
    BY <1>2, <1>5, SeededRow
  <1>7. mem' = [mem EXCEPT ![s][m] = read] /\ want' = [want EXCEPT ![s][m] = new]
    OBVIOUS
  <1> HIDE DEF read, base, new
  <1>8. TypeOK'
    <2>1. /\ mem' \in [Sessions -> [Models -> Row \cup {Unset}]]
          /\ want' \in [Sessions -> [Models -> Row \cup {Unset}]]
      <3> DEFINE A == [mem[s] EXCEPT ![m] = read]
                 B == [want[s] EXCEPT ![m] = new]
      <3>1. A \in [Models -> Row \cup {Unset}] /\ B \in [Models -> Row \cup {Unset}]
        BY <1>5, <1>6 DEF TypeOK
      <3>2. mem' = [mem EXCEPT ![s] = A] /\ want' = [want EXCEPT ![s] = B]
        BY <1>7 DEF TypeOK
      <3> HIDE DEF A, B
      <3> QED BY <3>1, <3>2 DEF TypeOK
    <2>2. step' \in [Sessions -> Step]
      BY <1>1 DEF TypeOK, AfterSeed, Step
    <2>3. seeded' \in [Sessions -> 0..Len(Seeds)]
      BY <1>1, <1>2 DEF TypeOK
    <2> QED BY <1>1, <2>1, <2>2, <2>3 DEF TypeOK
  <1>9. /\ mem'[s][m] = read /\ want'[s][m] = new
        /\ \A n \in Models \ {m} : mem'[s][n] = mem[s][n] /\ want'[s][n] = want[s][n]
        /\ step'[s] = AfterSeed(i) /\ seeded'[s] = i
    BY <1>1, <1>7 DEF TypeOK
  <1>10. \A u \in Sessions \ {s} :
           /\ mem'[u] = mem[u] /\ want'[u] = want[u] /\ step'[u] = step[u]
           /\ seeded'[u] = seeded[u]
    BY <1>1, <1>7 DEF TypeOK
  <1>11. MarksOnly(want'[s], k, i)
    <2>1. MarksOnly(want[s], k, seeded[s])
      BY <1>1 DEF SessionSound
    <2> QED BY <1>2, <1>3, <1>6, <1>9, <2>1, RowTypes DEF MarksOnly
  <1>12. step'[s] \in {"seeds", "defaults"} /\ Progress(step'[s], i)
    <2>1. CASE i = Len(Seeds)
      <3>1. step'[s] = "defaults"
        BY <1>9, <2>1 DEF AfterSeed
      <3> QED BY <2>1, <3>1 DEF Progress
    <2>2. CASE i # Len(Seeds)
      <3>1. step'[s] = "seeds"
        BY <1>9, <2>2 DEF AfterSeed
      <3>2. i \in 1..(Len(Seeds) - 1)
        BY <1>2, <2>2, SeedTypes
      <3> QED BY <3>1, <3>2 DEF Progress
    <2> QED BY <2>1, <2>2
  <1>13. ASSUME NEW u \in Sessions PROVE SessionSound(u)'
    <2>1. CASE u = s
      <3>1. \A n \in Models : mem'[s][n] = Unset <=> want'[s][n] = Unset
        BY <1>5, <1>6, <1>9, RowTypes DEF SessionSound
      <3> QED BY <1>1, <1>3, <1>9, <1>11, <1>12, <2>1, <3>1
              DEF SessionSound, MarksOnly, Progress
    <2>2. CASE u # s
      BY <1>1, <1>10, <2>2 DEF SessionSound, MarksOnly, Progress
    <2> QED BY <2>1, <2>2
  <1>14. ASSUME NEW u \in Sessions PROVE AloneSound(u)'
    <2> SUFFICES ASSUME step'[u] # "idle", alone'[u] PROVE AloneSound(u)'
      BY DEF AloneSound
    <2>1. u = s
      BY <1>1, <1>10 DEF AloneSound
    <2>2. AloneSound(s) /\ alone[s] /\ step[s] # "idle"
      BY <1>1, <2>1
    <2>3. \A v \in Sessions : step'[v] # "idle" => v = s
      BY <1>10, <2>2 DEF AloneSound
    <2>4. \A n \in Models : mem'[s][n] \in {Unset, row[n]}
      BY <1>9, <2>2 DEF AloneSound, read
    <2>5. KeepsMarks(want[s], keeper[s])'
      BY <1>1, <1>3 DEF KeepsMarks
    <2>6. SeedsSound(want'[s], k, i, step'[s])
      <3>1. SeedsSound(want[s], k, seeded[s], "seeds") /\ seeded[s] > 0
        BY <1>1, <1>2, <2>2 DEF AloneSound
      <3>2. IF m = k THEN Twice(k, i) ELSE Twice(k, i) <=> Twice(k, seeded[s])
        BY <1>1, <1>2, <2>2, EntryTakes
      <3>3. want'[s][k].default <=> ~Twice(k, i)
        <4>1. CASE m = k
          BY <1>6, <1>9, <3>2, <4>1
        <4>2. CASE m # k
          BY <1>3, <1>9, <3>1, <3>2, <4>2 DEF SeedsSound
        <4> QED BY <4>1, <4>2
      <3>4. want'[s][k].default => want'[s][k] = want[s][k]
        BY <1>3, <1>6, <1>9
      <3> HIDE DEF i, k, IInv
      <3>5. /\ row[k].live => row[k].id = Seeds[1].id \/ row[k].alias = Seeds[1].alias
            /\ want[s][k].default =>
                  /\ want[s][k].alias = Seeds[1].alias
                  /\ want[s][k].id = IF row[k].live THEN row[k].id ELSE Seeds[1].id
        BY <3>1 DEF SeedsSound
      <3>6. want'[s][k].default =>
              /\ want'[s][k].alias = Seeds[1].alias
              /\ want'[s][k].id = IF row[k].live THEN row[k].id ELSE Seeds[1].id
        BY <3>4, <3>5
      <3> QED BY <1>3, <3>3, <3>5, <3>6 DEF SeedsSound
    <2>7. SeedsSound(want[s], keeper[s], seeded[s], step[s])'
      BY <1>1, <1>9, <2>6 DEF SeedsSound, Twice
    <2> HIDE DEF IInv, i, k
    <2>8. AloneSound(s)'
      BY <1>12, <2>3, <2>4, <2>5, <2>7, <1>1 DEF AloneSound
    <2> QED BY <2>1, <2>8
  <1>15. InOrder'
    BY <1>1, <1>10 DEF InOrder
  <1>16. DefaultSound'
    BY <1>1 DEF DefaultSound, Marked
  <1> QED BY <1>8, <1>13, <1>14, <1>15, <1>16

\* A commit alone leaves one default, active unless it was made so while inactive.
LEMMA CommitIInv ==
    ASSUME IInv, NEW s \in Sessions, Commit(s)
    PROVE  IInv'
  <1>1. /\ step[s] = "commit" /\ row' = Saved(s) /\ Close(s)
        /\ forced' = \/ forced
                     \/ keeper[s] # Unset /\ row'[keeper[s]].default /\ ~row'[keeper[s]].active
        /\ UNCHANGED <<overlapped, ops>>
        /\ TypeOK
    BY DEF Commit, IInv
  <1>2. TypeOK'
    <2>1. row' \in [Models -> Row]
      BY <1>1, SavedType
    <2>2. forced' \in BOOLEAN
      BY <1>1, <2>1 DEF TypeOK, Row
    <2> QED BY <1>1, <2>1, <2>2, CloseType DEF TypeOK
  <1>3. \A u \in Sessions \ {s} : step[u] # "idle" => ~alone[u]
    BY <1>1 DEF IInv, AloneSound
  <1>4. \A u \in Sessions : SessionSound(u)' /\ AloneSound(u)'
    BY <1>1, <1>3, CloseSound
  <1>5. InOrder'
    BY <1>1 DEF Close, InOrder, IInv, TypeOK
  <1>6. DefaultSound'
    <2> SUFFICES ASSUME ~overlapped
                 PROVE  /\ \A m, n \in Models : Marked(m)' /\ Marked(n)' => m = n
                        /\ ~forced' => \A m \in Models : Marked(m)' => row'[m].active
      BY <1>1 DEF DefaultSound
    <2>1. alone[s] /\ DefaultSound
      BY <1>1 DEF IInv, InOrder
    <2>2. CASE keeper[s] # Unset
      <3>1. \A m \in Models : Marked(m)' => m = keeper[s]
        BY <2>1, <2>2, KeeperDecides DEF Marked
      <3>2. ASSUME ~forced', NEW m \in Models, Marked(m)' PROVE row'[m].active
        BY <1>1, <2>2, <3>1, <3>2 DEF Marked
      <3> QED BY <3>1, <3>2
    <2>3. CASE keeper[s] = Unset
      <3>1. KeepsMarks(want[s], keeper[s])
        BY <1>1, <2>1 DEF IInv, AloneSound
      <3>2. ASSUME NEW m \in Models, Marked(m)'
            PROVE  Marked(m) /\ (row[m].active => row'[m].active)
        <4>1. CASE want[s][m] = Unset
          <5>1. row'[m] = row[m]
            BY <1>1, <2>1, <4>1, SavedAlone
          <5> QED BY <3>2, <5>1 DEF Marked
        <4>2. CASE want[s][m] # Unset
          <5>1. want[s][m].live /\ want[s][m].default /\ row'[m].active = want[s][m].active
            BY <1>1, <2>1, <3>2, <4>2, SavedAlone DEF Marked
          <5> QED BY <2>3, <3>1, <4>2, <5>1 DEF KeepsMarks, Marked
        <4> QED BY <4>1, <4>2
      <3>3. forced' = forced
        BY <1>1, <2>3 DEF TypeOK
      <3> QED BY <2>1, <3>2, <3>3 DEF DefaultSound
    <2> QED BY <2>2, <2>3
  <1> QED BY <1>2, <1>4, <1>5, <1>6 DEF IInv

\* Every step keeps the invariant.
LEMMA NextIInv == IInv /\ [Next]_vars => IInv'
  <1> SUFFICES ASSUME IInv, [Next]_vars PROVE IInv'
    OBVIOUS
  <1>1. CASE UNCHANGED vars
    <2> USE <1>1 DEF vars, sessionVars
    <2>1. TypeOK'
      BY DEF IInv, TypeOK
    <2>2. \A s \in Sessions : SessionSound(s)' /\ AloneSound(s)'
      BY DEF IInv, SessionSound, AloneSound, MarksOnly, KeepsMarks, SeedsSound, Twice, Progress
    <2>3. InOrder' /\ DefaultSound'
      BY DEF IInv, InOrder, DefaultSound, Marked
    <2> QED BY <2>1, <2>2, <2>3 DEF IInv
  <1>2. CASE Next
    BY <1>2, OperationIInv, SeedIInv, EntryIInv, ClearIInv, SyncIInv, CommitIInv, AbortIInv
       DEF Next
  <1> QED BY <1>1, <1>2

\* The invariant of the registry: what the sessions hold against the rows.
THEOREM Invariance == Spec => []IInv
  BY InitIInv, NextIInv, PTL DEF Spec

\* The rows, the sessions' copies and the payloads have their types, in particular
\* after a commit that merges columns with those of others.
THEOREM TypeCorrect == Spec => []TypeOK
  <1>1. IInv => TypeOK
    BY DEF IInv
  <1> QED BY <1>1, Invariance, PTL

\* At most one model is the default as long as admin operations and process starts
\* follow one another, for every choice of payloads and seeds.
THEOREM SingleDefault == Spec => []OneDefault
  <1>1. IInv => OneDefault
    <2> SUFFICES ASSUME IInv, ~overlapped PROVE Cardinality(Defaults) <= 1
      BY DEF OneDefault
    <2>1. \A m, n \in Defaults : m = n
      BY DEF IInv, DefaultSound, Defaults, Marked
    <2>2. Defaults = {} \/ \E d : Defaults = {d}
      BY <2>1
    <2>3. CASE Defaults = {}
      BY <2>3, FS_EmptySet
    <2>4. ASSUME NEW d, Defaults = {d} PROVE Cardinality(Defaults) <= 1
      BY <2>4, FS_Singleton
    <2> QED BY <2>2, <2>3, <2>4
  <1> QED BY <1>1, Invariance, PTL

\* The default model serves the requests for "default", unless operations overlap,
\* one makes an inactive model the default or another model is called "default".
THEOREM DefaultReached == Spec => []DefaultServes
  <1>1. IInv => DefaultServes
    <2> SUFFICES ASSUME IInv, ~overlapped, ~forced,
                        NEW d \in Defaults, NEW up \in [Backends -> BOOLEAN]
                 PROVE  /\ row[d].active
                        /\ row[d].primary # NoBackend /\ up[row[d].primary] =>
                              /\ Named(up) \subseteq {d} => SelectedByDefault(up) = {d}
                              /\ Candidates(d, up) # {}
      BY DEF DefaultServes
    <2>1. /\ d \in Models /\ row[d] \in Row /\ row[d].live /\ row[d].default /\ row[d].active
          /\ \A m \in Models : row[m].live /\ row[m].default => m = d
      BY DEF IInv, TypeOK, DefaultSound, Defaults, Marked
    <2> SUFFICES ASSUME row[d].primary # NoBackend, up[row[d].primary]
                 PROVE  /\ Named(up) \subseteq {d} => SelectedByDefault(up) = {d}
                        /\ Candidates(d, up) # {}
      BY <2>1
    <2>2. {m \in Listed(up) : row[m].default} = {d}
      BY <2>1 DEF Listed
    <2>3. ASSUME Named(up) \subseteq {d} PROVE SelectedByDefault(up) = {d}
      <3>1. CASE Named(up) = {}
        BY <2>2, <3>1 DEF SelectedByDefault
      <3>2. CASE Named(up) # {}
        <4>1. Named(up) = {d}
          BY <2>3, <3>2
        <4>2. {m \in {d} : row[m].default} = {d}
          BY <2>1
        <4> QED BY <4>1, <4>2 DEF SelectedByDefault
      <3> QED BY <3>1, <3>2
    <2>4. row[d].primary \in Backends
      BY <2>1 DEF Row
    <2>5. Candidates(d, up) # {}
      BY <2>4 DEF Candidates
    <2> QED BY <2>3, <2>5
  <1> QED BY <1>1, Invariance, PTL

\* Whatever earlier operations left, one that marks a default and runs alone leaves
\* exactly that one, or none if it is a start in which its row answers for two seeds.
THEOREM Decided == Spec => DefaultDecided
  <1> DEFINE Left(s) == IF seeded[s] > 0 /\ TwoSeeds(keeper[s]) THEN {} ELSE {keeper[s]}
  <1>1. IInv /\ [Next]_vars =>
           [\A s \in Sessions : Commit(s) /\ keeper[s] # Unset /\ alone[s]
               => Defaults' = Left(s)]_vars
    <2> SUFFICES ASSUME IInv, NEW s \in Sessions, Commit(s), keeper[s] # Unset, alone[s]
                 PROVE  Defaults' = Left(s)
      OBVIOUS
    <2>1. keeper[s] \in Models
      BY DEF IInv, TypeOK
    <2> QED BY <2>1, KeeperDecides DEF Defaults
  <1> QED BY <1>1, Invariance, PTL DEF DefaultDecided, Spec
===============================================================================
