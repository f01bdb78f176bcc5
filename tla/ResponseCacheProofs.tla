-------------------------- MODULE ResponseCacheProofs --------------------------
(***************************************************************************)
(* Proofs about ResponseCache for any number of requests, prompts and      *)
(* changes, and any time to live.                                          *)
(***************************************************************************)
EXTENDS ResponseCache, TLAPS

\* A row answers what its key stands for, under a template there was, and has the
\* identity of the rows inserted since the last clearing.
RowAnswers(k, row) ==
    /\ row \in Rows
    /\ row.answer.endpoint = k.endpoint
    /\ row.answer.prompt = k.prompt
    /\ row.answer.template <= template
    /\ row.id = clears

\* A row that was stored in time expires at most TTL after its template was replaced.
RowExpires(row) ==
    LET v == row.answer.template IN
    ~row.late => row.expires <= TTL + IF v = template THEN clock ELSE retiredAt[v]

Table ==
    /\ rows \in [RowKeys -> Rows \cup {NoRow}]
    /\ \A k \in RowKeys : rows[k] # NoRow => RowAnswers(k, rows[k]) /\ RowExpires(rows[k])

Key(m) == [endpoint |-> EndpointOf(m.kind), prompt |-> m.prompt]
Question(m) == [endpoint |-> EndpointOf(m.kind), prompt |-> m.prompt, template |-> m.template]

\* What a request holds: a template there was; the answer to its own question,
\* which it is about to store; the row that it has found.
Copies(m) ==
    /\ m \in RequestState
    /\ m.template <= template
    /\ m.pc \in {"insert", "replace"} =>
          m.row \in Rows /\ m.row.answer = Question(m) /\ m.row.expires <= clock + TTL
    /\ m.pc = "hit" =>
          /\ m.row \in Rows
          /\ m.row.answer.endpoint = EndpointOf(m.kind)
          /\ m.row.answer.prompt = m.prompt

\* The row is as the request has read it, unless others inserted or removed it; a
\* request that lost its answer was told so.
AsRead(m) ==
    /\ ~m.touched => /\ m.pc \in {"hit", "replace"} => rows[Key(m)] # NoRow /\ rows[Key(m)].id = m.row.id
                     /\ m.pc = "insert" => rows[Key(m)] = NoRow
    /\ m.pc = "lost" => m.touched

\* The row it has found was in time for its template.
InTime(m) ==
    m.pc = "hit" /\ m.row.answer.template < m.template =>
        m.at < retiredAt[m.row.answer.template] + TTL \/ m.row.late

Sound(m) == Copies(m) /\ AsRead(m) /\ InTime(m)

Globals ==
    /\ clock \in 0..MaxClock
    /\ prompt \in Prompts
    /\ template \in Nat /\ template <= changes
    /\ retiredAt \in [Versions -> 0..MaxClock]
    /\ requests \in 0..MaxRequests
    /\ changes \in 0..MaxChanges
    /\ clears \in 0..MaxClears

IInv ==
    /\ Globals
    /\ Table
    /\ req \in [Requests -> RequestState]
    /\ \A r \in Requests : Sound(req[r])

-------------------------------------------------------------------------------
\* The bounds and the time to live are numbers.
LEMMA Bounds == {MaxClock, MaxRequests, MaxChanges, MaxClears, TTL} \subseteq Nat
  BY CacheAssumption

\* The key of a request is a key of the table.
LEMMA KeyType ==
    ASSUME NEW m \in RequestState
    PROVE  Key(m) \in RowKeys /\ m.prompt \in Prompts /\ EndpointOf(m.kind) \in Endpoints
  BY DEF RequestState, Key, RowKeys, EndpointOf, Kinds, Endpoints

\* A request that is over holds nothing.
LEMMA NoRequestSound ==
    Globals => NoRequest \in RequestState /\ Sound(NoRequest)
  <1> SUFFICES ASSUME Globals PROVE NoRequest \in RequestState /\ Sound(NoRequest)
    OBVIOUS
  <1>1. NoRequest \in RequestState
    BY CacheAssumption DEF NoRequest, RequestState, Kinds, Versions
  <1>2. Copies(NoRequest)
    BY <1>1 DEF NoRequest, Copies, Globals
  <1> QED BY <1>1, <1>2 DEF NoRequest, AsRead, InTime, Sound

\* The table starts empty.
LEMMA InitIInv == Init => IInv
  <1> SUFFICES ASSUME Init PROVE IInv
    OBVIOUS
  <1>1. Globals
    BY CacheAssumption DEF Init, Globals, Versions
  <1>2. Table
    BY DEF Init, Table
  <1>3. \A r \in Requests : req[r] = NoRequest
    BY DEF Init
  <1>4. req \in [Requests -> RequestState]
    BY <1>1, NoRequestSound DEF Init
  <1> QED BY <1>1, <1>2, <1>3, <1>4, NoRequestSound DEF IInv

\* The steps that leave the table and the clock alone and change one request.
LEMMA OneRequest ==
    ASSUME IInv, NEW r \in Requests, NEW new, req' = [req EXCEPT ![r] = new],
           Sound(new), requests' \in 0..MaxRequests,
           UNCHANGED <<clock, prompt, template, retiredAt, rows, changes, clears>>
    PROVE  IInv'
  <1>1. new \in RequestState
    BY DEF Sound, Copies
  <1>2. /\ req' \in [Requests -> RequestState]
        /\ req'[r] = new /\ \A q \in Requests \ {r} : req'[q] = req[q]
    BY <1>1 DEF IInv
  <1>3. \A m : Sound(m)' <=> Sound(m)
    BY DEF Sound, Copies, AsRead, InTime
  <1>4. \A q \in Requests : Sound(req'[q])
    BY <1>2 DEF IInv
  <1>5. Globals' /\ Table'
    BY DEF IInv, Globals, Table, RowAnswers, RowExpires
  <1> QED BY <1>2, <1>3, <1>4, <1>5 DEF IInv

\* A request ends with its answer, or without it after a race.
LEMMA EndsSound ==
    ASSUME IInv, NEW r \in Requests, req[r].touched \/ Answer(r),
           Answer(r) \/ Lose(r), requests' = requests,
           UNCHANGED <<clock, prompt, template, retiredAt, rows, changes, clears>>
    PROVE  IInv'
  <1>1. Sound(NoRequest)
    BY NoRequestSound DEF IInv
  <1>2. requests' \in 0..MaxRequests
    BY DEF IInv, Globals
  <1>3. CASE Answer(r)
    BY <1>1, <1>2, <1>3, OneRequest DEF Answer
  <1>4. CASE Lose(r) /\ req[r].touched
    <2> DEFINE new == [NoRequest EXCEPT !.pc = "lost", !.touched = req[r].touched]
    <2>1. NoRequest \in RequestState
      BY NoRequestSound DEF IInv
    <2>2. /\ new.pc = "lost" /\ new.touched /\ new.template = 0
          /\ new \in RequestState
      BY <1>4, <2>1 DEF NoRequest, RequestState
    <2>3. req' = [req EXCEPT ![r] = new]
      BY <1>4 DEF Lose
    <2> HIDE DEF new
    <2>4. Sound(new)
      BY <2>2 DEF Sound, Copies, AsRead, InTime, IInv, Globals
    <2> QED BY <1>2, <2>3, <2>4, OneRequest
  <1> QED BY <1>3, <1>4

\* A request takes the prompt and the template there are.
LEMMA StartIInv ==
    ASSUME IInv, NEW r \in Requests, NEW kind \in Kinds, Start(r, kind)
    PROVE  IInv'
  <1> DEFINE new == [NoRequest EXCEPT !.pc = "ready", !.kind = kind,
                       !.prompt = PromptOf(kind, prompt), !.template = template]
  <1>1. NoRequest \in RequestState
    BY NoRequestSound DEF IInv
  <1>2. PromptOf(kind, prompt) \in Prompts /\ template \in Versions
    BY CacheAssumption DEF PromptOf, IInv, Globals, Versions
  <1>3. new \in RequestState /\ new.pc = "ready" /\ new.template = template
    BY <1>1, <1>2 DEF NoRequest, RequestState
  <1>4. /\ req' = [req EXCEPT ![r] = new] /\ requests' \in 0..MaxRequests
        /\ UNCHANGED <<clock, prompt, template, retiredAt, rows, changes, clears>>
    BY Bounds DEF Start, IInv, Globals
  <1> HIDE DEF new
  <1>5. Sound(new)
    BY <1>3 DEF Sound, Copies, AsRead, InTime, IInv, Globals
  <1> QED BY <1>4, <1>5, OneRequest

\* The row that is found has been in the table for less than its time.
LEMMA LookupIInv ==
    ASSUME IInv, NEW r \in Requests, Lookup(r)
    PROVE  IInv'
  <1> DEFINE row == rows[KeyOf(r)]
             new == [req[r] EXCEPT !.pc = IF Found(r) THEN "hit" ELSE "miss",
                                   !.row = IF Found(r) THEN row ELSE NoRow,
                                   !.at = clock, !.touched = FALSE]
  <1>1. req[r] \in RequestState /\ KeyOf(r) \in RowKeys /\ KeyOf(r) = Key(req[r])
        /\ req[r].template <= template /\ req[r].template \in Nat
    BY KeyType DEF IInv, KeyOf, Key, Sound, Copies, RequestState, Versions
  <1>2. Found(r) => row \in Rows /\ RowAnswers(KeyOf(r), row) /\ RowExpires(row) /\ row.expires > clock
    BY <1>1 DEF Found, IInv, Table, RowAnswers
  <1>3. /\ new \in RequestState
        /\ new.pc = IF Found(r) THEN "hit" ELSE "miss"
        /\ new.row = IF Found(r) THEN row ELSE NoRow
        /\ new.kind = req[r].kind /\ new.prompt = req[r].prompt /\ new.template = req[r].template
        /\ new.at = clock
    BY <1>1, <1>2 DEF RequestState, IInv, Globals
  <1>4. /\ req' = [req EXCEPT ![r] = new] /\ requests' \in 0..MaxRequests
        /\ UNCHANGED <<clock, prompt, template, retiredAt, rows, changes, clears>>
    BY DEF Lookup, IInv, Globals
  <1>5. Key(new) = KeyOf(r) /\ KeyOf(r).endpoint = EndpointOf(new.kind) /\ KeyOf(r).prompt = new.prompt
    BY <1>1, <1>3 DEF Key, KeyOf
  <1> HIDE DEF new
  <1>6. Copies(new)
    BY <1>1, <1>2, <1>3, <1>5 DEF Copies, RowAnswers
  <1>7. AsRead(new)
    BY <1>2, <1>3, <1>5 DEF AsRead, Found
  <1>8. InTime(new)
    <2> SUFFICES ASSUME new.pc = "hit", new.row.answer.template < new.template
                 PROVE  new.at < retiredAt[new.row.answer.template] + TTL \/ new.row.late
      BY DEF InTime
    <2>1. Found(r) /\ new.row = row /\ row.expires > clock /\ RowExpires(row) /\ row \in Rows
      BY <1>2, <1>3
    <2> DEFINE v == row.answer.template
    <2>2. v \in Versions /\ v < req[r].template /\ row.expires \in Nat
      BY <1>3, <2>1 DEF Rows, Answers, Times
    <2>3. v # template /\ retiredAt[v] \in Nat /\ clock \in Nat /\ TTL \in Nat
      BY <1>1, <2>2, Bounds DEF IInv, Globals, Versions
    <2>4. row.late \/ row.expires <= TTL + retiredAt[v]
      BY <2>1, <2>3 DEF RowExpires
    <2> HIDE DEF v
    <2> QED BY <1>3, <2>1, <2>2, <2>3, <2>4 DEF v
  <1> QED BY <1>4, <1>6, <1>7, <1>8, OneRequest DEF Sound

\* A hit counts in its row, which is still there unless it was touched.
LEMMA CommitHitIInv ==
    ASSUME IInv, NEW r \in Requests, CommitHit(r)
    PROVE  IInv'
  <1>1. req[r].touched \/ Present(r)
    <2>1. AsRead(req[r]) /\ req[r].pc = "hit" /\ KeyOf(r) = Key(req[r])
      BY DEF CommitHit, IInv, Sound, KeyOf, Key
    <2> QED BY <2>1 DEF AsRead, Present
  <1>2. UNCHANGED <<clock, prompt, template, retiredAt, rows, requests, changes, clears>>
    BY DEF CommitHit
  <1>3. CASE Present(r)
    <2>1. Answer(r)
      BY <1>3 DEF CommitHit
    <2> QED BY <1>2, <2>1, EndsSound
  <1>4. CASE ~Present(r)
    <2>1. Lose(r) /\ req[r].touched
      BY <1>1, <1>4 DEF CommitHit
    <2> QED BY <1>2, <2>1, EndsSound
  <1> QED BY <1>3, <1>4

\* A request whose backend fails stores nothing.
LEMMA BackendFailsIInv ==
    ASSUME IInv, NEW r \in Requests, BackendFails(r)
    PROVE  IInv'
  BY EndsSound DEF BackendFails

\* The store decides on what it reads: a row to be replaced or one to be inserted.
LEMMA StoreReadsIInv ==
    ASSUME IInv, NEW r \in Requests, StoreReads(r)
    PROVE  IInv'
  <1> DEFINE old == rows[KeyOf(r)]
             row == [Entry(r) EXCEPT !.id = IF old # NoRow THEN old.id ELSE 0]
             new == [req[r] EXCEPT !.pc = IF old # NoRow THEN "replace" ELSE "insert",
                                   !.row = row, !.touched = FALSE]
  <1>1. req[r] \in RequestState /\ KeyOf(r) \in RowKeys /\ KeyOf(r) = Key(req[r])
        /\ req[r].template <= template
    BY KeyType DEF IInv, KeyOf, Key, Sound, Copies
  <1>2. old # NoRow => old.id \in 0..MaxClears
    BY <1>1 DEF IInv, Table, Rows
  <1>3. Asked(r) \in Answers /\ Asked(r) = Question(req[r])
    BY <1>1, KeyType DEF Asked, Question, Answers, RequestState
  <1>4. clock + TTL \in Times /\ 0 \in 0..MaxClears
    BY Bounds DEF Times, IInv, Globals
  <1>5. row \in Rows /\ row.answer = Asked(r) /\ row.expires = clock + TTL
        /\ row.id = IF old # NoRow THEN old.id ELSE 0
    <2> DEFINE id == IF old # NoRow THEN old.id ELSE 0
               entry == [answer |-> Asked(r), expires |-> clock + TTL, id |-> 0, late |-> FALSE]
    <2>1. id \in 0..MaxClears /\ row = [entry EXCEPT !.id = id]
      BY <1>2, <1>4 DEF Entry
    <2>2. entry \in Rows
      BY <1>3, <1>4 DEF Rows
    <2>3. entry.answer = Asked(r) /\ entry.expires = clock + TTL
      OBVIOUS
    <2> HIDE DEF id, entry, row
    <2>4. row \in Rows /\ row.answer = entry.answer /\ row.expires = entry.expires /\ row.id = id
      BY <2>1, <2>2 DEF Rows
    <2> QED BY <2>3, <2>4 DEF id
  <1> HIDE DEF row
  <1>6. /\ new \in RequestState
        /\ new.pc = IF old # NoRow THEN "replace" ELSE "insert"
        /\ new.row = row
        /\ new.kind = req[r].kind /\ new.prompt = req[r].prompt /\ new.template = req[r].template
    BY <1>1, <1>5 DEF RequestState
  <1>7. /\ req' = [req EXCEPT ![r] = new] /\ requests' \in 0..MaxRequests
        /\ UNCHANGED <<clock, prompt, template, retiredAt, rows, changes, clears>>
    BY DEF StoreReads, IInv, Globals, row
  <1>8. Key(new) = KeyOf(r) /\ Question(new) = Asked(r)
    BY <1>1, <1>3, <1>6 DEF Key, KeyOf, Question
  <1> HIDE DEF new
  <1>9. Copies(new)
    BY <1>1, <1>4, <1>5, <1>6, <1>8, Bounds DEF Copies, IInv, Globals
  <1>10. AsRead(new) /\ InTime(new)
    BY <1>5, <1>6, <1>8 DEF AsRead, InTime
  <1> QED BY <1>7, <1>9, <1>10, OneRequest DEF Sound

-------------------------------------------------------------------------------
(***************************************************************************)
(* Steps on the table, the clock and the template.                         *)
(***************************************************************************)

\* What is written for a request that stores its answer.
LEMMA StoredRow ==
    ASSUME IInv, NEW r \in Requests, req[r].pc \in {"insert", "replace"},
           NEW id \in 0..MaxClears, id = clears
    PROVE  RowAnswers(KeyOf(r), Stored(r, id)) /\ RowExpires(Stored(r, id)) /\ Stored(r, id).id = id
  <1> DEFINE row == Stored(r, id)
             m == req[r]
  <1>1. /\ m \in RequestState /\ m.template <= template
        /\ m.row \in Rows /\ m.row.answer = Question(m) /\ m.row.expires <= clock + TTL
    BY DEF IInv, Sound, Copies
  <1>2. /\ row \in Rows /\ row.answer = m.row.answer /\ row.expires = m.row.expires
        /\ row.id = id /\ (~row.late => m.template = template)
    <2> DEFINE late == m.template # template
    <2>1. row = [m.row EXCEPT !.id = id, !.late = late] /\ late \in BOOLEAN
      BY DEF Stored
    <2> HIDE DEF row, late
    <2>2. /\ row \in Rows /\ row.answer = m.row.answer /\ row.expires = m.row.expires
          /\ row.id = id /\ row.late = late
      BY <1>1, <2>1 DEF Rows
    <2> QED BY <2>2 DEF late
  <1> HIDE DEF row
  <1>3. /\ m.row.answer.endpoint = KeyOf(r).endpoint /\ m.row.answer.prompt = KeyOf(r).prompt
        /\ m.row.answer.template = m.template
    BY <1>1 DEF Question, KeyOf
  <1>4. RowAnswers(KeyOf(r), row)
    BY <1>1, <1>2, <1>3 DEF RowAnswers
  <1>5. RowExpires(row)
    <2> SUFFICES ASSUME ~row.late PROVE row.expires <= TTL + clock /\ row.answer.template = template
      BY DEF RowExpires
    <2>1. clock \in Nat /\ TTL \in Nat /\ m.row.expires \in Nat
      BY <1>1, Bounds DEF IInv, Globals, Rows, Times
    <2> QED BY <1>1, <1>2, <1>3, <2>1
  <1> QED BY <1>2, <1>4, <1>5 DEF row

\* A table with one row written is a table.
LEMMA WriteTable ==
    ASSUME IInv, NEW k \in RowKeys, NEW row, rows' = [rows EXCEPT ![k] = row],
           RowAnswers(k, row), RowExpires(row),
           UNCHANGED <<clock, template, retiredAt, clears>>
    PROVE  Table' /\ rows'[k] = row /\ row # NoRow /\ \A j \in RowKeys \ {k} : rows'[j] = rows[j]
  <1>1. row \in Rows /\ row # NoRow
    BY CacheAssumption DEF RowAnswers
  <1>2. rows' \in [RowKeys -> Rows \cup {NoRow}] /\ rows'[k] = row
        /\ \A j \in RowKeys \ {k} : rows'[j] = rows[j]
    BY <1>1 DEF IInv, Table
  <1>3. \A j, x : (RowAnswers(j, x)' <=> RowAnswers(j, x)) /\ (RowExpires(x)' <=> RowExpires(x))
    BY DEF RowAnswers, RowExpires
  <1>4. \A j \in RowKeys : rows'[j] # NoRow => RowAnswers(j, rows'[j]) /\ RowExpires(rows'[j])
    BY <1>2 DEF IInv, Table
  <1> QED BY <1>1, <1>2, <1>3, <1>4 DEF Table

\* The request that loses the race to insert had been told of the row.
LEMMA CommitInsertIInv ==
    ASSUME IInv, NEW r \in Requests, CommitInsert(r)
    PROVE  IInv'
  <1>1. /\ req[r].pc = "insert" /\ KeyOf(r) \in RowKeys /\ KeyOf(r) = Key(req[r])
        /\ req \in [Requests -> RequestState]
        /\ UNCHANGED <<clock, prompt, template, retiredAt, requests, changes, clears>>
    BY KeyType DEF CommitInsert, IInv, KeyOf, Key
  <1>2. CASE rows[KeyOf(r)] # NoRow
    <2>1. req[r].touched
      <3>1. AsRead(req[r])
        BY DEF IInv, Sound
      <3> QED BY <1>1, <1>2, <3>1 DEF AsRead
    <2>2. Lose(r) /\ rows' = rows
      BY <1>2 DEF CommitInsert
    <2> QED BY <1>1, <2>1, <2>2, EndsSound
  <1>3. CASE rows[KeyOf(r)] = NoRow
    <2> DEFINE k == KeyOf(r)
               row == Stored(r, clears)
    <2>1. /\ rows' = [rows EXCEPT ![k] = row]
          /\ req' = [Touch(k, r) EXCEPT ![r] = NoRequest]
      BY <1>3 DEF CommitInsert
    <2>2. clears \in 0..MaxClears
      BY DEF IInv, Globals
    <2>3. RowAnswers(k, row) /\ RowExpires(row)
      BY <1>1, <2>2, StoredRow
    <2> HIDE DEF row, k
    <2>4. Table' /\ \A j \in RowKeys \ {k} : rows'[j] = rows[j]
      BY <1>1, <2>1, <2>3, WriteTable DEF k
    <2>5. ASSUME NEW q \in Requests, q # r
          PROVE  req'[q] \in RequestState /\ Sound(req[q])'
      <3>0. PICK m, n : m = req[q] /\ n = req'[q]
        OBVIOUS
      <3>1. m \in RequestState /\ Sound(m) /\ Key(m) \in RowKeys /\ KeyOf(q) = Key(m)
        BY <3>0, KeyType DEF IInv, KeyOf, Key
      <3>2. n = IF m.pc \in {"hit", "miss", "insert", "replace"} /\ Key(m) = k
                THEN [m EXCEPT !.touched = TRUE] ELSE m
        BY <2>1, <2>5, <3>0, <3>1 DEF Touch
      <3>3. /\ n \in RequestState /\ n.pc = m.pc /\ n.kind = m.kind /\ n.prompt = m.prompt
            /\ n.template = m.template /\ n.row = m.row /\ n.at = m.at
            /\ m.touched => n.touched
            /\ m.pc \in {"hit", "insert", "replace"} /\ Key(m) = k => n.touched
        BY <3>1, <3>2 DEF RequestState
      <3>4. Key(n) = Key(m) /\ Question(n) = Question(m)
        BY <3>3 DEF Key, Question
      <3>5. Copies(n)' /\ InTime(n)'
        BY <1>1, <3>1, <3>3, <3>4 DEF Sound, Copies, InTime
      <3>6. AsRead(n)'
        BY <2>4, <3>1, <3>3, <3>4 DEF Sound, AsRead
      <3>7. Sound(n)'
        BY <3>5, <3>6 DEF Sound
      <3> QED BY <3>0, <3>3, <3>7
    <2>6. req'[r] = NoRequest /\ req' \in [Requests -> RequestState]
      <3>1. req'[r] = NoRequest /\ NoRequest \in RequestState
        BY <2>1, NoRequestSound DEF Touch, IInv
      <3>2. req' = [q \in Requests |-> req'[q]]
        BY <2>1 DEF Touch
      <3> QED BY <2>5, <3>1, <3>2
    <2>7. Globals'
      BY <1>1 DEF IInv, Globals
    <2>8. Sound(NoRequest)'
      BY <2>7, NoRequestSound, PTL
    <2> QED BY <2>4, <2>5, <2>6, <2>7, <2>8 DEF IInv
  <1> QED BY <1>2, <1>3

\* A row that is replaced keeps its identity: those who read it still find it.
LEMMA CommitReplaceIInv ==
    ASSUME IInv, NEW r \in Requests, CommitReplace(r)
    PROVE  IInv'
  <1>1. /\ req[r].pc = "replace" /\ KeyOf(r) \in RowKeys /\ KeyOf(r) = Key(req[r])
        /\ req \in [Requests -> RequestState]
        /\ UNCHANGED <<clock, prompt, template, retiredAt, requests, changes, clears>>
    BY KeyType DEF CommitReplace, IInv, KeyOf, Key
  <1>2. CASE ~Present(r)
    <2>1. req[r].touched
      <3>1. AsRead(req[r])
        BY DEF IInv, Sound
      <3> QED BY <1>1, <1>2, <3>1 DEF AsRead, Present
    <2>2. Lose(r) /\ rows' = rows
      BY <1>2 DEF CommitReplace
    <2> QED BY <1>1, <2>1, <2>2, EndsSound
  <1>3. CASE Present(r)
    <2>1. PICK k \in RowKeys, id \in 0..MaxClears :
             k = KeyOf(r) /\ id = req[r].row.id /\ id = clears /\ rows[k] # NoRow /\ rows[k].id = id
      BY <1>1, <1>3 DEF Present, IInv, Table, RowAnswers, Globals
    <2>2. PICK row : row = Stored(r, id)
      OBVIOUS
    <2>3. rows' = [rows EXCEPT ![k] = row] /\ req' = [req EXCEPT ![r] = NoRequest]
      BY <1>3, <2>1, <2>2 DEF CommitReplace, Answer
    <2>4. RowAnswers(k, row) /\ RowExpires(row) /\ row.id = id
      BY <1>1, <2>1, <2>2, StoredRow
    <2>5. /\ Table' /\ rows'[k] = row /\ row # NoRow
          /\ \A j \in RowKeys \ {k} : rows'[j] = rows[j]
      BY <1>1, <2>3, <2>4, WriteTable
    <2>6. Globals'
      BY <1>1 DEF IInv, Globals
    <2>7. ASSUME NEW m, Sound(m)
          PROVE  Sound(m)'
      <3>1. Copies(m)' /\ InTime(m)'
        BY <1>1, <2>7 DEF Sound, Copies, InTime
      <3>2. Key(m) \in RowKeys
        BY <2>7, KeyType DEF Sound, Copies
      <3>3. AsRead(m)'
        BY <2>1, <2>4, <2>5, <2>7, <3>2 DEF Sound, AsRead
      <3> QED BY <3>1, <3>3 DEF Sound
    <2>8. /\ req' \in [Requests -> RequestState] /\ req'[r] = NoRequest
          /\ \A q \in Requests \ {r} : req'[q] = req[q]
      BY <1>1, <2>3, NoRequestSound DEF IInv
    <2>9. \A q \in Requests : Sound(req'[q])
      BY <2>8, NoRequestSound DEF IInv
    <2> QED BY <2>5, <2>6, <2>7, <2>8, <2>9 DEF IInv
  <1> QED BY <1>2, <1>3

\* Time passes for rows and requests alike.
LEMMA TickIInv ==
    ASSUME IInv, Tick
    PROVE  IInv'
  <1>1. /\ clock \in Nat /\ clock' = clock + 1 /\ TTL \in Nat /\ clock' \in 0..MaxClock
        /\ UNCHANGED <<prompt, template, retiredAt, rows, req, requests, changes, clears>>
    BY Bounds DEF Tick, IInv, Globals
  <1>2. Globals'
    BY <1>1 DEF IInv, Globals
  <1>3. Table'
    <2>1. ASSUME NEW k \in RowKeys, NEW row, RowAnswers(k, row), RowExpires(row)
          PROVE  RowAnswers(k, row)' /\ RowExpires(row)'
      <3>1. row \in Rows /\ row.expires \in Nat /\ row.answer.template \in Versions
        BY <2>1 DEF RowAnswers, Rows, Answers, Times
      <3>2. retiredAt[row.answer.template] \in Nat
        BY <3>1, Bounds DEF IInv, Globals
      <3> QED BY <1>1, <2>1, <3>1, <3>2 DEF RowAnswers, RowExpires
    <2> QED BY <1>1, <2>1 DEF IInv, Table
  <1>4. ASSUME NEW m, Sound(m)
        PROVE  Sound(m)'
    <2>1. m.pc \in {"insert", "replace"} => m.row.expires \in Nat
      BY <1>4 DEF Sound, Copies, Rows, Times
    <2>2. Copies(m)'
      BY <1>1, <1>4, <2>1 DEF Sound, Copies
    <2> QED BY <1>1, <1>4, <2>2 DEF Sound, AsRead, InTime
  <1> QED BY <1>1, <1>2, <1>3, <1>4 DEF IInv

\* No row and no request knows of a system prompt but its own.
LEMMA PatchSystemPromptIInv ==
    ASSUME IInv, NEW p \in Prompts, PatchSystemPrompt(p)
    PROVE  IInv'
  <1>1. UNCHANGED <<clock, template, retiredAt, rows, req, requests, clears>>
    BY DEF PatchSystemPrompt
  <1>2. Globals'
    BY <1>1, Bounds DEF PatchSystemPrompt, IInv, Globals
  <1>3. Table'
    BY <1>1 DEF IInv, Table, RowAnswers, RowExpires
  <1>4. \A m : Sound(m)' <=> Sound(m)
    BY <1>1 DEF Sound, Copies, AsRead, InTime
  <1> QED BY <1>1, <1>2, <1>3, <1>4 DEF IInv

\* The rows of the template that is replaced expire within TTL from now.
LEMMA PatchPromptTemplateIInv ==
    ASSUME IInv, PatchPromptTemplate
    PROVE  IInv'
  <1>1. /\ template \in Nat /\ template \in Versions /\ template' = template + 1
        /\ retiredAt' = [retiredAt EXCEPT ![template] = clock]
        /\ UNCHANGED <<clock, prompt, rows, req, requests, clears>>
    BY Bounds DEF PatchPromptTemplate, IInv, Globals, Versions
  <1>2. Globals'
    BY <1>1, Bounds DEF PatchPromptTemplate, IInv, Globals
  <1>3. /\ retiredAt \in [Versions -> 0..MaxClock] /\ retiredAt'[template] = clock
        /\ \A v \in Versions \ {template} : retiredAt'[v] = retiredAt[v]
    BY <1>1 DEF IInv, Globals
  <1>4. Table'
    <2>1. ASSUME NEW k \in RowKeys, NEW row, RowAnswers(k, row), RowExpires(row)
          PROVE  RowAnswers(k, row)' /\ RowExpires(row)'
      <3>1. /\ row \in Rows /\ row.answer.template \in Versions /\ row.answer.template \in Nat
            /\ row.answer.template <= template
        BY <2>1 DEF RowAnswers, Rows, Answers, Versions
      <3>2. row.answer.template # template'
        BY <1>1, <3>1
      <3> QED BY <1>1, <1>3, <2>1, <3>1, <3>2 DEF RowAnswers, RowExpires
    <2> QED BY <1>1, <2>1 DEF IInv, Table
  <1>5. ASSUME NEW m, Sound(m)
        PROVE  Sound(m)'
    <2>1. /\ m.template \in Nat /\ m.template <= template
          /\ m.pc = "hit" => m.row.answer.template \in Versions /\ m.row.answer.template \in Nat
      BY <1>5 DEF Sound, Copies, RequestState, Versions, Rows, Answers
    <2>2. Copies(m)'
      BY <1>1, <1>5, <2>1 DEF Sound, Copies
    <2>3. InTime(m)'
      BY <1>1, <1>3, <1>5, <2>1 DEF Sound, InTime
    <2>4. AsRead(m)'
      BY <1>1, <1>5 DEF Sound, AsRead
    <2> QED BY <2>2, <2>3, <2>4 DEF Sound
  <1> QED BY <1>1, <1>2, <1>4, <1>5 DEF IInv

\* A clearing tells every request that has read a row or found none.
LEMMA ClearIInv ==
    ASSUME IInv, ClearResponseCache
    PROVE  IInv'
  <1>1. /\ rows' = [k \in RowKeys |-> NoRow]
        /\ UNCHANGED <<clock, prompt, template, retiredAt, requests, changes>>
    BY DEF ClearResponseCache
  <1>2. Globals'
    BY <1>1, Bounds DEF ClearResponseCache, IInv, Globals
  <1>3. Table'
    BY <1>1 DEF Table
  <1>4. ASSUME NEW q \in Requests
        PROVE  req'[q] \in RequestState /\ Sound(req[q])'
    <2>0. PICK m, n : m = req[q] /\ n = req'[q]
      OBVIOUS
    <2>1. m \in RequestState /\ Sound(m)
      BY <2>0 DEF IInv
    <2>2. n = IF m.pc \in {"hit", "miss", "insert", "replace"} THEN [m EXCEPT !.touched = TRUE] ELSE m
      BY <2>0 DEF ClearResponseCache
    <2>3. /\ n \in RequestState /\ n.pc = m.pc /\ n.kind = m.kind /\ n.prompt = m.prompt
          /\ n.template = m.template /\ n.row = m.row /\ n.at = m.at
          /\ m.touched => n.touched
          /\ m.pc \in {"hit", "insert", "replace"} => n.touched
      BY <2>1, <2>2 DEF RequestState
    <2>4. Question(n) = Question(m)
      BY <2>3 DEF Question
    <2>5. Copies(n)' /\ InTime(n)'
      BY <1>1, <2>1, <2>3, <2>4 DEF Sound, Copies, InTime
    <2>6. AsRead(n)'
      BY <2>1, <2>3 DEF Sound, AsRead
    <2>7. Sound(n)'
      BY <2>5, <2>6 DEF Sound
    <2> QED BY <2>0, <2>3, <2>7
  <1>5. req' \in [Requests -> RequestState]
    <2>1. req' = [q \in Requests |-> req'[q]]
      BY DEF ClearResponseCache
    <2> QED BY <1>4, <2>1
  <1> QED BY <1>2, <1>3, <1>4, <1>5 DEF IInv

-------------------------------------------------------------------------------
\* Each step keeps the inductive invariant.
LEMMA NextIInv == IInv /\ [Next]_vars => IInv'
  <1> SUFFICES ASSUME IInv, [Next]_vars PROVE IInv'
    OBVIOUS
  <1>1. ASSUME NEW r \in Requests, RequestStep(r)
        PROVE  IInv'
    BY <1>1, StartIInv, LookupIInv, CommitHitIInv, BackendFailsIInv, StoreReadsIInv,
       CommitInsertIInv, CommitReplaceIInv DEF RequestStep
  <1>2. CASE UNCHANGED vars
    <2>1. UNCHANGED <<clock, prompt, template, retiredAt, rows, req, requests, changes, clears>>
      BY <1>2 DEF vars
    <2>2. Globals' /\ Table' /\ \A m : Sound(m)' <=> Sound(m)
      BY <2>1 DEF IInv, Globals, Table, RowAnswers, RowExpires, Sound, Copies, AsRead, InTime
    <2> QED BY <2>1, <2>2 DEF IInv
  <1> QED BY <1>1, <1>2, TickIInv, PatchSystemPromptIInv, PatchPromptTemplateIInv, ClearIInv
          DEF Next, Quiet

\* The inductive invariant holds in every reachable state.
THEOREM Invariance == Spec => []IInv
  BY InitIInv, NextIInv, PTL DEF Spec

\* Rows, requests, clock and versions keep their types.
THEOREM TypeCorrect == Spec => []TypeOK
  <1>1. IInv => TypeOK
    BY Bounds DEF IInv, Globals, Table, TypeOK, Versions
  <1> QED BY <1>1, Invariance, PTL

\* A cached answer was given to the question the request asks.
THEOREM HitAnswers == Spec => []HitAnswersTheQuestion
  <1>1. IInv => HitAnswersTheQuestion
    BY DEF IInv, Sound, Copies, HitAnswersTheQuestion, IsHit
  <1> QED BY <1>1, Invariance, PTL

\* An answer from before a change of template is given for less than the TTL after
\* it, unless it was stored after it.
THEOREM StaleBounded == Spec => []StaleTemplateBounded
  <1>1. IInv => StaleTemplateBounded
    BY DEF IInv, Sound, InTime, StaleTemplateBounded, IsHit
  <1> QED BY <1>1, Invariance, PTL

\* No answer is lost but to another request's insertion of the row, or a clearing.
THEOREM LostByRace == Spec => []LostOnlyByRace
  <1>1. IInv => LostOnlyByRace
    BY DEF IInv, Sound, AsRead, LostOnlyByRace
  <1> QED BY <1>1, Invariance, PTL
===============================================================================
