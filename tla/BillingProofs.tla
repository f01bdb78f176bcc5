----------------------------- MODULE BillingProofs -----------------------------
(***************************************************************************)
(* Proofs about Billing for any number of clients, periods and sessions,   *)
(* any terms of payment, and any number of days and operations.            *)
(***************************************************************************)
EXTENDS Billing, TLAPS

Copies == [Invoices -> Row \cup {Unread}]
Standings == [Clients -> Standing \cup {"unread"}]

\* A session writes rows that it has read.
SessionSound(s) ==
    /\ \A i \in Changed(s) : mem[s][i] # Unread
    /\ \A c \in newClient[s] : memClient[s][c] # "unread"

\* A session with no other beside it changes no status of a paid invoice and
\* creates no invoice that is there; its copies are what its commit will leave.
AloneSound(s) ==
    /\ \A u \in Sessions : step[u] # "idle" => u = s
    /\ \A i \in newSt[s] : inv[i].st # "paid"
    /\ \A i \in inserts[s] : inv[i] = Absent
    /\ \A i \in Invoices : mem[s][i] # Unread => mem[s][i] = View(s, i)

\* ... and the client statuses it has read are the clients', up to the ones it is
\* to write.  What it has derived follows from its copies.
ClientSound(s) ==
    /\ \A c \in Clients : memClient[s][c] = "unread" \/ c \in newClient[s]
                          \/ memClient[s][c] = client[c]
    /\ step[s] \in {"scan", "derive"} => newClient[s] = {}
    /\ step[s] = "flush" /\ newClient[s] # {} => refresh[s] = "after"
    /\ step[s] = "commit" => /\ \A i \in Invoices : mem[s][i] # Unread
                             /\ \A c \in Clients : memClient[s][c] = StandingOf(c, mem[s])

InOrder == overlaps = 0 => \A s \in Sessions : step[s] # "idle" => AloneSound(s)

Untouched ==
    overlaps = 0 /\ patches = 0 => \A s \in Sessions : step[s] # "idle" => ClientSound(s)

IInv ==
    /\ TypeOK
    /\ \A s \in Sessions : SessionSound(s)
    /\ InOrder
    /\ Untouched
    /\ StandingJustified

-------------------------------------------------------------------------------
\* The parameters and bounds are numbers.
LEMMA Bounds == {DueDays, SuspendDays, MaxDay, MaxOps, MaxPatches, MaxDeaths, MaxOverlaps} \subseteq Nat
  BY BillingAssumption

\* A missing invoice is a row, one that was not read is none.
LEMMA Constants ==
    /\ Absent \in Row
    /\ Unread \notin Row
    /\ NothingRead \in Copies
    /\ NoClientRead \in Standings
    /\ \A r \in Row : r.st \in Status /\ r.st # "unread" /\ r.due \in Nat
  BY DEF Absent, Unread, Row, Status, Open, NothingRead, Copies, NoClientRead, Standings

\* The derived status is one of the three.
LEMMA StandingType ==
    ASSUME NEW c \in Clients, NEW r
    PROVE  StandingOf(c, r) \in Standing
  BY DEF StandingOf, Standing

\* A client whose status is the one derived from its invoices.
LEMMA ConsistentJustified ==
    ASSUME NEW c \in Clients, Consistent(c)
    PROVE  /\ client[c] = "active" <=> \A p \in Periods : inv[<<c, p>>].st # "overdue"
           /\ client[c] = "suspended" => Consistent(c)
  BY DEF Consistent, StandingOf

\* Without invoices every client is active.
LEMMA InitIInv == Init => IInv
  <1> SUFFICES ASSUME Init PROVE IInv
    OBVIOUS
  <1>1. TypeOK
    BY Constants DEF Init, TypeOK, Sessions, Standing, Copies, Standings
  <1>2. \A s \in Sessions : SessionSound(s)
    BY DEF Init, SessionSound, Changed
  <1>3. InOrder /\ Untouched
    BY DEF Init, InOrder, Untouched
  <1>4. StandingJustified
    <2>1. \A c \in Clients, p \in Periods : inv[<<c, p>>].st # "overdue"
      BY DEF Init, Invoices, Absent
    <2> QED BY <2>1 DEF Init, StandingJustified
  <1> QED BY <1>1, <1>2, <1>3, <1>4 DEF IInv

-------------------------------------------------------------------------------
\* The row as its session sees it is a row.
LEMMA ViewType ==
    ASSUME TypeOK, NEW s \in Sessions, SessionSound(s), NEW i \in Invoices
    PROVE  /\ View(s, i) \in Row
           /\ View(s, i).st = IF i \in newSt[s] THEN mem[s][i].st ELSE inv[i].st
           /\ View(s, i).due = IF i \in newDue[s] THEN mem[s][i].due ELSE inv[i].due
           /\ mem[s][i] = Unread => View(s, i) = inv[i]
  <1>1. inv[i] \in Row /\ mem[s][i] \in Row \cup {Unread}
    BY DEF TypeOK
  <1>2. i \in newSt[s] \/ i \in newDue[s] => mem[s][i] \in Row
    BY <1>1 DEF SessionSound, Changed
  <1> DEFINE st == IF i \in newSt[s] THEN mem[s][i].st ELSE inv[i].st
             due == IF i \in newDue[s] THEN mem[s][i].due ELSE inv[i].due
  <1>3. st \in Status /\ due \in Nat
    BY <1>1, <1>2, Constants
  <1>4. View(s, i) = [st |-> st, due |-> due]
    BY DEF View
  <1>5. mem[s][i] = Unread => st = inv[i].st /\ due = inv[i].due
    BY <1>2, Constants
  <1> HIDE DEF st, due
  <1>6. mem[s][i] = Unread => View(s, i) = inv[i]
    BY <1>1, <1>4, <1>5 DEF Row
  <1>7. View(s, i) \in Row /\ View(s, i).st = st /\ View(s, i).due = due
    BY <1>3, <1>4 DEF Row
  <1> QED BY <1>6, <1>7 DEF st, due

\* A session opens: what its operation must not decide.
LEMMA BeginIInv ==
    ASSUME IInv, NEW s \in Sessions, NEW how \in {"joint", "after", "both"},
           NEW read \in Copies, NEW copies \in Copies, NEW standings \in Standings,
           NEW chosen \in SUBSET Clients,
           \A i \in Invoices : /\ copies[i] = Unread => read[i] = Unread
                               /\ copies[i] # Unread => read[i] = inv[i]
                               /\ inv[i].st = "paid" => copies[i].st = read[i].st,
           \A c \in chosen : standings[c] # "unread",
           \A c \in Clients : standings[c] = "unread" \/ c \in chosen \/ standings[c] = client[c],
           chosen # {} => how = "after" /\ \E i \in Invoices : copies[i] # read[i],
           Begin(s, how, read, copies, standings, chosen),
           ops' \in Nat, patches' = patches, deaths' = deaths
    PROVE  IInv'
  <1> USE DEF IInv
  <1> DEFINE changed == {i \in Invoices : copies[i] # read[i]}
             st == {i \in changed : copies[i].st # read[i].st}
             due == {i \in changed : copies[i].due # read[i].due}
             ins == {i \in changed : read[i] = Absent}
  <1>1. /\ step[s] = "idle" /\ inv' = inv /\ client' = client /\ lock' = lock
        /\ today' = today /\ month' = month /\ invoiceDay' = invoiceDay
        /\ overlaps' = IF Active = {} THEN overlaps ELSE overlaps + 1
        /\ mem' = [mem EXCEPT ![s] = copies]
        /\ memClient' = [memClient EXCEPT ![s] = standings]
        /\ newSt' = [newSt EXCEPT ![s] = st]
        /\ newDue' = [newDue EXCEPT ![s] = due]
        /\ inserts' = [inserts EXCEPT ![s] = ins]
        /\ newClient' = [newClient EXCEPT ![s] = chosen]
        /\ refresh' = [refresh EXCEPT ![s] = how]
        /\ step' = [step EXCEPT ![s] = IF changed = {} THEN "scan" ELSE "flush"]
    BY DEF Begin, Idle, dbVars, timeVars
  <1>2. /\ st \in SUBSET Invoices /\ due \in SUBSET Invoices /\ ins \in SUBSET Invoices
    OBVIOUS
  <1>3. \A i \in Invoices : /\ i \in st <=> copies[i].st # read[i].st
                            /\ i \in due <=> copies[i].due # read[i].due
                            /\ i \in ins => copies[i] # Unread /\ read[i] = Absent
    OBVIOUS
  <1>4. changed = {} => chosen = {}
    OBVIOUS
  <1> HIDE DEF changed, st, due, ins
  <1>5. TypeOK'
    <2>1. /\ mem' \in [Sessions -> [Invoices -> Row \cup {Unread}]]
          /\ memClient' \in [Sessions -> [Clients -> Standing \cup {"unread"}]]
      BY <1>1 DEF TypeOK, Copies, Standings
    <2>2. /\ newSt' \in [Sessions -> SUBSET Invoices]
          /\ newDue' \in [Sessions -> SUBSET Invoices]
          /\ inserts' \in [Sessions -> SUBSET Invoices]
          /\ newClient' \in [Sessions -> SUBSET Clients]
      BY <1>1, <1>2 DEF TypeOK
    <2>3. /\ step' \in [Sessions -> {"idle", "flush", "scan", "derive", "commit"}]
          /\ refresh' \in [Sessions -> {"joint", "after", "both"}]
      BY <1>1 DEF TypeOK
    <2>4. overlaps' \in Nat
      BY <1>1 DEF TypeOK
    <2> QED BY <1>1, <2>1, <2>2, <2>3, <2>4 DEF TypeOK
  <1>6. /\ mem'[s] = copies /\ memClient'[s] = standings /\ newSt'[s] = st /\ newDue'[s] = due
        /\ inserts'[s] = ins /\ newClient'[s] = chosen /\ refresh'[s] = how
        /\ step'[s] = IF changed = {} THEN "scan" ELSE "flush"
    BY <1>1 DEF TypeOK
  <1>7. \A u \in Sessions \ {s} :
          /\ mem'[u] = mem[u] /\ memClient'[u] = memClient[u] /\ newSt'[u] = newSt[u]
          /\ newDue'[u] = newDue[u] /\ inserts'[u] = inserts[u] /\ newClient'[u] = newClient[u]
          /\ refresh'[u] = refresh[u] /\ step'[u] = step[u]
    BY <1>1 DEF TypeOK
  <1>8. ASSUME NEW u \in Sessions PROVE SessionSound(u)'
    <2>1. CASE u = s
      BY <1>2, <1>3, <1>6, <2>1 DEF SessionSound, Changed
    <2>2. CASE u # s
      BY <1>7, <2>2 DEF SessionSound, Changed
    <2> QED BY <2>1, <2>2
  <1>9. ASSUME overlaps' = 0
        PROVE  overlaps = 0 /\ \A u \in Sessions \ {s} : step'[u] = "idle"
    <2>1. Active = {} /\ overlaps = 0
      BY <1>1, <1>9 DEF TypeOK
    <2> QED BY <1>7, <2>1 DEF Active, Idle
  <1>10. InOrder'
    <2> SUFFICES ASSUME overlaps' = 0 PROVE AloneSound(s)'
      BY <1>9 DEF InOrder
    <2>1. \A u \in Sessions : step'[u] # "idle" => u = s
      BY <1>9
    <2>2. \A i \in st : inv[i].st # "paid"
      BY <1>2, <1>3
    <2>3. \A i \in ins : inv[i] = Absent
      BY <1>2, <1>3
    <2>4. ASSUME NEW i \in Invoices, copies[i] # Unread PROVE View(s, i)' = copies[i]
      <3>1. copies[i] \in Row /\ read[i] = inv[i]
        BY <2>4 DEF Copies
      <3>2. View(s, i)' = [st  |-> IF i \in st THEN copies[i].st ELSE inv[i].st,
                           due |-> IF i \in due THEN copies[i].due ELSE inv[i].due]
        BY <1>1, <1>6 DEF View
      <3>3. View(s, i)' = [st |-> copies[i].st, due |-> copies[i].due]
        BY <1>3, <3>1, <3>2
      <3> QED BY <3>1, <3>3 DEF Row
    <2> QED BY <1>1, <1>6, <2>1, <2>2, <2>3, <2>4 DEF AloneSound
  <1>11. Untouched'
    <2> SUFFICES ASSUME overlaps' = 0 PROVE ClientSound(s)'
      BY <1>9 DEF Untouched
    <2> QED BY <1>1, <1>4, <1>6 DEF ClientSound
  <1>12. StandingJustified'
    <2>1. s \in Active'
      BY <1>6 DEF Active, Idle
    <2> QED BY <2>1 DEF StandingJustified
  <1> QED BY <1>5, <1>8, <1>10, <1>11, <1>12
-------------------------------------------------------------------------------
(***************************************************************************)
(* The operations.                                                         *)
(***************************************************************************)

\* One row in hand: an operation that refuses paid invoices.
LEMMA ChangeIInv ==
    ASSUME IInv, NEW s \in Sessions, NEW how \in {"joint", "after"}, NEW i \in Invoices,
           NEW st \in Status, NEW standings \in Standings, NEW chosen \in SUBSET Clients,
           inv[i].st # "paid",
           \A c \in chosen : standings[c] # "unread",
           \A c \in Clients : standings[c] = "unread" \/ c \in chosen \/ standings[c] = client[c],
           chosen # {} => how = "after" /\ inv[i].st # st,
           Change(s, how, i, st, standings, chosen),
           ops' \in Nat, patches' = patches, deaths' = deaths
    PROVE  IInv'
  <1> DEFINE new == [inv[i] EXCEPT !.st = st]
             read == [NothingRead EXCEPT ![i] = inv[i]]
             copies == [NothingRead EXCEPT ![i] = new]
  <1>1. inv[i] \in Row
    BY DEF IInv, TypeOK
  <1>2. new \in Row /\ new.st = st
    BY <1>1 DEF Row
  <1> HIDE DEF new
  <1>3. /\ read \in Copies /\ copies \in Copies
        /\ read[i] = inv[i] /\ copies[i] = new
        /\ \A j \in Invoices \ {i} : read[j] = Unread /\ copies[j] = Unread
    BY <1>1, <1>2 DEF NothingRead, Copies
  <1>4. Begin(s, how, read, copies, standings, chosen)
    BY DEF Change, new
  <1> HIDE DEF read, copies
  <1>5. \A j \in Invoices : /\ copies[j] = Unread => read[j] = Unread
                            /\ copies[j] # Unread => read[j] = inv[j]
                            /\ inv[j].st = "paid" => copies[j].st = read[j].st
    BY <1>1, <1>2, <1>3, Constants
  <1>6. chosen # {} => how = "after" /\ \E j \in Invoices : copies[j] # read[j]
    BY <1>2, <1>3
  <1> QED BY <1>3, <1>4, <1>5, <1>6, BeginIInv

\* Nothing in hand.
LEMMA RefreshIInv ==
    ASSUME IInv, NEW s \in Sessions, JustRefresh(s),
           ops' \in Nat, patches' = patches, deaths' = deaths
    PROVE  IInv'
  <1>1. Begin(s, "joint", NothingRead, NothingRead, NoClientRead, {})
    BY DEF JustRefresh
  <1>2. \A i \in Invoices : NothingRead[i] = Unread
    BY DEF NothingRead
  <1>3. \A c \in Clients : NoClientRead[c] = "unread"
    BY DEF NoClientRead
  <1> QED BY <1>1, <1>2, <1>3, Constants, BeginIInv

\* The invoices of the month: paid ones are passed over.
LEMMA GenerateIInv ==
    ASSUME IInv, NEW s \in Sessions, NEW C \in SUBSET Clients, NEW how \in {"joint", "both"},
           Generate(s, C, how), ops' \in Nat, patches' = patches, deaths' = deaths
    PROVE  IInv'
  <1> DEFINE billed == {<<c, month>> : c \in C}
             read == [i \in Invoices |-> IF i \in billed THEN inv[i] ELSE Unread]
             copies == [i \in Invoices |-> IF i \in billed THEN Regenerate(inv[i]) ELSE Unread]
             standings == [c \in Clients |-> IF c \in C THEN client[c] ELSE "unread"]
  <1>1. ASSUME NEW i \in Invoices
        PROVE  /\ inv[i] \in Row /\ Regenerate(inv[i]) \in Row
               /\ inv[i].st = "paid" => Regenerate(inv[i]) = inv[i]
    <2>1. inv[i] \in Row /\ today + DueDays \in Nat
      BY Bounds DEF IInv, TypeOK
    <2> QED BY <2>1 DEF Regenerate, Row, Status, Open
  <1>2. Begin(s, how, read, copies, standings, {})
    BY DEF Generate
  <1>3. \A i \in Invoices : /\ read[i] = IF i \in billed THEN inv[i] ELSE Unread
                            /\ copies[i] = IF i \in billed THEN Regenerate(inv[i]) ELSE Unread
    OBVIOUS
  <1>4. read \in Copies /\ copies \in Copies
    <2> HIDE DEF billed
    <2> QED BY <1>1 DEF Copies
  <1>5. /\ standings \in Standings
        /\ \A c \in Clients : standings[c] = "unread" \/ standings[c] = client[c]
    BY DEF Standings, IInv, TypeOK
  <1> HIDE DEF read, copies, standings, billed
  <1>6. \A i \in Invoices : /\ copies[i] = Unread => read[i] = Unread
                            /\ copies[i] # Unread => read[i] = inv[i]
                            /\ inv[i].st = "paid" => copies[i].st = read[i].st
    BY <1>1, <1>3, Constants
  <1> QED BY <1>2, <1>4, <1>5, <1>6, BeginIInv

\* The cycle generates on the invoice day and refreshes on the others.
LEMMA CycleIInv ==
    ASSUME IInv, NEW s \in Sessions, NEW how \in {"joint", "both"},
           Cycle(s, how), ops' \in Nat, patches' = patches, deaths' = deaths
    PROVE  IInv'
  <1>1. Clients \in SUBSET Clients
    OBVIOUS
  <1> QED BY <1>1, GenerateIInv, RefreshIInv DEF Cycle

\* Payment, cancellation, correction and webhook all refuse a paid invoice.
LEMMA AdminIInv ==
    ASSUME IInv, NEW s \in Admins, AdminOperation(s)
    PROVE  IInv'
  <1>1. s \in Sessions
    BY DEF Sessions
  <1>2. ops' \in Nat /\ patches' = patches /\ deaths' = deaths
    BY DEF AdminOperation, IInv, TypeOK
  <1>3. ASSUME NEW i \in Invoices,
               \/ MarkPaid(s, i) \/ CancelInvoice(s, i) \/ MarkOverdue(s, i)
               \/ CreatePayment(s, i) \/ PixWebhook(s, i)
        PROVE  IInv'
    <2>1. i[1] \in Clients
      BY DEF Invoices
    <2> PICK c \in Clients : c = i[1]
      BY <2>1
    <2>2. client[c] \in Standing /\ inv[i] \in Row
      BY DEF IInv, TypeOK
    <2>3. /\ Activated(c) \in Standings /\ Activated(c)[c] = "active"
          /\ \A d \in Clients \ {c} : Activated(c)[d] = "unread"
      BY DEF Activated, NoClientRead, Standings, Standing
    <2>4. /\ Reactivates(c) \in SUBSET Clients /\ Reactivates(c) \subseteq {c}
          /\ c \notin Reactivates(c) => client[c] = "active"
      BY DEF Reactivates
    <2>5. /\ WithClient(c) \in Standings
          /\ \A d \in Clients : WithClient(c)[d] = "unread" \/ WithClient(c)[d] = client[d]
      BY <2>2 DEF WithClient, NoClientRead, Standings
    <2>6. \A d \in Clients : NoClientRead[d] = "unread"
      BY DEF NoClientRead
    <2>7. /\ "paid" \in Status /\ "cancelled" \in Status /\ "overdue" \in Status
          /\ {} \in SUBSET Clients
      BY DEF Status, Open
    <2>8. CASE MarkPaid(s, i) \/ CreatePayment(s, i)
      <3>1. inv[i].st # "paid" /\ Change(s, "after", i, "paid", Activated(c), Reactivates(c))
        BY <2>8 DEF MarkPaid, CreatePayment, Open
      <3>2. \A d \in Clients : \/ Activated(c)[d] = "unread" \/ d \in Reactivates(c)
                               \/ Activated(c)[d] = client[d]
        BY <2>3, <2>4
      <3>3. \A d \in Reactivates(c) : Activated(c)[d] # "unread"
        BY <2>3, <2>4
      <3> QED BY <1>1, <1>2, <2>3, <2>4, <2>7, <3>1, <3>2, <3>3, ChangeIInv
    <2>9. CASE CancelInvoice(s, i)
      <3>1. inv[i].st # "paid" /\ Change(s, "after", i, "cancelled", WithClient(c), {})
        BY <2>9 DEF CancelInvoice, Open
      <3> QED BY <1>1, <1>2, <2>5, <2>7, <3>1, ChangeIInv
    <2>10. CASE MarkOverdue(s, i)
      <3>1. inv[i].st # "paid" /\ Change(s, "after", i, "overdue", NoClientRead, {})
        BY <2>10 DEF MarkOverdue
      <3> QED BY <1>1, <1>2, <2>6, <2>7, <3>1, Constants, ChangeIInv
    <2>11. CASE PixWebhook(s, i)
      <3>1. inv[i].st # "paid" /\ Change(s, "joint", i, "paid", NoClientRead, {})
        BY <2>11 DEF PixWebhook
      <3> QED BY <1>1, <1>2, <2>6, <2>7, <3>1, Constants, ChangeIInv
    <2> QED BY <1>3, <2>8, <2>9, <2>10, <2>11
  <1>4. ASSUME NEW C \in {Clients} \cup {{c} : c \in Clients}, Generate(s, C, "joint")
        PROVE  IInv'
    <2>1. C \in SUBSET Clients
      OBVIOUS
    <2> QED BY <1>1, <1>2, <1>4, <2>1, GenerateIInv
  <1>5. CASE Cycle(s, "both")
    BY <1>1, <1>2, <1>5, CycleIInv
  <1>6. CASE JustRefresh(s)
    BY <1>1, <1>2, <1>6, RefreshIInv
  <1> QED BY <1>3, <1>4, <1>5, <1>6 DEF AdminOperation
-------------------------------------------------------------------------------
(***************************************************************************)
(* The steps of a session.                                                 *)
(***************************************************************************)

\* What a commit writes, and what it leaves the session with.
LEMMA SaveEffect ==
    ASSUME IInv, NEW s \in Sessions, Save(s)
    PROVE  /\ inv' \in [Invoices -> Row] /\ client' \in [Clients -> Standing]
           /\ lock' \in [Invoices -> Sessions \cup {NoSession}]
           /\ newSt' \in [Sessions -> SUBSET Invoices]
           /\ newDue' \in [Sessions -> SUBSET Invoices]
           /\ inserts' \in [Sessions -> SUBSET Invoices]
           /\ newClient' \in [Sessions -> SUBSET Clients]
           /\ newSt'[s] = {} /\ newDue'[s] = {} /\ inserts'[s] = {} /\ newClient'[s] = {}
           /\ \A u \in Sessions \ {s} :
                 /\ newSt'[u] = newSt[u] /\ newDue'[u] = newDue[u]
                 /\ inserts'[u] = inserts[u] /\ newClient'[u] = newClient[u]
           /\ \A i \in Invoices : inv'[i] = View(s, i)
           /\ \A c \in Clients :
                 client'[c] = IF c \in newClient[s] THEN memClient[s][c] ELSE client[c]
  <1>1. TypeOK /\ SessionSound(s)
    BY DEF IInv
  <1>2. \A i \in Invoices : View(s, i) \in Row
    BY <1>1, ViewType
  <1>3. inv' \in [Invoices -> Row] /\ \A i \in Invoices : inv'[i] = View(s, i)
    BY <1>2 DEF Save
  <1>4. /\ client' \in [Clients -> Standing]
        /\ \A c \in Clients :
              client'[c] = IF c \in newClient[s] THEN memClient[s][c] ELSE client[c]
    <2>1. client' = [c \in Clients |-> IF c \in newClient[s] THEN memClient[s][c] ELSE client[c]]
      BY DEF Save
    <2>2. \A c \in Clients : (IF c \in newClient[s] THEN memClient[s][c] ELSE client[c]) \in Standing
      BY <1>1 DEF TypeOK, SessionSound
    <2> QED BY <2>1, <2>2
  <1>5. lock' \in [Invoices -> Sessions \cup {NoSession}]
    BY <1>1 DEF Save, Unlocked, TypeOK
  <1>6. /\ newSt' = [newSt EXCEPT ![s] = {}] /\ newDue' = [newDue EXCEPT ![s] = {}]
        /\ inserts' = [inserts EXCEPT ![s] = {}] /\ newClient' = [newClient EXCEPT ![s] = {}]
    BY DEF Save
  <1>7. {} \in SUBSET Invoices /\ {} \in SUBSET Clients
    OBVIOUS
  <1>8. /\ newSt' \in [Sessions -> SUBSET Invoices]
        /\ newDue' \in [Sessions -> SUBSET Invoices]
        /\ inserts' \in [Sessions -> SUBSET Invoices]
        /\ newClient' \in [Sessions -> SUBSET Clients]
    BY <1>1, <1>6, <1>7 DEF TypeOK
  <1>9. /\ newSt'[s] = {} /\ newDue'[s] = {} /\ inserts'[s] = {} /\ newClient'[s] = {}
        /\ \A u \in Sessions \ {s} :
              /\ newSt'[u] = newSt[u] /\ newDue'[u] = newDue[u]
              /\ inserts'[u] = inserts[u] /\ newClient'[u] = newClient[u]
    BY <1>1, <1>6 DEF TypeOK
  <1> QED BY <1>3, <1>4, <1>5, <1>8, <1>9

\* What a session holds is not touched by the step of another.
LEMMA OthersSound ==
    ASSUME IInv, NEW s \in Sessions,
           \A u \in Sessions \ {s} :
              /\ mem'[u] = mem[u] /\ memClient'[u] = memClient[u]
              /\ newSt'[u] = newSt[u] /\ newDue'[u] = newDue[u] /\ newClient'[u] = newClient[u],
           SessionSound(s)'
    PROVE  \A u \in Sessions : SessionSound(u)'
  <1> TAKE u \in Sessions
  <1> QED BY DEF IInv, SessionSound, Changed

\* The step of a session that has no other beside it.
LEMMA Together ==
    ASSUME IInv, NEW s \in Sessions, step[s] # "idle", overlaps' = overlaps, patches' = patches,
           \A u \in Sessions \ {s} : step'[u] = step[u],
           step'[s] # "idle",
           overlaps = 0 => AloneSound(s)',
           overlaps = 0 /\ patches = 0 => ClientSound(s)'
    PROVE  InOrder' /\ Untouched' /\ StandingJustified'
  <1>1. overlaps = 0 => \A u \in Sessions : step'[u] # "idle" => u = s
    BY DEF IInv, InOrder, AloneSound
  <1>2. s \in Active'
    BY DEF Active, Idle
  <1> QED BY <1>1, <1>2 DEF InOrder, Untouched, StandingJustified

\* With nothing to be written a session sees the rows as they are.
LEMMA NothingToWrite ==
    ASSUME NEW s \in Sessions, NEW i \in Invoices, inv'[i] \in Row,
           newSt'[s] = {}, newDue'[s] = {}
    PROVE  View(s, i)' = inv'[i]
  BY DEF View, Row

\* The operation is written: committed at once, or kept with the rows locked.
LEMMA FlushIInv ==
    ASSUME IInv, NEW s \in Sessions, Flush(s)
    PROVE  IInv'
  <1>1. /\ step[s] = "flush" /\ TypeOK /\ SessionSound(s)
        /\ step' = [step EXCEPT ![s] = "scan"]
        /\ UNCHANGED <<today, month, invoiceDay, refresh, mem, memClient, ops, patches, deaths, overlaps>>
    BY DEF Flush, IInv, timeVars, boundVars
  <1>2. step' \in [Sessions -> {"idle", "flush", "scan", "derive", "commit"}]
        /\ step'[s] = "scan" /\ \A u \in Sessions \ {s} : step'[u] = step[u]
    BY <1>1 DEF TypeOK
  <1>3. overlaps = 0 => AloneSound(s)
    BY <1>1 DEF IInv, InOrder
  <1>4. overlaps = 0 /\ patches = 0 => ClientSound(s)
    BY <1>1 DEF IInv, Untouched
  <1>5. CASE refresh[s] = "after"
    <2>1. Save(s)
      BY <1>5 DEF Flush
    <2>2. TypeOK'
      BY <1>1, <1>2, <2>1, SaveEffect DEF TypeOK
    <2>3. newSt'[s] = {} /\ newDue'[s] = {} /\ inserts'[s] = {} /\ newClient'[s] = {}
      BY <2>1, SaveEffect
    <2>4. SessionSound(s)'
      BY <2>3 DEF SessionSound, Changed
    <2>5. \A u \in Sessions : SessionSound(u)'
      BY <1>1, <2>1, <2>4, SaveEffect, OthersSound
    <2>6. ASSUME overlaps = 0 PROVE AloneSound(s)'
      <3>1. ASSUME NEW i \in Invoices, mem'[s][i] # Unread PROVE mem'[s][i] = View(s, i)'
        <4>1. mem[s][i] = View(s, i)
          BY <1>1, <1>3, <2>6, <3>1 DEF AloneSound
        <4>2. inv'[i] = View(s, i) /\ inv'[i] \in Row
          BY <2>1, SaveEffect
        <4>3. View(s, i)' = inv'[i]
          BY <2>3, <4>2, NothingToWrite
        <4> QED BY <1>1, <4>1, <4>2, <4>3
      <3>2. \A u \in Sessions : step'[u] # "idle" => u = s
        BY <1>2, <1>3, <2>6 DEF AloneSound
      <3> QED BY <2>3, <3>1, <3>2 DEF AloneSound
    <2>7. ASSUME overlaps = 0, patches = 0 PROVE ClientSound(s)'
      <3>1. \A c \in Clients : memClient'[s][c] = "unread" \/ memClient'[s][c] = client'[c]
        BY <1>1, <1>4, <2>1, <2>7, SaveEffect DEF ClientSound
      <3> QED BY <1>2, <2>3, <3>1 DEF ClientSound
    <2>8. InOrder' /\ Untouched' /\ StandingJustified'
      BY <1>1, <1>2, <2>6, <2>7, Together
    <2> QED BY <2>2, <2>5, <2>8 DEF IInv
  <1>6. CASE refresh[s] # "after"
    <2>1. lock' = Locked(s) /\ UNCHANGED <<inv, client, newSt, newDue, inserts, newClient>>
      BY <1>6 DEF Flush, changeVars
    <2>2. TypeOK'
      BY <1>1, <1>2, <2>1 DEF TypeOK, Locked
    <2>3. \A u \in Sessions : SessionSound(u)'
      BY <1>1, <2>1 DEF IInv, SessionSound, Changed
    <2>4. ASSUME overlaps = 0 PROVE AloneSound(s)'
      <3>1. \A i \in Invoices : View(s, i)' = View(s, i)
        BY <1>1, <2>1 DEF View
      <3>2. \A u \in Sessions : step'[u] # "idle" => u = s
        BY <1>2, <1>3, <2>4 DEF AloneSound
      <3> QED BY <1>1, <1>3, <2>1, <2>4, <3>1, <3>2 DEF AloneSound
    <2>5. ASSUME overlaps = 0, patches = 0 PROVE ClientSound(s)'
      BY <1>1, <1>2, <1>4, <1>6, <2>1, <2>5 DEF ClientSound
    <2>6. InOrder' /\ Untouched' /\ StandingJustified'
      BY <1>1, <1>2, <2>4, <2>5, Together
    <2> QED BY <2>2, <2>3, <2>6 DEF IInv
  <1> QED BY <1>5, <1>6

\* Late invoices are pending ones: none of them is paid.
LEMMA ScanIInv ==
    ASSUME IInv, NEW s \in Sessions, Scan(s)
    PROVE  IInv'
  <1> DEFINE late == {i \in Invoices : IsLate(View(s, i))}
             row(i) == IF mem[s][i] = Unread THEN inv[i] ELSE mem[s][i]
             marked(i) == [row(i) EXCEPT !.st = "overdue"]
             added == {i \in late : row(i).st # "overdue"}
             st == newSt[s] \cup added
             copies == [i \in Invoices |-> IF i \in late THEN marked(i) ELSE mem[s][i]]
  <1>1. /\ step[s] = "scan" /\ TypeOK /\ SessionSound(s)
        /\ newSt' = [newSt EXCEPT ![s] = st]
        /\ mem' = [mem EXCEPT ![s] = copies]
        /\ step' = [step EXCEPT ![s] = "derive"]
        /\ UNCHANGED <<inv, client, lock, today, month, invoiceDay, refresh, memClient, newDue,
                       inserts, newClient, ops, patches, deaths, overlaps>>
    BY DEF Scan, IInv, dbVars, timeVars, boundVars, TypeOK
  <1>2. overlaps = 0 => AloneSound(s)
    BY <1>1 DEF IInv, InOrder
  <1>3. overlaps = 0 /\ patches = 0 => ClientSound(s)
    BY <1>1 DEF IInv, Untouched
  <1>4. ASSUME NEW i \in Invoices
        PROVE  /\ row(i) \in Row
               /\ marked(i) \in Row /\ marked(i).st = "overdue" /\ marked(i).due = row(i).due
    <2>1. row(i) \in Row
      BY <1>1 DEF TypeOK
    <2> PICK r \in Row : r = row(i)
      BY <2>1
    <2>2. marked(i) = [r EXCEPT !.st = "overdue"]
      OBVIOUS
    <2>3. "overdue" \in Status
      BY DEF Status, Open
    <2> HIDE DEF marked, row
    <2> QED BY <2>1, <2>2, <2>3 DEF Row
  <1>5. \A i \in late : /\ i \in Invoices /\ View(s, i).st = "pending"
                        /\ i \notin newSt[s] => inv[i].st = "pending"
    BY <1>1, ViewType DEF IsLate
  <1>6. \A i \in Invoices : copies[i] = IF i \in late THEN marked(i) ELSE mem[s][i]
    OBVIOUS
  <1>7. /\ copies = [i \in Invoices |-> copies[i]]
        /\ st \in SUBSET Invoices
    BY <1>1 DEF TypeOK
  <1>8. \A i \in Invoices : i \in st <=> i \in newSt[s] \/ (i \in late /\ row(i).st # "overdue")
    OBVIOUS
  <1>9. \A i \in Invoices : mem[s][i] # Unread => row(i) = mem[s][i]
    OBVIOUS
  <1>10. \A i \in Invoices : mem[s][i] = Unread => row(i) = View(s, i)
    BY <1>1, ViewType
  <1> HIDE DEF copies, st, marked, row, late
  <1>11. copies \in Copies
    <2>1. ASSUME NEW i \in Invoices PROVE copies[i] \in Row \cup {Unread}
      <3>1. mem[s][i] \in Row \cup {Unread}
        BY <1>1 DEF TypeOK
      <3>2. marked(i) \in Row
        BY <1>4
      <3> QED BY <1>6, <3>1, <3>2
    <2> QED BY <1>7, <2>1 DEF Copies
  <1>12. /\ step'[s] = "derive" /\ mem'[s] = copies /\ newSt'[s] = st
         /\ \A u \in Sessions \ {s} : step'[u] = step[u] /\ mem'[u] = mem[u] /\ newSt'[u] = newSt[u]
    BY <1>1 DEF TypeOK
  <1>13. TypeOK'
    <2>1. step' \in [Sessions -> {"idle", "flush", "scan", "derive", "commit"}]
      BY <1>1 DEF TypeOK
    <2>2. mem' \in [Sessions -> [Invoices -> Row \cup {Unread}]]
      BY <1>1, <1>11 DEF TypeOK, Copies
    <2>3. newSt' \in [Sessions -> SUBSET Invoices]
      BY <1>1, <1>7 DEF TypeOK
    <2> QED BY <1>1, <2>1, <2>2, <2>3 DEF TypeOK
  <1>14. SessionSound(s)'
    <2>1. \A i \in Changed(s)' : copies[i] # Unread
      <3> SUFFICES ASSUME NEW i \in Invoices, i \in st \/ i \in newDue[s]
                   PROVE  copies[i] # Unread
        BY <1>1, <1>7, <1>12 DEF Changed, TypeOK
      <3>1. CASE i \in late
        BY <1>4, <1>6, <3>1, Constants
      <3>2. CASE i \notin late
        BY <1>1, <1>6, <1>8, <3>2 DEF SessionSound, Changed
      <3> QED BY <3>1, <3>2
    <2> QED BY <1>1, <1>12, <2>1 DEF SessionSound
  <1>15. \A u \in Sessions : SessionSound(u)'
    BY <1>1, <1>12, <1>14, OthersSound
  <1>16. ASSUME overlaps = 0 PROVE AloneSound(s)'
    <2>1. ASSUME NEW i \in st PROVE inv[i].st # "paid"
      <3>1. i \in Invoices
        BY <1>7
      <3>2. CASE i \in newSt[s]
        BY <1>2, <1>16, <3>2 DEF AloneSound
      <3>3. CASE i \notin newSt[s]
        BY <1>5, <1>8, <3>1, <3>3
      <3> QED BY <3>2, <3>3
    <2>2. ASSUME NEW i \in Invoices, copies[i] # Unread PROVE View(s, i)' = copies[i]
      <3>1. row(i) = View(s, i) \/ i \notin late
        BY <1>2, <1>9, <1>10, <1>16 DEF AloneSound
      <3>2. View(s, i)' = [st |-> IF i \in st THEN copies[i].st ELSE inv[i].st,
                           due |-> IF i \in newDue[s] THEN copies[i].due ELSE inv[i].due]
        BY <1>1, <1>12 DEF View
      <3>3. CASE i \in late
        <4>1. row(i) = View(s, i) /\ row(i).st = "pending"
          BY <1>5, <3>1, <3>3
        <4>2. i \in st /\ copies[i] = marked(i)
          BY <1>6, <1>8, <3>3, <4>1
        <4>3. copies[i].due = View(s, i).due
          BY <1>4, <4>1, <4>2
        <4>4. i \notin newDue[s] => copies[i].due = inv[i].due
          BY <1>1, <4>3, ViewType
        <4>5. View(s, i)' = [st |-> copies[i].st, due |-> copies[i].due]
          BY <3>2, <4>2, <4>4
        <4> QED BY <1>4, <4>2, <4>5 DEF Row
      <3>4. CASE i \notin late
        <4>1. copies[i] = mem[s][i] /\ (i \in st <=> i \in newSt[s])
          BY <1>6, <1>8, <3>4
        <4>2. mem[s][i] = View(s, i)
          BY <1>2, <1>16, <2>2, <4>1 DEF AloneSound
        <4>3. View(s, i)' = View(s, i)
          BY <3>2, <4>1 DEF View
        <4> QED BY <4>1, <4>2, <4>3
      <3> QED BY <3>3, <3>4
    <2>3. \A u \in Sessions : step'[u] # "idle" => u = s
      BY <1>2, <1>12, <1>16 DEF AloneSound
    <2> QED BY <1>1, <1>2, <1>12, <1>16, <2>1, <2>2, <2>3 DEF AloneSound
  <1>17. ASSUME overlaps = 0, patches = 0 PROVE ClientSound(s)'
    BY <1>1, <1>3, <1>12, <1>17 DEF ClientSound
  <1>18. InOrder' /\ Untouched' /\ StandingJustified'
    BY <1>1, <1>12, <1>16, <1>17, Together
  <1> QED BY <1>13, <1>15, <1>18 DEF IInv

\* What a session derives follows from its copies, and it writes every difference
\* from what it has read.
LEMMA DeriveIInv ==
    ASSUME IInv, NEW s \in Sessions, Derive(s)
    PROVE  IInv'
  <1> DEFINE row == [i \in Invoices |-> IF mem[s][i] = Unread THEN inv[i] ELSE mem[s][i]]
             read == [c \in Clients |-> IF memClient[s][c] = "unread" THEN client[c]
                                        ELSE memClient[s][c]]
             next == [c \in Clients |-> StandingOf(c, row)]
             chosen == {c \in Clients : next[c] # read[c]}
  <1>1. /\ step[s] = "derive" /\ TypeOK /\ SessionSound(s)
        /\ lock' = Locked(s)
        /\ mem' = [mem EXCEPT ![s] = row]
        /\ memClient' = [memClient EXCEPT ![s] = next]
        /\ newClient' = [newClient EXCEPT ![s] = chosen]
        /\ step' = [step EXCEPT ![s] = "commit"]
        /\ UNCHANGED <<inv, client, today, month, invoiceDay, refresh, newSt, newDue, inserts,
                       ops, patches, deaths, overlaps>>
    BY DEF Derive, IInv, timeVars, boundVars
  <1>2. overlaps = 0 => AloneSound(s)
    BY <1>1 DEF IInv, InOrder
  <1>3. overlaps = 0 /\ patches = 0 => ClientSound(s)
    BY <1>1 DEF IInv, Untouched
  <1>4. \A i \in Invoices : row[i] = IF mem[s][i] = Unread THEN inv[i] ELSE mem[s][i]
    OBVIOUS
  <1>5. row \in Copies /\ \A i \in Invoices : row[i] \in Row /\ row[i] # Unread
    BY <1>1, Constants DEF TypeOK, Copies
  <1>6. \A c \in Clients :
           /\ next[c] = StandingOf(c, row)
           /\ read[c] = IF memClient[s][c] = "unread" THEN client[c] ELSE memClient[s][c]
           /\ c \in chosen <=> next[c] # read[c]
    OBVIOUS
  <1>7. next = [c \in Clients |-> next[c]] /\ chosen \in SUBSET Clients
    OBVIOUS
  <1> HIDE DEF row, read, next, chosen
  <1>8. next \in Standings /\ \A c \in Clients : next[c] # "unread"
    BY <1>6, <1>7, StandingType DEF Standings, Standing
  <1>9. /\ step'[s] = "commit" /\ mem'[s] = row /\ memClient'[s] = next /\ newClient'[s] = chosen
        /\ \A u \in Sessions \ {s} : /\ step'[u] = step[u] /\ mem'[u] = mem[u]
                                     /\ memClient'[u] = memClient[u] /\ newClient'[u] = newClient[u]
    BY <1>1 DEF TypeOK
  <1>10. TypeOK'
    <2>1. step' \in [Sessions -> {"idle", "flush", "scan", "derive", "commit"}]
      BY <1>1 DEF TypeOK
    <2>2. mem' \in [Sessions -> [Invoices -> Row \cup {Unread}]]
      BY <1>1, <1>5 DEF TypeOK, Copies
    <2>3. memClient' \in [Sessions -> [Clients -> Standing \cup {"unread"}]]
      BY <1>1, <1>8 DEF TypeOK, Standings
    <2>4. newClient' \in [Sessions -> SUBSET Clients]
      BY <1>1, <1>7 DEF TypeOK
    <2>5. lock' \in [Invoices -> Sessions \cup {NoSession}]
      BY <1>1 DEF TypeOK, Locked
    <2> QED BY <1>1, <2>1, <2>2, <2>3, <2>4, <2>5 DEF TypeOK
  <1>11. SessionSound(s)'
    BY <1>1, <1>5, <1>7, <1>8, <1>9 DEF SessionSound, Changed, TypeOK
  <1>12. \A u \in Sessions : SessionSound(u)'
    BY <1>1, <1>9, <1>11, OthersSound
  <1>13. ASSUME overlaps = 0 PROVE AloneSound(s)'
    <2>1. ASSUME NEW i \in Invoices PROVE View(s, i)' = row[i]
      <3>1. row[i] = View(s, i)
        BY <1>1, <1>2, <1>4, <1>13, ViewType DEF AloneSound
      <3>2. (i \in newSt[s] \/ i \in newDue[s]) => row[i] = mem[s][i]
        BY <1>1, <1>4 DEF SessionSound, Changed
      <3>3. View(s, i)' = [st |-> IF i \in newSt[s] THEN row[i].st ELSE inv[i].st,
                           due |-> IF i \in newDue[s] THEN row[i].due ELSE inv[i].due]
        BY <1>1, <1>9 DEF View
      <3>4. View(s, i) = [st |-> IF i \in newSt[s] THEN mem[s][i].st ELSE inv[i].st,
                          due |-> IF i \in newDue[s] THEN mem[s][i].due ELSE inv[i].due]
        BY DEF View
      <3> QED BY <3>1, <3>2, <3>3, <3>4
    <2>2. \A u \in Sessions : step'[u] # "idle" => u = s
      BY <1>2, <1>9, <1>13 DEF AloneSound
    <2> QED BY <1>1, <1>2, <1>9, <1>13, <2>1, <2>2 DEF AloneSound
  <1>14. ASSUME overlaps = 0, patches = 0 PROVE ClientSound(s)'
    <2>1. newClient[s] = {}
      BY <1>1, <1>3, <1>14 DEF ClientSound
    <2>2. \A c \in Clients : read[c] = client[c]
      BY <1>3, <1>6, <1>14, <2>1 DEF ClientSound
    <2>3. \A c \in Clients : c \in chosen \/ next[c] = client[c]
      BY <1>6, <2>2
    <2>4. \A c \in Clients : StandingOf(c, mem[s])' = StandingOf(c, row)
      BY <1>1, <1>9 DEF StandingOf
    <2> QED BY <1>1, <1>5, <1>6, <1>9, <2>3, <2>4 DEF ClientSound
  <1>15. InOrder' /\ Untouched' /\ StandingJustified'
    BY <1>1, <1>9, <1>13, <1>14, Together
  <1> QED BY <1>10, <1>12, <1>15 DEF IInv

\* The commit of a session that has had the clients and the invoices to itself
\* leaves every client with the status that its invoices give.
LEMMA CommitIInv ==
    ASSUME IInv, NEW s \in Sessions, Commit(s)
    PROVE  IInv'
  <1>1. /\ step[s] = "commit" /\ TypeOK /\ SessionSound(s) /\ Save(s)
        /\ UNCHANGED <<today, month, invoiceDay, ops, patches, deaths, overlaps>>
    BY DEF Commit, IInv, timeVars, boundVars
  <1>2. overlaps = 0 => AloneSound(s)
    BY <1>1 DEF IInv, InOrder
  <1>3. overlaps = 0 /\ patches = 0 => ClientSound(s)
    BY <1>1 DEF IInv, Untouched
  <1>4. newSt'[s] = {} /\ newDue'[s] = {} /\ inserts'[s] = {} /\ newClient'[s] = {}
    BY <1>1, SaveEffect
  <1>5. SessionSound(s)'
    BY <1>4 DEF SessionSound, Changed
  <1>6. \A u \in Sessions \ {s} :
            step'[u] = step[u] /\ mem'[u] = mem[u] /\ memClient'[u] = memClient[u]
    BY <1>1 DEF Commit, Close, TypeOK
  <1>7. \A u \in Sessions : SessionSound(u)'
    BY <1>1, <1>5, <1>6, SaveEffect, OthersSound
  <1>8. ASSUME overlaps = 0, patches = 0
        PROVE  \A c \in Clients : Consistent(c)' /\ client'[c] = memClient[s][c]
    <2> TAKE c \in Clients
    <2>1. \A i \in Invoices : inv'[i] = mem[s][i]
      BY <1>1, <1>2, <1>3, <1>8, SaveEffect DEF AloneSound, ClientSound
    <2>2. memClient[s][c] = StandingOf(c, mem[s])
      BY <1>1, <1>3, <1>8 DEF ClientSound
    <2>3. memClient[s][c] # "unread"
      BY <2>2, StandingType DEF Standing
    <2>4. client'[c] = memClient[s][c]
      BY <1>1, <1>3, <1>8, <2>3, SaveEffect DEF ClientSound
    <2>5. inv' = mem[s]
      BY <1>1, <2>1, SaveEffect DEF TypeOK
    <2>6. StandingOf(c, inv)' = StandingOf(c, mem[s])
      BY <1>1, <2>5 DEF StandingOf
    <2> QED BY <2>2, <2>4, <2>6 DEF Consistent
  <1>9. CASE refresh[s] = "both"
    <2>1. /\ step' = [step EXCEPT ![s] = "scan"] /\ refresh' = [refresh EXCEPT ![s] = "joint"]
          /\ UNCHANGED <<mem, memClient>>
      BY <1>9 DEF Commit
    <2>2. /\ step' \in [Sessions -> {"idle", "flush", "scan", "derive", "commit"}]
          /\ refresh' \in [Sessions -> {"joint", "after", "both"}]
          /\ step'[s] = "scan"
      BY <1>1, <2>1 DEF TypeOK
    <2>3. TypeOK'
      BY <1>1, <2>1, <2>2, SaveEffect DEF TypeOK
    <2>4. ASSUME overlaps = 0 PROVE AloneSound(s)'
      <3>1. ASSUME NEW i \in Invoices, mem'[s][i] # Unread PROVE mem'[s][i] = View(s, i)'
        <4>1. mem[s][i] = View(s, i)
          BY <1>2, <2>1, <2>4, <3>1 DEF AloneSound
        <4>2. inv'[i] = View(s, i) /\ inv'[i] \in Row
          BY <1>1, SaveEffect
        <4>3. View(s, i)' = inv'[i]
          BY <1>4, <4>2, NothingToWrite
        <4> QED BY <2>1, <4>1, <4>2, <4>3
      <3>2. \A u \in Sessions : step'[u] # "idle" => u = s
        BY <1>2, <1>6, <2>4 DEF AloneSound
      <3> QED BY <1>4, <3>1, <3>2 DEF AloneSound
    <2>5. ASSUME overlaps = 0, patches = 0 PROVE ClientSound(s)'
      BY <1>4, <1>8, <2>1, <2>2, <2>5 DEF ClientSound
    <2>6. InOrder' /\ Untouched' /\ StandingJustified'
      BY <1>1, <1>6, <2>2, <2>4, <2>5, Together
    <2> QED BY <1>7, <2>3, <2>6 DEF IInv
  <1>10. CASE refresh[s] # "both"
    <2>1. Close(s)
      BY <1>10 DEF Commit
    <2>2. TypeOK'
      BY <1>1, <2>1, SaveEffect, Constants DEF TypeOK, Close, Copies, Standings
    <2>3. step'[s] = "idle"
      BY <1>1, <2>1 DEF Close, TypeOK
    <2>4. overlaps = 0 => \A u \in Sessions : step'[u] = "idle"
      BY <1>2, <1>6, <2>3 DEF AloneSound
    <2>5. InOrder' /\ Untouched'
      BY <1>1, <2>4 DEF InOrder, Untouched
    <2>6. StandingJustified'
      <3>1. ASSUME overlaps = 0, patches = 0, NEW c \in Clients
            PROVE  /\ client'[c] = "active" <=> \A p \in Periods : inv'[<<c, p>>].st # "overdue"
                   /\ client'[c] = "suspended" => Consistent(c)'
        <4>1. Consistent(c)'
          BY <1>8, <3>1
        <4>2. client'[c] = "active" <=> \A p \in Periods : inv'[<<c, p>>].st # "overdue"
          BY <4>1 DEF Consistent, StandingOf
        <4> QED BY <4>1, <4>2
      <3> QED BY <1>1, <3>1 DEF StandingJustified
    <2> QED BY <1>7, <2>2, <2>5, <2>6 DEF IInv
  <1> QED BY <1>9, <1>10

\* The end of a session that has written nothing of its transaction.
LEMMA RollbackIInv ==
    ASSUME IInv, NEW s \in Sessions, step[s] # "idle", Rollback(s),
           ops' = ops, patches' = patches, deaths' \in Nat,
           overlaps # 0 \/ deaths' # 0
    PROVE  IInv'
  <1>1. /\ TypeOK /\ Close(s)
        /\ UNCHANGED <<inv, client, today, month, invoiceDay, ops, patches, overlaps>>
        /\ lock' = Unlocked(s)
        /\ newSt' = [newSt EXCEPT ![s] = {}] /\ newDue' = [newDue EXCEPT ![s] = {}]
        /\ inserts' = [inserts EXCEPT ![s] = {}] /\ newClient' = [newClient EXCEPT ![s] = {}]
    BY DEF Rollback, IInv, timeVars
  <1>2. TypeOK'
    <2>1. /\ newSt' \in [Sessions -> SUBSET Invoices]
          /\ newDue' \in [Sessions -> SUBSET Invoices]
          /\ inserts' \in [Sessions -> SUBSET Invoices]
          /\ newClient' \in [Sessions -> SUBSET Clients]
      <3>1. {} \in SUBSET Invoices /\ {} \in SUBSET Clients
        OBVIOUS
      <3> QED BY <1>1, <3>1 DEF TypeOK
    <2>2. lock' \in [Invoices -> Sessions \cup {NoSession}]
      BY <1>1 DEF Unlocked, TypeOK
    <2> QED BY <1>1, <2>1, <2>2, Constants DEF TypeOK, Close, Copies, Standings
  <1>3. /\ step'[s] = "idle" /\ newSt'[s] = {} /\ newDue'[s] = {} /\ newClient'[s] = {}
        /\ \A u \in Sessions \ {s} :
              /\ step'[u] = step[u] /\ mem'[u] = mem[u] /\ memClient'[u] = memClient[u]
              /\ newSt'[u] = newSt[u] /\ newDue'[u] = newDue[u] /\ newClient'[u] = newClient[u]
    BY <1>1 DEF Close, TypeOK
  <1>4. SessionSound(s)'
    BY <1>3 DEF SessionSound, Changed
  <1>5. \A u \in Sessions : SessionSound(u)'
    BY <1>3, <1>4, OthersSound
  <1>6. overlaps = 0 => \A u \in Sessions : step'[u] = "idle"
    BY <1>3 DEF IInv, InOrder, AloneSound
  <1>7. InOrder' /\ Untouched'
    BY <1>1, <1>6 DEF InOrder, Untouched
  <1>8. StandingJustified'
    BY <1>1 DEF StandingJustified
  <1> QED BY <1>2, <1>5, <1>7, <1>8 DEF IInv

\* Only another session can have created the invoice.
LEMMA ConflictIInv ==
    ASSUME IInv, NEW s \in Sessions, FlushConflicts(s)
    PROVE  IInv'
  <1>1. /\ step[s] = "flush" /\ Rollback(s) /\ Duplicate(s)
        /\ ops' = ops /\ patches' = patches /\ deaths' = deaths /\ deaths \in Nat
    BY DEF FlushConflicts, boundVars, IInv, TypeOK
  <1>2. overlaps # 0
    BY <1>1 DEF Duplicate, IInv, InOrder, AloneSound
  <1> QED BY <1>1, <1>2, RollbackIInv

\* The death of a session is counted.
LEMMA DiesIInv ==
    ASSUME IInv, NEW s \in Sessions, Dies(s)
    PROVE  IInv'
  <1>1. /\ step[s] # "idle" /\ Rollback(s) /\ ops' = ops /\ patches' = patches
        /\ deaths' \in Nat /\ deaths' # 0
    BY DEF Dies, Idle, IInv, TypeOK
  <1> QED BY <1>1, RollbackIInv

-------------------------------------------------------------------------------
\* The days pass between transactions: an overdue invoice stays one, and what has
\* run out stays run out.
LEMMA DayIInv ==
    ASSUME IInv, DayPasses
    PROVE  IInv'
  <1>1. /\ TypeOK /\ Active = {} /\ today' = today + 1 /\ today \in Nat
        /\ invoiceDay' \in BOOLEAN /\ month' \in Nat
        /\ UNCHANGED <<inv, client, lock, step, refresh, mem, memClient, newSt, newDue, inserts,
                       newClient, ops, patches, deaths, overlaps>>
    BY DEF DayPasses, IInv, TypeOK, dbVars, sessionVars, changeVars, boundVars
  <1>2. TypeOK'
    BY <1>1 DEF TypeOK
  <1>3. \A s \in Sessions : SessionSound(s)'
    BY <1>1 DEF IInv, SessionSound, Changed
  <1>4. InOrder' /\ Untouched'
    BY <1>1 DEF InOrder, Untouched, Active, Idle
  <1>5. StandingJustified'
    <2>1. ASSUME NEW c \in Clients, client[c] = "suspended", Consistent(c)
          PROVE  Consistent(c)'
      <3> DEFINE overdue == {i \in {<<c, p>> : p \in Periods} : inv[i].st = "overdue"}
      <3>1. PICK i \in overdue : inv[i].due + SuspendDays < today
        BY <2>1 DEF Consistent, StandingOf
      <3>2. i \in Invoices /\ inv[i].due \in Nat
        BY <1>1, Constants DEF Invoices, TypeOK
      <3>3. inv[i].due + SuspendDays < today'
        BY <1>1, <3>1, <3>2, Bounds
      <3> QED BY <1>1, <2>1, <3>1, <3>3 DEF Consistent, StandingOf
    <2> QED BY <1>1, <2>1 DEF IInv, StandingJustified, Active, Idle
  <1> QED BY <1>2, <1>3, <1>4, <1>5 DEF IInv

\* A status set by hand is counted.
LEMMA PatchIInv ==
    ASSUME IInv, NEW c \in Clients, NEW b \in Standing, PatchBillingStatus(c, b)
    PROVE  IInv'
  <1>1. /\ TypeOK /\ patches' = patches + 1 /\ patches \in Nat
        /\ client' = [client EXCEPT ![c] = b]
        /\ UNCHANGED <<inv, lock, today, month, invoiceDay, step, refresh, mem, memClient, newSt,
                       newDue, inserts, newClient, ops, deaths, overlaps>>
    BY DEF PatchBillingStatus, IInv, TypeOK, timeVars, sessionVars, changeVars
  <1>2. TypeOK'
    BY <1>1 DEF TypeOK
  <1>3. \A s \in Sessions : SessionSound(s)'
    BY <1>1 DEF IInv, SessionSound, Changed
  <1>4. InOrder'
    BY <1>1 DEF IInv, InOrder, AloneSound, View
  <1>5. Untouched' /\ StandingJustified'
    BY <1>1 DEF Untouched, StandingJustified
  <1> QED BY <1>2, <1>3, <1>4, <1>5 DEF IInv

\* Every step keeps the invariant.
LEMMA NextIInv == IInv /\ [Next]_vars => IInv'
  <1> SUFFICES ASSUME IInv, [Next]_vars PROVE IInv'
    OBVIOUS
  <1>1. CASE UNCHANGED vars
    <2> USE <1>1 DEF vars, dbVars, timeVars, sessionVars, changeVars, boundVars
    <2>1. TypeOK'
      BY DEF IInv, TypeOK
    <2>2. \A s \in Sessions : SessionSound(s)'
      BY DEF IInv, SessionSound, Changed
    <2>3. InOrder'
      BY DEF IInv, InOrder, AloneSound, View
    <2>4. Untouched'
      BY DEF IInv, Untouched, ClientSound, StandingOf
    <2>5. StandingJustified'
      BY DEF IInv, StandingJustified, Active, Idle, Consistent, StandingOf
    <2> QED BY <2>1, <2>2, <2>3, <2>4, <2>5 DEF IInv
  <1>2. CASE SchedulerCycle
    <2>1. Scheduler \in Sessions
      BY DEF Sessions
    <2>2. ops' \in Nat /\ patches' = patches /\ deaths' = deaths /\ Cycle(Scheduler, "joint")
      BY <1>2 DEF SchedulerCycle, boundVars, IInv, TypeOK
    <2> QED BY <2>1, <2>2, CycleIInv
  <1>3. ASSUME NEW s \in Sessions, SessionStep(s) \/ Dies(s) PROVE IInv'
    BY <1>3, FlushIInv, ConflictIInv, ScanIInv, DeriveIInv, CommitIInv, DiesIInv DEF SessionStep
  <1> QED BY <1>1, <1>2, <1>3, AdminIInv, PatchIInv, DayIInv DEF Next

\* The invariant of the billing sessions: what their copies stand for.
THEOREM Invariance == Spec => []IInv
  BY InitIInv, NextIInv, PTL DEF Spec

\* Invoices, client statuses, locks and the sessions' identity maps have their types:
\* no flush writes a column of a row that its session has not read.
THEOREM TypeCorrect == Spec => []TypeOK
  <1>1. IInv => TypeOK
    BY DEF IInv
  <1> QED BY <1>1, Invariance, PTL

\* Between transactions, as long as they follow one another, complete and are not
\* overridden, every client has a status that its invoices justify.
THEOREM Justified == Spec => []StandingJustified
  <1>1. IInv => StandingJustified
    BY DEF IInv
  <1> QED BY <1>1, Invariance, PTL

\* A paid invoice stays paid as long as operations follow one another, whether or
\* not some die half-way.
THEOREM PaidStays == Spec => PaidIsFinalInOrder
  <1>1. IInv /\ [Next]_vars =>
           [overlaps = 0 => \A i \in Invoices : inv[i].st = "paid" => inv'[i].st = "paid"]_vars
    <2> SUFFICES ASSUME IInv, Next, overlaps = 0, NEW i \in Invoices, inv[i].st = "paid"
                 PROVE  inv'[i].st = "paid"
      OBVIOUS
    <2>1. ASSUME NEW s \in Sessions, step[s] # "idle", Save(s) PROVE inv'[i].st = "paid"
      <3>1. i \notin newSt[s]
        BY <2>1 DEF IInv, InOrder, AloneSound
      <3>2. inv'[i] = View(s, i) /\ View(s, i).st = inv[i].st
        BY <2>1, <3>1, SaveEffect, ViewType DEF IInv
      <3> QED BY <3>2
    <2>2. ASSUME NEW s \in Sessions, SessionStep(s) \/ Dies(s) PROVE inv'[i].st = "paid"
      <3>1. CASE Flush(s)
        BY <2>1, <3>1 DEF Flush
      <3>2. CASE Commit(s)
        BY <2>1, <3>2 DEF Commit
      <3>3. CASE FlushConflicts(s) \/ Scan(s) \/ Derive(s) \/ Dies(s)
        BY <3>3 DEF FlushConflicts, Scan, Derive, Dies, Rollback, dbVars
      <3> QED BY <2>2, <3>1, <3>2, <3>3 DEF SessionStep
    <2>3. CASE SchedulerCycle
      BY <2>3 DEF SchedulerCycle, Cycle, Generate, JustRefresh, Begin, dbVars
    <2>4. ASSUME NEW s \in Admins, AdminOperation(s) PROVE inv'[i].st = "paid"
      BY <2>4 DEF AdminOperation, MarkPaid, CancelInvoice, MarkOverdue, CreatePayment, PixWebhook,
                  Change, Cycle, Generate, JustRefresh, Begin, dbVars
    <2>5. CASE DayPasses \/ \E c \in Clients, b \in Standing : PatchBillingStatus(c, b)
      BY <2>5 DEF DayPasses, PatchBillingStatus, dbVars
    <2> QED BY <2>2, <2>3, <2>4, <2>5 DEF Next
  <1> QED BY <1>1, Invariance, PTL DEF PaidIsFinalInOrder, Spec
===============================================================================
