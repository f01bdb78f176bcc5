-------------------------------- MODULE Billing --------------------------------
(***************************************************************************)
(* Invoices and the billing status they give a client: the scheduler's     *)
(* hourly cycle, the administrators' operations and the PIX webhook, each  *)
(* in a database session of its own.                                       *)
(*                                                                         *)
(* PostgreSQL runs READ COMMITTED and no row is read FOR UPDATE.  A        *)
(* session works on the copies in its identity map (mem, memClient): a     *)
(* query never refreshes a row loaded before, commit does not expire it    *)
(* (expire_on_commit=False), and a flush writes the copies that changed by *)
(* primary key.  A flushed row stays locked until the commit, and only     *)
(* then do others see it.                                                  *)
(***************************************************************************)
EXTENDS Naturals, FiniteSets

CONSTANTS
    Clients,
    Periods,       \* months that can be billed, 1..n
    Scheduler,     \* the session of billing_scheduler_loop
    Admins,        \* sessions of admin and webhook requests
    NoSession,
    DueDays,       \* billing_due_days
    SuspendDays,   \* billing_suspend_after_days
    MaxDay,        \* bound on the days that pass
    MaxOps,        \* bound on admin and webhook operations
    MaxPatches,    \* bound on manual changes of billing_status
    MaxDeaths,     \* bound on sessions that die or are rolled back half-way
    MaxOverlaps    \* bound on sessions opened while another is open

Sessions == Admins \cup {Scheduler}
Invoices == Clients \X Periods

ASSUME BillingAssumption ==
    /\ Periods \subseteq Nat \ {0}
    /\ Scheduler \notin Admins
    /\ NoSession \notin Sessions
    /\ \A n \in {DueDays, SuspendDays, MaxDay, MaxOps, MaxPatches, MaxDeaths, MaxOverlaps} :
          n \in Nat

VARIABLES
    inv,         \* billing_invoices: status and due_at, at most one row per
                 \* client and period (uq_billing_invoice_period)
    client,      \* clients.billing_status
    lock,        \* the session that has flushed a row and not committed
    today, month, invoiceDay,
    step, refresh,           \* session-local: where it is, what it has left
    mem, memClient,          \* session-local: the identity map
    newSt, newDue, inserts,  \* session-local: columns and rows to be written
    newClient,               \* session-local: client statuses to be written
    ops, patches, deaths, overlaps   \* how many there have been

dbVars == <<inv, client, lock>>
timeVars == <<today, month, invoiceDay>>
changeVars == <<newSt, newDue, inserts, newClient>>
sessionVars == <<step, refresh, mem, memClient, changeVars>>
boundVars == <<ops, patches, deaths>>
vars == <<dbVars, timeVars, sessionVars, boundVars, overlaps>>

Open == {"pending", "overdue"}
Status == Open \cup {"paid", "cancelled", "absent"}
Standing == {"active", "past_due", "suspended"}
Row == [st : Status, due : Nat]
Absent == [st |-> "absent", due |-> 0]
Unread == [st |-> "unread", due |-> 0]

\* Steps of a session:
\*   idle    no transaction              flush   changed copies to be written
\*   scan    the query for late invoices derive  the query for all clients
\*   commit  the client statuses to be written
\* and how its refresh relates to the commit of its changes:
\*   joint   one transaction for both
\*   after   the changes are committed first
\*   both    one transaction for both, then a refresh of its own (run-cycle)
TypeOK ==
    /\ inv \in [Invoices -> Row]
    /\ client \in [Clients -> Standing]
    /\ lock \in [Invoices -> Sessions \cup {NoSession}]
    /\ today \in Nat /\ month \in Nat /\ invoiceDay \in BOOLEAN
    /\ step \in [Sessions -> {"idle", "flush", "scan", "derive", "commit"}]
    /\ refresh \in [Sessions -> {"joint", "after", "both"}]
    /\ mem \in [Sessions -> [Invoices -> Row \cup {Unread}]]
    /\ memClient \in [Sessions -> [Clients -> Standing \cup {"unread"}]]
    /\ newSt \in [Sessions -> SUBSET Invoices]
    /\ newDue \in [Sessions -> SUBSET Invoices]
    /\ inserts \in [Sessions -> SUBSET Invoices]
    /\ newClient \in [Sessions -> SUBSET Clients]
    /\ ops \in Nat /\ patches \in Nat /\ deaths \in Nat /\ overlaps \in Nat

NothingRead == [i \in Invoices |-> Unread]
NoClientRead == [c \in Clients |-> "unread"]

Init ==
    /\ inv = [i \in Invoices |-> Absent]
    /\ client = [c \in Clients |-> "active"]
    /\ lock = [i \in Invoices |-> NoSession]
    /\ today = 0 /\ month = 1 /\ invoiceDay = TRUE
    /\ step = [s \in Sessions |-> "idle"]
    /\ refresh = [s \in Sessions |-> "joint"]
    /\ mem = [s \in Sessions |-> NothingRead]
    /\ memClient = [s \in Sessions |-> NoClientRead]
    /\ newSt = [s \in Sessions |-> {}]
    /\ newDue = [s \in Sessions |-> {}]
    /\ inserts = [s \in Sessions |-> {}]
    /\ newClient = [s \in Sessions |-> {}]
    /\ ops = 0 /\ patches = 0 /\ deaths = 0 /\ overlaps = 0

-------------------------------------------------------------------------------
(***************************************************************************)
(* What an operation decides on its first read.                            *)
(***************************************************************************)

Idle(s) == step[s] = "idle"
Active == {s \in Sessions : ~Idle(s)}

\* A session opens, reads rows and changes copies of them; a column whose
\* value does not change is not written.
Begin(s, how, read, copies, standings, changedClients) ==
    LET changed == {i \in Invoices : copies[i] # read[i]} IN
    /\ Idle(s)
    /\ Active # {} => overlaps < MaxOverlaps
    /\ overlaps' = IF Active = {} THEN overlaps ELSE overlaps + 1
    /\ mem' = [mem EXCEPT ![s] = copies]
    /\ memClient' = [memClient EXCEPT ![s] = standings]
    /\ newSt' = [newSt EXCEPT ![s] = {i \in changed : copies[i].st # read[i].st}]
    /\ newDue' = [newDue EXCEPT ![s] = {i \in changed : copies[i].due # read[i].due}]
    /\ inserts' = [inserts EXCEPT ![s] = {i \in changed : read[i] = Absent}]
    /\ newClient' = [newClient EXCEPT ![s] = changedClients]
    /\ refresh' = [refresh EXCEPT ![s] = how]
    /\ step' = [step EXCEPT ![s] = IF changed = {} THEN "scan" ELSE "flush"]
    /\ UNCHANGED <<dbVars, timeVars>>

\* Regenerating whatever is there, paid and cancelled invoices too.
RegenerateAll(row) == [st |-> "pending", due |-> today + DueDays]

\* generate_monthly_invoices on one row: a missing invoice is created and an
\* open one overwritten, as pending and with a new due date.
Regenerate(row) ==
    IF row.st \in {"paid", "cancelled"} THEN row
    ELSE [st |-> "pending", due |-> today + DueDays]

Generate(s, C, how) ==
    LET billed == {<<c, month>> : c \in C}
        read == [i \in Invoices |-> IF i \in billed THEN inv[i] ELSE Unread]
        copies == [i \in Invoices |-> IF i \in billed THEN Regenerate(inv[i]) ELSE Unread]
    IN Begin(s, how, read, copies,
             [c \in Clients |-> IF c \in C THEN client[c] ELSE "unread"], {})

JustRefresh(s) == Begin(s, "joint", NothingRead, NothingRead, NoClientRead, {})

\* run_billing_cycle_once and POST /admin/billing/run-cycle generate on the
\* invoice day only.
Cycle(s, how) == IF invoiceDay THEN Generate(s, Clients, how) ELSE JustRefresh(s)

SchedulerCycle == Cycle(Scheduler, "joint") /\ UNCHANGED boundVars

\* One row in hand, set to st.
Change(s, how, i, st, standings, changedClients) ==
    Begin(s, how, [NothingRead EXCEPT ![i] = inv[i]],
          [NothingRead EXCEPT ![i] = [inv[i] EXCEPT !.st = st]], standings, changedClients)

WithClient(c) == [NoClientRead EXCEPT ![c] = client[c]]
Activated(c) == [NoClientRead EXCEPT ![c] = "active"]
Reactivates(c) == IF client[c] = "active" THEN {} ELSE {c}

MarkPaid(s, i) ==
    /\ inv[i].st \in Open
    /\ Change(s, "after", i, "paid", Activated(i[1]), Reactivates(i[1]))

CancelInvoice(s, i) ==
    /\ inv[i].st \in Open
    /\ Change(s, "after", i, "cancelled", WithClient(i[1]), {})

\* Refuses paid invoices only.
MarkOverdue(s, i) ==
    /\ inv[i].st \notin {"paid", "absent"}
    /\ Change(s, "after", i, "overdue", NoClientRead, {})

\* POST /admin/billing/payments with paid_at: refuses no status.
CreatePayment(s, i) ==
    /\ inv[i].st \notin {"paid", "absent"}
    /\ Change(s, "after", i, "paid", Activated(i[1]), Reactivates(i[1]))

\* POST /public/webhooks/pix with status "paid".
PixWebhook(s, i) ==
    /\ inv[i].st \notin {"paid", "absent"}
    /\ Change(s, "joint", i, "paid", NoClientRead, {})

AdminOperation(s) ==
    /\ ops < MaxOps
    /\ ops' = ops + 1
    /\ \/ \E i \in Invoices : \/ MarkPaid(s, i) \/ CancelInvoice(s, i) \/ MarkOverdue(s, i)
                              \/ CreatePayment(s, i) \/ PixWebhook(s, i)
       \/ \E C \in {Clients} \cup {{c} : c \in Clients} : Generate(s, C, "joint")
       \/ Cycle(s, "both")
       \/ JustRefresh(s)
    /\ UNCHANGED <<patches, deaths>>

\* PATCH /admin/clients/{id} with billing_status; seed_defaults does it for the
\* demo client at every start.
PatchBillingStatus(c, b) ==
    /\ patches < MaxPatches
    /\ patches' = patches + 1
    /\ client' = [client EXCEPT ![c] = b]
    /\ UNCHANGED <<inv, lock, timeVars, sessionVars, ops, deaths, overlaps>>

-------------------------------------------------------------------------------
(***************************************************************************)
(* refresh_billing_statuses and the transactions around it.                *)
(***************************************************************************)

Changed(s) == newSt[s] \cup newDue[s]
Lockable(s) == \A i \in Changed(s) : lock[i] \in {NoSession, s}
Locked(s) == [i \in Invoices |-> IF i \in Changed(s) THEN s ELSE lock[i]]
Unlocked(s) == [i \in Invoices |-> IF lock[i] = s THEN NoSession ELSE lock[i]]

\* The row as the session's own queries, and after its commit everyone, see it.
View(s, i) == [st  |-> IF i \in newSt[s] THEN mem[s][i].st ELSE inv[i].st,
               due |-> IF i \in newDue[s] THEN mem[s][i].due ELSE inv[i].due]

Save(s) ==
    /\ inv' = [i \in Invoices |-> View(s, i)]
    /\ client' = [c \in Clients |-> IF c \in newClient[s] THEN memClient[s][c] ELSE client[c]]
    /\ lock' = Unlocked(s)
    /\ newSt' = [newSt EXCEPT ![s] = {}]
    /\ newDue' = [newDue EXCEPT ![s] = {}]
    /\ inserts' = [inserts EXCEPT ![s] = {}]
    /\ newClient' = [newClient EXCEPT ![s] = {}]

Close(s) ==
    /\ step' = [step EXCEPT ![s] = "idle"]
    /\ refresh' = [refresh EXCEPT ![s] = "joint"]
    /\ mem' = [mem EXCEPT ![s] = NothingRead]
    /\ memClient' = [memClient EXCEPT ![s] = NoClientRead]

\* The INSERT of an invoice that another session has created in the meantime.
Duplicate(s) == \E i \in inserts[s] : inv[i] # Absent

\* The writes of the operation itself; they wait for the row locks of others.
Flush(s) ==
    /\ step[s] = "flush"
    /\ Lockable(s)
    /\ ~Duplicate(s)
    /\ IF refresh[s] = "after"
       THEN Save(s)
       ELSE lock' = Locked(s) /\ UNCHANGED <<inv, client, changeVars>>
    /\ step' = [step EXCEPT ![s] = "scan"]
    /\ UNCHANGED <<timeVars, refresh, mem, memClient, boundVars, overlaps>>

IsLate(row) == row.st = "pending" /\ row.due < today

\* SELECT ... WHERE status = 'pending' AND due_at < now, and the assignments.
Scan(s) ==
    LET late == {i \in Invoices : IsLate(View(s, i))}
        row(i) == IF mem[s][i] = Unread THEN inv[i] ELSE mem[s][i]
    IN
    /\ step[s] = "scan"
    /\ newSt' = [newSt EXCEPT ![s] = @ \cup {i \in late : row(i).st # "overdue"}]
    /\ mem' = [mem EXCEPT ![s] = [i \in Invoices |->
                  IF i \in late THEN [row(i) EXCEPT !.st = "overdue"] ELSE @[i]]]
    /\ step' = [step EXCEPT ![s] = "derive"]
    /\ UNCHANGED <<dbVars, timeVars, refresh, memClient, newDue, inserts, newClient, boundVars, overlaps>>

\* Every open invoice held against the client.
StandingOfOpen(c, row) ==
    LET open == {i \in {<<c, p>> : p \in Periods} : row[i].st \in Open} IN
    IF \E i \in open : row[i].due + SuspendDays < today THEN "suspended"
    ELSE IF open # {} THEN "past_due" ELSE "active"

\* derive_client_billing_status
StandingOf(c, row) ==
    LET overdue == {i \in {<<c, p>> : p \in Periods} : row[i].st = "overdue"} IN
    IF \E i \in overdue : row[i].due + SuspendDays < today THEN "suspended"
    ELSE IF overdue # {} THEN "past_due" ELSE "active"

\* A refresh that only ever makes things worse.
DeriveNoReprieve(s) ==
    LET row == [i \in Invoices |-> IF mem[s][i] = Unread THEN inv[i] ELSE mem[s][i]]
        read == [c \in Clients |-> IF memClient[s][c] = "unread" THEN client[c]
                                   ELSE memClient[s][c]]
        next == [c \in Clients |-> IF StandingOf(c, row) = "active" THEN read[c]
                                   ELSE StandingOf(c, row)]
    IN
    /\ step[s] = "derive"
    /\ Lockable(s)
    /\ lock' = Locked(s)
    /\ mem' = [mem EXCEPT ![s] = row]
    /\ memClient' = [memClient EXCEPT ![s] = next]
    /\ newClient' = [newClient EXCEPT ![s] = {c \in Clients : next[c] # read[c]}]
    /\ step' = [step EXCEPT ![s] = "commit"]
    /\ UNCHANGED <<inv, client, timeVars, refresh, newSt, newDue, inserts, boundVars, overlaps>>

\* The autoflush, the query for the clients with their invoices (which leaves
\* rows already in memory as they are) and the loop over them.
Derive(s) ==
    LET row == [i \in Invoices |-> IF mem[s][i] = Unread THEN inv[i] ELSE mem[s][i]]
        read == [c \in Clients |-> IF memClient[s][c] = "unread" THEN client[c]
                                   ELSE memClient[s][c]]
        next == [c \in Clients |-> StandingOf(c, row)]
    IN
    /\ step[s] = "derive"
    /\ Lockable(s)
    /\ lock' = Locked(s)
    /\ mem' = [mem EXCEPT ![s] = row]
    /\ memClient' = [memClient EXCEPT ![s] = next]
    /\ newClient' = [newClient EXCEPT ![s] = {c \in Clients : next[c] # read[c]}]
    /\ step' = [step EXCEPT ![s] = "commit"]
    /\ UNCHANGED <<inv, client, timeVars, refresh, newSt, newDue, inserts, boundVars, overlaps>>

Commit(s) ==
    /\ step[s] = "commit"
    /\ Save(s)
    /\ IF refresh[s] = "both"
       THEN /\ step' = [step EXCEPT ![s] = "scan"]
            /\ refresh' = [refresh EXCEPT ![s] = "joint"]
            /\ UNCHANGED <<mem, memClient>>
       ELSE Close(s)
    /\ UNCHANGED <<timeVars, boundVars, overlaps>>

\* An exception or the death of the process: PostgreSQL rolls back.
Rollback(s) ==
    /\ Close(s)
    /\ lock' = Unlocked(s)
    /\ newSt' = [newSt EXCEPT ![s] = {}]
    /\ newDue' = [newDue EXCEPT ![s] = {}]
    /\ inserts' = [inserts EXCEPT ![s] = {}]
    /\ newClient' = [newClient EXCEPT ![s] = {}]
    /\ UNCHANGED <<inv, client, timeVars, overlaps>>

\* uq_billing_invoice_period: IntegrityError.
FlushConflicts(s) ==
    /\ step[s] = "flush"
    /\ Lockable(s)
    /\ Duplicate(s)
    /\ Rollback(s)
    /\ UNCHANGED boundVars

Dies(s) ==
    /\ ~Idle(s)
    /\ deaths < MaxDeaths
    /\ deaths' = deaths + 1
    /\ Rollback(s)
    /\ UNCHANGED <<ops, patches>>

SessionStep(s) == Flush(s) \/ FlushConflicts(s) \/ Scan(s) \/ Derive(s) \/ Commit(s)

-------------------------------------------------------------------------------
\* Transactions are short: the date changes between them.
DayPasses ==
    /\ Active = {}
    /\ today < MaxDay
    /\ today' = today + 1
    /\ \E first \in BOOLEAN :
          /\ first => month + 1 \in Periods
          /\ invoiceDay' = first
          /\ month' = IF first THEN month + 1 ELSE month
    /\ UNCHANGED <<dbVars, sessionVars, boundVars, overlaps>>

Next ==
    \/ SchedulerCycle
    \/ \E s \in Admins : AdminOperation(s)
    \/ \E s \in Sessions : SessionStep(s) \/ Dies(s)
    \/ \E c \in Clients, b \in Standing : PatchBillingStatus(c, b)
    \/ DayPasses

Spec == Init /\ [][Next]_vars

\* A request runs to its end and the scheduler wakes up every hour.
FairSpec ==
    /\ Spec
    /\ \A s \in Sessions : WF_vars(SessionStep(s))
    /\ WF_vars(SchedulerCycle)

-------------------------------------------------------------------------------
(***************************************************************************)
(* Properties.                                                             *)
(***************************************************************************)

Consistent(c) == client[c] = StandingOf(c, inv)

\* As long as operations follow one another, none dies half-way and nobody sets
\* the status by hand: between transactions a client is suspended, past due or active for a reason
\* that its invoices give: no overdue invoice goes unnoticed, and none that
\* was paid, cancelled or reissued keeps a client out.  (A client may still be
\* "past_due" on the day its grace period ends.)
StandingJustified ==
    Active = {} /\ overlaps = 0 /\ deaths = 0 /\ patches = 0 => \A c \in Clients :
        /\ client[c] = "active" <=> \A p \in Periods : inv[<<c, p>>].st # "overdue"
        /\ client[c] = "suspended" => Consistent(c)

\* "paid invoice cannot be marked overdue": a paid invoice stays paid.
PaidIsFinal == [][\A i \in Invoices : inv[i].st = "paid" => inv'[i].st = "paid"]_vars

\* As long as operations follow one another, whether or not some die: no cycle,
\* regeneration, correction or webhook takes a paid invoice back.
PaidIsFinalInOrder ==
    [][overlaps = 0 => \A i \in Invoices : inv[i].st = "paid" => inv'[i].st = "paid"]_vars

\* Whatever operations overlapped, died half-way or were overridden by hand,
\* once they have ended the hourly cycle brings every client's billing_status
\* in line with the invoices for good.
StandingConverges == \A c \in Clients : <>[]Consistent(c)
===============================================================================
