----------------------------- MODULE ClientAccess -----------------------------
(***************************************************************************)
(* Accounts and API keys: public signup, the admin operations on clients   *)
(* and keys, and require_client, which every client call passes.           *)
(*                                                                         *)
(* Every handler works in one READ COMMITTED session: it reads rows        *)
(* without a lock, decides on the copies, and writes when it flushes.      *)
(* Three row locks matter.  require_client flushes last_used_at, so a call *)
(* holds the row of its key until it commits.  delete_client flushes       *)
(* deleted_at when it selects the keys, so it holds the row of the client  *)
(* while it waits for the keys.  A portal call that writes the client      *)
(* wants these two in the opposite order; PostgreSQL breaks the deadlock   *)
(* by aborting one of the two.                                             *)
(*                                                                         *)
(* A client is identified by its unique name.  Invoices, the limits and    *)
(* the work of a call are in Billing, UsageLimits and SyncRequests.        *)
(***************************************************************************)
EXTENDS Naturals, FiniteSets

CONSTANTS
    Clients,    \* account names
    Keys,       \* the keys that can be generated: bounds how many ever are
    Calls,      \* concurrent client calls
    Sessions,   \* concurrent admin and signup requests
    None,
    MaxCalls,   \* bound on the calls made
    MaxOps      \* bound on the admin and signup requests made

ASSUME AccessAssumption ==
    /\ None \notin Keys \cup Clients
    /\ IsFiniteSet(Keys)
    /\ {MaxCalls, MaxOps} \subseteq Nat

VARIABLES
    client,     \* rows of clients
    key,        \* rows of api_keys
    call,       \* client calls: program point and what they hold in memory
    op,         \* admin and signup sessions, likewise
    late,       \* history: keys committed after a deletion had read the keys
    forks,      \* history: rotations committed over an already revoked key
    suspended,  \* history: clients whose last security action is a suspension
    clobbered,  \* history: clients whose metadata were written from an old copy
    reopened,   \* history: clients unblocked since their suspension was asked for
    calls, ops  \* counters for the bounds

historyVars == <<late, forks, suspended, clobbered, reopened>>
vars == <<client, key, call, op, historyVars, calls, ops>>

Absent == [state |-> "absent", blocked |-> FALSE, reason |-> FALSE]
Unborn == [owner |-> None, revoked |-> FALSE, root |-> None]
NoCall == [pc |-> "idle", key |-> None, reason |-> FALSE, raced |-> FALSE, target |-> None]
NoOp == [do |-> "idle", client |-> None, old |-> None, new |-> None, seen |-> {},
         blocked |-> FALSE, raced |-> FALSE]

\* Client rows carry state (deleted_at set: "deleted"), is_blocked, and whether
\* metadata_json gives a security_suspension_reason.
ClientRow == [state : {"absent", "open", "deleted"}, blocked : BOOLEAN, reason : BOOLEAN]
KeyRow == [owner : Clients \cup {None}, revoked : BOOLEAN, root : Keys \cup {None}]

\* The program points of a call: the key was found, the client passed, the key row
\* is locked (admitted), the client row is about to be written as well (writing).
CallState == [pc : {"idle", "found", "checked", "admitted", "writing"},
              key : Keys \cup {None}, reason : BOOLEAN, raced : BOOLEAN,
              target : Clients \cup {None}]
OpState == [do : {"idle", "signup", "create", "key", "rotate", "revoke", "block", "unblock",
                  "suspend", "unsuspend", "delete", "revoking"},
            client : Clients \cup {None}, old : Keys \cup {None}, new : Keys \cup {None},
            seen : SUBSET Keys, blocked : BOOLEAN, raced : BOOLEAN]

TypeOK ==
    /\ client \in [Clients -> ClientRow]
    /\ key \in [Keys -> KeyRow]
    /\ call \in [Calls -> CallState]
    /\ op \in [Sessions -> OpState]
    /\ late \subseteq Keys
    /\ forks \in [Keys -> Nat]
    /\ suspended \subseteq Clients
    /\ clobbered \subseteq Clients
    /\ reopened \subseteq Clients
    /\ calls \in 0..MaxCalls
    /\ ops \in 0..MaxOps

Init ==
    /\ client = [c \in Clients |-> Absent]
    /\ key = [k \in Keys |-> Unborn]
    /\ call = [r \in Calls |-> NoCall]
    /\ op = [s \in Sessions |-> NoOp]
    /\ late = {}
    /\ forks = [k \in Keys |-> 0]
    /\ suspended = {}
    /\ clobbered = {}
    /\ reopened = {}
    /\ calls = 0
    /\ ops = 0
-------------------------------------------------------------------------------
Valid(k) == key[k].owner # None /\ ~key[k].revoked
KeysOf(c) == {k \in Keys : key[k].owner = c}
Client(r) == key[call[r].key].owner
Admitted(r) == call[r].pc \in {"admitted", "writing"}

\* The row locks that outlive a step: a call holds its key, a deletion its client.
\* A call that does not flush last_used_at holds nothing.
KeyFreeUnflushed(k) == TRUE
KeyFree(k) == \A r \in Calls : ~(Admitted(r) /\ call[r].key = k)
ClientFree(c) == \A s \in Sessions : ~(op[s].do = "revoking" /\ op[s].client = c)

Fresh == {k \in Keys : key[k].owner = None /\ \A s \in Sessions : op[s].new # k}
NewKey == CHOOSE k \in Fresh : TRUE

\* A key of client c is written.  A deletion that has read the keys will not see it.
Mint(k, c, root) == [owner |-> c, revoked |-> FALSE, root |-> root]
MissedByDeletion(c) == client[c].state = "deleted" \/ ~ClientFree(c)
MarkLate(k, c) == late' = IF MissedByDeletion(c) THEN late \cup {k} ELSE late
-------------------------------------------------------------------------------
\* A request reaches its handler, which keeps what it has read in memory.
Begin(s, memory) ==
    /\ op[s] = NoOp
    /\ ops < MaxOps
    /\ ops' = ops + 1
    /\ op' = [op EXCEPT ![s] = memory]
    /\ UNCHANGED <<client, key, call, historyVars, calls>>

End(s) == op' = [op EXCEPT ![s] = NoOp]

\* create_public_signup looks for the name first, create_client does not.
BeginSignup(s, c) ==
    /\ client[c].state = "absent"
    /\ Fresh # {}
    /\ Begin(s, [NoOp EXCEPT !.do = "signup", !.client = c, !.new = NewKey])

BeginCreateClient(s, c) == Begin(s, [NoOp EXCEPT !.do = "create", !.client = c])

\* Neither operation on keys looks at deleted_at.
BeginCreateKey(s, c) ==
    /\ client[c].state # "absent"
    /\ Fresh # {}
    /\ Begin(s, [NoOp EXCEPT !.do = "key", !.client = c, !.new = NewKey])

BeginRotate(s, k) ==
    /\ Valid(k)
    /\ Fresh # {}
    /\ Begin(s, [NoOp EXCEPT !.do = "rotate", !.client = key[k].owner, !.old = k, !.new = NewKey])

BeginRevoke(s, k) ==
    /\ key[k].owner # None
    /\ Begin(s, [NoOp EXCEPT !.do = "revoke", !.old = k])

\* block_client, unblock_client, and the security suspension and its end.
BeginSetBlocked(s, c, do) ==
    /\ client[c].state # "absent"
    /\ Begin(s, [NoOp EXCEPT !.do = do, !.client = c, !.blocked = client[c].blocked])

BeginDelete(s, c) ==
    /\ client[c].state = "open"
    /\ Begin(s, [NoOp EXCEPT !.do = "delete", !.client = c])
-------------------------------------------------------------------------------
\* The INSERT of the client, and of its first key for a signup, in one commit.
\* A name that was taken meanwhile violates the unique index: nothing is written.
InsertClient(s) ==
    LET c == op[s].client  k == op[s].new IN
    /\ op[s].do \in {"signup", "create"}
    /\ \/ /\ client[c].state = "absent"
          /\ client' = [client EXCEPT ![c].state = "open"]
          /\ key' = IF op[s].do = "signup" THEN [key EXCEPT ![k] = Mint(k, c, k)] ELSE key
       \/ /\ client[c].state # "absent"
          /\ UNCHANGED <<client, key>>
    /\ End(s)
    /\ UNCHANGED <<call, historyVars, calls, ops>>

CreateKey(s) ==
    LET c == op[s].client  k == op[s].new IN
    /\ op[s].do = "key"
    /\ key' = [key EXCEPT ![k] = Mint(k, c, k)]
    /\ MarkLate(k, c)
    /\ End(s)
    /\ UNCHANGED <<client, call, forks, suspended, clobbered, reopened, calls, ops>>

\* The old key is not revoked.
RotateKeepsOld(s) ==
    LET c == op[s].client  old == op[s].old  new == op[s].new IN
    /\ op[s].do = "rotate"
    /\ KeyFree(old)
    /\ key' = [key EXCEPT ![new] = Mint(new, c, key[old].root)]
    /\ forks' = [forks EXCEPT ![key[old].root] = @ + IF key[old].revoked THEN 1 ELSE 0]
    /\ MarkLate(new, c)
    /\ End(s)
    /\ UNCHANGED <<client, call, suspended, clobbered, reopened, calls, ops>>

\* The UPDATE of the old key and the INSERT of its successor, in one commit.
\* The copy said the old key is valid; the row is not asked again.
Rotate(s) ==
    LET c == op[s].client  old == op[s].old  new == op[s].new IN
    /\ op[s].do = "rotate"
    /\ KeyFree(old)
    /\ key' = [key EXCEPT ![old].revoked = TRUE, ![new] = Mint(new, c, key[old].root)]
    /\ forks' = [forks EXCEPT ![key[old].root] = @ + IF key[old].revoked THEN 1 ELSE 0]
    /\ MarkLate(new, c)
    /\ End(s)
    /\ UNCHANGED <<client, call, suspended, clobbered, reopened, calls, ops>>

\* The row is deleted: the key could be generated and issued again.
RevokeDeletesRow(s) ==
    /\ op[s].do = "revoke"
    /\ KeyFree(op[s].old)
    /\ key' = [key EXCEPT ![op[s].old] = Unborn]
    /\ End(s)
    /\ UNCHANGED <<client, call, historyVars, calls, ops>>

Revoke(s) ==
    /\ op[s].do = "revoke"
    /\ KeyFree(op[s].old)
    /\ key' = [key EXCEPT ![op[s].old].revoked = TRUE]
    /\ End(s)
    /\ UNCHANGED <<client, call, historyVars, calls, ops>>

\* metadata_json is written as a whole, from the copy with one entry changed.
Metadata(c, read, reason) ==
    /\ client' = [client EXCEPT ![c].reason = reason]
    /\ clobbered' = IF client[c].reason # read THEN clobbered \cup {c} ELSE clobbered

\* is_blocked is part of the UPDATE only if it differs from the copy.
WriteBlocked(s, value) ==
    IF op[s].blocked = value THEN client[op[s].client].blocked ELSE value

\* The session ends; a suspension of the same client that is under way is told
\* (history) that the client was unblocked meanwhile.
EndUnblocking(s) ==
    op' = [t \in Sessions |->
             IF t = s THEN NoOp
             ELSE IF op[t].do = "suspend" /\ op[t].client = op[s].client
                  THEN [op[t] EXCEPT !.raced = TRUE] ELSE op[t]]

SetBlockedAsState(s) ==
    /\ op[s].do \in {"block", "unblock"}
    /\ client' = [client EXCEPT ![op[s].client].state = op[s].do]
    /\ End(s)
    /\ UNCHANGED <<key, call, historyVars, calls, ops>>

SetBlocked(s) ==
    LET c == op[s].client  on == op[s].do = "block" IN
    /\ op[s].do \in {"block", "unblock"}
    /\ ClientFree(c)
    /\ client' = [client EXCEPT ![c].blocked = WriteBlocked(s, on)]
    /\ IF on THEN End(s) ELSE EndUnblocking(s)
    /\ reopened' = IF on THEN reopened ELSE reopened \cup {c}
    /\ UNCHANGED <<key, call, late, forks, suspended, clobbered, calls, ops>>

\* The suspension gives its reason and forgets the block itself.
SuspendInNameOnly(s) ==
    LET c == op[s].client IN
    /\ op[s].do = "suspend"
    /\ ClientFree(c)
    /\ client' = [client EXCEPT ![c].reason = TRUE]
    /\ suspended' = suspended \cup {c}
    /\ clobbered' = clobbered \ {c}
    /\ reopened' = IF op[s].raced THEN reopened \cup {c} ELSE reopened \ {c}
    /\ End(s)
    /\ UNCHANGED <<key, call, late, forks, calls, ops>>

Suspend(s) ==
    LET c == op[s].client IN
    /\ op[s].do = "suspend"
    /\ ClientFree(c)
    /\ client' = [client EXCEPT ![c].blocked = WriteBlocked(s, TRUE), ![c].reason = TRUE]
    /\ suspended' = suspended \cup {c}
    /\ clobbered' = clobbered \ {c}
    /\ reopened' = IF op[s].raced THEN reopened \cup {c} ELSE reopened \ {c}
    /\ End(s)
    /\ UNCHANGED <<key, call, late, forks, calls, ops>>

Unsuspend(s) ==
    LET c == op[s].client IN
    /\ op[s].do = "unsuspend"
    /\ ClientFree(c)
    /\ client' = [client EXCEPT ![c].blocked = WriteBlocked(s, FALSE), ![c].reason = FALSE]
    /\ suspended' = suspended \ {c}
    /\ clobbered' = clobbered \ {c}
    /\ reopened' = reopened \cup {c}
    /\ EndUnblocking(s)
    /\ UNCHANGED <<key, call, late, forks, calls, ops>>
-------------------------------------------------------------------------------
\* A paid invoice (see Billing) refuses the deletion.
DeleteRefused(s) ==
    /\ op[s].do = "delete"
    /\ End(s)
    /\ UNCHANGED <<client, key, call, historyVars, calls, ops>>

\* The SELECT of the keys flushes deleted_at first: the client row is locked.
DeleteSelectsKeys(s) ==
    LET c == op[s].client IN
    /\ op[s].do = "delete"
    /\ ClientFree(c)
    /\ op' = [op EXCEPT ![s].do = "revoking", ![s].seen = KeysOf(c)]
    /\ UNCHANGED <<client, key, call, historyVars, calls, ops>>

\* Only one of the keys is revoked.
DeleteRevokesOne(s) ==
    LET c == op[s].client IN
    /\ op[s].do = "revoking"
    /\ \A k \in op[s].seen : KeyFree(k)
    /\ client' = [client EXCEPT ![c].state = "deleted"]
    /\ key' = [k \in Keys |->
                 IF op[s].seen # {} /\ k = CHOOSE x \in op[s].seen : TRUE
                 THEN [key[k] EXCEPT !.revoked = TRUE] ELSE key[k]]
    /\ End(s)
    /\ UNCHANGED <<call, historyVars, calls, ops>>

\* The commit waits for every key row a call holds.
DeleteCommits(s) ==
    LET c == op[s].client IN
    /\ op[s].do = "revoking"
    /\ \A k \in op[s].seen : KeyFree(k)
    /\ client' = [client EXCEPT ![c].state = "deleted"]
    /\ key' = [k \in Keys |->
                 IF k \in op[s].seen THEN [key[k] EXCEPT !.revoked = TRUE] ELSE key[k]]
    /\ End(s)
    /\ UNCHANGED <<call, historyVars, calls, ops>>
-------------------------------------------------------------------------------
\* require_client: the key ...
Present(r, k) ==
    /\ call[r] = NoCall
    /\ calls < MaxCalls
    /\ Valid(k)
    /\ calls' = calls + 1
    /\ call' = [call EXCEPT ![r] = [NoCall EXCEPT !.pc = "found", !.key = k]]
    /\ UNCHANGED <<client, key, op, historyVars, ops>>

Leave(r) == call' = [call EXCEPT ![r] = NoCall]

\* ... the client, whose deleted_at is not asked for ...
ReadClient(r) ==
    /\ call[r].pc = "found"
    /\ ~client[Client(r)].blocked
    /\ call' = [call EXCEPT ![r].pc = "checked", ![r].reason = client[Client(r)].reason]
    /\ UNCHANGED <<client, key, op, historyVars, calls, ops>>

\* 403: blocked, suspended for billing, or the address is refused.
RefuseClient(r) ==
    /\ call[r].pc = "found"
    /\ Leave(r)
    /\ UNCHANGED <<client, key, op, historyVars, calls, ops>>

\* The UPDATE is repeated until it meets a key that is not revoked.
TouchValid(r) ==
    /\ call[r].pc = "checked"
    /\ KeyFree(call[r].key)
    /\ Valid(call[r].key)
    /\ call' = [call EXCEPT ![r].pc = "admitted"]
    /\ UNCHANGED <<client, key, op, historyVars, calls, ops>>

\* ... and last_used_at, whose UPDATE by id does not ask whether the key was
\* revoked since.
Touch(r) ==
    /\ call[r].pc = "checked"
    /\ KeyFree(call[r].key)
    /\ call' = [call EXCEPT ![r].pc = "admitted", ![r].raced = key[call[r].key].revoked]
    /\ UNCHANGED <<client, key, op, historyVars, calls, ops>>

\* The handler commits, or fails and rolls back.
Answer(r) ==
    /\ call[r].pc = "admitted"
    /\ Leave(r)
    /\ UNCHANGED <<client, key, op, historyVars, calls, ops>>

\* record_onboarding_event writes the metadata of its client; portal_invoices the
\* billing_status of any client whose standing the refresh finds changed.
WantClient(r, c) ==
    /\ call[r].pc = "admitted"
    /\ call' = [call EXCEPT ![r].pc = "writing", ![r].target = c]
    /\ UNCHANGED <<client, key, op, historyVars, calls, ops>>

RecordEvent(r) ==
    /\ call[r].pc = "writing"
    /\ call[r].target = Client(r)
    /\ ClientFree(Client(r))
    /\ Metadata(Client(r), call[r].reason, call[r].reason)
    /\ Leave(r)
    /\ UNCHANGED <<key, op, late, forks, suspended, reopened, calls, ops>>

PortalInvoices(r) ==
    /\ call[r].pc = "writing"
    /\ ClientFree(call[r].target)
    /\ Leave(r)
    /\ UNCHANGED <<client, key, op, historyVars, calls, ops>>

\* Who waits for a row that y holds: a portal call for a client being deleted, a
\* deletion for a key in use.
Waits(x, y) ==
    \/ /\ x \in Calls /\ y \in Sessions
       /\ call[x].pc = "writing"
       /\ op[y].do = "revoking"
       /\ op[y].client = call[x].target
    \/ /\ x \in Sessions /\ y \in Calls
       /\ op[x].do = "revoking"
       /\ Admitted(y)
       /\ call[y].key \in op[x].seen

Deadlocked(D) == \A x \in D : \E y \in D : Waits(x, y)
Cycles ==
    LET waiting == {x \in Calls \cup Sessions : \E y \in Calls \cup Sessions : Waits(x, y)}
    IN  {D \in SUBSET waiting :
            D # {} /\ Deadlocked(D) /\ \A x \in D : ~Deadlocked(D \ {x})}

\* PostgreSQL aborts one of the transactions that wait for each other.
DeadlockDetected ==
    \E D \in Cycles : \E x \in D :
        /\ \/ x \in Calls /\ Leave(x) /\ UNCHANGED op
           \/ x \in Sessions /\ End(x) /\ UNCHANGED call
        /\ UNCHANGED <<client, key, historyVars, calls, ops>>
-------------------------------------------------------------------------------
BeginSome(s) ==
    \/ \E c \in Clients :
          \/ BeginSignup(s, c) \/ BeginCreateClient(s, c) \/ BeginCreateKey(s, c)
          \/ BeginDelete(s, c)
          \/ \E do \in {"block", "unblock", "suspend", "unsuspend"} : BeginSetBlocked(s, c, do)
    \/ \E k \in Keys : BeginRotate(s, k) \/ BeginRevoke(s, k)

SessionStep(s) ==
    \/ InsertClient(s) \/ CreateKey(s) \/ Rotate(s) \/ Revoke(s)
    \/ SetBlocked(s) \/ Suspend(s) \/ Unsuspend(s)
    \/ DeleteRefused(s) \/ DeleteSelectsKeys(s) \/ DeleteCommits(s)

CallStep(r) ==
    \/ ReadClient(r) \/ RefuseClient(r) \/ Touch(r)
    \/ Answer(r) \/ (\E c \in Clients : WantClient(r, c)) \/ RecordEvent(r) \/ PortalInvoices(r)

\* Every request that came in has been answered.
Idle ==
    /\ \A s \in Sessions : op[s] = NoOp
    /\ \A r \in Calls : call[r] = NoCall

Quiet == Idle /\ UNCHANGED vars

Next ==
    \/ \E s \in Sessions : BeginSome(s) \/ SessionStep(s)
    \/ \E r \in Calls : CallStep(r) \/ \E k \in Keys : Present(r, k)
    \/ DeadlockDetected
    \/ Quiet

Spec == Init /\ [][Next]_vars

\* A handler that can go on does, and PostgreSQL looks for deadlocks.
FairSpec ==
    /\ Spec
    /\ \A s \in Sessions : WF_vars(SessionStep(s))
    /\ \A r \in Calls : WF_vars(CallStep(r))
    /\ WF_vars(DeadlockDetected)
-------------------------------------------------------------------------------
\* A deleted client keeps no valid key, except one committed by create_api_key or
\* rotate_api_key after delete_client had read the keys it revokes.
DeletedKeysRevoked ==
    \A c \in Clients :
        client[c].state = "deleted" => \A k \in KeysOf(c) : Valid(k) => k \in late

\* Once a revocation, rotation or deletion has committed, no admitted call is
\* still at work with the key: the commit waits for the calls that hold its row.
\* The exception is a call that had found the key before and locked it after.
RevocationIsABarrier ==
    \A r \in Calls : Admitted(r) /\ key[call[r].key].revoked => call[r].raced

\* Rotating hands access over and does not multiply it: of a key and all its
\* successors one is valid, and one more for each rotation that committed when
\* its key had been revoked under it.
RotationHandsOver ==
    \A root \in Keys :
        Cardinality({k \in Keys : Valid(k) /\ key[k].root = root}) <= 1 + forks[root]

\* A client whose last security action is a suspension is blocked and its metadata
\* say why. Two races break this: an unblocking committed after the suspension had
\* read the client as blocked (is_blocked, TRUE in the copy, is then not written), and
\* a portal event that writes back metadata it had read before.
SuspensionStands ==
    \A c \in suspended :
        /\ client[c].blocked \/ c \in reopened
        /\ client[c].reason \/ c \in clobbered

\* Every request ends: nobody waits for ever for the row of a key or a client.
\* (Once MaxCalls and MaxOps are used up, that is: all are idle for good.)
EveryoneEnds == <>[]Idle

\* The rows of api_keys implement KeyRing: whatever sessions do concurrently, a
\* key is issued once, never comes back after its revocation, and gains validity
\* only by being issued.
Ring == INSTANCE KeyRing WITH
            Keys <- Keys,
            state <- [k \in Keys |-> IF key[k].owner = None THEN "unborn"
                                     ELSE IF key[k].revoked THEN "revoked" ELSE "valid"]
ImplementsKeyRing == Ring!Spec
===============================================================================
