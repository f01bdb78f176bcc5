-------------------------- MODULE ClientAccessProofs --------------------------
(***************************************************************************)
(* Proofs about ClientAccess for any number of clients, keys, calls and    *)
(* sessions.                                                               *)
(***************************************************************************)
EXTENDS ClientAccess, FiniteSetTheorems, TLAPS

\* A key that was issued belongs to an account that was created, and so was the
\* key at the root of its rotations.
IssuedKeys ==
    \A k \in Keys : key[k].owner # None =>
        /\ client[key[k].owner].state # "absent"
        /\ key[k].root \in Keys
        /\ key[key[k].root].owner # None

\* A call that is under way carries an issued key.
CallsKeyed ==
    \A r \in Calls : call[r].pc # "idle" =>
        call[r].key \in Keys /\ key[call[r].key].owner # None

Generating == {"signup", "key", "rotate"}

\* What a session has in memory: the account, which is there unless the session
\* creates it; the key it will insert, which is not there yet; the keys it will
\* revoke, which are.
SessionsReady ==
    \A s \in Sessions :
        /\ op[s].do \notin {"idle", "revoke"} => op[s].client \in Clients
        /\ op[s].do \in {"key", "rotate", "delete", "revoking"} =>
              client[op[s].client].state # "absent"
        /\ op[s].do \in Generating => op[s].new \in Keys /\ key[op[s].new].owner = None
        /\ op[s].do \notin Generating => op[s].new = None
        /\ op[s].do \in {"rotate", "revoke"} => op[s].old \in Keys /\ key[op[s].old].owner # None
        /\ \A k \in op[s].seen : key[k].owner # None

\* Two sessions never generate the same key.
NewKeysApart ==
    \A s, t \in Sessions : op[s].new = op[t].new /\ op[s].new # None => s = t

\* A deletion under way will revoke every key of its client but the late ones.
DeletionSees ==
    \A s \in Sessions : op[s].do = "revoking" =>
        \A k \in Keys : key[k].owner = op[s].client => k \in op[s].seen \/ k \in late

\* A suspension that read its client as blocked still finds it blocked, unless it
\* has been told of an unblocking.
SuspensionCopy ==
    \A s \in Sessions : op[s].do = "suspend" /\ op[s].blocked /\ ~op[s].raced =>
        client[op[s].client].blocked

IInv ==
    /\ TypeOK
    /\ IssuedKeys /\ CallsKeyed
    /\ SessionsReady /\ NewKeysApart
    /\ DeletionSees /\ DeletedKeysRevoked
    /\ RevocationIsABarrier
    /\ SuspensionCopy /\ SuspensionStands
    /\ RotationHandsOver

-------------------------------------------------------------------------------
\* In the initial state nothing exists and nothing is under way.
LEMMA InitIInv == Init => IInv
  <1> SUFFICES ASSUME Init PROVE IInv
    OBVIOUS
  <1>1. TypeOK
    <2>1. Absent \in ClientRow /\ Unborn \in KeyRow /\ NoCall \in CallState /\ NoOp \in OpState
      BY DEF Absent, Unborn, NoCall, NoOp, ClientRow, KeyRow, CallState, OpState
    <2> QED BY <2>1, AccessAssumption DEF Init, TypeOK
  <1>2. IssuedKeys /\ CallsKeyed /\ SessionsReady /\ NewKeysApart
    BY DEF Init, IssuedKeys, CallsKeyed, SessionsReady, NewKeysApart, Unborn, NoCall, NoOp, Generating
  <1>3. DeletionSees /\ DeletedKeysRevoked /\ RevocationIsABarrier
    BY DEF Init, DeletionSees, DeletedKeysRevoked, RevocationIsABarrier, Absent, NoCall, NoOp, Admitted
  <1>4. SuspensionCopy /\ SuspensionStands
    BY DEF Init, SuspensionCopy, SuspensionStands, NoOp
  <1>5. RotationHandsOver
    <2> SUFFICES ASSUME NEW root \in Keys
                 PROVE  Cardinality({k \in Keys : Valid(k) /\ key[k].root = root}) <= 1 + forks[root]
      BY DEF RotationHandsOver
    <2>1. {k \in Keys : Valid(k) /\ key[k].root = root} = {}
      BY DEF Init, Valid, Unborn
    <2>2. Cardinality({k \in Keys : Valid(k) /\ key[k].root = root}) = 0
      BY <2>1, FS_EmptySet
    <2>3. forks[root] = 0
      BY DEF Init
    <2> QED BY <2>2, <2>3
  <1> QED BY <1>1, <1>2, <1>3, <1>4, <1>5 DEF IInv

\* A step that leaves the keys alone cannot disturb the rotations.
LEMMA SameKeysHandedOver ==
    ASSUME RotationHandsOver, UNCHANGED <<key, forks>>
    PROVE  RotationHandsOver'
  BY DEF RotationHandsOver, Valid

\* What a handler has in memory after its first read.
FirstRead(memory) ==
    /\ memory \in OpState
    /\ memory.seen = {}
    /\ memory.do \notin {"idle", "revoking"}
    /\ memory.do # "revoke" => memory.client \in Clients
    /\ memory.do \in {"key", "rotate", "delete"} => client[memory.client].state # "absent"
    /\ memory.do \in Generating =>
          /\ memory.new \in Keys
          /\ key[memory.new].owner = None
          /\ \A s \in Sessions : op[s].new # memory.new
    /\ memory.do \notin Generating => memory.new = None
    /\ memory.do \in {"rotate", "revoke"} =>
          memory.old \in Keys /\ key[memory.old].owner # None
    /\ memory.do = "suspend" /\ memory.blocked => client[memory.client].blocked

\* A handler that has made its first read changes nothing yet.
LEMMA BeginIInv ==
    ASSUME IInv, NEW s \in Sessions, NEW memory, Begin(s, memory), FirstRead(memory)
    PROVE  IInv'
  <1> USE DEF IInv
  <1>0. /\ UNCHANGED <<client, key, call, late, forks, suspended, clobbered, reopened, calls>>
        /\ op' = [op EXCEPT ![s] = memory]
        /\ op'[s] = memory
        /\ \A t \in Sessions \ {s} : op'[t] = op[t]
        /\ op[s].new = None
    BY DEF Begin, historyVars, NoOp, TypeOK
  <1>1. TypeOK'
    BY <1>0, AccessAssumption DEF Begin, FirstRead, TypeOK
  <1>2. IssuedKeys' /\ CallsKeyed' /\ DeletedKeysRevoked' /\ RevocationIsABarrier'
    BY <1>0 DEF IssuedKeys, CallsKeyed, DeletedKeysRevoked, RevocationIsABarrier, Admitted, Valid, KeysOf
  <1>3. SessionsReady'
    BY <1>0 DEF SessionsReady, FirstRead
  <1>4. NewKeysApart'
    BY <1>0 DEF NewKeysApart, FirstRead, SessionsReady
  <1>5. DeletionSees' /\ SuspensionCopy' /\ SuspensionStands'
    BY <1>0 DEF DeletionSees, SuspensionCopy, SuspensionStands, FirstRead
  <1>6. RotationHandsOver'
    BY <1>0, SameKeysHandedOver
  <1> QED BY <1>1, <1>2, <1>3, <1>4, <1>5, <1>6

\* A generated key is one that nobody has.
LEMMA NewKeyFresh ==
    ASSUME Fresh # {}
    PROVE  /\ NewKey \in Keys
           /\ key[NewKey].owner = None
           /\ \A s \in Sessions : op[s].new # NewKey
  BY DEF NewKey, Fresh

\* Every operation, up to its first read.
LEMMA BeginSomeIInv ==
    ASSUME IInv, NEW s \in Sessions, BeginSome(s)
    PROVE  IInv'
  <1> USE DEF FirstRead, OpState, NoOp, Generating, TypeOK, ClientRow, KeyRow, IInv
  <1>1. ASSUME NEW c \in Clients, BeginSignup(s, c) PROVE IInv'
    BY <1>1, NewKeyFresh, BeginIInv DEF BeginSignup
  <1>2. ASSUME NEW c \in Clients, BeginCreateClient(s, c) PROVE IInv'
    BY <1>2, BeginIInv DEF BeginCreateClient
  <1>3. ASSUME NEW c \in Clients, BeginCreateKey(s, c) PROVE IInv'
    BY <1>3, NewKeyFresh, BeginIInv DEF BeginCreateKey
  <1>4. ASSUME NEW c \in Clients, BeginDelete(s, c) PROVE IInv'
    BY <1>4, BeginIInv DEF BeginDelete
  <1>5. ASSUME NEW c \in Clients, NEW do \in {"block", "unblock", "suspend", "unsuspend"},
               BeginSetBlocked(s, c, do)
        PROVE  IInv'
    BY <1>5, BeginIInv DEF BeginSetBlocked
  <1>6. ASSUME NEW k \in Keys, BeginRotate(s, k) PROVE IInv'
    BY <1>6, NewKeyFresh, BeginIInv DEF BeginRotate, Valid, IssuedKeys
  <1>7. ASSUME NEW k \in Keys, BeginRevoke(s, k) PROVE IInv'
    BY <1>7, BeginIInv DEF BeginRevoke
  <1> QED BY <1>1, <1>2, <1>3, <1>4, <1>5, <1>6, <1>7 DEF BeginSome

\* The keys that descend from one root by rotation and are valid.
Line(root) == {k \in Keys : Valid(k) /\ key[k].root = root}

\* The keys that descend from one key can be counted.
LEMMA LineFinite ==
    ASSUME NEW root
    PROVE  IsFiniteSet(Line(root)) /\ Cardinality(Line(root)) \in Nat
  <1>1. Line(root) \subseteq Keys
    BY DEF Line
  <1>2. IsFiniteSet(Line(root))
    BY <1>1, FS_Subset, AccessAssumption
  <1> QED BY <1>2, FS_CardinalityType

\* Revoking keys makes no line longer.
LEMMA FewerKeysHandedOver ==
    ASSUME IInv, forks' = forks, key' \in [Keys -> KeyRow],
           \A k \in Keys : key'[k].owner = key[k].owner /\ key'[k].root = key[k].root
                           /\ (key[k].revoked => key'[k].revoked)
    PROVE  RotationHandsOver'
  <1> SUFFICES ASSUME NEW root \in Keys
               PROVE  Cardinality(Line(root)') <= 1 + forks[root]
    BY DEF RotationHandsOver, Line
  <1>1. Line(root)' \subseteq Line(root)
    BY DEF Line, Valid, KeyRow, IInv, TypeOK
  <1>2. Cardinality(Line(root)') <= Cardinality(Line(root)) /\ Cardinality(Line(root)') \in Nat
    <2>1. IsFiniteSet(Line(root)')
      BY <1>1, LineFinite, FS_Subset
    <2> QED BY <1>1, <2>1, LineFinite, FS_Subset, FS_CardinalityType
  <1>3. Cardinality(Line(root)) <= 1 + forks[root] /\ forks[root] \in Nat
    BY DEF IInv, RotationHandsOver, Line, TypeOK
  <1> QED BY <1>2, <1>3, LineFinite

\* A key that begins a line of its own is the only one of it.
LEMMA FirstKeyHandedOver ==
    ASSUME IInv, forks' = forks, NEW k \in Keys, NEW c \in Clients, key[k].owner = None,
           key' = [key EXCEPT ![k] = Mint(k, c, k)]
    PROVE  RotationHandsOver'
  <1> USE DEF IInv
  <1> SUFFICES ASSUME NEW root \in Keys
               PROVE  Cardinality(Line(root)') <= 1 + forks[root]
    BY DEF RotationHandsOver, Line
  <1>1. /\ key'[k] = Mint(k, c, k)
        /\ \A j \in Keys \ {k} : key'[j] = key[j]
    BY DEF TypeOK
  <1>2. Cardinality(Line(root)) <= 1 + forks[root] /\ forks[root] \in Nat
    BY DEF RotationHandsOver, Line, TypeOK
  <1>3. CASE root = k
    <2>1. Line(root)' \subseteq {k}
      BY <1>1, <1>3 DEF Line, Valid, Mint, IssuedKeys
    <2>2. Cardinality(Line(root)') <= 1 /\ Cardinality(Line(root)') \in Nat
      <3>1. IsFiniteSet({k}) /\ Cardinality({k}) = 1
        BY FS_Singleton
      <3> QED BY <2>1, <3>1, FS_Subset, FS_CardinalityType
    <2> QED BY <1>2, <2>2
  <1>4. CASE root # k
    <2>1. Line(root)' = Line(root)
      BY <1>1, <1>4 DEF Line, Valid, Mint
    <2> QED BY <1>2, <2>1
  <1> QED BY <1>3, <1>4

\* Minting a key touches no other.
LEMMA MintKey ==
    ASSUME IInv, NEW k \in Keys, NEW c \in Clients, NEW root \in Keys,
           key' = [key EXCEPT ![k] = Mint(k, c, root)]
    PROVE  /\ key'[k] = [owner |-> c, revoked |-> FALSE, root |-> root]
           /\ \A j \in Keys \ {k} : key'[j] = key[j]
           /\ key' \in [Keys -> KeyRow]
  <1>1. Mint(k, c, root) \in KeyRow
    BY DEF Mint, KeyRow
  <1>2. key \in [Keys -> KeyRow]
    BY DEF IInv, TypeOK
  <1>3. key'[k] = Mint(k, c, root)
    BY <1>2
  <1> QED BY <1>1, <1>2, <1>3 DEF Mint

\* A session that ends leaves the sessions and keys of the others as they are.
LEMMA EndSessions ==
    ASSUME IInv, NEW s \in Sessions, End(s)
    PROVE  /\ op' \in [Sessions -> OpState]
           /\ op'[s] = NoOp
           /\ \A t \in Sessions \ {s} : op'[t] = op[t]
  <1>1. NoOp \in OpState
    BY DEF NoOp, OpState
  <1> QED BY <1>1 DEF End, IInv, TypeOK

\* The commit of a signup or of create_client.
LEMMA InsertClientIInv ==
    ASSUME IInv, NEW s \in Sessions, InsertClient(s)
    PROVE  IInv'
  <1> DEFINE c == op[s].client
             k == op[s].new
  <1> USE DEF IInv
  <1>0. /\ op' \in [Sessions -> OpState]
        /\ op'[s] = NoOp
        /\ \A t \in Sessions \ {s} : op'[t] = op[t]
        /\ UNCHANGED <<call, late, forks, suspended, clobbered, reopened, calls, ops>>
        /\ c \in Clients
    BY EndSessions DEF InsertClient, historyVars, SessionsReady
  <1>1. CASE client[c].state # "absent"
    <2>0. UNCHANGED <<client, key>>
      BY <1>1 DEF InsertClient
    <2>1. TypeOK'
      BY <1>0, <2>0 DEF TypeOK
    <2>2. IssuedKeys' /\ CallsKeyed' /\ DeletedKeysRevoked' /\ RevocationIsABarrier'
      BY <1>0, <2>0 DEF IssuedKeys, CallsKeyed, DeletedKeysRevoked, RevocationIsABarrier, Admitted,
         Valid, KeysOf
    <2>3. SessionsReady' /\ NewKeysApart' /\ DeletionSees' /\ SuspensionCopy' /\ SuspensionStands'
      BY <1>0, <2>0 DEF SessionsReady, NewKeysApart, DeletionSees, SuspensionCopy, SuspensionStands,
         NoOp, Generating
    <2> QED BY <1>0, <2>0, <2>1, <2>2, <2>3, SameKeysHandedOver
  <1>2. CASE client[c].state = "absent"
    <2>0. /\ client' = [client EXCEPT ![c].state = "open"]
          /\ op[s].do = "signup" \/ op[s].do = "create"
          /\ op[s].do = "signup" => key' = [key EXCEPT ![k] = Mint(k, c, k)]
          /\ op[s].do = "create" => key' = key
      BY <1>2 DEF InsertClient
    <2>1. /\ \A d \in Clients : client'[d].blocked = client[d].blocked /\ client'[d].reason = client[d].reason
          /\ \A d \in Clients : d # c => client'[d].state = client[d].state
          /\ client'[c].state = "open"
          /\ client' \in [Clients -> ClientRow]
      BY <1>0, <2>0 DEF TypeOK, ClientRow
    <2>2. \A j \in Keys : key[j].owner # c
      BY <1>0, <1>2, AccessAssumption DEF IssuedKeys
    <2>3. \A t \in Sessions : op[t].do = "revoking" => op[t].client # c
      BY <1>2 DEF SessionsReady
    <2>4. CASE op[s].do = "create"
      <3>1. key' = key
        BY <2>0, <2>4
      <3>2. TypeOK'
        BY <1>0, <2>1, <3>1 DEF TypeOK
      <3>3. IssuedKeys' /\ CallsKeyed' /\ DeletedKeysRevoked' /\ RevocationIsABarrier'
        BY <1>0, <2>1, <3>1 DEF IssuedKeys, CallsKeyed, DeletedKeysRevoked, RevocationIsABarrier,
           Admitted, Valid, KeysOf, TypeOK, KeyRow
      <3>4. SessionsReady' /\ NewKeysApart' /\ DeletionSees'
        BY <1>0, <2>1, <3>1 DEF SessionsReady, NewKeysApart, DeletionSees, NoOp, Generating
      <3>5. SuspensionCopy' /\ SuspensionStands'
        BY <1>0, <2>1 DEF SuspensionCopy, SuspensionStands, NoOp, TypeOK, SessionsReady
      <3> QED BY <1>0, <3>1, <3>2, <3>3, <3>4, <3>5, SameKeysHandedOver
    <2>5. CASE op[s].do = "signup"
      <3>0. k \in Keys /\ key[k].owner = None
        BY <2>5 DEF SessionsReady, Generating
      <3>1. /\ key'[k] = [owner |-> c, revoked |-> FALSE, root |-> k]
            /\ \A j \in Keys \ {k} : key'[j] = key[j]
            /\ key' \in [Keys -> KeyRow]
        BY <1>0, <2>0, <2>5, <3>0, MintKey
      <3>2. TypeOK'
        BY <1>0, <2>1, <3>1 DEF TypeOK
      <3>3. IssuedKeys'
        BY <2>1, <3>0, <3>1 DEF IssuedKeys, TypeOK, KeyRow
      <3>4. CallsKeyed' /\ DeletedKeysRevoked' /\ RevocationIsABarrier'
        BY <1>0, <2>1, <3>0, <3>1 DEF CallsKeyed, DeletedKeysRevoked, RevocationIsABarrier,
           Admitted, Valid, KeysOf
      <3>5. SessionsReady'
        <4>1. \A t \in Sessions \ {s} : op[t].new # k
          BY <3>0, AccessAssumption DEF NewKeysApart
        <4>2. \A j \in Keys : key[j].owner # None => key'[j].owner # None
          BY <3>0, <3>1
        <4>3. \A t \in Sessions \ {s} : op[t].seen \subseteq Keys
          BY DEF TypeOK, OpState
        <4> QED BY <1>0, <2>1, <3>1, <4>1, <4>2, <4>3 DEF SessionsReady, NoOp, Generating
      <3>6. NewKeysApart' /\ DeletionSees'
        BY <1>0, <2>3, <3>1 DEF NewKeysApart, DeletionSees, NoOp
      <3>7. SuspensionCopy' /\ SuspensionStands'
        BY <1>0, <2>1 DEF SuspensionCopy, SuspensionStands, NoOp, TypeOK, SessionsReady
      <3>8. RotationHandsOver'
        BY <1>0, <2>0, <2>5, <3>0, FirstKeyHandedOver
      <3> QED BY <3>2, <3>3, <3>4, <3>5, <3>6, <3>7, <3>8
    <2> QED BY <2>0, <2>4, <2>5
  <1> QED BY <1>1, <1>2

\* What create_api_key and rotate_api_key have in common: the new key is inserted,
\* others may be revoked that no call holds, and the session ends.
LEMMA InsertKeyIInv ==
    ASSUME IInv, NEW s \in Sessions, op[s].do \in {"key", "rotate"}, End(s),
           MarkLate(op[s].new, op[s].client),
           UNCHANGED <<client, call, suspended, clobbered, reopened, calls, ops>>,
           key' \in [Keys -> KeyRow], forks' \in [Keys -> Nat],
           key'[op[s].new].owner = op[s].client, ~key'[op[s].new].revoked,
           key'[op[s].new].root \in Keys, key'[key'[op[s].new].root].owner # None,
           \A j \in Keys \ {op[s].new} :
              /\ key'[j].owner = key[j].owner /\ key'[j].root = key[j].root
              /\ key[j].revoked => key'[j].revoked
              /\ key'[j].revoked => key[j].revoked \/ KeyFree(j),
           RotationHandsOver'
    PROVE  IInv'
  <1> DEFINE c == op[s].client
             k == op[s].new
  <1> USE DEF IInv
  <1>0. /\ op' \in [Sessions -> OpState]
        /\ op'[s] = NoOp
        /\ \A t \in Sessions \ {s} : op'[t] = op[t]
    BY EndSessions
  <1>1. /\ c \in Clients /\ client[c].state # "absent"
        /\ k \in Keys /\ key[k].owner = None
        /\ \A t \in Sessions \ {s} : op[t].new # k
    <2>1. k \in Keys /\ key[k].owner = None /\ c \in Clients /\ client[c].state # "absent"
      BY DEF SessionsReady, Generating
    <2> QED BY <2>1, AccessAssumption DEF NewKeysApart
  <1>2. /\ late \subseteq late' /\ late' \subseteq late \cup {k}
        /\ MissedByDeletion(c) => k \in late'
    BY DEF MarkLate
  <1>3. \A j \in Keys : key[j].owner # None => key'[j].owner # None
    BY <1>1
  <1>4. TypeOK'
    BY <1>0, <1>1, <1>2 DEF TypeOK
  <1>5. IssuedKeys'
    <2> SUFFICES ASSUME NEW j \in Keys, key'[j].owner # None
                 PROVE  /\ client[key'[j].owner].state # "absent"
                        /\ key'[j].root \in Keys
                        /\ key'[key'[j].root].owner # None
      BY DEF IssuedKeys
    <2>1. CASE j = k
      BY <1>1, <2>1
    <2>2. CASE j # k
      BY <1>1, <1>3, <2>2 DEF IssuedKeys
    <2> QED BY <2>1, <2>2
  <1>6. CallsKeyed'
    BY <1>3 DEF CallsKeyed
  <1>7. RevocationIsABarrier'
    <2> SUFFICES ASSUME NEW r \in Calls, Admitted(r), key'[call[r].key].revoked
                 PROVE  call[r].raced
      BY DEF RevocationIsABarrier, Admitted
    <2>1. call[r].key \in Keys /\ key[call[r].key].owner # None
      BY DEF CallsKeyed, Admitted
    <2>2. ~KeyFree(call[r].key)
      BY DEF KeyFree
    <2> QED BY <1>1, <2>1, <2>2 DEF RevocationIsABarrier
  <1>8. SessionsReady'
    <2>1. \A t \in Sessions \ {s} : op[t].seen \subseteq Keys
      BY DEF TypeOK, OpState
    <2> QED BY <1>0, <1>1, <1>3, <2>1 DEF SessionsReady, NoOp, Generating
  <1>9. NewKeysApart' /\ SuspensionCopy' /\ SuspensionStands'
    BY <1>0 DEF NewKeysApart, SuspensionCopy, SuspensionStands, NoOp
  <1>10. DeletionSees'
    <2> SUFFICES ASSUME NEW t \in Sessions, op'[t].do = "revoking", NEW j \in Keys,
                        key'[j].owner = op'[t].client
                 PROVE  j \in op'[t].seen \/ j \in late'
      BY DEF DeletionSees
    <2>1. t # s /\ op'[t] = op[t]
      BY <1>0 DEF NoOp
    <2>2. CASE j = k
      <3>1. ~ClientFree(c)
        BY <2>1, <2>2 DEF ClientFree
      <3> QED BY <1>2, <2>2, <3>1 DEF MissedByDeletion
    <2>3. CASE j # k
      BY <1>2, <2>1, <2>3 DEF DeletionSees
    <2> QED BY <2>2, <2>3
  <1>11. DeletedKeysRevoked'
    <2> SUFFICES ASSUME NEW d \in Clients, client[d].state = "deleted", NEW j \in Keys,
                        key'[j].owner = d, Valid(j)'
                 PROVE  j \in late'
      BY DEF DeletedKeysRevoked, KeysOf
    <2>1. CASE j = k
      BY <1>2, <2>1 DEF MissedByDeletion
    <2>2. CASE j # k
      <3>1. key[j].owner = d /\ Valid(j)
        BY <1>1, <2>2 DEF Valid
      <3> QED BY <1>2, <3>1 DEF DeletedKeysRevoked, KeysOf
    <2> QED BY <2>1, <2>2
  <1> QED BY <1>4, <1>5, <1>6, <1>7, <1>8, <1>9, <1>10, <1>11

\* A new key starts a line of its own.
LEMMA CreateKeyIInv ==
    ASSUME IInv, NEW s \in Sessions, CreateKey(s)
    PROVE  IInv'
  <1> DEFINE c == op[s].client
             k == op[s].new
  <1>1. k \in Keys /\ key[k].owner = None /\ c \in Clients
    BY DEF CreateKey, IInv, SessionsReady, Generating
  <1>2. key' = [key EXCEPT ![k] = Mint(k, c, k)]
    BY DEF CreateKey
  <1>3. /\ key'[k] = [owner |-> c, revoked |-> FALSE, root |-> k]
        /\ \A j \in Keys \ {k} : key'[j] = key[j]
        /\ key' \in [Keys -> KeyRow]
    BY <1>1, <1>2, MintKey
  <1>4. forks' = forks /\ forks \in [Keys -> Nat]
    BY DEF CreateKey, IInv, TypeOK
  <1>5. RotationHandsOver'
    BY <1>1, <1>2, <1>4, FirstKeyHandedOver
  <1>6. /\ key'[k].owner = c /\ ~key'[k].revoked
        /\ key'[k].root \in Keys /\ key'[key'[k].root].owner # None
    BY <1>1, <1>3, AccessAssumption
  <1> QED BY <1>3, <1>4, <1>5, <1>6, InsertKeyIInv DEF CreateKey

\* The rows a rotation writes: the successor, and the old key, which is another.
LEMMA RotateKeys ==
    ASSUME IInv, NEW s \in Sessions, Rotate(s)
    PROVE  LET c == op[s].client  old == op[s].old  new == op[s].new  root == key[old].root IN
           /\ c \in Clients /\ c # None
           /\ new \in Keys /\ key[new].owner = None
           /\ old \in Keys /\ key[old].owner # None /\ old # new
           /\ root \in Keys /\ key[root].owner # None /\ root # new
           /\ key'[new] = [owner |-> c, revoked |-> FALSE, root |-> root]
           /\ key'[old].owner = key[old].owner /\ key'[old].root = root /\ key'[old].revoked
           /\ \A j \in Keys \ {old, new} : key'[j] = key[j]
           /\ key' \in [Keys -> KeyRow]
  <1> DEFINE c == op[s].client
             old == op[s].old
             new == op[s].new
             root == key[old].root
  <1> USE DEF IInv
  <1>1. /\ c \in Clients /\ c # None
        /\ new \in Keys /\ key[new].owner = None
        /\ old \in Keys /\ key[old].owner # None /\ old # new
        /\ root \in Keys /\ key[root].owner # None /\ root # new
    BY AccessAssumption DEF Rotate, SessionsReady, Generating, IssuedKeys
  <1>2. /\ key'[new] = [owner |-> c, revoked |-> FALSE, root |-> root]
        /\ key'[old].owner = key[old].owner /\ key'[old].root = root /\ key'[old].revoked
        /\ \A j \in Keys \ {old, new} : key'[j] = key[j]
        /\ key' \in [Keys -> KeyRow]
    <2>1. key' = [[key EXCEPT ![old].revoked = TRUE] EXCEPT ![new] = Mint(new, c, root)]
      BY DEF Rotate
    <2>2. Mint(new, c, root) \in KeyRow
      BY <1>1 DEF Mint, KeyRow
    <2>3. key \in [Keys -> KeyRow]
      BY DEF TypeOK
    <2>4. [key EXCEPT ![old].revoked = TRUE] \in [Keys -> KeyRow]
      BY <1>1, <2>3 DEF KeyRow
    <2>5. key'[new] = Mint(new, c, root) /\ key' \in [Keys -> KeyRow]
      BY <1>1, <2>1, <2>2, <2>4
    <2>6. \A j \in Keys \ {new} : key'[j] = [key EXCEPT ![old].revoked = TRUE][j]
      BY <2>1, <2>4
    <2> QED BY <1>1, <2>3, <2>5, <2>6 DEF Mint, KeyRow
  <1> QED BY <1>1, <1>2

\* A rotation passes its line on: the old key leaves it for the new one, or, when
\* the old key had left it already, the fork is counted.
LEMMA RotateIInv ==
    ASSUME IInv, NEW s \in Sessions, Rotate(s)
    PROVE  IInv'
  <1> DEFINE c == op[s].client
             old == op[s].old
             new == op[s].new
             root == key[old].root
  <1> USE DEF IInv
  <1>1. /\ c \in Clients /\ c # None
        /\ new \in Keys /\ key[new].owner = None
        /\ old \in Keys /\ key[old].owner # None /\ old # new
        /\ root \in Keys /\ key[root].owner # None /\ root # new
    BY RotateKeys
  <1>2. /\ key'[new] = [owner |-> c, revoked |-> FALSE, root |-> root]
        /\ key'[old].owner = key[old].owner /\ key'[old].root = root /\ key'[old].revoked
        /\ \A j \in Keys \ {old, new} : key'[j] = key[j]
        /\ key' \in [Keys -> KeyRow]
    BY RotateKeys
  <1>3. /\ forks' \in [Keys -> Nat]
        /\ \A r \in Keys \ {root} : forks'[r] = forks[r]
        /\ forks'[root] = forks[root] + IF key[old].revoked THEN 1 ELSE 0
    BY <1>1 DEF Rotate, TypeOK
  <1>4. RotationHandsOver'
    <2> SUFFICES ASSUME NEW r \in Keys
                 PROVE  Cardinality(Line(r)') <= 1 + forks'[r]
      BY DEF RotationHandsOver, Line
    <2>1. Cardinality(Line(r)) <= 1 + forks[r] /\ forks[r] \in Nat
      BY DEF RotationHandsOver, Line, TypeOK
    <2>2. CASE r # root
      <3>1. Line(r)' = Line(r)
        BY <1>1, <1>2, <2>2 DEF Line, Valid
      <3> QED BY <1>3, <2>1, <2>2, <3>1
    <2>3. CASE r = root /\ key[old].revoked
      <3>1. Line(r)' = Line(r) \cup {new} /\ new \notin Line(r)
        BY <1>1, <1>2, <2>3 DEF Line, Valid
      <3>2. Cardinality(Line(r)') = Cardinality(Line(r)) + 1
        BY <3>1, LineFinite, FS_AddElement
      <3> QED BY <1>3, <2>1, <2>3, <3>2, LineFinite
    <2>4. CASE r = root /\ ~key[old].revoked
      <3>1. /\ Line(r)' = (Line(r) \ {old}) \cup {new}
            /\ old \in Line(r) /\ new \notin Line(r) \ {old}
        BY <1>1, <1>2, <2>4 DEF Line, Valid
      <3>2. /\ IsFiniteSet(Line(r) \ {old})
            /\ Cardinality(Line(r) \ {old}) = Cardinality(Line(r)) - 1
        BY <3>1, LineFinite, FS_RemoveElement
      <3>3. Cardinality(Line(r)') = Cardinality(Line(r) \ {old}) + 1
        BY <3>1, <3>2, FS_AddElement
      <3> QED BY <1>3, <2>1, <2>4, <3>2, <3>3, LineFinite
    <2> QED BY <2>2, <2>3, <2>4
  <1>5. \A j \in Keys \ {new} :
              /\ key'[j].owner = key[j].owner /\ key'[j].root = key[j].root
              /\ key[j].revoked => key'[j].revoked
              /\ key'[j].revoked => key[j].revoked \/ KeyFree(j)
    BY <1>1, <1>2 DEF Rotate
  <1>6. /\ key'[new].owner = c /\ ~key'[new].revoked
        /\ key'[new].root \in Keys /\ key'[key'[new].root].owner # None
    BY <1>1, <1>2
  <1> QED BY <1>2, <1>3, <1>4, <1>5, <1>6, InsertKeyIInv DEF Rotate

\* The keys of S are revoked, and nothing else happens to the rows of api_keys.
Withdrawn(S) ==
    /\ key' \in [Keys -> KeyRow]
    /\ \A k \in Keys : key'[k].owner = key[k].owner /\ key'[k].root = key[k].root
    /\ \A k \in S : key'[k].revoked
    /\ \A k \in Keys \ S : key'[k] = key[k]

\* What revoke_api_key and the end of delete_client have in common: keys that no
\* call holds are revoked, and a client is deleted only by a deletion that revokes
\* what it has seen.
LEMMA RevokeKeysIInv ==
    ASSUME IInv, NEW s \in Sessions, End(s),
           UNCHANGED <<call, historyVars, calls, ops>>,
           NEW S \in SUBSET Keys, \A k \in S : KeyFree(k),
           Withdrawn(S),
           \/ client' = client
           \/ /\ op[s].do = "revoking" /\ S = op[s].seen
              /\ client' = [client EXCEPT ![op[s].client].state = "deleted"]
    PROVE  IInv'
  <1> USE DEF IInv
  <1>0. /\ op' \in [Sessions -> OpState]
        /\ op'[s] = NoOp
        /\ \A t \in Sessions \ {s} : op'[t] = op[t]
        /\ UNCHANGED <<call, late, forks, suspended, clobbered, reopened, calls, ops>>
    BY EndSessions DEF historyVars
  <1>1. /\ key' \in [Keys -> KeyRow]
        /\ \A k \in Keys : key'[k].owner = key[k].owner /\ key'[k].root = key[k].root
        /\ \A k \in S : key'[k].revoked
        /\ \A k \in Keys \ S : key'[k] = key[k]
    BY DEF Withdrawn
  <1>2. /\ client' \in [Clients -> ClientRow]
        /\ \A c \in Clients :
              /\ client'[c].blocked = client[c].blocked /\ client'[c].reason = client[c].reason
              /\ client[c].state # "absent" => client'[c].state # "absent"
              /\ client'[c].state = "deleted" =>
                    client[c].state = "deleted" \/ (c = op[s].client /\ op[s].do = "revoking" /\ S = op[s].seen)
    BY DEF TypeOK, ClientRow
  <1>3. TypeOK'
    BY <1>0, <1>1, <1>2 DEF TypeOK
  <1>4. IssuedKeys' /\ CallsKeyed'
    BY <1>0, <1>1, <1>2 DEF IssuedKeys, CallsKeyed, TypeOK, KeyRow
  <1>5. RevocationIsABarrier'
    <2> SUFFICES ASSUME NEW r \in Calls, Admitted(r), key'[call[r].key].revoked
                 PROVE  call[r].raced
      BY <1>0 DEF RevocationIsABarrier, Admitted
    <2>1. call[r].key \in Keys
      BY DEF CallsKeyed, Admitted
    <2>2. call[r].key \notin S
      BY DEF KeyFree
    <2> QED BY <1>1, <2>1, <2>2 DEF RevocationIsABarrier
  <1>6. SessionsReady' /\ NewKeysApart'
    <2>1. \A t \in Sessions : op[t].seen \subseteq Keys
      BY DEF TypeOK, OpState
    <2> QED BY <1>0, <1>1, <1>2, <2>1 DEF SessionsReady, NewKeysApart, NoOp, Generating
  <1>7. DeletionSees'
    BY <1>0, <1>1 DEF DeletionSees, NoOp
  <1>8. DeletedKeysRevoked'
    <2> SUFFICES ASSUME NEW c \in Clients, client'[c].state = "deleted", NEW k \in Keys,
                        key'[k].owner = c, Valid(k)'
                 PROVE  k \in late
      BY <1>0 DEF DeletedKeysRevoked, KeysOf
    <2>1. k \notin S /\ key[k].owner = c /\ Valid(k)
      BY <1>1 DEF Valid
    <2> QED BY <1>2, <2>1 DEF DeletedKeysRevoked, KeysOf, DeletionSees
  <1>9. SuspensionCopy' /\ SuspensionStands'
    BY <1>0, <1>2 DEF SuspensionCopy, SuspensionStands, NoOp, TypeOK, SessionsReady
  <1>10. RotationHandsOver'
    BY <1>0, <1>1, FewerKeysHandedOver
  <1> QED BY <1>3, <1>4, <1>5, <1>6, <1>7, <1>8, <1>9, <1>10

\* revoke_api_key withdraws its key, the deletion those it has seen.
LEMMA RevokeWithdraws ==
    ASSUME IInv, NEW s \in Sessions, Revoke(s)
    PROVE  Withdrawn({op[s].old}) /\ op[s].old \in Keys /\ key[op[s].old].owner # None
  <1>1. op[s].old \in Keys /\ key[op[s].old].owner # None /\ key \in [Keys -> KeyRow]
    BY DEF Revoke, IInv, SessionsReady, TypeOK
  <1> QED BY <1>1 DEF Revoke, KeyRow, Withdrawn

\* A deletion revokes the keys it has seen and no other.
LEMMA DeletionWithdraws ==
    ASSUME IInv, NEW s \in Sessions, DeleteCommits(s)
    PROVE  /\ Withdrawn(op[s].seen) /\ op[s].seen \in SUBSET Keys
           /\ \A k \in op[s].seen : key[k].owner # None
  <1>1. op[s].seen \in SUBSET Keys /\ \A k \in op[s].seen : key[k].owner # None
    BY DEF IInv, TypeOK, OpState, SessionsReady
  <1>2. \A k \in Keys : key[k] \in KeyRow
    BY DEF IInv, TypeOK
  <1>3. \A k \in Keys :
           LET new == [key[k] EXCEPT !.revoked = TRUE] IN
           new \in KeyRow /\ new.owner = key[k].owner /\ new.root = key[k].root /\ new.revoked
    BY <1>2 DEF KeyRow
  <1> QED BY <1>1, <1>2, <1>3 DEF DeleteCommits, Withdrawn

\* A revocation waits for the calls that have written the key row.
LEMMA RevokeIInv ==
    ASSUME IInv, NEW s \in Sessions, Revoke(s)
    PROVE  IInv'
  <1>1. Withdrawn({op[s].old}) /\ {op[s].old} \in SUBSET Keys
    BY RevokeWithdraws
  <1>2. \A k \in {op[s].old} : KeyFree(k)
    BY DEF Revoke
  <1>3. End(s) /\ UNCHANGED <<client, call, historyVars, calls, ops>>
    BY DEF Revoke
  <1> QED BY <1>1, <1>2, <1>3, RevokeKeysIInv

\* The deletion of a client, with the keys it has seen.
LEMMA DeleteCommitsIInv ==
    ASSUME IInv, NEW s \in Sessions, DeleteCommits(s)
    PROVE  IInv'
  <1>1. \A k \in op[s].seen : KeyFree(k)
    BY DEF DeleteCommits
  <1> QED BY <1>1, DeletionWithdraws, RevokeKeysIInv DEF DeleteCommits

\* A deletion that is refused, or that PostgreSQL aborts, leaves no trace.
LEMMA EndIInv ==
    ASSUME IInv, NEW s \in Sessions, End(s), UNCHANGED <<client, key, call, historyVars, calls, ops>>
    PROVE  IInv'
  <1>1. key \in [Keys -> KeyRow]
    BY DEF IInv, TypeOK
  <1>2. Withdrawn({}) /\ {} \in SUBSET Keys /\ \A k \in {} : KeyFree(k)
    BY <1>1 DEF Withdrawn
  <1> QED BY <1>2, RevokeKeysIInv

\* The deletion has read the keys there are: those that come later are late.
LEMMA DeleteSelectsKeysIInv ==
    ASSUME IInv, NEW s \in Sessions, DeleteSelectsKeys(s)
    PROVE  IInv'
  <1> USE DEF IInv
  <1>0. /\ UNCHANGED <<client, key, call, late, forks, suspended, clobbered, reopened, calls, ops>>
        /\ op[s].do = "delete"
        /\ op' = [op EXCEPT ![s] = [op[s] EXCEPT !.do = "revoking", !.seen = KeysOf(op[s].client)]]
    BY DEF DeleteSelectsKeys, historyVars
  <1>1. /\ op' \in [Sessions -> OpState]
        /\ op'[s].do = "revoking" /\ op'[s].seen = KeysOf(op[s].client)
        /\ op'[s].client = op[s].client /\ op'[s].new = op[s].new
        /\ \A t \in Sessions \ {s} : op'[t] = op[t]
    <2>1. op[s] \in OpState /\ KeysOf(op[s].client) \in SUBSET Keys
      BY DEF TypeOK, KeysOf
    <2> QED BY <1>0, <2>1 DEF TypeOK, OpState
  <1>2. TypeOK'
    BY <1>0, <1>1 DEF TypeOK
  <1>3. IssuedKeys' /\ CallsKeyed' /\ DeletedKeysRevoked' /\ RevocationIsABarrier'
    BY <1>0 DEF IssuedKeys, CallsKeyed, DeletedKeysRevoked, RevocationIsABarrier, Admitted, Valid, KeysOf
  <1>4. SessionsReady'
    <2>1. op[s].client # None /\ \A k \in KeysOf(op[s].client) : key[k].owner # None
      BY <1>0, AccessAssumption DEF SessionsReady, KeysOf
    <2> QED BY <1>0, <1>1, <2>1 DEF SessionsReady, Generating
  <1>5. NewKeysApart'
    BY <1>0, <1>1 DEF NewKeysApart
  <1>6. DeletionSees'
    BY <1>0, <1>1 DEF DeletionSees, KeysOf
  <1>7. SuspensionCopy' /\ SuspensionStands'
    BY <1>0, <1>1 DEF SuspensionCopy, SuspensionStands
  <1> QED BY <1>0, <1>2, <1>3, <1>4, <1>5, <1>6, <1>7, SameKeysHandedOver

\* The session has ended, and others were at most told of an unblocking.
Told(s) ==
    /\ op' \in [Sessions -> OpState]
    /\ op'[s] = NoOp
    /\ \A t \in Sessions \ {s} :
          /\ op'[t].do = op[t].do /\ op'[t].client = op[t].client /\ op'[t].old = op[t].old
          /\ op'[t].new = op[t].new /\ op'[t].seen = op[t].seen /\ op'[t].blocked = op[t].blocked
          /\ op[t].raced => op'[t].raced

\* A session that ends leaves the others with what they were told.
LEMMA EndTold ==
    ASSUME IInv, NEW s \in Sessions, End(s)
    PROVE  Told(s)
  BY EndSessions DEF Told

\* An unblocking tells the suspensions under way for its client.
LEMMA UnblockingTold ==
    ASSUME IInv, NEW s \in Sessions, EndUnblocking(s)
    PROVE  /\ Told(s)
           /\ \A t \in Sessions : op'[t].do = "suspend" /\ op'[t].client = op[s].client => op'[t].raced
  <1>1. NoOp \in OpState /\ NoOp.do = "idle"
    BY DEF NoOp, OpState
  <1>2. \A t \in Sessions : op[t] \in OpState
    BY DEF IInv, TypeOK
  <1>3. \A t \in Sessions :
           LET new == [op[t] EXCEPT !.raced = TRUE] IN
           /\ new \in OpState
           /\ new.do = op[t].do /\ new.client = op[t].client /\ new.old = op[t].old
           /\ new.new = op[t].new /\ new.seen = op[t].seen /\ new.blocked = op[t].blocked
           /\ new.raced
    BY <1>2 DEF OpState
  <1>4. op'[s] = NoOp
    BY DEF EndUnblocking
  <1>5. \A t \in Sessions \ {s} : op'[t] =
           IF op[t].do = "suspend" /\ op[t].client = op[s].client
           THEN [op[t] EXCEPT !.raced = TRUE] ELSE op[t]
    BY DEF EndUnblocking
  <1>6. op' \in [Sessions -> OpState]
    <2>1. \A t \in Sessions : op'[t] \in OpState
      BY <1>1, <1>2, <1>3, <1>4, <1>5
    <2> QED BY <2>1 DEF EndUnblocking
  <1>7. Told(s)
    BY <1>3, <1>4, <1>5, <1>6 DEF Told
  <1> QED BY <1>1, <1>3, <1>4, <1>5, <1>7

\* Blocking and suspending change two columns of one client, which nothing about
\* the keys depends on.
LEMMA ColumnsIInv ==
    ASSUME IInv, NEW s \in Sessions, Told(s),
           UNCHANGED <<key, call, late, forks, calls, ops>>,
           client' \in [Clients -> ClientRow],
           \A c \in Clients : client'[c].state = client[c].state,
           suspended' \subseteq Clients, clobbered' \subseteq Clients, reopened' \subseteq Clients,
           SuspensionCopy', SuspensionStands'
    PROVE  IInv'
  <1> USE DEF IInv
  <1>1. TypeOK'
    BY DEF TypeOK, Told
  <1>2. IssuedKeys' /\ CallsKeyed'
    BY DEF IssuedKeys, CallsKeyed, TypeOK, KeyRow
  <1>3. RevocationIsABarrier' /\ DeletedKeysRevoked'
    BY DEF RevocationIsABarrier, Admitted, DeletedKeysRevoked, Valid, KeysOf
  <1>4. SessionsReady'
    BY DEF SessionsReady, Told, NoOp, Generating
  <1>5. NewKeysApart' /\ DeletionSees'
    BY DEF NewKeysApart, DeletionSees, Told, NoOp
  <1> QED BY <1>1, <1>2, <1>3, <1>4, <1>5, SameKeysHandedOver

\* The block, or the suspension, of a client that was blocked when it was read
\* relies on nobody having unblocked it.
LEMMA SetBlockedIInv ==
    ASSUME IInv, NEW s \in Sessions, SetBlocked(s)
    PROVE  IInv'
  <1> DEFINE c == op[s].client
  <1> USE DEF IInv
  <1>0. /\ UNCHANGED <<key, call, late, forks, suspended, clobbered, calls, ops>>
        /\ op[s].do \in {"block", "unblock"} /\ c \in Clients
        /\ client' = [client EXCEPT ![c].blocked = WriteBlocked(s, op[s].do = "block")]
    BY DEF SetBlocked, SessionsReady
  <1>1. WriteBlocked(s, op[s].do = "block") \in BOOLEAN
    BY <1>0 DEF WriteBlocked, TypeOK, ClientRow
  <1>2. /\ client' \in [Clients -> ClientRow]
        /\ \A d \in Clients : client'[d].state = client[d].state /\ client'[d].reason = client[d].reason
        /\ \A d \in Clients \ {c} : client'[d] = client[d]
        /\ client'[c].blocked = WriteBlocked(s, op[s].do = "block")
    BY <1>0, <1>1 DEF TypeOK, ClientRow
  <1>3. CASE op[s].do = "block"
    <2>1. Told(s) /\ reopened' = reopened
      BY <1>3, EndTold DEF SetBlocked
    <2>2. client[c].blocked => client'[c].blocked
      BY <1>2, <1>3 DEF WriteBlocked
    <2>3. SuspensionCopy' /\ SuspensionStands'
      BY <1>0, <1>2, <2>1, <2>2 DEF SuspensionCopy, SuspensionStands, Told, NoOp, TypeOK, SessionsReady
    <2> QED BY <1>0, <1>2, <2>1, <2>3, ColumnsIInv DEF TypeOK
  <1>4. CASE op[s].do = "unblock"
    <2>1. EndUnblocking(s) /\ reopened' = reopened \cup {c}
      BY <1>4 DEF SetBlocked
    <2>2. Told(s) /\ \A t \in Sessions : op'[t].do = "suspend" /\ op'[t].client = c => op'[t].raced
      BY <2>1, UnblockingTold
    <2>3. SuspensionCopy'
      BY <1>2, <2>2 DEF SuspensionCopy, Told, NoOp, SessionsReady
    <2>4. SuspensionStands'
      BY <1>0, <1>2, <2>1 DEF SuspensionStands, TypeOK
    <2> QED BY <1>0, <1>2, <2>1, <2>2, <2>3, <2>4, ColumnsIInv DEF TypeOK
  <1> QED BY <1>0, <1>3, <1>4

\* A suspension commits, blocked or not: the race it lost is on record.
LEMMA SuspendIInv ==
    ASSUME IInv, NEW s \in Sessions, Suspend(s)
    PROVE  IInv'
  <1> DEFINE c == op[s].client
  <1> USE DEF IInv
  <1>0. /\ UNCHANGED <<key, call, late, forks, calls, ops>>
        /\ op[s].do = "suspend" /\ c \in Clients
        /\ client' = [client EXCEPT ![c] = [client[c] EXCEPT !.blocked = WriteBlocked(s, TRUE),
                                                             !.reason = TRUE]]
        /\ suspended' = suspended \cup {c}
        /\ clobbered' = clobbered \ {c}
        /\ reopened' = IF op[s].raced THEN reopened \cup {c} ELSE reopened \ {c}
        /\ Told(s)
    BY EndTold DEF Suspend, SessionsReady
  <1>1. WriteBlocked(s, TRUE) \in BOOLEAN
    BY <1>0 DEF WriteBlocked, TypeOK, ClientRow
  <1>2. /\ client' \in [Clients -> ClientRow]
        /\ \A d \in Clients : client'[d].state = client[d].state
        /\ \A d \in Clients \ {c} : client'[d] = client[d]
        /\ client'[c].blocked = WriteBlocked(s, TRUE)
        /\ client'[c].reason
    <2> DEFINE new == [client[c] EXCEPT !.blocked = WriteBlocked(s, TRUE), !.reason = TRUE]
    <2>1. client[c] \in ClientRow /\ client \in [Clients -> ClientRow]
      BY <1>0 DEF TypeOK
    <2>2. new \in ClientRow /\ new.state = client[c].state /\ new.blocked = WriteBlocked(s, TRUE)
          /\ new.reason
      BY <1>1, <2>1 DEF ClientRow
    <2> HIDE DEF new
    <2>3. client' = [client EXCEPT ![c] = new]
      BY <1>0 DEF new
    <2> QED BY <1>0, <2>1, <2>2, <2>3
  <1>3. client[c].blocked => client'[c].blocked
    BY <1>2 DEF WriteBlocked
  <1>4. client'[c].blocked \/ op[s].raced
    BY <1>0, <1>2 DEF WriteBlocked, SuspensionCopy, TypeOK, OpState
  <1>5. SuspensionCopy'
    <2> SUFFICES ASSUME NEW t \in Sessions, op'[t].do = "suspend", op'[t].blocked, ~op'[t].raced
                 PROVE  client'[op'[t].client].blocked
      BY DEF SuspensionCopy
    <2>1. t # s
      BY <1>0 DEF Told, NoOp
    <2>2. op[t].do = "suspend" /\ op[t].blocked /\ ~op[t].raced /\ op'[t].client = op[t].client
      BY <1>0, <2>1 DEF Told
    <2>3. client[op[t].client].blocked /\ op[t].client \in Clients
      BY <2>2 DEF SuspensionCopy, SessionsReady
    <2> HIDE DEF IInv
    <2> QED BY <1>2, <1>3, <2>2, <2>3
  <1>6. SuspensionStands'
    BY <1>0, <1>2, <1>4 DEF SuspensionStands, TypeOK
  <1>7. suspended' \subseteq Clients /\ clobbered' \subseteq Clients /\ reopened' \subseteq Clients
    BY <1>0 DEF TypeOK
  <1> QED BY <1>0, <1>2, <1>5, <1>6, <1>7, ColumnsIInv

\* The end of a suspension.
LEMMA UnsuspendIInv ==
    ASSUME IInv, NEW s \in Sessions, Unsuspend(s)
    PROVE  IInv'
  <1> DEFINE c == op[s].client
  <1> USE DEF IInv
  <1>0. /\ UNCHANGED <<key, call, late, forks, calls, ops>>
        /\ op[s].do = "unsuspend" /\ c \in Clients
        /\ client' = [client EXCEPT ![c] = [client[c] EXCEPT !.blocked = WriteBlocked(s, FALSE),
                                                             !.reason = FALSE]]
        /\ suspended' = suspended \ {c}
        /\ clobbered' = clobbered \ {c}
        /\ reopened' = reopened \cup {c}
        /\ EndUnblocking(s)
    BY DEF Unsuspend, SessionsReady
  <1>1. WriteBlocked(s, FALSE) \in BOOLEAN
    BY <1>0 DEF WriteBlocked, TypeOK, ClientRow
  <1>2. /\ client' \in [Clients -> ClientRow]
        /\ \A d \in Clients : client'[d].state = client[d].state
        /\ \A d \in Clients \ {c} : client'[d] = client[d]
    <2> DEFINE new == [client[c] EXCEPT !.blocked = WriteBlocked(s, FALSE), !.reason = FALSE]
    <2>1. client[c] \in ClientRow /\ client \in [Clients -> ClientRow]
      BY <1>0 DEF TypeOK
    <2>2. new \in ClientRow /\ new.state = client[c].state
      BY <1>1, <2>1 DEF ClientRow
    <2> HIDE DEF new
    <2>3. client' = [client EXCEPT ![c] = new]
      BY <1>0 DEF new
    <2> QED BY <1>0, <2>1, <2>2, <2>3
  <1>3. Told(s) /\ \A t \in Sessions : op'[t].do = "suspend" /\ op'[t].client = c => op'[t].raced
    BY <1>0, UnblockingTold
  <1>4. SuspensionCopy'
    BY <1>2, <1>3 DEF SuspensionCopy, Told, NoOp, SessionsReady
  <1>5. SuspensionStands'
    BY <1>0, <1>2 DEF SuspensionStands, TypeOK
  <1>6. suspended' \subseteq Clients /\ clobbered' \subseteq Clients /\ reopened' \subseteq Clients
    BY <1>0 DEF TypeOK
  <1> QED BY <1>0, <1>2, <1>3, <1>4, <1>5, <1>6, ColumnsIInv

-------------------------------------------------------------------------------
\* A step of a call that writes nothing but its own memory, and admits it only with
\* a note of whether its key has been revoked.
LEMMA CallIInv ==
    ASSUME IInv, UNCHANGED <<client, key, op, historyVars, ops>>, calls' \in 0..MaxCalls,
           call' \in [Calls -> CallState],
           \A r \in Calls :
              /\ call'[r].pc # "idle" => call'[r].key \in Keys /\ key[call'[r].key].owner # None
              /\ Admitted(r)' /\ key[call'[r].key].revoked => call'[r].raced
    PROVE  IInv'
  <1> USE DEF IInv
  <1>0. UNCHANGED <<late, forks, suspended, clobbered, reopened>>
    BY DEF historyVars
  <1>1. TypeOK'
    BY <1>0 DEF TypeOK
  <1>2. CallsKeyed' /\ RevocationIsABarrier'
    BY DEF CallsKeyed, RevocationIsABarrier
  <1>3. IssuedKeys' /\ SessionsReady' /\ NewKeysApart' /\ DeletionSees'
    BY <1>0 DEF IssuedKeys, SessionsReady, NewKeysApart, DeletionSees
  <1>4. DeletedKeysRevoked' /\ SuspensionCopy' /\ SuspensionStands'
    BY <1>0 DEF DeletedKeysRevoked, SuspensionCopy, SuspensionStands, Valid, KeysOf
  <1> QED BY <1>0, <1>1, <1>2, <1>3, <1>4, SameKeysHandedOver

\* A call that leaves disturbs nobody.
LEMMA LeaveCalls ==
    ASSUME IInv, NEW r \in Calls, Leave(r), UNCHANGED <<key, calls>>
    PROVE  /\ call' \in [Calls -> CallState] /\ calls' \in 0..MaxCalls
           /\ \A q \in Calls :
                 /\ call'[q].pc # "idle" => call'[q].key \in Keys /\ key[call'[q].key].owner # None
                 /\ Admitted(q)' /\ key[call'[q].key].revoked => call'[q].raced
  <1>1. NoCall \in CallState /\ NoCall.pc = "idle"
    BY DEF NoCall, CallState
  <1>2. /\ call' \in [Calls -> CallState] /\ calls' \in 0..MaxCalls
        /\ call'[r] = NoCall
        /\ \A q \in Calls \ {r} : call'[q] = call[q]
    BY <1>1 DEF Leave, IInv, TypeOK
  <1> QED BY <1>1, <1>2 DEF IInv, CallsKeyed, RevocationIsABarrier, Admitted

\* A call is over.
LEMMA LeaveIInv ==
    ASSUME IInv, NEW r \in Calls, Leave(r), UNCHANGED <<client, key, op, historyVars, calls, ops>>
    PROVE  IInv'
  BY LeaveCalls, CallIInv

\* A call goes on: it keeps its key.
LEMMA AdvanceIInv ==
    ASSUME IInv, NEW r \in Calls, NEW new \in CallState, call[r].pc # "idle",
           call' = [call EXCEPT ![r] = new], new.key = call[r].key,
           new.pc \in {"admitted", "writing"} /\ key[new.key].revoked => new.raced,
           UNCHANGED <<client, key, op, historyVars, calls, ops>>
    PROVE  IInv'
  <1>1. /\ call' \in [Calls -> CallState] /\ calls' \in 0..MaxCalls
        /\ call'[r] = new
        /\ \A q \in Calls \ {r} : call'[q] = call[q]
    BY DEF IInv, TypeOK
  <1>2. \A q \in Calls :
           /\ call'[q].pc # "idle" => call'[q].key \in Keys /\ key[call'[q].key].owner # None
           /\ Admitted(q)' /\ key[call'[q].key].revoked => call'[q].raced
    BY <1>1 DEF IInv, CallsKeyed, RevocationIsABarrier, Admitted
  <1> QED BY <1>1, <1>2, CallIInv

\* An onboarding event writes back the reason it has read: if that is not what the
\* row says, the client is noted as clobbered.
LEMMA RecordEventIInv ==
    ASSUME IInv, NEW r \in Calls, RecordEvent(r)
    PROVE  IInv'
  <1> DEFINE c == Client(r)
  <1> USE DEF IInv
  <1>0. /\ UNCHANGED <<key, op, late, forks, suspended, reopened, calls, ops>>
        /\ client' = [client EXCEPT ![c].reason = call[r].reason]
        /\ clobbered' = IF client[c].reason # call[r].reason THEN clobbered \cup {c} ELSE clobbered
        /\ c \in Clients
    <2>1. call[r].key \in Keys /\ key[call[r].key].owner # None
      BY DEF RecordEvent, CallsKeyed
    <2>2. c \in Clients
      BY <2>1 DEF Client, TypeOK, KeyRow
    <2> QED BY <2>2 DEF RecordEvent, Metadata
  <1>1. /\ client' \in [Clients -> ClientRow]
        /\ \A d \in Clients : client'[d].state = client[d].state /\ client'[d].blocked = client[d].blocked
        /\ \A d \in Clients \ {c} : client'[d] = client[d]
        /\ client'[c].reason = call[r].reason
    BY <1>0 DEF TypeOK, ClientRow, CallState
  <1>2. /\ call' \in [Calls -> CallState] /\ calls' \in 0..MaxCalls
        /\ \A q \in Calls :
              /\ call'[q].pc # "idle" => call'[q].key \in Keys /\ key[call'[q].key].owner # None
              /\ Admitted(q)' /\ key[call'[q].key].revoked => call'[q].raced
    BY <1>0, LeaveCalls DEF RecordEvent
  <1>3. TypeOK'
    BY <1>0, <1>1, <1>2 DEF TypeOK
  <1>4. CallsKeyed' /\ RevocationIsABarrier'
    BY <1>0, <1>2 DEF CallsKeyed, RevocationIsABarrier
  <1>5. IssuedKeys'
    BY <1>0, <1>1 DEF IssuedKeys, TypeOK, KeyRow
  <1>6. SessionsReady' /\ NewKeysApart' /\ DeletionSees' /\ SuspensionCopy'
    BY <1>0, <1>1 DEF SessionsReady, NewKeysApart, DeletionSees, SuspensionCopy
  <1>7. DeletedKeysRevoked'
    BY <1>0, <1>1 DEF DeletedKeysRevoked, Valid, KeysOf
  <1>8. SuspensionStands'
    <2> SUFFICES ASSUME NEW d \in suspended
                 PROVE  /\ client'[d].blocked \/ d \in reopened
                        /\ client'[d].reason \/ d \in clobbered'
      BY <1>0 DEF SuspensionStands
    <2>1. /\ d \in Clients
          /\ client[d].blocked \/ d \in reopened
          /\ client[d].reason \/ d \in clobbered
      BY DEF SuspensionStands, TypeOK
    <2>2. CASE d = c
      BY <1>0, <1>1, <2>1, <2>2
    <2>3. CASE d # c
      BY <1>0, <1>1, <2>1, <2>3
    <2> QED BY <2>2, <2>3
  <1> QED BY <1>0, <1>3, <1>4, <1>5, <1>6, <1>7, <1>8, SameKeysHandedOver

\* Every step of a call.
LEMMA CallStepIInv ==
    ASSUME IInv, NEW r \in Calls, CallStep(r)
    PROVE  IInv'
  <1> USE DEF IInv
  <1>0. call[r] \in CallState
    BY DEF TypeOK
  <1>1. CASE ReadClient(r)
    <2> DEFINE new == [call[r] EXCEPT !.pc = "checked", !.reason = client[Client(r)].reason]
    <2>1. client[Client(r)].reason \in BOOLEAN
      BY <1>1 DEF ReadClient, Client, CallsKeyed, TypeOK, KeyRow, ClientRow
    <2>2. new \in CallState /\ new.key = call[r].key /\ new.pc = "checked"
      BY <1>0, <2>1 DEF CallState
    <2> HIDE DEF new
    <2>3. call' = [call EXCEPT ![r] = new] /\ call[r].pc # "idle"
      BY <1>1 DEF ReadClient, new
    <2> QED BY <1>1, <2>2, <2>3, AdvanceIInv DEF ReadClient
  <1>2. CASE RefuseClient(r)
    BY <1>2, LeaveIInv DEF RefuseClient
  <1>3. CASE Touch(r)
    <2> DEFINE new == [call[r] EXCEPT !.pc = "admitted", !.raced = key[call[r].key].revoked]
    <2>1. key[call[r].key].revoked \in BOOLEAN
      BY <1>3 DEF Touch, CallsKeyed, TypeOK, KeyRow
    <2>2. new \in CallState /\ new.key = call[r].key /\ new.raced = key[call[r].key].revoked
      BY <1>0, <2>1 DEF CallState
    <2> HIDE DEF new
    <2>3. call' = [call EXCEPT ![r] = new] /\ call[r].pc # "idle"
      BY <1>3 DEF Touch, new
    <2> QED BY <1>3, <2>2, <2>3, AdvanceIInv DEF Touch
  <1>4. CASE Answer(r)
    BY <1>4, LeaveIInv DEF Answer
  <1>5. ASSUME NEW c \in Clients, WantClient(r, c)
        PROVE  IInv'
    <2> DEFINE new == [call[r] EXCEPT !.pc = "writing", !.target = c]
    <2>1. new \in CallState /\ new.key = call[r].key /\ new.raced = call[r].raced
      BY <1>0 DEF CallState
    <2> HIDE DEF new
    <2>2. call' = [call EXCEPT ![r] = new] /\ call[r].pc # "idle"
      BY <1>5 DEF WantClient, new
    <2>3. key[new.key].revoked => new.raced
      BY <1>5, <2>1 DEF WantClient, RevocationIsABarrier, Admitted
    <2> QED BY <1>5, <2>1, <2>2, <2>3, AdvanceIInv DEF WantClient
  <1>6. CASE RecordEvent(r)
    BY <1>6, RecordEventIInv
  <1>7. CASE PortalInvoices(r)
    BY <1>7, LeaveIInv DEF PortalInvoices
  <1> QED BY <1>1, <1>2, <1>3, <1>4, <1>5, <1>6, <1>7 DEF CallStep

\* A new call has found a valid key.
LEMMA PresentIInv ==
    ASSUME IInv, NEW r \in Calls, NEW k \in Keys, Present(r, k)
    PROVE  IInv'
  <1> DEFINE new == [NoCall EXCEPT !.pc = "found", !.key = k]
  <1>1. new \in CallState /\ new.key = k /\ new.pc = "found"
    BY DEF NoCall, CallState
  <1> HIDE DEF new
  <1>2. call' = [call EXCEPT ![r] = new] /\ key[k].owner # None
    BY DEF Present, Valid, new
  <1>3. /\ call' \in [Calls -> CallState]
        /\ call'[r] = new
        /\ \A q \in Calls \ {r} : call'[q] = call[q]
    BY <1>1, <1>2 DEF IInv, TypeOK
  <1>4. calls' \in 0..MaxCalls
    BY AccessAssumption DEF Present, IInv, TypeOK
  <1>5. \A q \in Calls :
           /\ call'[q].pc # "idle" => call'[q].key \in Keys /\ key[call'[q].key].owner # None
           /\ Admitted(q)' /\ key[call'[q].key].revoked => call'[q].raced
    BY <1>1, <1>2, <1>3 DEF IInv, CallsKeyed, RevocationIsABarrier, Admitted
  <1> QED BY <1>3, <1>4, <1>5, CallIInv DEF Present

\* PostgreSQL aborts a call or a session and undoes what it has written.
LEMMA DeadlockDetectedIInv ==
    ASSUME IInv, DeadlockDetected
    PROVE  IInv'
  <1>1. PICK x : /\ \/ x \in Calls /\ Leave(x) /\ UNCHANGED op
                    \/ x \in Sessions /\ End(x) /\ UNCHANGED call
                 /\ UNCHANGED <<client, key, historyVars, calls, ops>>
    BY DEF DeadlockDetected
  <1> QED BY <1>1, LeaveIInv, EndIInv

\* Every step of an admin session.
LEMMA SessionStepIInv ==
    ASSUME IInv, NEW s \in Sessions, SessionStep(s)
    PROVE  IInv'
  BY InsertClientIInv, CreateKeyIInv, RotateIInv, RevokeIInv, SetBlockedIInv, SuspendIInv,
     UnsuspendIInv, EndIInv, DeleteSelectsKeysIInv, DeleteCommitsIInv DEF SessionStep, DeleteRefused

\* A step that changes nothing.
LEMMA UnchangedIInv ==
    ASSUME IInv, UNCHANGED vars
    PROVE  IInv'
  <1>1. UNCHANGED <<client, key, op, historyVars, ops>> /\ call' = call /\ calls' = calls
    BY DEF vars
  <1>2. /\ calls \in 0..MaxCalls /\ call \in [Calls -> CallState]
        /\ \A r \in Calls :
              /\ call[r].pc # "idle" => call[r].key \in Keys /\ key[call[r].key].owner # None
              /\ Admitted(r)' /\ key[call[r].key].revoked => call[r].raced
    BY <1>1 DEF IInv, TypeOK, CallsKeyed, RevocationIsABarrier, Admitted
  <1> QED BY <1>1, <1>2, CallIInv

\* The inductive invariant holds in every reachable state.
THEOREM Invariance == Spec => []IInv
  <1>1. IInv /\ [Next]_vars => IInv'
    BY BeginSomeIInv, SessionStepIInv, CallStepIInv, PresentIInv, DeadlockDetectedIInv,
       UnchangedIInv DEF Next, Quiet
  <1> QED BY <1>1, InitIInv, PTL DEF Spec

\* Rows, calls and sessions keep their types: no handler writes a column or a
\* program point that the others do not expect.
THEOREM TypeCorrect == Spec => []TypeOK
  BY Invariance, PTL DEF IInv

\* delete_client leaves no valid key but those committed after it had read the keys.
THEOREM DeletionRevokes == Spec => []DeletedKeysRevoked
  BY Invariance, PTL DEF IInv

\* After a revocation has committed no call is at work with the key, unless it had
\* found the key before and locked its row after.
THEOREM Barrier == Spec => []RevocationIsABarrier
  BY Invariance, PTL DEF IInv

\* However rotations, revocations and deletions overlap, the valid keys of a line
\* are one and the forks that were counted.
THEOREM HandsOver == Spec => []RotationHandsOver
  BY Invariance, PTL DEF IInv

\* A suspended client is blocked and its metadata say why, up to the two races.
THEOREM Suspension == Spec => []SuspensionStands
  BY Invariance, PTL DEF IInv

-------------------------------------------------------------------------------
(***************************************************************************)
(* Refinement: the rows of api_keys implement KeyRing.                     *)
(***************************************************************************)

\* What the row of a key says of it, in the words of KeyRing.
RingState(row) == IF row.owner = None THEN "unborn" ELSE IF row.revoked THEN "revoked" ELSE "valid"
Rings == [k \in Keys |-> RingState(key[k])]

\* A key that was generated is issued, beginning a line of its own.
LEMMA RingIssue ==
    ASSUME NEW n \in Keys, key[n].owner = None, key'[n].owner # None, ~key'[n].revoked,
           \A j \in Keys \ {n} : key'[j] = key[j]
    PROVE  Ring!Next
  <1>1. Rings[n] = "unborn" /\ RingState(key'[n]) = "valid"
    BY DEF Rings, RingState
  <1>2. Rings' = [Rings EXCEPT ![n] = "valid"]
    BY <1>1 DEF Rings
  <1>3. Ring!Issue(n)
    BY <1>1, <1>2 DEF Ring!Issue, Rings, RingState
  <1> QED BY <1>3 DEF Ring!Next

\* A key that starts a line is issued by the key ring.
LEMMA RingMint ==
    ASSUME IInv, NEW n \in Keys, NEW c \in Clients, key[n].owner = None,
           key' = [key EXCEPT ![n] = Mint(n, c, n)]
    PROVE  Ring!Next
  <1>1. /\ key'[n] = [owner |-> c, revoked |-> FALSE, root |-> n]
        /\ \A j \in Keys \ {n} : key'[j] = key[j]
    BY MintKey
  <1>2. key'[n].owner # None /\ ~key'[n].revoked
    BY <1>1, AccessAssumption
  <1> QED BY <1>1, <1>2, RingIssue

\* A rotation puts a key in the place of another in one step.
LEMMA RingReplace ==
    ASSUME IInv, NEW s \in Sessions, Rotate(s)
    PROVE  Ring!Next
  <1>1. PICK from \in Keys, to \in Keys : from = op[s].old /\ to = op[s].new
    BY RotateKeys
  <1>2. /\ from # to
        /\ key[from].owner # None /\ key[to].owner = None
        /\ key'[from].owner = key[from].owner /\ key'[from].revoked
        /\ key'[to] = [owner |-> op[s].client, revoked |-> FALSE, root |-> key[from].root]
        /\ op[s].client # None
        /\ \A j \in Keys \ {from, to} : key'[j] = key[j]
    BY <1>1, RotateKeys
  <1>3. RingState(key'[from]) = "revoked" /\ RingState(key'[to]) = "valid"
    BY <1>2 DEF RingState
  <1>4. Rings[from] # "unborn" /\ Rings[to] = "unborn"
    BY <1>2 DEF Rings, RingState
  <1>5. Rings' = [Rings EXCEPT ![from] = "revoked", ![to] = "valid"]
    BY <1>2, <1>3 DEF Rings
  <1>6. Ring!Replace(from, to)
    BY <1>4, <1>5 DEF Ring!Replace, Ring!Issued, Rings, RingState
  <1> QED BY <1>6 DEF Ring!Next

\* A revocation withdraws keys that were issued.
LEMMA RingWithdraw ==
    ASSUME IInv, NEW S \in SUBSET Keys, Withdrawn(S), \A k \in S : key[k].owner # None
    PROVE  Ring!Next
  <1>1. \A k \in S : Rings[k] # "unborn" /\ RingState(key'[k]) = "revoked"
    BY DEF Rings, RingState, Withdrawn
  <1>2. Rings' = [k \in Keys |-> IF k \in S THEN "revoked" ELSE Rings[k]]
    <2>1. \A k \in Keys : RingState(key'[k]) = IF k \in S THEN "revoked" ELSE RingState(key[k])
      BY <1>1 DEF Withdrawn
    <2>2. \A k \in Keys : Rings[k] = RingState(key[k])
      BY DEF Rings
    <2> HIDE DEF RingState
    <2>3. Rings' = [k \in Keys |-> RingState(key'[k])]
      BY DEF Rings
    <2> QED BY <2>1, <2>2, <2>3
  <1>3. Ring!Withdraw(S)
    BY <1>1, <1>2 DEF Ring!Withdraw, Ring!Issued, Rings, RingState
  <1> QED BY <1>3 DEF Ring!Next

\* Both start without keys.
LEMMA RingInit == Init => Ring!Init
  <1> SUFFICES ASSUME Init PROVE Ring!Init
    OBVIOUS
  <1>1. \A k \in Keys : key[k].owner = None
    BY DEF Init, Unborn
  <1> QED BY <1>1 DEF Ring!Init

\* Every step on the keys is a step of the ring; the others do not touch the rows.
LEMMA RingStep ==
    ASSUME IInv, [Next]_vars
    PROVE  Ring!Next \/ key' = key
  <1>1. ASSUME NEW s \in Sessions, InsertClient(s)
        PROVE  Ring!Next \/ key' = key
    <2>1. CASE op[s].do = "signup" /\ client[op[s].client].state = "absent"
      <3>1. /\ op[s].client \in Clients /\ op[s].new \in Keys /\ key[op[s].new].owner = None
            /\ key' = [key EXCEPT ![op[s].new] = Mint(op[s].new, op[s].client, op[s].new)]
        BY <1>1, <2>1 DEF InsertClient, IInv, SessionsReady, Generating
      <3> QED BY <3>1, RingMint
    <2> QED BY <1>1, <2>1 DEF InsertClient
  <1>2. ASSUME NEW s \in Sessions, CreateKey(s)
        PROVE  Ring!Next
    <2>1. /\ op[s].client \in Clients /\ op[s].new \in Keys /\ key[op[s].new].owner = None
          /\ key' = [key EXCEPT ![op[s].new] = Mint(op[s].new, op[s].client, op[s].new)]
      BY <1>2 DEF CreateKey, IInv, SessionsReady, Generating
    <2> QED BY <2>1, RingMint
  <1>3. ASSUME NEW s \in Sessions, Revoke(s)
        PROVE  Ring!Next
    <2>1. /\ Withdrawn({op[s].old}) /\ {op[s].old} \in SUBSET Keys
          /\ \A k \in {op[s].old} : key[k].owner # None
      BY <1>3, RevokeWithdraws
    <2> QED BY <2>1, RingWithdraw
  <1>4. ASSUME NEW s \in Sessions, DeleteCommits(s)
        PROVE  Ring!Next
    BY <1>4, DeletionWithdraws, RingWithdraw
  <1>5. ASSUME NEW s \in Sessions, SessionStep(s)
        PROVE  Ring!Next \/ key' = key
    BY <1>1, <1>2, <1>3, <1>4, <1>5, RingReplace
       DEF SessionStep, SetBlocked, Suspend, Unsuspend, DeleteRefused, DeleteSelectsKeys
  <1>6. ASSUME NEW s \in Sessions, BeginSome(s)
        PROVE  key' = key
    BY <1>6 DEF BeginSome, Begin, BeginSignup, BeginCreateClient, BeginCreateKey, BeginDelete,
       BeginSetBlocked, BeginRotate, BeginRevoke
  <1>7. ASSUME NEW r \in Calls, CallStep(r) \/ \E k \in Keys : Present(r, k)
        PROVE  key' = key
    BY <1>7 DEF CallStep, Present, ReadClient, RefuseClient, Touch, Answer, WantClient, RecordEvent,
       PortalInvoices
  <1> QED BY <1>5, <1>6, <1>7 DEF Next, DeadlockDetected, Quiet, vars

\* The rows of api_keys implement KeyRing, whatever sessions do concurrently.
THEOREM Refinement == Spec => ImplementsKeyRing
  <1>1. IInv /\ [Next]_vars => [Ring!Next]_([k \in Keys |-> IF key[k].owner = None THEN "unborn"
                                     ELSE IF key[k].revoked THEN "revoked" ELSE "valid"])
    BY RingStep
  <1> QED BY <1>1, RingInit, Invariance, PTL DEF Spec, ImplementsKeyRing, Ring!Spec
===============================================================================
