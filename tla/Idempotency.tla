----------------------------- MODULE Idempotency -----------------------------
(***************************************************************************)
(* cmd/api/middleware/idempotency.go around POST /deposits: clients that   *)
(* repeat a deposit under one Idempotency-Key, one after the other or at   *)
(* once.  A member of Requests is a request slot.  What CreateDeposit does *)
(* after the row exists is module DepositFlow; here it is one step that    *)
(* answers with the transfer, so that a response with an id is named by    *)
(* its transfer.                                                           *)
(***************************************************************************)
EXTENDS Naturals, FiniteSets

CONSTANTS
    Requests,
    Keys,        \* values of the Idempotency-Key header
    NoKey,       \* a request without the header
    Transfers,   \* transfer ids; the bound on the deposits of a behaviour
    None,
    Faults       \* TRUE: statements may fail, answers get lost, requests be cut off

ASSUME IdempotencyAssumption ==
    /\ NoKey \notin Keys
    /\ None \notin Transfers \union Keys \union {NoKey}
    /\ Faults \in BOOLEAN

VARIABLES
    stored,    \* idempotency_keys: the response of each key, None without a row
    keyOf,     \* the key each transfer row was created under, None before it exists
    answers,   \* <<key, transfer>>: responses with an id that clients received
    replays,   \* ... those of them that carried X-Idempotent-Replay
    failed,    \* keys whose Lookup or Store the database refused at some time
    ipc,       \* the statement the request executes next
    iKey,      \* its key
    iT,        \* the transfer it created
    iLate      \* it arrived when some client already had an answer for its key

vars == <<stored, keyOf, answers, replays, failed, ipc, iKey, iT, iLate>>

IdempotencyPCs == {"idle", "lookup", "create", "process", "store"}

Init ==
    /\ stored = [k \in Keys |-> None]
    /\ keyOf = [t \in Transfers |-> None]
    /\ answers = {}
    /\ replays = {}
    /\ failed = {}
    /\ ipc = [r \in Requests |-> "idle"]
    /\ iKey = [r \in Requests |-> NoKey]
    /\ iT = [r \in Requests |-> None]
    /\ iLate = [r \in Requests |-> FALSE]

\* The request ends; its slot is free for another one.
Ends(r) ==
    /\ ipc' = [ipc EXCEPT ![r] = "idle"]
    /\ iKey' = [iKey EXCEPT ![r] = NoKey]
    /\ iT' = [iT EXCEPT ![r] = None]
    /\ iLate' = [iLate EXCEPT ![r] = FALSE]

----------------------------------------------------------------------------
\* A client sends a deposit.  Without the header the middleware steps aside.
Arrive(r) ==
    /\ ipc[r] = "idle"
    /\ \E k \in Keys \union {NoKey} :
          /\ iKey' = [iKey EXCEPT ![r] = k]
          /\ iLate' = [iLate EXCEPT ![r] = \E t \in Transfers : <<k, t>> \in answers]
          /\ ipc' = [ipc EXCEPT ![r] = IF k = NoKey THEN "create" ELSE "lookup"]
    /\ UNCHANGED <<stored, keyOf, answers, replays, failed, iT>>

\* A row is replayed.  No row is a miss, and so is an error.
Lookup(r) ==
    LET k == iKey[r] IN
    /\ ipc[r] = "lookup"
    /\ \/ /\ stored[k] # None
          /\ \/ /\ answers' = answers \union {<<k, stored[k]>>}
                /\ replays' = replays \union {<<k, stored[k]>>}
             \/ Faults /\ UNCHANGED <<answers, replays>>
          /\ Ends(r)
          /\ UNCHANGED failed
       \/ /\ \/ stored[k] = None /\ UNCHANGED failed
             \/ Faults /\ failed' = failed \union {k}
          /\ ipc' = [ipc EXCEPT ![r] = "create"]
          /\ UNCHANGED <<answers, replays, iKey, iT, iLate>>
    /\ UNCHANGED <<stored, keyOf>>

\* CreateDeposit inserts the row, or refuses the request (a bad amount, an unknown
\* account, a failed INSERT) with a response that has no id and is not stored.
CreateDeposit(r) ==
    /\ ipc[r] = "create"
    /\ \/ \E t \in Transfers :
             /\ keyOf[t] = None
             /\ keyOf' = [keyOf EXCEPT ![t] = iKey[r]]
             /\ iT' = [iT EXCEPT ![r] = t]
             /\ ipc' = [ipc EXCEPT ![r] = "process"]
             /\ UNCHANGED <<iKey, iLate>>
       \/ Ends(r) /\ UNCHANGED keyOf
    /\ UNCHANGED <<stored, answers, replays, failed>>

\* Mutant: a response without an id is stored too.
ProcessDepositStoresErrors(r) ==
    /\ ipc[r] = "process"
    /\ ipc' = [ipc EXCEPT ![r] = "store"]
    /\ \/ UNCHANGED iT
       \/ Faults /\ iT' = [iT EXCEPT ![r] = None]
    /\ UNCHANGED <<stored, keyOf, answers, replays, failed, iKey, iLate>>

\* The rest of the handler.  If the row cannot be read back the response is a 500
\* without an id.
ProcessDeposit(r) ==
    /\ ipc[r] = "process"
    /\ \/ ipc' = [ipc EXCEPT ![r] = "store"] /\ UNCHANGED <<iKey, iT, iLate>>
       \/ Faults /\ Ends(r)
    /\ UNCHANGED <<stored, keyOf, answers, replays, failed>>

\* Mutant: ON CONFLICT DO UPDATE.
InsertResponseUpsert(k, t) == stored' = [stored EXCEPT ![k] = t]

\* INSERT ... ON CONFLICT (key) DO NOTHING.
InsertResponse(k, t) ==
    stored' = [stored EXCEPT ![k] = IF @ = None THEN t ELSE @]

\* The response reaches the client, or nobody.  It is small enough to stay in the
\* server's buffer until the handler returns, so it follows the Store.
Answers(k, t) ==
    \/ answers' = answers \union {<<k, t>>}
    \/ Faults /\ UNCHANGED answers

\* Mutant: the response is sent at once and stored in the background.
StoreLater(r) ==
    LET k == iKey[r] IN
    /\ ipc[r] = "store"
    /\ \/ /\ <<k, iT[r]>> \notin answers
          /\ Answers(k, iT[r])
          /\ UNCHANGED <<stored, ipc, iKey, iT, iLate>>
       \/ /\ k # NoKey
          /\ InsertResponse(k, iT[r])
          /\ Ends(r)
          /\ UNCHANGED answers
    /\ UNCHANGED <<keyOf, replays, failed>>

\* The captured response is stored, best effort, and leaves for the client, who is
\* shown this request's own transfer whether or not its row was inserted.
Store(r) ==
    LET k == iKey[r] IN
    /\ ipc[r] = "store"
    /\ \/ k # NoKey /\ InsertResponse(k, iT[r]) /\ UNCHANGED failed
       \/ k # NoKey /\ Faults /\ failed' = failed \union {k} /\ UNCHANGED stored
       \/ k = NoKey /\ UNCHANGED <<stored, failed>>
    /\ Answers(k, iT[r])
    /\ Ends(r)
    /\ UNCHANGED <<keyOf, replays>>

Aborts(r) ==
    /\ Faults
    /\ ipc[r] # "idle"
    /\ Ends(r)
    /\ UNCHANGED <<stored, keyOf, answers, replays, failed>>

Next ==
    \E r \in Requests :
        \/ Arrive(r) \/ Lookup(r) \/ CreateDeposit(r) \/ ProcessDeposit(r) \/ Store(r)
        \/ Aborts(r)

Spec == Init /\ [][Next]_vars

----------------------------------------------------------------------------
(* Properties *)

TypeOK ==
    /\ stored \in [Keys -> Transfers \union {None}]
    /\ keyOf \in [Transfers -> Keys \union {NoKey, None}]
    /\ answers \subseteq (Keys \union {NoKey}) \X Transfers
    /\ replays \subseteq answers
    /\ failed \subseteq Keys
    /\ ipc \in [Requests -> IdempotencyPCs]
    /\ iKey \in [Requests -> Keys \union {NoKey}]
    /\ iT \in [Requests -> Transfers \union {None}]
    /\ iLate \in [Requests -> BOOLEAN]

\* Whatever fails and however requests overlap, the replays of a key all tell of one
\* transfer, and it is a deposit made under that key.
ReplaysAgree ==
    /\ \A p, q \in replays : p[1] = q[1] => p = q
    /\ \A p \in answers : keyOf[p[2]] = p[1]

\* A client that has its answer may repeat the request as often as it likes, with
\* answers lost and requests cut off: no request sent after the answer makes a deposit,
\* unless a Lookup or a Store of the key has failed, which the middleware ignores.
AnsweredIsFinal ==
    \A r \in Requests : iLate[r] /\ iKey[r] \in Keys \ failed => ipc[r] = "lookup"

\* What makes the two inductive: a stored response and a request in flight are of a
\* deposit under their own key, an answered key has its row unless a statement failed,
\* and a row never changes once it has been replayed.
RowsAreOwn ==
    /\ \A k \in Keys : stored[k] # None => keyOf[stored[k]] = k
    /\ \A p \in answers : p[1] \in Keys \ failed => stored[p[1]] # None
    /\ \A p \in replays : p[1] \in Keys /\ stored[p[1]] = p[2]
    /\ \A r \in Requests :
          /\ ipc[r] = "lookup" => iKey[r] \in Keys
          /\ ipc[r] \in {"process", "store"} =>
                iT[r] \in Transfers /\ keyOf[iT[r]] = iKey[r]

LateWasAnswered ==
    \A r \in Requests : iLate[r] => \E t \in Transfers : <<iKey[r], t>> \in answers

IdempotencyInv == TypeOK /\ ReplaysAgree /\ AnsweredIsFinal /\ RowsAreOwn /\ LateWasAnswered

\* The documented promise: one transfer per key.
OneTransferPerKey ==
    \A t, u \in Transfers : keyOf[t] \in Keys /\ keyOf[u] = keyOf[t] => t = u
=============================================================================
