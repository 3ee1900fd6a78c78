-------------------------- MODULE IdempotencyProofs --------------------------
(* Idempotency for any number of requests, keys and transfers. *)
EXTENDS Idempotency, TLAPS

\* No row of either table exists at the start.
LEMMA InitInv == Init => IdempotencyInv
BY IdempotencyAssumption
   DEF Init, IdempotencyInv, TypeOK, ReplaysAgree, AnsweredIsFinal, RowsAreOwn,
       LateWasAnswered, IdempotencyPCs

\* Arrive, Lookup, CreateDeposit, ProcessDeposit and Store, with their failures, and the
\* cut-off of a request keep the invariant.
LEMMA StepInv ==
    ASSUME IdempotencyInv, NEW r \in Requests,
           \/ Arrive(r) \/ Lookup(r) \/ CreateDeposit(r) \/ ProcessDeposit(r)
           \/ Store(r) \/ Aborts(r)
    PROVE  IdempotencyInv'
<1>0. LateWasAnswered'
  <2>1. answers \subseteq answers'
        BY DEF Arrive, Lookup, CreateDeposit, ProcessDeposit, Store, Answers, Aborts
  <2>2. /\ iLate' \in [Requests -> BOOLEAN]
        /\ \A q \in Requests :
              iLate'[q] => \/ iLate[q] /\ iKey'[q] = iKey[q]
                          \/ \E t \in Transfers : <<iKey'[q], t>> \in answers
        BY DEF IdempotencyInv, TypeOK, Arrive, Lookup, CreateDeposit, ProcessDeposit, Store,
               Aborts, Ends
  <2> QED BY <2>1, <2>2 DEF IdempotencyInv, LateWasAnswered
<1>a. iLate[r] /\ iKey[r] \in Keys \ failed => stored[iKey[r]] # None
      BY DEF IdempotencyInv, LateWasAnswered, RowsAreOwn
<1> SUFFICES (TypeOK /\ ReplaysAgree /\ AnsweredIsFinal /\ RowsAreOwn)'
    BY <1>0 DEF IdempotencyInv
<1>b. TypeOK /\ ReplaysAgree /\ AnsweredIsFinal /\ RowsAreOwn
      BY DEF IdempotencyInv
<1> USE <1>b, IdempotencyAssumption
        DEF TypeOK, ReplaysAgree, AnsweredIsFinal, RowsAreOwn, IdempotencyPCs, Ends
<1>1. CASE Arrive(r)
      BY <1>1 DEF Arrive
<1>2. CASE Lookup(r)
  <2> DEFINE k == iKey[r]
  <2>1. k \in Keys /\ UNCHANGED <<stored, keyOf>>
        BY <1>2 DEF Lookup
  <2>2. CASE /\ stored[k] # None
             /\ answers' = answers \union {<<k, stored[k]>>}
             /\ replays' = replays \union {<<k, stored[k]>>}
             /\ Ends(r) /\ UNCHANGED failed
        BY <2>1, <2>2
  <2>3. CASE Ends(r) /\ UNCHANGED <<answers, replays, failed>>
        BY <2>1, <2>3
  <2>4. CASE /\ stored[k] = None /\ UNCHANGED failed
             /\ ipc' = [ipc EXCEPT ![r] = "create"]
             /\ UNCHANGED <<answers, replays, iKey, iT, iLate>>
        BY <2>1, <2>4, <1>a
  <2>5. CASE /\ failed' = failed \union {k}
             /\ ipc' = [ipc EXCEPT ![r] = "create"]
             /\ UNCHANGED <<answers, replays, iKey, iT, iLate>>
        BY <2>1, <2>5
  <2> QED BY <1>2, <2>2, <2>3, <2>4, <2>5 DEF Lookup
<1>3. CASE CreateDeposit(r)
  <2>1. UNCHANGED <<stored, answers, replays, failed>>
        BY <1>3 DEF CreateDeposit
  <2>2. CASE Ends(r) /\ UNCHANGED keyOf
        BY <2>1, <2>2
  <2>3. CASE \E t \in Transfers :
                /\ keyOf[t] = None
                /\ keyOf' = [keyOf EXCEPT ![t] = iKey[r]]
                /\ iT' = [iT EXCEPT ![r] = t]
                /\ ipc' = [ipc EXCEPT ![r] = "process"]
                /\ UNCHANGED <<iKey, iLate>>
    <3>1. PICK t \in Transfers :
             /\ keyOf[t] = None
             /\ keyOf' = [keyOf EXCEPT ![t] = iKey[r]]
             /\ iT' = [iT EXCEPT ![r] = t]
             /\ ipc' = [ipc EXCEPT ![r] = "process"]
             /\ UNCHANGED <<iKey, iLate>>
          BY <2>3
    <3>2. ipc[r] = "create"
          BY <1>3 DEF CreateDeposit
    <3>3. \A u \in Transfers : keyOf[u] # None => keyOf'[u] = keyOf[u]
          BY <3>1
    <3>4. (\A p, q \in replays : p[1] = q[1] => p = q)'
          BY <2>1
    <3>5. (\A p \in answers : keyOf[p[2]] = p[1])'
          BY <2>1, <3>3
    <3>6. AnsweredIsFinal'
          BY <2>1, <3>1, <3>2
    <3>7. (\A k \in Keys : stored[k] # None => keyOf[stored[k]] = k)'
          BY <2>1, <3>3
    <3>8. (\A q \in Requests :
              /\ ipc[q] = "lookup" => iKey[q] \in Keys
              /\ ipc[q] \in {"process", "store"} =>
                    iT[q] \in Transfers /\ keyOf[iT[q]] = iKey[q])'
          BY <2>1, <3>1, <3>3
    <3>9. TypeOK'
          BY <2>1, <3>1
    <3> QED BY <2>1, <3>4, <3>5, <3>6, <3>7, <3>8, <3>9
  <2> QED BY <1>3, <2>2, <2>3 DEF CreateDeposit
<1>4. CASE ProcessDeposit(r)
  <2>1. UNCHANGED <<stored, keyOf, answers, replays, failed>>
        BY <1>4 DEF ProcessDeposit
  <2>2. CASE ipc' = [ipc EXCEPT ![r] = "store"] /\ UNCHANGED <<iKey, iT, iLate>>
        BY <1>4, <2>1, <2>2 DEF ProcessDeposit
  <2>3. CASE Ends(r)
        BY <2>1, <2>3
  <2> QED BY <1>4, <2>2, <2>3 DEF ProcessDeposit
<1>5. CASE Store(r)
      BY <1>5 DEF Store, InsertResponse, Answers
<1>6. CASE Aborts(r)
      BY <1>6 DEF Aborts
<1> QED BY <1>1, <1>2, <1>3, <1>4, <1>5, <1>6

\* The inductive invariant of the middleware around POST /deposits.
THEOREM IdempotencyInvariant == Spec => []IdempotencyInv
<1>1. Init => IdempotencyInv
      BY InitInv
<1>2. IdempotencyInv /\ [Next]_vars => IdempotencyInv'
  <2> SUFFICES ASSUME IdempotencyInv, [Next]_vars PROVE IdempotencyInv'
      OBVIOUS
  <2>1. CASE Next
        BY <2>1, StepInv DEF Next
  <2>2. CASE UNCHANGED vars
        BY <2>2 DEF vars, IdempotencyInv, TypeOK, ReplaysAgree, AnsweredIsFinal, RowsAreOwn,
                        LateWasAnswered
  <2> QED BY <2>1, <2>2
<1> QED BY <1>1, <1>2, PTL DEF Spec

\* Replays of a key agree: Lookup returns the one row that ON CONFLICT DO NOTHING keeps.
THEOREM Replays == Spec => []ReplaysAgree
<1>1. IdempotencyInv => ReplaysAgree
      BY DEF IdempotencyInv
<1> QED BY <1>1, IdempotencyInvariant, PTL

\* A request sent after its key was answered finds the row and makes no deposit, unless a
\* statement on the key has failed.
THEOREM Retries == Spec => []AnsweredIsFinal
<1>1. IdempotencyInv => AnsweredIsFinal
      BY DEF IdempotencyInv
<1> QED BY <1>1, IdempotencyInvariant, PTL
=============================================================================
