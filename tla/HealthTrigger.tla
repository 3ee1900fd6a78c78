---------------------------- MODULE HealthTrigger ----------------------------
(***************************************************************************)
(* POST /health/settlement/trigger, the demo endpoint: CreateBatch inserts *)
(* a batch that is ACKNOWLEDGED from the start, with no file and without   *)
(* the bank, and links to it whatever is funded and not in a batch.  It    *)
(* runs beside the settlement engine, on the same rows.  A member of       *)
(* HealthRequests is a request slot.                                       *)
(***************************************************************************)
EXTENDS SettlementEngine

CONSTANT HealthRequests

VARIABLES
    hpc,     \* the statement the request executes next
    hReady,  \* the SELECT found an unbatched transfer
    hBatch   \* the batch inserted

healthVars == <<hpc, hReady, hBatch>>

HealthPCs == {"idle", "insert", "link"}

HealthInit ==
    /\ hpc = [h \in HealthRequests |-> "idle"]
    /\ hReady = [h \in HealthRequests |-> FALSE]
    /\ hBatch = [h \in HealthRequests |-> None]

HealthEnds(h) ==
    /\ hpc' = [hpc EXCEPT ![h] = "idle"]
    /\ hReady' = [hReady EXCEPT ![h] = FALSE]
    /\ hBatch' = [hBatch EXCEPT ![h] = None]

Unbatched == {t \in Transfers : state[t] = "FundsPosted" /\ batchOf[t] = None}

\* Its correspondent is the first one with an unbatched transfer, or any.
SelectReady(h) ==
    /\ hpc[h] = "idle"
    /\ hReady' = [hReady EXCEPT ![h] = Unbatched # {}]
    /\ hpc' = [hpc EXCEPT ![h] = "insert"]
    /\ UNCHANGED <<hBatch, batchStatus, batchOf>>

\* Bound: the ids that the running triggers may need are kept for them.
SpareBatchIds ==
    Cardinality({b \in Batches : batchStatus[b] = "none"}) >
        Cardinality(Correspondents) * Cardinality({g \in Triggers : spc[g] # "idle"})

InsertAcknowledged(h) ==
    /\ hpc[h] = "insert"
    /\ SpareBatchIds
    /\ \E b \in Batches :
          /\ Fresh(b)
          /\ batchStatus' = [batchStatus EXCEPT ![b] = "ACKNOWLEDGED"]
          /\ IF hReady[h]
             THEN /\ hBatch' = [hBatch EXCEPT ![h] = b]
                  /\ hpc' = [hpc EXCEPT ![h] = "link"]
                  /\ UNCHANGED hReady
             ELSE HealthEnds(h)
    /\ UNCHANGED batchOf

\* Mutant: UPDATE ... WHERE state = 'FundsPosted', without settlement_batch_id IS NULL.
LinkFunded(h) ==
    /\ hpc[h] = "link"
    /\ batchOf' = [t \in Transfers |-> IF state[t] = "FundsPosted" THEN hBatch[h] ELSE batchOf[t]]
    /\ HealthEnds(h)
    /\ UNCHANGED batchStatus

\* One UPDATE takes what is unbatched now, of every correspondent.
LinkUnbatched(h) ==
    /\ hpc[h] = "link"
    /\ batchOf' = [t \in Transfers |-> IF t \in Unbatched THEN hBatch[h] ELSE batchOf[t]]
    /\ HealthEnds(h)
    /\ UNCHANGED batchStatus

HealthRuns(h) == InsertAcknowledged(h) \/ LinkUnbatched(h)

\* Cut off, in any run: nothing waits for this endpoint, and no fairness is asked of it.
HealthAborts(h) ==
    /\ hpc[h] # "idle"
    /\ HealthEnds(h)
    /\ UNCHANGED <<batchStatus, batchOf>>
=============================================================================
