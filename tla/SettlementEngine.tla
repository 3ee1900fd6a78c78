-------------------------- MODULE SettlementEngine --------------------------
(***************************************************************************)
(* POST /settlement/trigger: the settlement engine's Trigger, the          *)
(* submission of each batch to the settlement bank, and AcknowledgeBatch.  *)
(* A member of Triggers is a request slot.  The handler passes a cutoff of *)
(* tomorrow, so every FundsPosted transfer is before it.  The bank is      *)
(* external: it acknowledges whatever file it receives.                    *)
(***************************************************************************)
EXTENDS TransferDB, Sequences

CONSTANTS
    Triggers,
    Batches,    \* batch ids; the bound on the batches a behaviour creates
    Files,      \* file paths
    FileOf      \* [Correspondents -> Files]: the path of a correspondent's file
                \* on one day, made of the first 8 characters of its id

ASSUME FileAssumption == FileOf \in [Correspondents -> Files]

\* No id or path is SQL's NULL.
ASSUME NullAssumption == None \notin Transfers \union Batches \union Files

VARIABLES
    batchStatus, \* settlement_batches.status; "none" before the row exists
    batchFile,   \* settlement_batches.file_ref
    batchOf,     \* transfers.settlement_batch_id
    settledAt,   \* transfers whose settled_at is set
    fileData,    \* the transfers listed in the file at each path
    torn,        \* paths whose content does not parse: being rewritten, or overlaid
    presented,   \* <<batch, transfer>>: what the bank has received
    spc,         \* the statement the request executes next
    sListed,     \* listed transfers still to be put in a batch and linked
    sCorr,       \* the correspondent whose batch is being built
    sBatch,      \* the batch being built
    sQueue,      \* batches built, in submission order
    sTids,       \* transfers of the acknowledged batch still to be completed
    sDone        \* the transfer just completed

batchVars == <<batchStatus, batchFile, batchOf, settledAt, fileData, torn, presented>>

setVars == <<batchVars, spc, sListed, sCorr, sBatch, sQueue, sTids, sDone>>

BatchStatuses == {"none", "PENDING", "SUBMITTED", "ACKNOWLEDGED"}

TriggerPCs == {"idle", "file", "write", "batch", "link", "submit", "ack", "complete", "record"}

SettlementInit ==
    /\ batchStatus = [b \in Batches |-> "none"]
    /\ batchFile = [b \in Batches |-> None]
    /\ batchOf = [t \in Transfers |-> None]
    /\ settledAt = {}
    /\ fileData = [f \in Files |-> {}]
    /\ torn = {}
    /\ presented = {}
    /\ spc = [g \in Triggers |-> "idle"]
    /\ sListed = [g \in Triggers |-> {}]
    /\ sCorr = [g \in Triggers |-> None]
    /\ sBatch = [g \in Triggers |-> None]
    /\ sQueue = [g \in Triggers |-> <<>>]
    /\ sTids = [g \in Triggers |-> {}]
    /\ sDone = [g \in Triggers |-> None]

SetGoto(g, pc) == spc' = [spc EXCEPT ![g] = pc]

----------------------------------------------------------------------------
(* Trigger: list, then for each correspondent write the file, insert the   *)
(* batch and link its transfers.                                           *)

\* Bound: a trigger starts only while there are ids for every batch that the
\* running ones and it may create.
BatchIdsLeft ==
    Cardinality({b \in Batches : batchStatus[b] = "none"}) >=
        Cardinality(Correspondents) * (1 + Cardinality({g \in Triggers : spc[g] # "idle"}))

\* Mutant: settled transfers are listed again.
ListFundedOrCompleted(g) ==
    LET listed == {t \in Transfers : state[t] \in {"FundsPosted", "Completed"}} IN
    /\ spc[g] = "idle"
    /\ BatchIdsLeft
    /\ listed # {}
    /\ sListed' = [sListed EXCEPT ![g] = listed]
    /\ SetGoto(g, "file")
    /\ UNCHANGED <<state, events, batchVars, sCorr, sBatch, sQueue, sTids, sDone>>

\* An empty list answers at once.  A transfer already linked to a batch is
\* listed again for as long as it is FundsPosted.
ListFundsPosted(g) ==
    /\ spc[g] = "idle"
    /\ BatchIdsLeft
    /\ {t \in Transfers : state[t] = "FundsPosted"} # {}
    /\ sListed' = [sListed EXCEPT ![g] = {t \in Transfers : state[t] = "FundsPosted"}]
    /\ SetGoto(g, "file")
    /\ UNCHANGED <<state, events, batchVars, sCorr, sBatch, sQueue, sTids, sDone>>

Group(g, c) == {t \in sListed[g] : CorrOf(t) = c}

\* The loop ranges over a map: correspondents come in any order.  os.WriteFile
\* first truncates whatever is at the path.
OpenSettlementFile(g) ==
    /\ spc[g] = "file"
    /\ \E c \in Correspondents :
          /\ Group(g, c) # {}
          /\ torn' = torn \union {FileOf[c]}
          /\ sCorr' = [sCorr EXCEPT ![g] = c]
    /\ SetGoto(g, "write")
    /\ UNCHANGED <<state, events, batchStatus, batchFile, batchOf, settledAt, fileData,
                   presented, sListed, sBatch, sQueue, sTids, sDone>>

\* ... and then writes at offset 0.  If another request has written there since,
\* a longer tail of its content may survive ours, and the file no longer parses.
WriteSettlementFile(g) ==
    LET f == FileOf[sCorr[g]]
        checks == Group(g, sCorr[g])
    IN
    /\ spc[g] = "write"
    /\ fileData' = [fileData EXCEPT ![f] = checks]
    /\ \/ torn' = torn \ {f}
       \/ f \notin torn /\ fileData[f] # checks /\ torn' = torn \union {f}
    /\ SetGoto(g, "batch")
    /\ UNCHANGED <<state, events, batchStatus, batchFile, batchOf, settledAt,
                   presented, sListed, sCorr, sBatch, sQueue, sTids, sDone>>

\* gen_random_uuid: an unused id, and which one does not matter.
Fresh(b) ==
    /\ batchStatus[b] = "none"
    /\ b = CHOOSE u \in Batches : batchStatus[u] = "none"

\* Mutant: the batch row is inserted without its file_ref.
CreateBatchNoFile(g) ==
    /\ spc[g] = "batch"
    /\ \E b \in Batches :
          /\ Fresh(b)
          /\ batchStatus' = [batchStatus EXCEPT ![b] = "PENDING"]
          /\ sBatch' = [sBatch EXCEPT ![g] = b]
    /\ SetGoto(g, "link")
    /\ UNCHANGED <<state, events, batchFile, batchOf, settledAt, fileData, torn,
                   presented, sListed, sCorr, sQueue, sTids, sDone>>

CreateBatch(g) ==
    /\ spc[g] = "batch"
    /\ \E b \in Batches :
          /\ Fresh(b)
          /\ batchStatus' = [batchStatus EXCEPT ![b] = "PENDING"]
          /\ batchFile' = [batchFile EXCEPT ![b] = FileOf[sCorr[g]]]
          /\ sBatch' = [sBatch EXCEPT ![g] = b]
    /\ SetGoto(g, "link")
    /\ UNCHANGED <<state, events, batchOf, settledAt, fileData, torn,
                   presented, sListed, sCorr, sQueue, sTids, sDone>>

\* One UPDATE per transfer, its error ignored; after the last one the next
\* correspondent's turn comes, or the submission of the batches built.
LinkTransfer(g) ==
    /\ spc[g] = "link"
    /\ \E t \in Group(g, sCorr[g]) :
          /\ \/ batchOf' = [batchOf EXCEPT ![t] = sBatch[g]]
             \/ Faults /\ UNCHANGED batchOf
          /\ sListed' = [sListed EXCEPT ![g] = @ \ {t}]
          /\ LET last == Group(g, sCorr[g]) = {t}
             IN  /\ sCorr' = [sCorr EXCEPT ![g] = IF last THEN None ELSE @]
                 /\ sBatch' = [sBatch EXCEPT ![g] = IF last THEN None ELSE @]
                 /\ sQueue' = [sQueue EXCEPT ![g] = IF last THEN Append(@, sBatch[g]) ELSE @]
                 /\ SetGoto(g, IF ~last THEN "link"
                               ELSE IF sListed[g] = {t} THEN "submit" ELSE "file")
    /\ UNCHANGED <<state, events, batchStatus, batchFile, settledAt,
                   fileData, torn, presented, sTids, sDone>>

----------------------------------------------------------------------------
(* Submission and acknowledgment, batch by batch *)

NextBatch(g) ==
    /\ sQueue' = [sQueue EXCEPT ![g] = Tail(@)]
    /\ SetGoto(g, IF Tail(sQueue[g]) = <<>> THEN "idle" ELSE "submit")

\* The bank receives what the batch's file holds when it is read back.
Present(b) == presented' = presented \union ({b} \X fileData[batchFile[b]])

\* Mutant: a file the bank may not have received is acknowledged all the same.
SubmitBatchOptimistic(g) ==
    LET b == Head(sQueue[g]) IN
    /\ spc[g] = "submit"
    /\ batchStatus' = [batchStatus EXCEPT ![b] = "SUBMITTED"]
    /\ Present(b) \/ (Faults /\ UNCHANGED presented)
    /\ SetGoto(g, "ack")
    /\ UNCHANGED <<state, events, batchFile, batchOf, settledAt,
                   fileData, torn, sListed, sCorr, sBatch, sQueue, sTids, sDone>>

\* Mark SUBMITTED (best effort), read the file, send it.  A file that cannot be
\* encoded or read, a refused call or a lost answer leaves the batch behind for
\* good; in the last case the bank has the file.
SubmitBatch(g) ==
    LET b == Head(sQueue[g]) IN
    /\ spc[g] = "submit"
    /\ \/ batchStatus' = [batchStatus EXCEPT ![b] = "SUBMITTED"]
       \/ Faults /\ UNCHANGED batchStatus
    /\ \/ batchFile[b] \notin torn /\ Present(b) /\ SetGoto(g, "ack") /\ UNCHANGED sQueue
       \/ Faults /\ batchFile[b] \notin torn /\ Present(b) /\ NextBatch(g)
       \/ (Faults \/ batchFile[b] \in torn) /\ UNCHANGED presented /\ NextBatch(g)
    /\ UNCHANGED <<state, events, batchFile, batchOf, settledAt,
                   fileData, torn, sListed, sCorr, sBatch, sTids, sDone>>

\* Mutant: an acknowledgment completes whatever is FundsPosted.
AnyFundsPosted(b) == {t \in Transfers : state[t] = "FundsPosted"}

\* Mutant: only transfers that already have settled_at are taken.
LinkedAndSettled(b) == {t \in settledAt : batchOf[t] = b}

LinkedTo(b) == {t \in Transfers : batchOf[t] = b}

\* GetBatch and UpdateBatchStatus; the transfers completed are the ones linked
\* now.  This request created the batch and no other one writes its status.  An
\* error of either call passes on to the next batch.
AcknowledgeBatch(g) ==
    LET b == Head(sQueue[g]) IN
    /\ spc[g] = "ack"
    /\ \/ /\ batchStatus' = [batchStatus EXCEPT ![b] = "ACKNOWLEDGED"]
          /\ sTids' = [sTids EXCEPT ![g] = LinkedTo(b)]
          /\ IF LinkedTo(b) = {} THEN NextBatch(g)
             ELSE SetGoto(g, "complete") /\ UNCHANGED sQueue
       \/ Faults /\ NextBatch(g) /\ UNCHANGED <<batchStatus, sTids>>
    /\ UNCHANGED <<state, events, batchFile, batchOf, settledAt,
                   fileData, torn, presented, sListed, sCorr, sBatch, sDone>>

\* A transfer that has left FundsPosted is skipped.
CompleteTransfer(g) ==
    /\ spc[g] = "complete"
    /\ \E t \in sTids[g] :
          /\ sTids' = [sTids EXCEPT ![g] = @ \ {t}]
          /\ \/ /\ UpdateState(t, "FundsPosted", "Completed")
                /\ sDone' = [sDone EXCEPT ![g] = t]
                /\ SetGoto(g, "record") /\ UNCHANGED sQueue
             \/ /\ state[t] # "FundsPosted" \/ Faults
                /\ IF sTids[g] = {t} THEN NextBatch(g) ELSE UNCHANGED <<spc, sQueue>>
                /\ UNCHANGED <<state, sDone>>
    /\ UNCHANGED <<events, batchVars, sListed, sCorr, sBatch>>

\* The audit event, then settlement_batch_id again, with settled_at.
RecordCompletion(g) ==
    LET t == sDone[g] IN
    /\ spc[g] = "record"
    /\ \/ writeStateChangedEvent(t, "FundsPosted", "Completed")
       \/ Faults /\ UNCHANGED events
    /\ \/ /\ batchOf' = [batchOf EXCEPT ![t] = Head(sQueue[g])]
          /\ settledAt' = settledAt \union {t}
       \/ Faults /\ UNCHANGED <<batchOf, settledAt>>
    /\ sDone' = [sDone EXCEPT ![g] = None]
    /\ IF sTids[g] = {} THEN NextBatch(g) ELSE SetGoto(g, "complete") /\ UNCHANGED sQueue
    /\ UNCHANGED <<state, batchStatus, batchFile, fileData, torn, presented,
                   sListed, sCorr, sBatch, sTids>>

----------------------------------------------------------------------------
TriggerRuns(g) ==
    \/ OpenSettlementFile(g) \/ WriteSettlementFile(g) \/ CreateBatch(g) \/ LinkTransfer(g)
    \/ SubmitBatch(g) \/ AcknowledgeBatch(g)
    \/ CompleteTransfer(g) \/ RecordCompletion(g)

TriggerAborts(g) ==
    /\ Faults
    /\ spc[g] # "idle"
    /\ SetGoto(g, "idle")
    /\ sListed' = [sListed EXCEPT ![g] = {}]
    /\ sCorr' = [sCorr EXCEPT ![g] = None]
    /\ sBatch' = [sBatch EXCEPT ![g] = None]
    /\ sQueue' = [sQueue EXCEPT ![g] = <<>>]
    /\ sTids' = [sTids EXCEPT ![g] = {}]
    /\ sDone' = [sDone EXCEPT ![g] = None]
    /\ UNCHANGED <<state, events, batchVars>>
=============================================================================
