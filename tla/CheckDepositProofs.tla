------------------------- MODULE CheckDepositProofs -------------------------
(***************************************************************************)
(* Theorems about module CheckDeposit, for any number of transfers,        *)
(* accounts, correspondents and concurrent requests, with requests cut off *)
(* at any statement when Faults is TRUE.                                   *)
(***************************************************************************)
EXTENDS CheckDeposit, TLAPS

----------------------------------------------------------------------------
(* Type correctness *)

\* The initial tables and empty request slots have their types.
LEMMA InitTypes == Init => TypeOK
<1> SUFFICES ASSUME Init PROVE TypeOK
  OBVIOUS
<1>1. TablesTypeOK
  BY DEF Init, DBInit, LedgerInit, TablesTypeOK, TransferStates, ErrorCodes,
         ReviewReasons, EntryTypes, Statuses, None
<1>2. DepositTypeOK /\ OperatorTypeOK /\ ReturnTypeOK
  BY DEF Init, DepositInit, OperatorInit, ReturnInit, DepositTypeOK, OperatorTypeOK,
         ReturnTypeOK, DepositPCs, OperatorPCs, ReturnPCs
<1>3. SettlementTypeOK /\ TriggerTypeOK /\ TriggerLocalsOK
  BY DEF Init, SettlementInit, SettlementTypeOK, TriggerTypeOK, TriggerLocalsOK,
         BatchStatuses, TriggerPCs, None
<1>4. HealthTypeOK
  BY DEF Init, HealthInit, HealthTypeOK, HealthPCs
<1> QED
  BY <1>1, <1>2, <1>3, <1>4 DEF TypeOK

\* A step of a request leaves the local state of the other kinds typed.
LEMMA FrameTypes ==
  ASSUME TypeOK
  PROVE  /\ UNCHANGED depVars => DepositTypeOK'
         /\ UNCHANGED opVars => OperatorTypeOK'
         /\ UNCHANGED retVars => ReturnTypeOK'
         /\ UNCHANGED setVars => SettlementTypeOK' /\ TriggerTypeOK' /\ TriggerLocalsOK'
         /\ UNCHANGED healthVars => HealthTypeOK'
<1>1. UNCHANGED depVars => DepositTypeOK'
  BY DEF TypeOK, depVars, DepositTypeOK
<1>2. UNCHANGED opVars => OperatorTypeOK'
  BY DEF TypeOK, opVars, OperatorTypeOK
<1>3. UNCHANGED retVars => ReturnTypeOK'
  BY DEF TypeOK, retVars, ReturnTypeOK
<1>4. UNCHANGED setVars => SettlementTypeOK' /\ TriggerTypeOK' /\ TriggerLocalsOK'
  BY DEF TypeOK, setVars, batchVars, SettlementTypeOK, TriggerTypeOK, TriggerLocalsOK
<1>5. UNCHANGED healthVars => HealthTypeOK'
  BY DEF TypeOK, healthVars, HealthTypeOK
<1> QED
  BY <1>1, <1>2, <1>3, <1>4, <1>5

\* A posting adds a pair to the ledger and keeps it a table of naturals.
LEMMA PostTypes ==
  ASSUME ledger \in [Transfers -> [EntryTypes -> Nat]],
         NEW t \in Transfers, NEW type \in EntryTypes,
         PostDoubleEntry(t, type) \/ PostFails(t, type)
  PROVE  ledger' \in [Transfers -> [EntryTypes -> Nat]]
  BY DEF PostDoubleEntry, PostFails

\* A call of Transition by a deposit, won or lost, keeps the types.
LEMMA DepositUpdateTypes ==
  ASSUME TypeOK, NEW t \in Transfers, DepositFrame,
         NEW here, NEW from \in TransferStates, NEW to \in TransferStates,
         NEW event \in DepositPCs, DepositUpdate(t, here, from, to, event)
  PROVE  TablesTypeOK' /\ DepositTypeOK'
<1>1. TablesTypeOK'
  BY DEF TypeOK, TablesTypeOK, DepositUpdate, Transition, TransitionFails, UpdateState,
         DepositFrame
<1>2. DepositTypeOK'
  BY DEF TypeOK, DepositTypeOK, DepositUpdate, Goto, DepositPCs
<1> QED
  BY <1>1, <1>2

\* The audit event of a deposit's transition keeps the types.
LEMMA DepositEventTypes ==
  ASSUME TypeOK, NEW t \in Transfers, DepositFrame,
         NEW here, NEW from \in TransferStates, NEW to \in TransferStates,
         NEW next \in DepositPCs, DepositEvent(t, here, from, to, next)
  PROVE  TablesTypeOK' /\ DepositTypeOK'
<1>1. TablesTypeOK'
  BY DEF TypeOK, TablesTypeOK, DepositEvent, writeStateChangedEvent, DepositFrame
<1>2. DepositTypeOK'
  BY DEF TypeOK, DepositTypeOK, DepositEvent, Goto, DepositPCs
<1> QED
  BY <1>1, <1>2

\* setErrorCode before a rejection keeps the types.
LEMMA SetCodeTypes ==
  ASSUME TypeOK, NEW t \in Transfers, DepositFrame,
         NEW here, NEW code \in ErrorCodes, NEW next \in DepositPCs,
         SetCode(t, here, code, next)
  PROVE  TablesTypeOK' /\ DepositTypeOK'
<1>1. TablesTypeOK'
  BY DEF TypeOK, TablesTypeOK, SetCode, SetErrorCode, DepositFrame
<1>2. DepositTypeOK'
  BY DEF TypeOK, DepositTypeOK, SetCode, Goto, DepositPCs
<1> QED
  BY <1>1, <1>2

\* Whatever the vendor answers, ProcessDeposit draws one of its conclusions.
LEMMA OutcomeTypes == \A resp, amount : Outcome(resp, amount) \in VSSOutcomes
  BY DEF Outcome, VSSOutcomes

\* Every step of POST /deposits, cut-off included, keeps the types.
LEMMA DepositTypes ==
  ASSUME TypeOK, NEW t \in Transfers, DepositFrame,
         CreateDeposit(t) \/ DepositRuns(t) \/ DepositAborts(t)
  PROVE  TypeOK'
<1>1. TablesTypeOK' /\ DepositTypeOK'
  <2> USE DEF DepositPCs, TransferStates
  <2>1. CASE CreateDeposit(t)
    BY <2>1, LedgerAssumption
    DEF TypeOK, TablesTypeOK, DepositTypeOK, CreateDeposit, Create, DepositFrame
  <2>2. CASE ToValidating(t)
    BY <2>2, DepositUpdateTypes DEF ToValidating
  <2>3. CASE ValidatingEvent(t)
    BY <2>3, DepositEventTypes DEF ValidatingEvent
  <2>4. CASE CallVSS(t)
    <3>1. \A s : Outcome(ValidateResponse(s, Amount[t]), Amount[t]) \in VSSOutcomes
      BY OutcomeTypes
    <3>2. TablesTypeOK'
      BY <2>4 DEF TypeOK, TablesTypeOK, CallVSS, DepositFrame
    <3>3. PICK s \in Scenarios[t] :
             \/ /\ dVSS' = [dVSS EXCEPT ![t] = Outcome(ValidateResponse(s, Amount[t]), Amount[t])]
                /\ \E pc \in {"codeV", "toAnalyzing"} : dpc' = [dpc EXCEPT ![t] = pc]
                /\ UNCHANGED dStatus
             \/ Goto(t, "done")
      BY <2>4 DEF CallVSS
    <3>4. DepositTypeOK'
      BY <3>1, <3>3 DEF TypeOK, DepositTypeOK, Goto
    <3> QED
      BY <3>2, <3>4
  <2>5. CASE VSSRejectCode(t)
    BY <2>5, SetCodeTypes DEF VSSRejectCode, VSSErrorCode, ErrorCodes
  <2>6. CASE VSSReject(t)
    BY <2>6, DepositUpdateTypes DEF VSSReject
  <2>7. CASE VSSRejectEvent(t)
    BY <2>7, DepositEventTypes DEF VSSRejectEvent
  <2>8. CASE ToAnalyzing(t)
    BY <2>8, DepositUpdateTypes DEF ToAnalyzing
  <2>9. CASE AnalyzingEvent(t)
    BY <2>9, DepositEventTypes DEF AnalyzingEvent
  <2>10. CASE Evaluate(t)
    BY <2>10 DEF TypeOK, TablesTypeOK, DepositTypeOK, Evaluate, Goto, DepositFrame
  <2>11. CASE FundingRejectCode(t)
    BY <2>11, SetCodeTypes DEF FundingRejectCode, FundingReason, ErrorCodes
  <2>12. CASE FundingReject(t)
    BY <2>12, DepositUpdateTypes DEF FundingReject
  <2>13. CASE FundingRejectEvent(t)
    BY <2>13, DepositEventTypes DEF FundingRejectEvent
  <2>14. CASE Flag(t)
    BY <2>14 DEF TypeOK, TablesTypeOK, DepositTypeOK, Flag, SetReviewReason, ReviewReason,
                 ReviewReasons, Goto, DepositFrame
  <2>15. CASE ToApproved(t)
    BY <2>15, DepositUpdateTypes DEF ToApproved
  <2>16. CASE ApprovedEvent(t)
    BY <2>16, DepositEventTypes DEF ApprovedEvent
  <2>17. CASE PostCredit(t)
    <3>1. ledger' \in [Transfers -> [EntryTypes -> Nat]]
      BY <2>17, PostTypes DEF TypeOK, TablesTypeOK, PostCredit, EntryTypes
    <3> QED
      BY <2>17, <3>1 DEF TypeOK, TablesTypeOK, DepositTypeOK, PostCredit, Goto, DepositFrame
  <2>18. CASE ToFundsPosted(t)
    BY <2>18, DepositUpdateTypes DEF ToFundsPosted
  <2>19. CASE FundsPostedEvent(t)
    BY <2>19, DepositEventTypes DEF FundsPostedEvent
  <2>20. CASE DepositAborts(t)
    BY <2>20 DEF TypeOK, TablesTypeOK, DepositTypeOK, DepositAborts, Goto, DepositFrame
  <2> QED
    BY <2>1, <2>2, <2>3, <2>4, <2>5, <2>6, <2>7, <2>8, <2>9, <2>10, <2>11, <2>12, <2>13,
       <2>14, <2>15, <2>16, <2>17, <2>18, <2>19, <2>20 DEF DepositRuns
<1> QED
  BY <1>1, FrameTypes DEF DepositFrame, TypeOK

\* A call of Transition by an operator's request, won or lost, keeps the types.
LEMMA OperatorUpdateTypes ==
  ASSUME TypeOK, NEW r \in OpRequests, OperatorFrame,
         NEW here, here # "idle", NEW from \in TransferStates, NEW to \in TransferStates,
         NEW event \in OperatorPCs, OperatorUpdate(r, here, from, to, event)
  PROVE  TablesTypeOK' /\ OperatorTypeOK'
<1>1. TablesTypeOK'
  BY DEF TypeOK, TablesTypeOK, OperatorTypeOK, OperatorUpdate, Transition, TransitionFails,
         UpdateState, OperatorFrame
<1>2. OperatorTypeOK'
  BY DEF TypeOK, OperatorTypeOK, OperatorUpdate, OpGoto, OperatorPCs
<1> QED
  BY <1>1, <1>2

\* The audit event of an operator's transition keeps the types.
LEMMA OperatorEventTypes ==
  ASSUME TypeOK, NEW r \in OpRequests, OperatorFrame,
         NEW here, here # "idle", NEW from \in TransferStates, NEW to \in TransferStates,
         NEW next \in OperatorPCs, OperatorEvent(r, here, from, to, next)
  PROVE  TablesTypeOK' /\ OperatorTypeOK'
<1>1. TablesTypeOK'
  BY DEF TypeOK, TablesTypeOK, OperatorTypeOK, OperatorEvent, writeStateChangedEvent,
         OperatorFrame
<1>2. OperatorTypeOK'
  BY DEF TypeOK, OperatorTypeOK, OperatorEvent, OpGoto, OperatorPCs
<1> QED
  BY <1>1, <1>2

\* Every step of POST /operator/actions keeps the types.
LEMMA OperatorTypes ==
  ASSUME TypeOK, NEW r \in OpRequests, OperatorFrame,
         PostAction(r) \/ OperatorRuns(r) \/ OperatorAborts(r)
  PROVE  TypeOK'
<1>1. TablesTypeOK' /\ OperatorTypeOK'
  <2> USE DEF OperatorPCs, TransferStates
  <2>1. CASE PostAction(r)
    BY <2>1 DEF TypeOK, TablesTypeOK, OperatorTypeOK, PostAction, isReviewable, OperatorFrame
  <2>2. CASE Approve(r)
    BY <2>2, OperatorUpdateTypes DEF Approve
  <2>3. CASE ApproveEvent(r)
    BY <2>3, OperatorEventTypes DEF ApproveEvent
  <2>4. CASE ApprovePost(r)
    <3>1. ledger' \in [Transfers -> [EntryTypes -> Nat]]
      BY <2>4, PostTypes DEF TypeOK, TablesTypeOK, OperatorTypeOK, ApprovePost, EntryTypes
    <3> QED
      BY <2>4, <3>1 DEF TypeOK, TablesTypeOK, OperatorTypeOK, ApprovePost, OpGoto, OperatorFrame
  <2>5. CASE ApproveFunds(r)
    BY <2>5, OperatorUpdateTypes DEF ApproveFunds
  <2>6. CASE ApproveFundsEvent(r)
    BY <2>6, OperatorEventTypes DEF ApproveFundsEvent
  <2>7. CASE RejectCode(r)
    BY <2>7 DEF TypeOK, TablesTypeOK, OperatorTypeOK, RejectCode, SetErrorCode, ErrorCodes,
                OpGoto, OperatorFrame
  <2>8. CASE Reject(r)
    BY <2>8, OperatorUpdateTypes DEF Reject, RejectFrom
  <2>9. CASE RejectEvent(r)
    BY <2>9, OperatorEventTypes DEF RejectEvent, RejectFrom
  <2>10. CASE OperatorAborts(r)
    BY <2>10 DEF TypeOK, TablesTypeOK, OperatorTypeOK, OperatorAborts, OpGoto, OperatorFrame
  <2> QED
    BY <2>1, <2>2, <2>3, <2>4, <2>5, <2>6, <2>7, <2>8, <2>9, <2>10 DEF OperatorRuns
<1> QED
  BY <1>1, FrameTypes DEF OperatorFrame, TypeOK

\* Every step of POST /returns keeps the types.
LEMMA ReturnTypes ==
  ASSUME TypeOK, NEW r \in RetRequests, ReturnFrame,
         ProcessReturn(r) \/ ReturnRuns(r) \/ ReturnAborts(r)
  PROVE  TypeOK'
<1>1. TablesTypeOK' /\ ReturnTypeOK'
  <2> USE DEF ReturnPCs, TransferStates, TypeOK, TablesTypeOK, ReturnTypeOK, ReturnFrame
  <2>1. CASE ProcessReturn(r)
    BY <2>1 DEF ProcessReturn, Returnable, None
  <2>2. CASE PostReversal(r) \/ PostFee(r)
    <3>1. ledger' \in [Transfers -> [EntryTypes -> Nat]]
      BY <2>2, PostTypes DEF PostReversal, PostFee, PostReturnEntry, EntryTypes
    <3> QED
      BY <2>2, <3>1 DEF PostReversal, PostFee, PostReturnEntry, RetGoto
  <2>3. CASE ToReturned(r)
    <3>1. TablesTypeOK'
      BY <2>3 DEF ToReturned, UpdateState
    <3>2. ReturnTypeOK'
      BY <2>3 DEF ToReturned, RetGoto
    <3> QED
      BY <3>1, <3>2
  <2>4. CASE RecordReturn(r)
    BY <2>4 DEF RecordReturn, writeStateChangedEvent, CreateNotification, RetGoto, None
  <2>5. CASE CheckBalance(r)
    BY <2>5 DEF CheckBalance, RetGoto
  <2>6. CASE FlagCollections(r)
    BY <2>6 DEF FlagCollections, SetAccountStatus, RetGoto, Statuses
  <2>7. CASE ReturnAborts(r)
    BY <2>7 DEF ReturnAborts, RetGoto
  <2> QED
    BY <2>1, <2>2, <2>3, <2>4, <2>5, <2>6, <2>7 DEF ReturnRuns
<1> QED
  BY <1>1, FrameTypes DEF ReturnFrame, TypeOK

\* Moving on to the next batch: the queue shrinks, and the trigger ends with it.
LEMMA NextBatchTypes ==
  ASSUME TypeOK, NEW g \in Triggers, NextBatch(g), sQueue[g] # <<>>
  PROVE  /\ spc' \in [Triggers -> TriggerPCs]
         /\ sQueue' \in [Triggers -> Seq(Batches)]
         /\ \A h \in Triggers \ {g} : spc'[h] = spc[h] /\ sQueue'[h] = sQueue[h]
         /\ sQueue'[g] = Tail(sQueue[g])
         /\ spc'[g] \in {"idle", "submit"}
         /\ spc'[g] = "submit" => sQueue'[g] # <<>>
  BY DEF TypeOK, TriggerTypeOK, TriggerPCs, NextBatch, SetGoto

\* The batch at the head of a queue, and every later one, has a file.
LEMMA QueueHeads ==
  ASSUME TypeOK, NEW g \in Triggers, sQueue[g] # <<>>
  PROVE  /\ Head(sQueue[g]) \in Batches
         /\ batchFile[Head(sQueue[g])] \in Files
         /\ \A i \in DOMAIN Tail(sQueue[g]) : batchFile[Tail(sQueue[g])[i]] \in Files
<1>1. sQueue[g] \in Seq(Batches)
  BY DEF TypeOK, TriggerTypeOK
<1>2. Head(sQueue[g]) = sQueue[g][1] /\ 1 \in DOMAIN sQueue[g]
  BY <1>1
<1>3. \A i \in DOMAIN Tail(sQueue[g]) :
        i + 1 \in DOMAIN sQueue[g] /\ Tail(sQueue[g])[i] = sQueue[g][i + 1]
  BY <1>1
<1> QED
  BY <1>1, <1>2, <1>3 DEF TypeOK, TriggerLocalsOK

\* Passing on to the next batch keeps what a trigger relies on.
LEMMA NextBatchLocals ==
  ASSUME TypeOK, NEW g \in Triggers, NextBatch(g), sQueue[g] # <<>>,
         UNCHANGED <<batchFile, sCorr, sBatch>>,
         \A h \in Triggers \ {g} : sDone'[h] = sDone[h]
  PROVE  TriggerLocalsOK'
<1> SUFFICES ASSUME NEW h \in Triggers
    PROVE /\ spc'[h] \in {"write", "batch", "link"} => sCorr'[h] \in Correspondents
          /\ spc'[h] = "link" => sBatch'[h] \in Batches /\ batchFile'[sBatch'[h]] \in Files
          /\ spc'[h] \in {"submit", "ack", "complete", "record"} => sQueue'[h] # <<>>
          /\ spc'[h] = "record" => sDone'[h] \in Transfers
          /\ \A i \in DOMAIN sQueue'[h] : batchFile'[sQueue'[h][i]] \in Files
  BY DEF TriggerLocalsOK
<1>1. CASE h = g
  BY <1>1, NextBatchTypes, QueueHeads
<1>2. CASE h # g
  <2>1. spc'[h] = spc[h] /\ sQueue'[h] = sQueue[h] /\ sDone'[h] = sDone[h]
    BY <1>2, NextBatchTypes
  <2> QED
    BY <2>1 DEF TypeOK, TriggerLocalsOK
<1> QED
  BY <1>1, <1>2

\* The elements of a sequence to which one is appended.
LEMMA AppendElements ==
  ASSUME NEW S, NEW q \in Seq(S), NEW e \in S
  PROVE  /\ Append(q, e) # <<>>
         /\ \A i \in DOMAIN Append(q, e) :
               (i \in DOMAIN q /\ Append(q, e)[i] = q[i]) \/ Append(q, e)[i] = e
<1>1. Len(Append(q, e)) = Len(q) + 1 /\ Len(q) \in Nat
  OBVIOUS
<1>2. Append(q, e) # <<>>
  BY <1>1
<1> QED
  BY <1>2

\* Appending the batch just built to a queue.
LEMMA QueueAppends ==
  ASSUME TypeOK, NEW g \in Triggers,
         sBatch[g] \in Batches, batchFile[sBatch[g]] \in Files
  PROVE  /\ Append(sQueue[g], sBatch[g]) # <<>>
         /\ \A i \in DOMAIN Append(sQueue[g], sBatch[g]) :
               batchFile[Append(sQueue[g], sBatch[g])[i]] \in Files
<1>1. /\ sQueue[g] \in Seq(Batches)
      /\ \A i \in DOMAIN sQueue[g] : batchFile[sQueue[g][i]] \in Files
  BY DEF TypeOK, TriggerTypeOK, TriggerLocalsOK
<1>2. /\ Append(sQueue[g], sBatch[g]) # <<>>
      /\ \A i \in DOMAIN Append(sQueue[g], sBatch[g]) :
            \/ i \in DOMAIN sQueue[g] /\ Append(sQueue[g], sBatch[g])[i] = sQueue[g][i]
            \/ Append(sQueue[g], sBatch[g])[i] = sBatch[g]
  BY <1>1, AppendElements
<1> QED
  BY <1>1, <1>2

\* Every step of POST /settlement/trigger keeps the types.
LEMMA TriggerTypes ==
  ASSUME TypeOK, NEW g \in Triggers, TriggerFrame,
         ListFundsPosted(g) \/ TriggerRuns(g) \/ TriggerAborts(g)
  PROVE  TypeOK'
<1>1. TablesTypeOK' /\ SettlementTypeOK' /\ TriggerTypeOK' /\ TriggerLocalsOK'
  <2> USE DEF TypeOK, TablesTypeOK, TransferStates, SettlementTypeOK, TriggerTypeOK,
              TriggerLocalsOK, TriggerPCs, BatchStatuses, batchVars, SetGoto, TriggerFrame
  <2>1. CASE ListFundsPosted(g)
    BY <2>1 DEF ListFundsPosted
  <2>0. CASE OpenSettlementFile(g)
    BY <2>0, FileAssumption DEF OpenSettlementFile
  <2>2. CASE WriteSettlementFile(g)
    <3>1. Group(g, sCorr[g]) \subseteq Transfers /\ FileOf[sCorr[g]] \in Files
      BY <2>2, FileAssumption DEF WriteSettlementFile, Group
    <3>2. TablesTypeOK' /\ SettlementTypeOK'
      BY <2>2, <3>1 DEF WriteSettlementFile
    <3> QED
      BY <2>2, <3>2 DEF WriteSettlementFile
  <2>3. CASE CreateBatch(g)
    BY <2>3, FileAssumption DEF CreateBatch
  <2>4. CASE LinkTransfer(g)
    <3> PICK t \in Group(g, sCorr[g]) :
          /\ \/ batchOf' = [batchOf EXCEPT ![t] = sBatch[g]]
             \/ Faults /\ UNCHANGED batchOf
          /\ sListed' = [sListed EXCEPT ![g] = @ \ {t}]
          /\ LET last == Group(g, sCorr[g]) = {t}
             IN  /\ sCorr' = [sCorr EXCEPT ![g] = IF last THEN None ELSE @]
                 /\ sBatch' = [sBatch EXCEPT ![g] = IF last THEN None ELSE @]
                 /\ sQueue' = [sQueue EXCEPT ![g] = IF last THEN Append(@, sBatch[g]) ELSE @]
                 /\ SetGoto(g, IF ~last THEN "link"
                               ELSE IF sListed[g] = {t} THEN "submit" ELSE "file")
      BY <2>4 DEF LinkTransfer
    <3>1. /\ t \in Transfers /\ sBatch[g] \in Batches
          /\ sQueue[g] \in Seq(Batches)
          /\ batchFile[sBatch[g]] \in Files
          /\ spc[g] = "link"
          /\ UNCHANGED <<state, events, batchStatus, batchFile, settledAt, fileData, torn, presented,
                         sTids, sDone>>
      BY <2>4 DEF LinkTransfer, Group
    <3>2. TablesTypeOK' /\ SettlementTypeOK'
      BY <3>1
    <3>3. TriggerTypeOK'
      BY <3>1
    <3>4. TriggerLocalsOK'
      <4>1. CASE Group(g, sCorr[g]) = {t}
        <5>1. /\ Append(sQueue[g], sBatch[g]) # <<>>
              /\ \A i \in DOMAIN Append(sQueue[g], sBatch[g]) :
                    batchFile[Append(sQueue[g], sBatch[g])[i]] \in Files
          BY <3>1, QueueAppends
        <5>2. sQueue' = [sQueue EXCEPT ![g] = Append(@, sBatch[g])]
          BY <4>1
        <5>3. spc' = [spc EXCEPT ![g] = IF sListed[g] = {t} THEN "submit" ELSE "file"]
          BY <4>1
        <5> QED
          BY <3>1, <4>1, <5>1, <5>2, <5>3
      <4>2. CASE Group(g, sCorr[g]) # {t}
        BY <3>1, <4>2
      <4> QED
        BY <4>1, <4>2
    <3> QED
      BY <3>2, <3>3, <3>4
  <2>5. CASE SubmitBatch(g)
    <3>1. sQueue[g] # <<>>
      BY <2>5 DEF SubmitBatch
    <3>2. TablesTypeOK' /\ SettlementTypeOK'
      <4> DEFINE b == Head(sQueue[g])
      <4>1. b \in Batches /\ fileData[batchFile[b]] \subseteq Transfers
        BY <3>1, QueueHeads
      <4>2. presented' = presented \union ({b} \X fileData[batchFile[b]]) \/ UNCHANGED presented
        BY <2>5 DEF SubmitBatch, Present
      <4>3. presented' \subseteq Batches \X Transfers
        BY <4>1, <4>2
      <4>4. batchStatus' \in [Batches -> BatchStatuses]
        BY <2>5, <4>1 DEF SubmitBatch
      <4>5. TablesTypeOK'
        BY <2>5 DEF SubmitBatch
      <4> QED
        BY <2>5, <4>3, <4>4, <4>5 DEF SubmitBatch
    <3>3. CASE NextBatch(g)
      BY <2>5, <3>1, <3>2, <3>3, NextBatchTypes, NextBatchLocals DEF SubmitBatch
    <3>4. CASE SetGoto(g, "ack") /\ UNCHANGED sQueue
      BY <2>5, <3>1, <3>2, <3>4 DEF SubmitBatch
    <3> QED
      BY <2>5, <3>3, <3>4 DEF SubmitBatch
  <2>6. CASE AcknowledgeBatch(g)
    <3>1. sQueue[g] # <<>>
      BY <2>6 DEF AcknowledgeBatch
    <3>2. TablesTypeOK' /\ SettlementTypeOK' /\ sTids' \in [Triggers -> SUBSET Transfers]
      <4>1. Head(sQueue[g]) \in Batches
        BY <3>1, QueueHeads
      <4>2. batchStatus' \in [Batches -> BatchStatuses]
        BY <2>6, <4>1 DEF AcknowledgeBatch
      <4>3. sTids' \in [Triggers -> SUBSET Transfers]
        <5>1. LinkedTo(Head(sQueue[g])) \in SUBSET Transfers
          BY DEF LinkedTo
        <5> QED
          BY <2>6, <5>1 DEF AcknowledgeBatch
      <4>4. TablesTypeOK'
        BY <2>6 DEF AcknowledgeBatch
      <4> QED
        BY <2>6, <4>2, <4>3, <4>4 DEF AcknowledgeBatch
    <3>3. CASE NextBatch(g)
      BY <2>6, <3>1, <3>2, <3>3, NextBatchTypes, NextBatchLocals DEF AcknowledgeBatch
    <3>4. CASE SetGoto(g, "complete") /\ UNCHANGED sQueue
      BY <2>6, <3>1, <3>2, <3>4 DEF AcknowledgeBatch
    <3> QED
      BY <2>6, <3>3, <3>4 DEF AcknowledgeBatch
  <2>7. CASE CompleteTransfer(g)
    <3>1. sQueue[g] # <<>>
      BY <2>7 DEF CompleteTransfer
    <3>2. /\ TablesTypeOK' /\ SettlementTypeOK'
          /\ sTids' \in [Triggers -> SUBSET Transfers]
          /\ sDone' \in [Triggers -> Transfers \union {None}]
      <4>1. TablesTypeOK'
        BY <2>7 DEF CompleteTransfer, UpdateState
      <4>2. SettlementTypeOK'
        BY <2>7 DEF CompleteTransfer
      <4>3. sTids' \in [Triggers -> SUBSET Transfers]
        BY <2>7 DEF CompleteTransfer
      <4>4. sDone' \in [Triggers -> Transfers \union {None}]
        <5>1. UNCHANGED sDone \/ \E t \in Transfers : sDone' = [sDone EXCEPT ![g] = t]
          BY <2>7 DEF CompleteTransfer
        <5> QED
          BY <5>1
      <4> QED
        BY <4>1, <4>2, <4>3, <4>4
    <3>3. CASE NextBatch(g) /\ UNCHANGED sDone
      BY <2>7, <3>1, <3>2, <3>3, NextBatchTypes, NextBatchLocals DEF CompleteTransfer
    <3>4. CASE UNCHANGED <<spc, sQueue, sDone>>
      BY <2>7, <3>2, <3>4 DEF CompleteTransfer
    <3>5. CASE SetGoto(g, "record") /\ UNCHANGED sQueue
               /\ \E t \in Transfers : sDone' = [sDone EXCEPT ![g] = t]
      BY <2>7, <3>1, <3>2, <3>5 DEF CompleteTransfer
    <3> QED
      BY <2>7, <3>3, <3>4, <3>5 DEF CompleteTransfer
  <2>8. CASE RecordCompletion(g)
    <3>1. sQueue[g] # <<>> /\ sDone[g] \in Transfers
      BY <2>8 DEF RecordCompletion
    <3>2. /\ TablesTypeOK' /\ SettlementTypeOK'
          /\ sDone' \in [Triggers -> Transfers \union {None}]
      <4>1. Head(sQueue[g]) \in Batches
        BY <3>1, QueueHeads
      <4>2. TablesTypeOK'
        BY <2>8, <3>1 DEF RecordCompletion, writeStateChangedEvent
      <4>3. SettlementTypeOK'
        <5>1. batchOf' \in [Transfers -> Batches \union {None}]
          BY <2>8, <3>1, <4>1 DEF RecordCompletion
        <5>2. settledAt' \subseteq Transfers
          BY <2>8, <3>1 DEF RecordCompletion
        <5> QED
          BY <2>8, <5>1, <5>2 DEF RecordCompletion
      <4>4. sDone' \in [Triggers -> Transfers \union {None}]
        BY <2>8 DEF RecordCompletion
      <4> QED
        BY <4>2, <4>3, <4>4
    <3>3. CASE NextBatch(g)
      BY <2>8, <3>1, <3>2, <3>3, NextBatchTypes, NextBatchLocals DEF RecordCompletion
    <3>4. CASE SetGoto(g, "complete") /\ UNCHANGED sQueue
      BY <2>8, <3>1, <3>2, <3>4 DEF RecordCompletion
    <3> QED
      BY <2>8, <3>3, <3>4 DEF RecordCompletion
  <2>9. CASE TriggerAborts(g)
    BY <2>9 DEF TriggerAborts
  <2> QED
    BY <2>0, <2>1, <2>2, <2>3, <2>4, <2>5, <2>6, <2>7, <2>8, <2>9 DEF TriggerRuns
<1> QED
  BY <1>1, FrameTypes DEF TriggerFrame, TypeOK

\* Every step of POST /health/settlement/trigger keeps the types.
LEMMA HealthTypes ==
  ASSUME TypeOK, NEW h \in HealthRequests, HealthFrame,
         SelectReady(h) \/ HealthRuns(h) \/ HealthAborts(h)
  PROVE  TypeOK'
<1>1. TablesTypeOK' /\ DepositTypeOK' /\ OperatorTypeOK' /\ ReturnTypeOK'
  BY FrameTypes DEF TypeOK, TablesTypeOK, HealthFrame
<1>2. TriggerTypeOK' /\ TriggerLocalsOK'
  BY DEF TypeOK, TriggerTypeOK, TriggerLocalsOK, HealthFrame
<1>3. SettlementTypeOK' /\ HealthTypeOK'
  <2> USE DEF TypeOK, SettlementTypeOK, HealthTypeOK, HealthPCs, HealthFrame
  <2>1. CASE SelectReady(h)
    BY <2>1 DEF SelectReady
  <2>2. CASE InsertAcknowledged(h)
    <3>1. PICK b \in Batches :
            /\ batchStatus' = [batchStatus EXCEPT ![b] = "ACKNOWLEDGED"]
            /\ \/ /\ hBatch' = [hBatch EXCEPT ![h] = b]
                  /\ hpc' = [hpc EXCEPT ![h] = "link"]
                  /\ UNCHANGED hReady
               \/ HealthEnds(h)
      BY <2>2 DEF InsertAcknowledged
    <3>2. SettlementTypeOK'
      BY <2>2, <3>1 DEF InsertAcknowledged, BatchStatuses
    <3>3. HealthTypeOK'
      BY <3>1 DEF HealthEnds
    <3> QED
      BY <3>2, <3>3
  <2>3. CASE LinkUnbatched(h)
    BY <2>3 DEF LinkUnbatched, HealthEnds
  <2>4. CASE HealthAborts(h)
    BY <2>4 DEF HealthAborts, HealthEnds
  <2> QED
    BY <2>1, <2>2, <2>3, <2>4 DEF HealthRuns
<1> QED
  BY <1>1, <1>2, <1>3 DEF TypeOK

\* Any step of the server keeps the types.
LEMMA NextTypes == TypeOK /\ [Next]_vars => TypeOK'
<1> SUFFICES ASSUME TypeOK, [Next]_vars PROVE TypeOK'
  OBVIOUS
<1>1. CASE Next
  BY <1>1, DepositTypes, OperatorTypes, ReturnTypes, TriggerTypes, HealthTypes
  DEF Next, DepositStep, OperatorStep, ReturnStep, TriggerStep
<1>2. CASE UNCHANGED vars
  BY <1>2, FrameTypes DEF vars, TypeOK, TablesTypeOK
<1> QED
  BY <1>1, <1>2

\* Type correctness of the composed system.
THEOREM TypeCorrect == Spec => []TypeOK
  BY NextTypes, InitTypes, PTL DEF Spec

----------------------------------------------------------------------------
(* Money *)

\* Moving a transfer along the table keeps state and ledger in agreement, provided
\* the credit is posted before FundsPosted and the fee before Returned.
LEMMA MoveMoney ==
  ASSUME TypeOK, MoneyMatchesState, NEW t \in Transfers, NEW from, NEW to,
         isValidTransition(from, to), UpdateState(t, from, to), UNCHANGED ledger,
         to = "FundsPosted" => ledger[t]["FREE"] = 1,
         to = "Returned" => ledger[t]["RETURNED_CHECK_FEE"] = 1
  PROVE  MoneyMatchesState'
<1>1. /\ ledger[t]["FREE"] \in Nat /\ ledger[t]["REVERSAL"] \in Nat
      /\ ledger[t]["RETURNED_CHECK_FEE"] \in Nat
  BY DEF TypeOK, TablesTypeOK, EntryTypes
<1>2. state[t] = from /\ state' = [state EXCEPT ![t] = to] /\ state \in [Transfers -> TransferStates \union {"none"}]
  BY DEF UpdateState, TypeOK, TablesTypeOK
<1> QED
  BY <1>1, <1>2 DEF MoneyMatchesState, isValidTransition, validTransitions

\* Posting a pair keeps them in agreement, provided a credit is posted only in
\* Approved, a reversal only once funded and a fee only once reversed.
LEMMA PostMoney ==
  ASSUME TypeOK, MoneyMatchesState, NEW t \in Transfers, NEW type \in EntryTypes,
         PostDoubleEntry(t, type), UNCHANGED state,
         type = "FREE" => state[t] = "Approved",
         type = "REVERSAL" => state[t] \in {"FundsPosted", "Completed", "Returned"},
         type = "RETURNED_CHECK_FEE" => ledger[t]["REVERSAL"] = 1
  PROVE  /\ MoneyMatchesState'
         /\ ledger[t][type] = 0 /\ ledger'[t][type] = 1
         /\ \A u \in Transfers, y \in EntryTypes :
               <<u, y>> # <<t, type>> => ledger'[u][y] = ledger[u][y]
<1>1. /\ ledger \in [Transfers -> [EntryTypes -> Nat]]
      /\ ledger[t][type] = 0 /\ ledger' = [ledger EXCEPT ![t][type] = @ + 1]
  BY DEF TypeOK, TablesTypeOK, PostDoubleEntry, CanPost
<1>2. /\ ledger'[t][type] = 1
      /\ \A u \in Transfers, y \in EntryTypes :
            <<u, y>> # <<t, type>> => ledger'[u][y] = ledger[u][y]
  BY <1>1
<1>3. MoneyMatchesState'
  <2> SUFFICES ASSUME NEW u \in Transfers
      PROVE /\ ledger'[u]["FREE"] <= 1
            /\ ledger'[u]["REVERSAL"] <= ledger'[u]["FREE"]
            /\ ledger'[u]["RETURNED_CHECK_FEE"] <= ledger'[u]["REVERSAL"]
            /\ ledger'[u]["FREE"] = 1 =>
                  state'[u] \in {"Approved", "FundsPosted", "Completed", "Returned"}
            /\ state'[u] \in {"FundsPosted", "Completed", "Returned"} => ledger'[u]["FREE"] = 1
            /\ state'[u] = "Approved" => ledger'[u]["REVERSAL"] = 0
            /\ state'[u] = "Returned" => ledger'[u]["RETURNED_CHECK_FEE"] = 1
    BY DEF MoneyMatchesState
  <2>1. /\ ledger[u]["FREE"] \in Nat /\ ledger[u]["REVERSAL"] \in Nat
        /\ ledger[u]["RETURNED_CHECK_FEE"] \in Nat
    BY <1>1 DEF EntryTypes
  <2>2. CASE u # t
    <3>1. /\ ledger'[u]["FREE"] = ledger[u]["FREE"]
          /\ ledger'[u]["REVERSAL"] = ledger[u]["REVERSAL"]
          /\ ledger'[u]["RETURNED_CHECK_FEE"] = ledger[u]["RETURNED_CHECK_FEE"]
      BY <1>2, <2>2 DEF EntryTypes
    <3> QED
      BY <3>1 DEF MoneyMatchesState
  <2>3. CASE u = t /\ type = "FREE"
    <3>1. /\ ledger'[u]["FREE"] = 1
          /\ ledger'[u]["REVERSAL"] = ledger[u]["REVERSAL"]
          /\ ledger'[u]["RETURNED_CHECK_FEE"] = ledger[u]["RETURNED_CHECK_FEE"]
      BY <1>2, <2>3 DEF EntryTypes
    <3> QED
      BY <1>1, <2>1, <2>3, <3>1 DEF MoneyMatchesState
  <2>4. CASE u = t /\ type = "REVERSAL"
    <3>1. /\ ledger'[u]["FREE"] = ledger[u]["FREE"]
          /\ ledger'[u]["REVERSAL"] = 1
          /\ ledger'[u]["RETURNED_CHECK_FEE"] = ledger[u]["RETURNED_CHECK_FEE"]
      BY <1>2, <2>4 DEF EntryTypes
    <3> QED
      BY <1>1, <2>1, <2>4, <3>1 DEF MoneyMatchesState
  <2>5. CASE u = t /\ type = "RETURNED_CHECK_FEE"
    <3>1. /\ ledger'[u]["FREE"] = ledger[u]["FREE"]
          /\ ledger'[u]["REVERSAL"] = ledger[u]["REVERSAL"]
          /\ ledger'[u]["RETURNED_CHECK_FEE"] = 1
      BY <1>2, <2>5 DEF EntryTypes
    <3> QED
      BY <1>1, <2>1, <2>5, <3>1 DEF MoneyMatchesState
  <2> QED
    BY <2>2, <2>3, <2>4, <2>5 DEF EntryTypes
<1> QED
  BY <1>1, <1>2, <1>3

\* The same two kinds of step are steps of the abstract life cycle.
LEMMA MoveRefines ==
  ASSUME TypeOK, MoneyMatchesState, NEW t \in Transfers, NEW from, NEW to,
         isValidTransition(from, to), UpdateState(t, from, to), UNCHANGED ledger,
         to = "FundsPosted" => ledger[t]["FREE"] = 1,
         to = "Returned" => ledger[t]["RETURNED_CHECK_FEE"] = 1
  PROVE  Lifecycle!LifecycleNext
<1>1. Lifecycle!Move(t, from, to)
  BY DEF UpdateState, Lifecycle!Move
<1>2. /\ to = "FundsPosted" => Lifecycle!Posted(t, "FREE")
      /\ to = "Completed" => Lifecycle!Posted(t, "FREE")
  BY DEF UpdateState, MoneyMatchesState, Lifecycle!Posted, isValidTransition, validTransitions
<1>3. to = "Returned" =>
         Lifecycle!Posted(t, "REVERSAL") /\ Lifecycle!Posted(t, "RETURNED_CHECK_FEE")
  <2>1. /\ ledger[t]["FREE"] \in Nat /\ ledger[t]["REVERSAL"] \in Nat
        /\ ledger[t]["RETURNED_CHECK_FEE"] \in Nat
    BY DEF TypeOK, TablesTypeOK, EntryTypes
  <2> QED
    BY <2>1 DEF MoneyMatchesState, Lifecycle!Posted
<1> QED
  BY <1>1, <1>2, <1>3
  DEF isValidTransition, validTransitions, Lifecycle!LifecycleNext, Lifecycle!Review,
      Lifecycle!Decline, Lifecycle!Fund, Lifecycle!Settle, Lifecycle!Return

\* A posting allowed by the states is a posting of the life cycle.
LEMMA PostRefines ==
  ASSUME TypeOK, MoneyMatchesState, NEW t \in Transfers, NEW type \in EntryTypes,
         PostDoubleEntry(t, type), UNCHANGED state,
         type = "FREE" => state[t] = "Approved",
         type = "REVERSAL" => state[t] \in {"FundsPosted", "Completed", "Returned"},
         type = "RETURNED_CHECK_FEE" => ledger[t]["REVERSAL"] = 1
  PROVE  Lifecycle!LifecycleNext
<1>1. /\ ledger[t]["FREE"] \in Nat /\ ledger[t]["REVERSAL"] \in Nat
      /\ ledger[t]["RETURNED_CHECK_FEE"] \in Nat
  BY DEF TypeOK, TablesTypeOK, EntryTypes
<1>2. Lifecycle!Post(t, type)
  <2>1. ledger[t][type] = 0 /\ ledger' = [ledger EXCEPT ![t][type] = ledger[t][type] + 1]
    BY DEF PostDoubleEntry, CanPost
  <2> QED
    BY <2>1 DEF Lifecycle!Post
<1>3. ledger[t][type] = 0
  BY DEF PostDoubleEntry, CanPost
<1>4. CASE type = "FREE"
  BY <1>2, <1>4 DEF Lifecycle!LifecycleNext, Lifecycle!Credit
<1>5. CASE type = "REVERSAL"
  <2>1. Lifecycle!Funded(t) /\ Lifecycle!Posted(t, "FREE")
    BY <1>1, <1>3, <1>5 DEF MoneyMatchesState, Lifecycle!Funded, Lifecycle!Posted
  <2> QED
    BY <1>2, <1>5, <2>1 DEF Lifecycle!LifecycleNext, Lifecycle!Reverse
<1>6. CASE type = "RETURNED_CHECK_FEE"
  <2>1. Lifecycle!Funded(t) /\ Lifecycle!Posted(t, "REVERSAL")
    BY <1>1, <1>3, <1>6 DEF MoneyMatchesState, Lifecycle!Funded, Lifecycle!Posted
  <2> QED
    BY <1>2, <1>6, <2>1 DEF Lifecycle!LifecycleNext, Lifecycle!Charge
<1> QED
  BY <1>4, <1>5, <1>6 DEF EntryTypes

\* Steps of other requests do not take back what a return relies on.
LEMMA ReturnProgressKept ==
  ASSUME TypeOK, ReturnProgress, UNCHANGED retVars,
         \A t \in Transfers :
            /\ state[t] \in {"FundsPosted", "Completed", "Returned"} =>
                  state'[t] \in {"FundsPosted", "Completed", "Returned"}
            /\ ledger[t]["REVERSAL"] = 1 => ledger'[t]["REVERSAL"] = 1
            /\ ledger[t]["RETURNED_CHECK_FEE"] = 1 => ledger'[t]["RETURNED_CHECK_FEE"] = 1
  PROVE  ReturnProgress'
  BY DEF TypeOK, ReturnTypeOK, ReturnProgress, retVars

----------------------------------------------------------------------------
(* The invariant is inductive, one kind of request at a time.  MoneyStep is *)
(* what every step must establish besides the types.                        *)

MoneyStep ==
    /\ MoneyMatchesState'
    /\ OneApprover'
    /\ ReturnProgress'
    /\ [Lifecycle!LifecycleNext]_<<state, ledger>>

\* A deposit step that moves neither the transfer nor money.
LEMMA DepositQuiet ==
  ASSUME MoneyInv, NEW t \in Transfers, DepositFrame, UNCHANGED <<state, ledger>>,
         NEW pc, dpc' = [dpc EXCEPT ![t] = pc],
         pc \notin Approving \/ (dpc[t] = "evApproved" /\ pc = "post")
  PROVE  MoneyStep
<1>1. MoneyMatchesState'
  BY DEF MoneyInv, MoneyMatchesState
<1>2. OneApprover'
  BY DEF MoneyInv, TypeOK, DepositTypeOK, OneApprover, Approving, CreditAt, DepositFrame, opVars
<1>3. ReturnProgress'
  BY ReturnProgressKept DEF MoneyInv, DepositFrame
<1> QED
  BY <1>1, <1>2, <1>3 DEF MoneyStep

\* A call of Transition by a deposit request, up to the approval.
LEMMA DepositMoves ==
  ASSUME MoneyInv, NEW t \in Transfers, DepositFrame,
         NEW here, NEW from, NEW to, NEW event,
         here \notin Approving, from \notin {"Approved", "FundsPosted", "Completed"},
         event \in Approving => event = "evApproved" /\ to = "Approved",
         DepositUpdate(t, here, from, to, event)
  PROVE  MoneyStep
<1>1. CASE TransitionFails(t, from, to) /\ Goto(t, "done")
  BY <1>1, DepositQuiet DEF DepositUpdate, TransitionFails, Goto, Approving
<1>2. CASE Transition(t, from, to) /\ Goto(t, event)
  <2>1. /\ isValidTransition(from, to) /\ UpdateState(t, from, to) /\ UNCHANGED ledger
        /\ to \notin {"FundsPosted", "Returned"}
        /\ state[t] = from /\ state' = [state EXCEPT ![t] = to]
        /\ dpc' = [dpc EXCEPT ![t] = event]
    BY <1>2 DEF DepositUpdate, Transition, UpdateState, Goto, isValidTransition, validTransitions
  <2>2. MoneyMatchesState' /\ Lifecycle!LifecycleNext
    BY <2>1, MoveMoney, MoveRefines DEF MoneyInv
  <2>3. OneApprover'
    <3>1. to = "Approved" => from = "Analyzing"
      BY <2>1 DEF isValidTransition, validTransitions
    <3>2. to = "Approved" => ledger[t]["FREE"] = 0
      <4>1. ledger[t]["FREE"] \in Nat
        BY DEF MoneyInv, TypeOK, TablesTypeOK, EntryTypes
      <4> QED
        BY <2>1, <3>1, <4>1 DEF MoneyInv, MoneyMatchesState
    <3> QED
      BY <2>1, <3>2 DEF MoneyInv, TypeOK, TablesTypeOK, DepositTypeOK, OneApprover, Approving,
                        CreditAt, DepositFrame, opVars
  <2>4. ReturnProgress'
    <3>1. from # "Returned"
      BY <2>1 DEF isValidTransition, validTransitions
    <3> QED
      BY <2>1, <3>1, ReturnProgressKept DEF MoneyInv, TypeOK, TablesTypeOK, DepositFrame
  <2> QED
    BY <2>2, <2>3, <2>4 DEF MoneyStep
<1> QED
  BY <1>1, <1>2 DEF DepositUpdate

\* Writing an audit event moves neither a state nor money.
LEMMA DepositEventQuiet ==
  ASSUME MoneyInv, NEW t \in Transfers, DepositFrame,
         NEW here, NEW from, NEW to, NEW next, DepositEvent(t, here, from, to, next),
         next \notin Approving \/ (here = "evApproved" /\ next = "post")
  PROVE  MoneyStep
  BY DepositQuiet DEF DepositEvent, Goto

\* Every step of POST /deposits keeps the invariant and maps to the life cycle.
LEMMA DepositMoney ==
  ASSUME MoneyInv, NEW t \in Transfers, DepositFrame,
         CreateDeposit(t) \/ DepositRuns(t) \/ DepositAborts(t)
  PROVE  MoneyStep
<1> USE DEF Approving
<1>1. CASE CreateDeposit(t)
  <2>1. /\ state[t] = "none" /\ state' = [state EXCEPT ![t] = "Requested"]
        /\ dpc' = [dpc EXCEPT ![t] = "toValidating"] /\ UNCHANGED ledger
    BY <1>1 DEF CreateDeposit, Create
  <2>2. MoneyMatchesState'
    <3>1. /\ ledger[t]["FREE"] \in Nat /\ ledger[t]["REVERSAL"] \in Nat
          /\ ledger[t]["RETURNED_CHECK_FEE"] \in Nat
      BY DEF MoneyInv, TypeOK, TablesTypeOK, EntryTypes
    <3> QED
      BY <2>1, <3>1 DEF MoneyInv, TypeOK, TablesTypeOK, MoneyMatchesState
  <2>3. OneApprover'
    BY <2>1 DEF MoneyInv, TypeOK, TablesTypeOK, DepositTypeOK, OneApprover, CreditAt,
                DepositFrame, opVars
  <2>4. ReturnProgress'
    BY <2>1, ReturnProgressKept DEF MoneyInv, TypeOK, TablesTypeOK, DepositFrame
  <2>5. Lifecycle!LifecycleNext
    BY <2>1 DEF Lifecycle!LifecycleNext, Lifecycle!Open, Lifecycle!Move
  <2> QED
    BY <2>2, <2>3, <2>4, <2>5 DEF MoneyStep
<1>2. CASE ToValidating(t)
  BY <1>2, DepositMoves DEF ToValidating
<1>3. CASE ValidatingEvent(t)
  BY <1>3, DepositEventQuiet DEF ValidatingEvent
<1>4. CASE CallVSS(t)
  <2>1. UNCHANGED <<state, ledger>> /\ \E pc \in {"codeV", "toAnalyzing", "done"} : dpc' = [dpc EXCEPT ![t] = pc]
    BY <1>4 DEF CallVSS, Goto
  <2> QED
    BY <2>1, DepositQuiet
<1>5. CASE VSSRejectCode(t) \/ FundingRejectCode(t)
  BY <1>5, DepositQuiet DEF VSSRejectCode, FundingRejectCode, SetCode, Goto
<1>6. CASE VSSReject(t)
  BY <1>6, DepositMoves DEF VSSReject
<1>7. CASE VSSRejectEvent(t)
  BY <1>7, DepositEventQuiet DEF VSSRejectEvent
<1>8. CASE ToAnalyzing(t)
  BY <1>8, DepositMoves DEF ToAnalyzing
<1>9. CASE AnalyzingEvent(t)
  BY <1>9, DepositEventQuiet DEF AnalyzingEvent
<1>10. CASE Evaluate(t)
  <2>1. /\ UNCHANGED <<state, ledger>>
        /\ \E pc \in {"codeA", "flag", "toApproved"} : dpc' = [dpc EXCEPT ![t] = pc]
    BY <1>10 DEF Evaluate, Goto
  <2> QED
    BY <2>1, DepositQuiet
<1>11. CASE FundingReject(t)
  BY <1>11, DepositMoves DEF FundingReject
<1>12. CASE FundingRejectEvent(t)
  BY <1>12, DepositEventQuiet DEF FundingRejectEvent
<1>13. CASE Flag(t)
  BY <1>13, DepositQuiet DEF Flag, Goto
<1>14. CASE ToApproved(t)
  BY <1>14, DepositMoves DEF ToApproved
<1>15. CASE ApprovedEvent(t)
  BY <1>15, DepositEventQuiet DEF ApprovedEvent
<1>16. CASE PostCredit(t)
  <2>1. CASE PostFails(t, "FREE") /\ Goto(t, "done")
    BY <1>16, <2>1, DepositQuiet DEF PostCredit, PostFails, Goto
  <2>2. CASE PostDoubleEntry(t, "FREE") /\ Goto(t, "toFundsPosted")
    <3>1. /\ dpc[t] = "post" /\ UNCHANGED state /\ "FREE" \in EntryTypes
          /\ state[t] = "Approved" /\ dpc' = [dpc EXCEPT ![t] = "toFundsPosted"]
      BY <1>16, <2>2 DEF PostCredit, MoneyInv, OneApprover, EntryTypes, Goto
    <3>2. /\ MoneyMatchesState' /\ Lifecycle!LifecycleNext
          /\ ledger'[t]["FREE"] = 1
          /\ \A u \in Transfers, y \in EntryTypes :
                <<u, y>> # <<t, "FREE">> => ledger'[u][y] = ledger[u][y]
      BY <2>2, <3>1, PostMoney, PostRefines DEF MoneyInv
    <3>3. \A u \in Transfers :
            /\ u # t => ledger'[u]["FREE"] = ledger[u]["FREE"]
            /\ ledger'[u]["REVERSAL"] = ledger[u]["REVERSAL"]
            /\ ledger'[u]["RETURNED_CHECK_FEE"] = ledger[u]["RETURNED_CHECK_FEE"]
      BY <3>2 DEF EntryTypes
    <3>4. OneApprover'
      BY <3>1, <3>2, <3>3 DEF MoneyInv, TypeOK, DepositTypeOK, OperatorTypeOK, OneApprover,
                              CreditAt, DepositFrame, opVars
    <3>5. ReturnProgress'
      BY <3>1, <3>3, ReturnProgressKept DEF MoneyInv, DepositFrame
    <3> QED
      BY <3>2, <3>4, <3>5 DEF MoneyStep
  <2> QED
    BY <1>16, <2>1, <2>2 DEF PostCredit
<1>17. CASE ToFundsPosted(t)
  <2>1. CASE TransitionFails(t, "Approved", "FundsPosted") /\ Goto(t, "done")
    BY <1>17, <2>1, DepositQuiet DEF ToFundsPosted, DepositUpdate, TransitionFails, Goto
  <2>2. CASE Transition(t, "Approved", "FundsPosted") /\ Goto(t, "evFundsPosted")
    <3>1. /\ dpc[t] = "toFundsPosted" /\ UNCHANGED ledger /\ ledger[t]["FREE"] = 1
          /\ isValidTransition("Approved", "FundsPosted")
          /\ UpdateState(t, "Approved", "FundsPosted")
          /\ state' = [state EXCEPT ![t] = "FundsPosted"]
          /\ dpc' = [dpc EXCEPT ![t] = "evFundsPosted"]
      BY <1>17, <2>2 DEF ToFundsPosted, DepositUpdate, Transition, UpdateState, MoneyInv,
                         OneApprover, CreditAt, Goto
    <3>2. MoneyMatchesState' /\ Lifecycle!LifecycleNext
      BY <3>1, MoveMoney, MoveRefines DEF MoneyInv
    <3>3. OneApprover'
      BY <3>1 DEF MoneyInv, TypeOK, TablesTypeOK, DepositTypeOK, OperatorTypeOK, OneApprover,
                  CreditAt, DepositFrame, opVars
    <3>4. ReturnProgress'
      BY <3>1, ReturnProgressKept DEF MoneyInv, TypeOK, TablesTypeOK, DepositFrame
    <3> QED
      BY <3>2, <3>3, <3>4 DEF MoneyStep
  <2> QED
    BY <1>17, <2>1, <2>2 DEF ToFundsPosted, DepositUpdate
<1>18. CASE FundsPostedEvent(t)
  BY <1>18, DepositEventQuiet DEF FundsPostedEvent
<1>19. CASE DepositAborts(t)
  BY <1>19, DepositQuiet DEF DepositAborts, Goto
<1> QED
  BY <1>1, <1>2, <1>3, <1>4, <1>5, <1>6, <1>7, <1>8, <1>9, <1>10, <1>11, <1>12, <1>13,
     <1>14, <1>15, <1>16, <1>17, <1>18, <1>19 DEF DepositRuns

----------------------------------------------------------------------------
\* An operator's step that moves neither the transfer nor money.
LEMMA OperatorQuiet ==
  ASSUME MoneyInv, NEW r \in OpRequests, OperatorFrame, UNCHANGED <<state, ledger>>,
         NEW pc, opc' = [opc EXCEPT ![r] = pc],
         \A q \in OpRequests \ {r} : oT'[q] = oT[q],
         pc \notin Approving \/ (opc[r] = "evApproved" /\ pc = "post" /\ oT'[r] = oT[r])
  PROVE  MoneyStep
<1>1. MoneyMatchesState'
  BY DEF MoneyInv, MoneyMatchesState
<1>2. OneApprover'
  BY DEF MoneyInv, TypeOK, OperatorTypeOK, OneApprover, Approving, CreditAt, OperatorFrame, depVars
<1>3. ReturnProgress'
  BY ReturnProgressKept DEF MoneyInv, OperatorFrame
<1> QED
  BY <1>1, <1>2, <1>3 DEF MoneyStep

\* A call of Transition by an operator's request, up to the approval.
LEMMA OperatorMoves ==
  ASSUME MoneyInv, NEW r \in OpRequests, OperatorFrame,
         NEW here, NEW from, NEW to, NEW event,
         here \notin Approving \union {"idle"}, event # "idle",
         from \notin {"Approved", "FundsPosted", "Completed"},
         event \in Approving => event = "evApproved" /\ to = "Approved",
         OperatorUpdate(r, here, from, to, event)
  PROVE  MoneyStep
<1> DEFINE t == oT[r]
<1>1. CASE TransitionFails(t, from, to) /\ OpGoto(r, "idle")
  <2>1. /\ UNCHANGED <<state, ledger>> /\ opc' = [opc EXCEPT ![r] = "idle"]
        /\ \A q \in OpRequests \ {r} : oT'[q] = oT[q]
    BY <1>1 DEF OperatorUpdate, TransitionFails, OpGoto, MoneyInv, TypeOK, OperatorTypeOK
  <2> QED
    BY <2>1, OperatorQuiet DEF Approving
<1>2. CASE Transition(t, from, to) /\ OpGoto(r, event)
  <2>1. /\ isValidTransition(from, to) /\ UpdateState(t, from, to) /\ UNCHANGED ledger
        /\ to \notin {"FundsPosted", "Returned"} /\ from # "Returned"
        /\ state[t] = from /\ state' = [state EXCEPT ![t] = to]
        /\ opc' = [opc EXCEPT ![r] = event] /\ t \in Transfers
        /\ opc[r] \notin Approving
        /\ \A q \in OpRequests : oT'[q] = oT[q]
    BY <1>2 DEF OperatorUpdate, Transition, UpdateState, OpGoto, isValidTransition,
                validTransitions, MoneyInv, TypeOK, OperatorTypeOK
  <2>2. MoneyMatchesState' /\ Lifecycle!LifecycleNext
    BY <2>1, MoveMoney, MoveRefines DEF MoneyInv
  <2>3. OneApprover'
    <3>1. to = "Approved" => from = "Analyzing"
      BY <2>1 DEF isValidTransition, validTransitions
    <3>2. to = "Approved" => ledger[t]["FREE"] = 0
      <4>1. ledger[t]["FREE"] \in Nat
        BY <2>1 DEF MoneyInv, TypeOK, TablesTypeOK, EntryTypes
      <4> QED
        BY <2>1, <3>1, <4>1 DEF MoneyInv, MoneyMatchesState
    <3> HIDE DEF t
    <3>3. t = oT[r]
      BY DEF t
    <3> QED
      BY <2>1, <3>2, <3>3 DEF MoneyInv, TypeOK, TablesTypeOK, OperatorTypeOK, OneApprover,
                              Approving, CreditAt, OperatorFrame, depVars
  <2>4. ReturnProgress'
    BY <2>1, ReturnProgressKept DEF MoneyInv, TypeOK, TablesTypeOK, OperatorFrame
  <2> QED
    BY <2>2, <2>3, <2>4 DEF MoneyStep
<1> QED
  BY <1>1, <1>2 DEF OperatorUpdate

\* Every step of POST /operator/actions keeps the invariant and maps to the life
\* cycle.
LEMMA OperatorMoney ==
  ASSUME MoneyInv, NEW r \in OpRequests, OperatorFrame,
         PostAction(r) \/ OperatorRuns(r) \/ OperatorAborts(r)
  PROVE  MoneyStep
<1> USE DEF Approving
<1>0. oT \in [OpRequests -> Transfers \union {None}] /\ opc \in [OpRequests -> OperatorPCs]
  BY DEF MoneyInv, TypeOK, OperatorTypeOK
<1>1. CASE PostAction(r)
  <2>1. /\ UNCHANGED <<state, ledger>>
        /\ \A q \in OpRequests \ {r} : oT'[q] = oT[q]
        /\ \E pc \in {"toApproved", "code", "toRejected"} : opc' = [opc EXCEPT ![r] = pc]
    BY <1>0, <1>1 DEF PostAction
  <2> QED
    BY <2>1, OperatorQuiet
<1>2. CASE Approve(r)
  BY <1>2, OperatorMoves DEF Approve
<1>3. CASE ApproveEvent(r)
  <2>1. /\ UNCHANGED <<state, ledger>> /\ opc[r] = "evApproved"
        /\ opc' = [opc EXCEPT ![r] = "post"] /\ \A q \in OpRequests : oT'[q] = oT[q]
    BY <1>0, <1>3 DEF ApproveEvent, OperatorEvent, OpGoto
  <2> QED
    BY <2>1, OperatorQuiet
<1>4. CASE ApprovePost(r)
  <2>1. CASE PostFails(oT[r], "FREE") /\ OpGoto(r, "idle")
    <3>1. /\ UNCHANGED <<state, ledger>> /\ opc' = [opc EXCEPT ![r] = "idle"]
          /\ \A q \in OpRequests \ {r} : oT'[q] = oT[q]
      BY <1>0, <1>4, <2>1 DEF ApprovePost, PostFails, OpGoto
    <3> QED
      BY <3>1, OperatorQuiet
  <2>2. CASE PostDoubleEntry(oT[r], "FREE") /\ OpGoto(r, "toFundsPosted")
    <3>1. PICK t \in Transfers : t = oT[r]
      BY <1>4 DEF ApprovePost, MoneyInv, TypeOK, OperatorTypeOK
    <3>2. /\ opc[r] = "post" /\ UNCHANGED state /\ "FREE" \in EntryTypes
          /\ state[t] = "Approved" /\ opc' = [opc EXCEPT ![r] = "toFundsPosted"]
          /\ PostDoubleEntry(t, "FREE")
          /\ \A q \in OpRequests : oT'[q] = oT[q]
      BY <1>0, <1>4, <2>2, <3>1 DEF ApprovePost, MoneyInv, OneApprover, EntryTypes, OpGoto
    <3>3. /\ MoneyMatchesState' /\ Lifecycle!LifecycleNext
          /\ ledger'[t]["FREE"] = 1
          /\ \A u \in Transfers, y \in EntryTypes :
                <<u, y>> # <<t, "FREE">> => ledger'[u][y] = ledger[u][y]
      BY <3>2, PostMoney, PostRefines DEF MoneyInv
    <3>4. \A u \in Transfers :
            /\ u # t => ledger'[u]["FREE"] = ledger[u]["FREE"]
            /\ ledger'[u]["REVERSAL"] = ledger[u]["REVERSAL"]
            /\ ledger'[u]["RETURNED_CHECK_FEE"] = ledger[u]["RETURNED_CHECK_FEE"]
      BY <3>3 DEF EntryTypes
    <3>5. OneApprover'
      BY <3>1, <3>2, <3>3, <3>4
      DEF MoneyInv, TypeOK, OperatorTypeOK, OneApprover, CreditAt, OperatorFrame, depVars
    <3>6. ReturnProgress'
      BY <3>2, <3>4, ReturnProgressKept DEF MoneyInv, OperatorFrame
    <3> QED
      BY <3>3, <3>5, <3>6 DEF MoneyStep
  <2> QED
    BY <1>4, <2>1, <2>2 DEF ApprovePost
<1>5. CASE ApproveFunds(r)
  <2>1. CASE TransitionFails(oT[r], "Approved", "FundsPosted") /\ OpGoto(r, "idle")
    <3>1. /\ UNCHANGED <<state, ledger>> /\ opc' = [opc EXCEPT ![r] = "idle"]
          /\ \A q \in OpRequests \ {r} : oT'[q] = oT[q]
      BY <1>0, <1>5, <2>1 DEF ApproveFunds, OperatorUpdate, TransitionFails, OpGoto
    <3> QED
      BY <3>1, OperatorQuiet
  <2>2. CASE Transition(oT[r], "Approved", "FundsPosted") /\ OpGoto(r, "evFundsPosted")
    <3>1. PICK t \in Transfers : t = oT[r]
      BY <1>5 DEF ApproveFunds, OperatorUpdate, MoneyInv, TypeOK, OperatorTypeOK
    <3>2. /\ opc[r] = "toFundsPosted" /\ UNCHANGED ledger /\ ledger[t]["FREE"] = 1
          /\ isValidTransition("Approved", "FundsPosted")
          /\ UpdateState(t, "Approved", "FundsPosted")
          /\ state' = [state EXCEPT ![t] = "FundsPosted"]
          /\ opc' = [opc EXCEPT ![r] = "evFundsPosted"]
          /\ \A q \in OpRequests : oT'[q] = oT[q]
      BY <1>0, <1>5, <2>2, <3>1 DEF ApproveFunds, OperatorUpdate, Transition, UpdateState,
                                    MoneyInv, OneApprover, CreditAt, OpGoto
    <3>3. MoneyMatchesState' /\ Lifecycle!LifecycleNext
      BY <3>2, MoveMoney, MoveRefines DEF MoneyInv
    <3>4. OneApprover'
      BY <3>1, <3>2 DEF MoneyInv, TypeOK, TablesTypeOK, OperatorTypeOK, OneApprover,
                        CreditAt, OperatorFrame, depVars
    <3>5. ReturnProgress'
      BY <3>2, ReturnProgressKept DEF MoneyInv, TypeOK, TablesTypeOK, OperatorFrame
    <3> QED
      BY <3>3, <3>4, <3>5 DEF MoneyStep
  <2> QED
    BY <1>5, <2>1, <2>2 DEF ApproveFunds, OperatorUpdate
<1>6. CASE ApproveFundsEvent(r) \/ RejectEvent(r) \/ OperatorAborts(r)
  <2>1. /\ UNCHANGED <<state, ledger>> /\ opc' = [opc EXCEPT ![r] = "idle"]
        /\ \A q \in OpRequests \ {r} : oT'[q] = oT[q]
    BY <1>0, <1>6 DEF ApproveFundsEvent, RejectEvent, OperatorEvent, OperatorAborts, OpGoto
  <2> QED
    BY <2>1, OperatorQuiet
<1>7. CASE RejectCode(r)
  <2>1. /\ UNCHANGED <<state, ledger>> /\ opc' = [opc EXCEPT ![r] = "toRejected"]
        /\ \A q \in OpRequests \ {r} : oT'[q] = oT[q]
    BY <1>0, <1>7 DEF RejectCode, OpGoto
  <2> QED
    BY <2>1, OperatorQuiet
<1>8. CASE Reject(r)
  BY <1>8, OperatorMoves DEF Reject, RejectFrom
<1> QED
  BY <1>1, <1>2, <1>3, <1>4, <1>5, <1>6, <1>7, <1>8 DEF OperatorRuns

----------------------------------------------------------------------------
\* Requests that approve nothing leave the elected approver alone as long as they
\* touch neither an Approved transfer nor its credit.
LEMMA OneApproverKept ==
  ASSUME TypeOK, OneApprover, UNCHANGED <<depVars, opVars>>,
         \A t \in Transfers :
            state[t] = "Approved" =>
                state'[t] = "Approved" /\ ledger'[t]["FREE"] = ledger[t]["FREE"]
  PROVE  OneApprover'
<1>1. /\ UNCHANGED <<dpc, opc, oT>>
      /\ \A r \in OpRequests : opc[r] \in Approving => oT[r] \in Transfers
  BY DEF depVars, opVars, TypeOK, OperatorTypeOK, Approving
<1> QED
  BY <1>1 DEF OneApprover

\* A return's step that moves neither the transfer nor money and reaches no
\* statement that relies on an earlier one.
LEMMA ReturnQuiet ==
  ASSUME MoneyInv, NEW r \in RetRequests, ReturnFrame, UNCHANGED <<state, ledger>>,
         NEW pc, rpc' = [rpc EXCEPT ![r] = pc],
         \A q \in RetRequests \ {r} : rT'[q] = rT[q],
         pc \notin {"reversal", "fee", "toReturned"}
  PROVE  MoneyStep
<1>1. MoneyMatchesState'
  BY DEF MoneyInv, MoneyMatchesState
<1>2. OneApprover'
  BY OneApproverKept DEF MoneyInv, ReturnFrame
<1>3. ReturnProgress'
  BY DEF MoneyInv, TypeOK, ReturnTypeOK, ReturnProgress
<1> QED
  BY <1>1, <1>2, <1>3 DEF MoneyStep

\* A posting of a return: the reversal first, then the fee.
LEMMA ReturnPosts ==
  ASSUME MoneyInv, NEW r \in RetRequests, ReturnFrame, NEW here, NEW type, NEW next,
         \/ here = "reversal" /\ type = "REVERSAL" /\ next = "fee"
         \/ here = "fee" /\ type = "RETURNED_CHECK_FEE" /\ next = "toReturned",
         PostReturnEntry(r, here, type, next)
  PROVE  MoneyStep
<1>0. rT \in [RetRequests -> Transfers \union {None}] /\ rpc \in [RetRequests -> ReturnPCs]
  BY DEF MoneyInv, TypeOK, ReturnTypeOK
<1>1. CASE PostFails(rT[r], type) /\ RetGoto(r, "idle")
  <2>1. /\ UNCHANGED <<state, ledger>> /\ rpc' = [rpc EXCEPT ![r] = "idle"]
        /\ \A q \in RetRequests \ {r} : rT'[q] = rT[q]
    BY <1>0, <1>1 DEF PostReturnEntry, PostFails, RetGoto
  <2> QED
    BY <2>1, ReturnQuiet
<1>2. CASE PostDoubleEntry(rT[r], type) /\ RetGoto(r, next)
  <2>1. PICK t \in Transfers : t = rT[r]
    BY DEF PostReturnEntry, MoneyInv, TypeOK, ReturnTypeOK
  <2>2. /\ UNCHANGED state /\ type \in EntryTypes /\ type # "FREE" /\ PostDoubleEntry(t, type)
        /\ rpc[r] = here /\ rpc' = [rpc EXCEPT ![r] = next]
        /\ \A q \in RetRequests : rT'[q] = rT[q]
        /\ type = "REVERSAL" => state[t] \in {"FundsPosted", "Completed", "Returned"}
        /\ type = "RETURNED_CHECK_FEE" => ledger[t]["REVERSAL"] = 1
    BY <1>0, <1>2, <2>1 DEF PostReturnEntry, RetGoto, EntryTypes, MoneyInv, ReturnProgress
  <2>3. /\ MoneyMatchesState' /\ Lifecycle!LifecycleNext
        /\ ledger[t][type] = 0 /\ ledger'[t][type] = 1
        /\ \A u \in Transfers, y \in EntryTypes :
              <<u, y>> # <<t, type>> => ledger'[u][y] = ledger[u][y]
    BY <2>2, PostMoney, PostRefines DEF MoneyInv
  <2>4. \A u \in Transfers :
          /\ ledger'[u]["FREE"] = ledger[u]["FREE"]
          /\ ledger[u]["REVERSAL"] = 1 => ledger'[u]["REVERSAL"] = 1
          /\ ledger[u]["RETURNED_CHECK_FEE"] = 1 => ledger'[u]["RETURNED_CHECK_FEE"] = 1
    BY <2>2, <2>3 DEF EntryTypes
  <2>5. OneApprover'
    BY <2>2, <2>4, OneApproverKept DEF MoneyInv, ReturnFrame
  <2>6. ReturnProgress'
    BY <1>0, <2>1, <2>2, <2>3, <2>4 DEF MoneyInv, TypeOK, ReturnTypeOK, ReturnProgress
  <2> QED
    BY <2>3, <2>5, <2>6 DEF MoneyStep
<1> QED
  BY <1>1, <1>2 DEF PostReturnEntry

\* Every step of POST /returns keeps the invariant and maps to the life cycle.
LEMMA ReturnMoney ==
  ASSUME MoneyInv, NEW r \in RetRequests, ReturnFrame,
         ProcessReturn(r) \/ ReturnRuns(r) \/ ReturnAborts(r)
  PROVE  MoneyStep
<1>0. rT \in [RetRequests -> Transfers \union {None}] /\ rpc \in [RetRequests -> ReturnPCs]
  BY DEF MoneyInv, TypeOK, ReturnTypeOK
<1>1. CASE ProcessReturn(r)
  <2>1. /\ UNCHANGED <<state, ledger>> /\ rpc' = [rpc EXCEPT ![r] = "reversal"]
        /\ \A q \in RetRequests \ {r} : rT'[q] = rT[q]
        /\ \E t \in Transfers :
              rT'[r] = t /\ state[t] \in {"FundsPosted", "Completed", "Returned"}
    BY <1>0, <1>1 DEF ProcessReturn, Returnable
  <2>2. MoneyMatchesState'
    BY <2>1 DEF MoneyInv, MoneyMatchesState
  <2>3. OneApprover'
    BY <2>1, OneApproverKept DEF MoneyInv, ReturnFrame
  <2>4. ReturnProgress'
    BY <1>0, <2>1 DEF MoneyInv, ReturnProgress
  <2> QED
    BY <2>1, <2>2, <2>3, <2>4 DEF MoneyStep
<1>2. CASE PostReversal(r)
  BY <1>2, ReturnPosts DEF PostReversal
<1>3. CASE PostFee(r)
  BY <1>3, ReturnPosts DEF PostFee
<1>4. CASE ToReturned(r)
  <2>1. CASE UNCHANGED state /\ RetGoto(r, "idle")
    <3>1. /\ UNCHANGED <<state, ledger>> /\ rpc' = [rpc EXCEPT ![r] = "idle"]
          /\ \A q \in RetRequests \ {r} : rT'[q] = rT[q]
      BY <1>0, <1>4, <2>1 DEF ToReturned, RetGoto
    <3> QED
      BY <3>1, ReturnQuiet
  <2>2. CASE UpdateState(rT[r], rSeen[r], "Returned") /\ RetGoto(r, "record")
    <3>1. PICK t \in Transfers : t = rT[r]
      BY <1>4 DEF ToReturned, MoneyInv, TypeOK, ReturnTypeOK
    <3>2. PICK from \in {"FundsPosted", "Completed"} : from = rSeen[r]
      BY <1>4 DEF ToReturned, MoneyInv, TypeOK, ReturnTypeOK
    <3>3. /\ UNCHANGED ledger /\ ledger[t]["RETURNED_CHECK_FEE"] = 1
          /\ isValidTransition(from, "Returned") /\ UpdateState(t, from, "Returned")
          /\ state[t] = from /\ state' = [state EXCEPT ![t] = "Returned"]
          /\ rpc' = [rpc EXCEPT ![r] = "record"]
          /\ \A q \in RetRequests : rT'[q] = rT[q]
      BY <1>0, <1>4, <2>2, <3>1, <3>2
      DEF ToReturned, UpdateState, isValidTransition, validTransitions, MoneyInv,
          ReturnProgress, RetGoto
    <3>4. MoneyMatchesState' /\ Lifecycle!LifecycleNext
      BY <3>3, MoveMoney, MoveRefines DEF MoneyInv
    <3>5. \A u \in Transfers : state'[u] = IF u = t THEN "Returned" ELSE state[u]
      BY <3>3 DEF MoneyInv, TypeOK, TablesTypeOK
    <3>6. OneApprover'
      BY <3>3, <3>5, OneApproverKept DEF MoneyInv, ReturnFrame
    <3>7. ReturnProgress'
      BY <1>0, <3>3, <3>5 DEF MoneyInv, TypeOK, ReturnTypeOK, ReturnProgress
    <3> QED
      BY <3>4, <3>6, <3>7 DEF MoneyStep
  <2> QED
    BY <1>4, <2>1, <2>2 DEF ToReturned
<1>5. CASE RecordReturn(r)
  <2>1. /\ UNCHANGED <<state, ledger>> /\ rpc' = [rpc EXCEPT ![r] = "balance"]
        /\ \A q \in RetRequests \ {r} : rT'[q] = rT[q]
    BY <1>0, <1>5 DEF RecordReturn, RetGoto
  <2> QED
    BY <2>1, ReturnQuiet
<1>6. CASE CheckBalance(r)
  <2>1. PICK pc \in {"collections", "idle"} : RetGoto(r, pc)
    BY <1>6 DEF CheckBalance
  <2>2. /\ UNCHANGED <<state, ledger>> /\ rpc' = [rpc EXCEPT ![r] = pc]
        /\ \A q \in RetRequests \ {r} : rT'[q] = rT[q]
    BY <1>0, <1>6, <2>1 DEF CheckBalance, RetGoto
  <2> QED
    BY <2>2, ReturnQuiet
<1>7. CASE FlagCollections(r) \/ ReturnAborts(r)
  <2>1. /\ UNCHANGED <<state, ledger>> /\ rpc' = [rpc EXCEPT ![r] = "idle"]
        /\ \A q \in RetRequests \ {r} : rT'[q] = rT[q]
    BY <1>0, <1>7 DEF FlagCollections, ReturnAborts, RetGoto
  <2> QED
    BY <2>1, ReturnQuiet
<1> QED
  BY <1>1, <1>2, <1>3, <1>4, <1>5, <1>6, <1>7 DEF ReturnRuns

----------------------------------------------------------------------------
\* A trigger touches money never, and a transfer only to complete it.
LEMMA TriggerMoney ==
  ASSUME MoneyInv, NEW g \in Triggers, TriggerFrame,
         ListFundsPosted(g) \/ TriggerRuns(g) \/ TriggerAborts(g)
  PROVE  MoneyStep
<1>1. UNCHANGED <<ledger, depVars, opVars, retVars>>
  BY DEF TriggerFrame
<1>2. CASE UNCHANGED state
  <2>1. MoneyMatchesState'
    BY <1>1, <1>2 DEF MoneyInv, MoneyMatchesState
  <2>2. OneApprover'
    BY <1>1, <1>2, OneApproverKept DEF MoneyInv
  <2>3. ReturnProgress'
    BY <1>1, <1>2, ReturnProgressKept DEF MoneyInv
  <2> QED
    BY <1>1, <1>2, <2>1, <2>2, <2>3 DEF MoneyStep
<1>3. CASE \E t \in Transfers : UpdateState(t, "FundsPosted", "Completed")
  <2>1. PICK t \in Transfers : UpdateState(t, "FundsPosted", "Completed")
    BY <1>3
  <2>2. isValidTransition("FundsPosted", "Completed")
    BY DEF isValidTransition, validTransitions
  <2>3. MoneyMatchesState' /\ Lifecycle!LifecycleNext
    BY <1>1, <2>1, <2>2, MoveMoney, MoveRefines DEF MoneyInv
  <2>4. /\ state[t] = "FundsPosted"
        /\ \A u \in Transfers : state'[u] = IF u = t THEN "Completed" ELSE state[u]
    BY <2>1 DEF UpdateState, MoneyInv, TypeOK, TablesTypeOK
  <2>5. OneApprover'
    BY <1>1, <2>4, OneApproverKept DEF MoneyInv
  <2>6. ReturnProgress'
    BY <1>1, <2>4, ReturnProgressKept DEF MoneyInv
  <2> QED
    BY <2>3, <2>5, <2>6 DEF MoneyStep
<1>4. CASE CompleteTransfer(g)
  <2>1. UNCHANGED state \/ \E t \in Transfers : UpdateState(t, "FundsPosted", "Completed")
    BY <1>4 DEF CompleteTransfer, MoneyInv, TypeOK, TriggerTypeOK
  <2> QED
    BY <1>2, <1>3, <2>1
<1>5. CASE \/ ListFundsPosted(g) \/ OpenSettlementFile(g) \/ WriteSettlementFile(g)
           \/ CreateBatch(g) \/ LinkTransfer(g)
  BY <1>2, <1>5 DEF ListFundsPosted, OpenSettlementFile, WriteSettlementFile, CreateBatch,
                    LinkTransfer
<1>6. CASE SubmitBatch(g) \/ AcknowledgeBatch(g) \/ RecordCompletion(g) \/ TriggerAborts(g)
  BY <1>2, <1>6 DEF SubmitBatch, AcknowledgeBatch, RecordCompletion, TriggerAborts
<1> QED
  BY <1>4, <1>5, <1>6 DEF TriggerRuns

\* The health trigger writes neither states nor entries.
LEMMA HealthMoney ==
  ASSUME MoneyInv, HealthFrame
  PROVE  MoneyStep
<1>1. UNCHANGED <<state, ledger>> /\ UNCHANGED <<depVars, opVars, retVars>>
  BY DEF HealthFrame
<1>2. MoneyMatchesState'
  BY <1>1 DEF MoneyInv, MoneyMatchesState
<1>3. OneApprover' /\ ReturnProgress'
  BY <1>1, OneApproverKept, ReturnProgressKept DEF MoneyInv
<1> QED
  BY <1>1, <1>2, <1>3 DEF MoneyStep

----------------------------------------------------------------------------
\* The invariant and the life cycle's initial predicate hold of the empty tables.
LEMMA InitMoney == Init => MoneyInv /\ Lifecycle!LifecycleInit
<1> SUFFICES ASSUME Init PROVE MoneyInv /\ Lifecycle!LifecycleInit
  OBVIOUS
<1>1. TypeOK
  BY InitTypes
<1>2. MoneyMatchesState /\ OneApprover /\ ReturnProgress
  BY DEF Init, DBInit, DepositInit, OperatorInit, ReturnInit, LedgerInit, EntryTypes,
         MoneyMatchesState, OneApprover, Approving, ReturnProgress
<1>3. Lifecycle!LifecycleInit
  BY DEF Init, DBInit, LedgerInit, EntryTypes, Lifecycle!LifecycleInit, Lifecycle!Types
<1> QED
  BY <1>1, <1>2, <1>3 DEF MoneyInv

\* Any step of the server keeps the invariant and is a step, or a stutter, of the
\* life cycle.
LEMMA NextMoney ==
  ASSUME MoneyInv, [Next]_vars
  PROVE  MoneyInv' /\ [Lifecycle!LifecycleNext]_<<state, ledger>>
<1>1. CASE Next
  <2>1. TypeOK'
    BY <1>1, NextTypes DEF MoneyInv
  <2>2. MoneyStep
    BY <1>1, DepositMoney, OperatorMoney, ReturnMoney, TriggerMoney, HealthMoney
    DEF Next, DepositStep, OperatorStep, ReturnStep, TriggerStep
  <2> QED
    BY <2>1, <2>2 DEF MoneyStep, MoneyInv
<1>2. CASE UNCHANGED vars
  <2>1. TypeOK'
    BY <1>2, NextTypes DEF MoneyInv
  <2>2. MoneyMatchesState' /\ OneApprover' /\ ReturnProgress'
    BY <1>2, OneApproverKept, ReturnProgressKept
    DEF vars, MoneyInv, MoneyMatchesState
  <2> QED
    BY <1>2, <2>1, <2>2 DEF MoneyInv, vars
<1> QED
  BY <1>1, <1>2

\* The inductive invariant holds throughout: types, agreement of ledger and state,
\* a single approver, and what each return in flight relies on.
THEOREM MoneyInvariant == Spec => []MoneyInv
<1>1. MoneyInv /\ [Next]_vars => MoneyInv'
  BY NextMoney
<1> QED
  BY <1>1, InitMoney, PTL DEF Spec

\* For any number of transfers and concurrent requests of every kind, with any
\* faults, the ledger agrees with the state machine at every moment.
THEOREM LedgerAgrees == Spec => []MoneyMatchesState
<1>1. MoneyInv => MoneyMatchesState
  BY DEF MoneyInv
<1> QED
  BY <1>1, MoneyInvariant, PTL

\* The optimistic lock elects at most one request to credit a transfer, and until
\* it is done nobody else moves the transfer or posts its credit.
THEOREM SingleApprover == Spec => []OneApprover
<1>1. MoneyInv => OneApprover
  BY DEF MoneyInv
<1> QED
  BY <1>1, MoneyInvariant, PTL

\* The server, every request and every cut-off included, implements the abstract
\* life cycle of a transfer and its money.
THEOREM Refinement == Spec => ImplementsLifecycle
<1>1. Init => Lifecycle!LifecycleInit
  BY InitMoney
<1>2. MoneyInv /\ [Next]_vars => [Lifecycle!LifecycleNext]_<<state, ledger>>
  BY NextMoney
<1> QED
  BY <1>1, <1>2, MoneyInvariant, PTL
  DEF Spec, ImplementsLifecycle, Lifecycle!LifecycleSpec, Lifecycle!lifecycleVars
=============================================================================
