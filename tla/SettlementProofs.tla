-------------------------- MODULE SettlementProofs --------------------------
(***************************************************************************)
(* The settlement engine of module CheckDeposit beside deposits, returns   *)
(* and the health trigger: what is linked to an acknowledged batch is      *)
(* settled, for any number of concurrent triggers, and what the bank is    *)
(* shown is settled, once, where triggers run one at a time.               *)
(***************************************************************************)
EXTENDS AuditProofs

FundedStates == {"FundsPosted", "Completed", "Returned"}

SettledStates == {"Completed", "Returned"}

----------------------------------------------------------------------------
(* Batches, whatever triggers run and are cut off *)

\* A batch has no file and no transfers before it exists, the health trigger's has no
\* file at all, and only funded transfers are linked.
BatchesKnown ==
    /\ \A b \in Batches : batchStatus[b] = "none" => batchFile[b] = None
    /\ \A t \in Transfers :
          batchOf[t] # None => batchStatus[batchOf[t]] # "none" /\ state[t] \in FundedStates
    /\ \A h \in HealthRequests :
          hpc[h] = "link" => batchStatus[hBatch[h]] # "none" /\ batchFile[hBatch[h]] = None

\* The batches a trigger has built and is building.
Holds(g, b) ==
    \/ \E i \in DOMAIN sQueue[g] : sQueue[g][i] = b
    \/ spc[g] = "link" /\ sBatch[g] = b

\* A batch is held by one trigger, and once.
QueueDistinct(g) ==
    /\ \A i, j \in DOMAIN sQueue[g] : sQueue[g][i] = sQueue[g][j] => i = j
    /\ spc[g] = "link" => \A i \in DOMAIN sQueue[g] : sQueue[g][i] # sBatch[g]
    /\ spc[g] = "idle" => sQueue[g] = <<>>

OwnBatches ==
    /\ \A g, k \in Triggers, b \in Batches : Holds(g, b) /\ Holds(k, b) => g = k
    /\ \A g \in Triggers : QueueDistinct(g)

\* A trigger works on transfers that are funded, and records settled ones.
WorksOnFunded(g) ==
    /\ \A t \in sListed[g] \union sTids[g] : state[t] \in FundedStates
    /\ spc[g] = "record" => state[sDone[g]] \in SettledStates

FundedOnly == \A g \in Triggers : WorksOnFunded(g)

\* A batch is not acknowledged before its turn.
AwaitsTurn(g) ==
    /\ \A i \in DOMAIN sQueue[g] :
          i # 1 \/ spc[g] \notin {"complete", "record"} =>
              batchStatus[sQueue[g][i]] # "ACKNOWLEDGED"
    /\ spc[g] = "link" => batchStatus[sBatch[g]] # "ACKNOWLEDGED"

NotYetAcknowledged == \A g \in Triggers : AwaitsTurn(g)

\* The trigger has still to complete t, of the batch it has acknowledged.
Completes(g, t) ==
    /\ spc[g] \in {"complete", "record"}
    /\ Head(sQueue[g]) = batchOf[t]
    /\ t \in sTids[g]

\* Once it is, its transfers are settled or its trigger has still to complete them.
AcknowledgedInHand ==
    \A t \in Transfers :
        /\ batchOf[t] # None
        /\ batchStatus[batchOf[t]] = "ACKNOWLEDGED" /\ batchFile[batchOf[t]] # None
        => state[t] \in SettledStates \/ \E g \in Triggers : Completes(g, t)

BatchInv ==
    /\ AuditInv
    /\ BatchesKnown
    /\ OwnBatches
    /\ FundedOnly
    /\ NotYetAcknowledged
    /\ ~Faults => AcknowledgedInHand

----------------------------------------------------------------------------
(* Steps of other requests *)

\* A funded transfer stays funded, a settled one settled, and only a trigger
\* completes one.
LEMMA StatesAdvance ==
  ASSUME TypeOK, TrailStep
  PROVE  \A t \in Transfers :
            /\ state[t] \in FundedStates => state'[t] \in FundedStates
            /\ state[t] \in SettledStates => state'[t] \in SettledStates
            /\ UNCHANGED spc /\ state'[t] = "Completed" => state[t] = "Completed"
<1>0. state \in [Transfers -> TransferStates \union {"none"}]
  BY DEF TypeOK, TablesTypeOK
<1>1. CASE TrailKept
  BY <1>1 DEF TrailKept
<1>2. CASE TrailGrows
  <2>1. PICK t \in Transfers, from \in TransferStates, to \in TransferStates :
          /\ isValidTransition(from, to) /\ UpdateState(t, from, to)
          /\ to = "Completed" => spc' # spc
    BY <1>2 DEF TrailGrows
  <2> QED
    BY <1>0, <2>1 DEF UpdateState, isValidTransition, validTransitions, FundedStates, SettledStates
<1>3. CASE TrailStarts
  BY <1>0, <1>3 DEF TrailStarts, Create, FundedStates, SettledStates
<1> QED
  BY <1>1, <1>2, <1>3 DEF TrailStep

\* What every step must establish about the batches.
BatchStep ==
    /\ BatchesKnown'
    /\ OwnBatches'
    /\ FundedOnly'
    /\ NotYetAcknowledged'
    /\ ~Faults => AcknowledgedInHand'

\* Deposits, operators and returns leave the batches alone.
LEMMA OutsideBatches ==
  ASSUME BatchInv, TrailStep, UNCHANGED <<setVars, healthVars>>
  PROVE  BatchStep
<1>1. /\ UNCHANGED <<batchStatus, batchFile, batchOf, spc, sListed, sBatch, sQueue, sTids, sDone,
                     hpc, hBatch>>
  BY DEF setVars, batchVars, healthVars
<1>2. TypeOK
  BY DEF BatchInv, AuditInv
<1>3. \A t \in Transfers :
         /\ state[t] \in FundedStates => state'[t] \in FundedStates
         /\ state[t] \in SettledStates => state'[t] \in SettledStates
  BY <1>2, StatesAdvance
<1>4. BatchesKnown'
  BY <1>1, <1>3 DEF BatchInv, BatchesKnown
<1>5. OwnBatches' /\ NotYetAcknowledged'
  BY <1>1 DEF BatchInv, OwnBatches, QueueDistinct, Holds, NotYetAcknowledged, AwaitsTurn
<1>6. FundedOnly'
  BY <1>1, <1>2, <1>3 DEF BatchInv, FundedOnly, WorksOnFunded, TypeOK, TriggerTypeOK, TriggerLocalsOK
<1>7. ~Faults => AcknowledgedInHand'
  BY <1>1, <1>3 DEF BatchInv, AcknowledgedInHand, Completes
<1> QED
  BY <1>4, <1>5, <1>6, <1>7 DEF BatchStep

\* A batch that a trigger holds, or the health trigger has inserted, exists: an unused id
\* is none of them, and a trigger's batch is not the health trigger's.
LEMMA HeldExist ==
  ASSUME TypeOK, BatchesKnown
  PROVE  /\ \A g \in Triggers, b \in Batches :
               Holds(g, b) => batchFile[b] \in Files /\ batchStatus[b] # "none"
         /\ \A h \in HealthRequests, g \in Triggers :
               hpc[h] = "link" => ~Holds(g, hBatch[h])
         /\ \A g \in Triggers : \A i \in DOMAIN sQueue[g] :
               sQueue[g][i] \in Batches /\ Holds(g, sQueue[g][i])
         /\ \A g \in Triggers : spc[g] = "link" => sBatch[g] \in Batches /\ Holds(g, sBatch[g])
<1>1. \A g \in Triggers : \A b : Holds(g, b) => batchFile[b] \in Files
  BY DEF TypeOK, TriggerLocalsOK, Holds
<1>2. \A g \in Triggers : \A i \in DOMAIN sQueue[g] : sQueue[g][i] \in Batches
  BY DEF TypeOK, TriggerTypeOK
<1> QED
  BY <1>1, <1>2, NullAssumption DEF BatchesKnown, TypeOK, TriggerLocalsOK, Holds

\* The health trigger links only its own batches, which have no file.
LEMMA HealthBatches ==
  ASSUME BatchInv, NEW h \in HealthRequests, HealthFrame,
         SelectReady(h) \/ HealthRuns(h) \/ HealthAborts(h)
  PROVE  BatchStep
<1>0. TypeOK
  BY DEF BatchInv, AuditInv
<1>1. UNCHANGED <<state, batchFile, spc, sListed, sBatch, sQueue, sTids, sDone>>
  BY DEF HealthFrame
<1>2. FundedOnly'
  BY <1>1 DEF BatchInv, FundedOnly, WorksOnFunded
<1>3. OwnBatches'
  BY <1>1 DEF BatchInv, OwnBatches, QueueDistinct, Holds
<1>4. CASE SelectReady(h) \/ HealthAborts(h)
  <2>1. /\ UNCHANGED <<batchStatus, batchOf>>
        /\ \A k \in HealthRequests : hpc'[k] = "link" => hpc[k] = "link" /\ hBatch'[k] = hBatch[k]
    BY <1>0, <1>4 DEF SelectReady, HealthAborts, HealthEnds, TypeOK, HealthTypeOK
  <2>2. BatchesKnown'
    BY <1>1, <2>1 DEF BatchInv, BatchesKnown
  <2>3. NotYetAcknowledged' /\ (~Faults => AcknowledgedInHand')
    BY <1>1, <2>1 DEF BatchInv, NotYetAcknowledged, AwaitsTurn, AcknowledgedInHand, Completes
  <2> QED
    BY <1>2, <1>3, <2>2, <2>3 DEF BatchStep
<1>5. CASE InsertAcknowledged(h)
  <2>1. PICK b \in Batches :
          /\ batchStatus[b] = "none" /\ batchStatus' = [batchStatus EXCEPT ![b] = "ACKNOWLEDGED"]
          /\ \/ hBatch' = [hBatch EXCEPT ![h] = b] /\ hpc' = [hpc EXCEPT ![h] = "link"]
             \/ HealthEnds(h)
    BY <1>5 DEF InsertAcknowledged, Fresh
  <2>2. /\ UNCHANGED batchOf /\ batchStatus'[b] = "ACKNOWLEDGED"
        /\ \A a \in Batches \ {b} : batchStatus'[a] = batchStatus[a]
        /\ \A k \in HealthRequests : hpc'[k] = "link" =>
              (hpc[k] = "link" /\ hBatch'[k] = hBatch[k]) \/ hBatch'[k] = b
        /\ batchFile[b] = None
    BY <1>0, <1>5, <2>1 DEF InsertAcknowledged, HealthEnds, TypeOK, HealthTypeOK, SettlementTypeOK,
                            BatchInv, BatchesKnown
  <2>3. BatchesKnown'
    BY <1>0, <1>1, <2>1, <2>2 DEF BatchInv, BatchesKnown, TypeOK, SettlementTypeOK, HealthTypeOK
  <2>4. \A g \in Triggers : ~Holds(g, b)
    BY <1>0, <2>1, HeldExist DEF BatchInv
  <2>5. NotYetAcknowledged'
    <3> SUFFICES ASSUME NEW g \in Triggers
        PROVE /\ \A i \in DOMAIN sQueue[g] :
                    i # 1 \/ spc[g] \notin {"complete", "record"} =>
                        batchStatus'[sQueue[g][i]] # "ACKNOWLEDGED"
              /\ spc[g] = "link" => batchStatus'[sBatch[g]] # "ACKNOWLEDGED"
      BY <1>1 DEF NotYetAcknowledged, AwaitsTurn
    <3>1. /\ \A i \in DOMAIN sQueue[g] : sQueue[g][i] \in Batches /\ sQueue[g][i] # b
          /\ spc[g] = "link" => sBatch[g] \in Batches /\ sBatch[g] # b
      BY <1>0, <2>4, HeldExist DEF BatchInv
    <3> QED
      BY <2>2, <3>1 DEF BatchInv, NotYetAcknowledged, AwaitsTurn
  <2>6. ~Faults => AcknowledgedInHand'
    <3>1. \A t \in Transfers : batchOf[t] # None => batchOf[t] \in Batches /\ batchOf[t] # b
      BY <1>0, <2>1 DEF BatchInv, BatchesKnown, TypeOK, SettlementTypeOK
    <3> QED
      BY <1>1, <2>2, <3>1 DEF BatchInv, AcknowledgedInHand, Completes
  <2> QED
    BY <1>2, <1>3, <2>3, <2>5, <2>6 DEF BatchStep
<1>6. CASE LinkUnbatched(h)
  <2>1. /\ UNCHANGED batchStatus /\ hBatch[h] \in Batches
        /\ hpc[h] = "link" /\ \A t \in Transfers :
              \/ batchOf'[t] = batchOf[t]
              \/ state[t] = "FundsPosted" /\ batchOf'[t] = hBatch[h]
        /\ \A k \in HealthRequests : hpc'[k] = "link" => hpc[k] = "link" /\ hBatch'[k] = hBatch[k]
    BY <1>0, <1>6 DEF LinkUnbatched, Unbatched, HealthEnds, TypeOK, HealthTypeOK
  <2>2. batchFile[hBatch[h]] = None /\ batchStatus[hBatch[h]] # "none"
    BY <2>1 DEF BatchInv, BatchesKnown
  <2>3. BatchesKnown'
    BY <1>1, <2>1, <2>2 DEF BatchInv, BatchesKnown, FundedStates
  <2>4. NotYetAcknowledged'
    BY <1>1, <2>1 DEF BatchInv, NotYetAcknowledged, AwaitsTurn
  <2>5. ~Faults => AcknowledgedInHand'
    BY <1>1, <2>1, <2>2 DEF BatchInv, AcknowledgedInHand, Completes
  <2> QED
    BY <1>2, <1>3, <2>3, <2>4, <2>5 DEF BatchStep
<1> QED
  BY <1>4, <1>5, <1>6 DEF HealthRuns

----------------------------------------------------------------------------
(* Steps of a trigger *)

\* The other triggers' local state is untouched.
OthersKept(g) ==
    \A k \in Triggers \ {g} :
        /\ spc'[k] = spc[k] /\ sListed'[k] = sListed[k] /\ sCorr'[k] = sCorr[k]
        /\ sBatch'[k] = sBatch[k] /\ sQueue'[k] = sQueue[k] /\ sTids'[k] = sTids[k]
        /\ sDone'[k] = sDone[k]

\* A trigger writes its own local state only.
LEMMA TriggerOthers ==
  ASSUME TypeOK, NEW g \in Triggers, ListFundsPosted(g) \/ TriggerRuns(g) \/ TriggerAborts(g)
  PROVE  OthersKept(g)
<1> USE DEF TypeOK, TriggerTypeOK, SetGoto, OthersKept
<1>1. CASE ListFundsPosted(g) \/ OpenSettlementFile(g) \/ WriteSettlementFile(g) \/ CreateBatch(g)
  BY <1>1 DEF ListFundsPosted, OpenSettlementFile, WriteSettlementFile, CreateBatch
<1>2. CASE LinkTransfer(g)
  BY <1>2 DEF LinkTransfer
<1>3. CASE SubmitBatch(g)
  BY <1>3 DEF SubmitBatch, NextBatch
<1>4. CASE AcknowledgeBatch(g)
  BY <1>4 DEF AcknowledgeBatch, NextBatch
<1>5. CASE CompleteTransfer(g)
  BY <1>5 DEF CompleteTransfer, NextBatch
<1>6. CASE RecordCompletion(g)
  BY <1>6 DEF RecordCompletion, NextBatch
<1>7. CASE TriggerAborts(g)
  BY <1>7 DEF TriggerAborts
<1> QED
  BY <1>1, <1>2, <1>3, <1>4, <1>5, <1>6, <1>7 DEF TriggerRuns

\* What one trigger does to its own batches, or to an unused one, leaves the others' as
\* they are.
LEMMA OwnPart ==
  ASSUME BatchInv, TypeOK', TrailStep, NEW g \in Triggers, OthersKept(g),
         \A b \in Batches :
            /\ Holds(g, b)' => Holds(g, b) \/ batchStatus[b] = "none"
            /\ batchStatus'[b] = batchStatus[b] \/ Holds(g, b) \/ batchStatus[b] = "none",
         QueueDistinct(g)', WorksOnFunded(g)', AwaitsTurn(g)'
  PROVE  OwnBatches' /\ FundedOnly' /\ NotYetAcknowledged'
<1>0. TypeOK
  BY DEF BatchInv, AuditInv
<1>1. \A k \in Triggers \ {g}, b \in Batches : Holds(k, b)' <=> Holds(k, b)
  BY DEF OthersKept, Holds
<1>2. \A k \in Triggers, b \in Batches : Holds(k, b) => batchStatus[b] # "none"
  BY <1>0, HeldExist DEF BatchInv
<1>3. ASSUME NEW k \in Triggers \ {g}
      PROVE  QueueDistinct(k)' /\ WorksOnFunded(k)' /\ AwaitsTurn(k)'
  <2>1. /\ spc'[k] = spc[k] /\ sListed'[k] = sListed[k] /\ sBatch'[k] = sBatch[k]
        /\ sQueue'[k] = sQueue[k] /\ sTids'[k] = sTids[k] /\ sDone'[k] = sDone[k]
    BY <1>3 DEF OthersKept
  <2>2. QueueDistinct(k) /\ WorksOnFunded(k) /\ AwaitsTurn(k)
    BY DEF BatchInv, OwnBatches, FundedOnly, NotYetAcknowledged
  <2>3. QueueDistinct(k)'
    BY <2>1, <2>2 DEF QueueDistinct
  <2>4. WorksOnFunded(k)'
    <3>1. /\ sListed[k] \subseteq Transfers /\ sTids[k] \subseteq Transfers
          /\ spc[k] = "record" => sDone[k] \in Transfers
      BY <1>0 DEF TypeOK, TriggerTypeOK, TriggerLocalsOK
    <3> QED
      BY <1>0, <2>1, <2>2, <3>1, StatesAdvance DEF WorksOnFunded
  <2>5. AwaitsTurn(k)'
    <3>1. \A b \in Batches : Holds(k, b) => batchStatus'[b] = batchStatus[b]
      BY <1>2 DEF BatchInv, OwnBatches
    <3>2. /\ \A i \in DOMAIN sQueue[k] : sQueue[k][i] \in Batches /\ Holds(k, sQueue[k][i])
          /\ spc[k] = "link" => sBatch[k] \in Batches /\ Holds(k, sBatch[k])
      BY <1>0, HeldExist DEF BatchInv
    <3> QED
      BY <2>1, <2>2, <3>1, <3>2 DEF AwaitsTurn
  <2> QED
    BY <2>3, <2>4, <2>5
<1>4. \A j, k \in Triggers, b \in Batches : Holds(j, b)' /\ Holds(k, b)' => j = k
  BY <1>1, <1>2 DEF BatchInv, OwnBatches
<1> QED
  BY <1>3, <1>4 DEF OwnBatches, FundedOnly, NotYetAcknowledged

\* Existing batches keep their file, and new ones are linked to funded transfers only.
LEMMA KnownPart ==
  ASSUME BatchInv, TypeOK', TrailStep, TriggerFrame,
         \A b \in Batches :
            /\ batchStatus[b] # "none" => batchStatus'[b] # "none" /\ batchFile'[b] = batchFile[b]
            /\ batchStatus'[b] = "none" => batchFile'[b] = batchFile[b],
         \A t \in Transfers :
            \/ batchOf'[t] = batchOf[t]
            \/ /\ batchOf'[t] # None => batchStatus'[batchOf'[t]] # "none"
               /\ state'[t] \in FundedStates
  PROVE  BatchesKnown'
<1>0. TypeOK
  BY DEF BatchInv, AuditInv
<1>1. \A b \in Batches : batchStatus'[b] = "none" => batchFile'[b] = None
  BY DEF BatchInv, BatchesKnown
<1>2. ASSUME NEW t \in Transfers, batchOf'[t] # None
      PROVE  batchStatus'[batchOf'[t]] # "none" /\ state'[t] \in FundedStates
  <2>1. batchOf[t] # None => batchOf[t] \in Batches
    BY <1>0 DEF TypeOK, SettlementTypeOK
  <2> QED
    BY <1>0, <1>2, <2>1, StatesAdvance DEF BatchInv, BatchesKnown
<1>3. \A h \in HealthRequests :
        hpc'[h] = "link" => batchStatus'[hBatch'[h]] # "none" /\ batchFile'[hBatch'[h]] = None
  BY <1>0 DEF TriggerFrame, healthVars, BatchInv, BatchesKnown, TypeOK, HealthTypeOK
<1> QED
  BY <1>1, <1>2, <1>3 DEF BatchesKnown

\* What is linked to an acknowledged batch stays in hand.
LEMMA InHandPart ==
  ASSUME BatchInv, TrailStep, ~Faults, NEW g \in Triggers, OthersKept(g),
         \A t \in Transfers :
            /\ Completes(g, t) /\ batchOf'[t] = batchOf[t] =>
                  state'[t] \in SettledStates \/ Completes(g, t)'
            /\ \/ /\ batchOf'[t] = batchOf[t]
                  /\ batchOf[t] # None =>
                        /\ batchStatus'[batchOf[t]] = batchStatus[batchOf[t]]
                        /\ batchFile'[batchOf[t]] = batchFile[batchOf[t]]
               \/ state'[t] \in SettledStates
               \/ batchStatus'[batchOf'[t]] # "ACKNOWLEDGED"
               \/ Completes(g, t)'
  PROVE  AcknowledgedInHand'
<1>0. TypeOK
  BY DEF BatchInv, AuditInv
<1> SUFFICES ASSUME NEW t \in Transfers, batchOf'[t] # None,
                    batchStatus'[batchOf'[t]] = "ACKNOWLEDGED", batchFile'[batchOf'[t]] # None
    PROVE state'[t] \in SettledStates \/ \E k \in Triggers : Completes(k, t)'
  BY DEF AcknowledgedInHand
<1>1. CASE state'[t] \in SettledStates \/ Completes(g, t)'
  BY <1>1
<1>2. CASE /\ ~(state'[t] \in SettledStates \/ Completes(g, t)')
           /\ batchOf'[t] = batchOf[t]
           /\ batchStatus'[batchOf[t]] = batchStatus[batchOf[t]]
           /\ batchFile'[batchOf[t]] = batchFile[batchOf[t]]
  <2>1. state[t] \in SettledStates \/ \E k \in Triggers : Completes(k, t)
    BY <1>2 DEF BatchInv, AcknowledgedInHand
  <2>2. state[t] \notin SettledStates
    BY <1>0, <1>2, StatesAdvance
  <2>3. PICK k \in Triggers : Completes(k, t)
    BY <2>1, <2>2
  <2>4. k # g
    BY <1>2, <2>3
  <2>5. Completes(k, t)'
    BY <1>2, <2>3, <2>4 DEF OthersKept, Completes
  <2> QED
    BY <2>5
<1> QED
  BY <1>1, <1>2

\* The elements of a queue to which a batch is appended.
LEMMA AppendIndexes ==
  ASSUME NEW S, NEW q \in Seq(S), NEW e \in S
  PROVE  /\ Append(q, e) # <<>>
         /\ \A i \in DOMAIN Append(q, e) :
               \/ i \in DOMAIN q /\ Append(q, e)[i] = q[i]
               \/ i = Len(q) + 1 /\ Append(q, e)[i] = e
  OBVIOUS

\* Passing on to the next batch: the elements left are the ones after the first.
LEMMA TailIndexes ==
  ASSUME TypeOK, NEW g \in Triggers, NextBatch(g), sQueue[g] # <<>>
  PROVE  /\ spc'[g] \in {"idle", "submit"}
         /\ spc'[g] = "idle" => sQueue'[g] = <<>>
         /\ Head(sQueue[g]) = sQueue[g][1] /\ 1 \in DOMAIN sQueue[g]
         /\ \A i \in DOMAIN sQueue'[g] :
               /\ i \in Nat /\ i + 1 \in DOMAIN sQueue[g] /\ i + 1 # 1
               /\ sQueue'[g][i] = sQueue[g][i + 1]
<1>1. sQueue[g] \in Seq(Batches) /\ sQueue'[g] = Tail(sQueue[g])
  BY DEF TypeOK, TriggerTypeOK, NextBatch
<1>2. spc'[g] = IF Tail(sQueue[g]) = <<>> THEN "idle" ELSE "submit"
  BY DEF TypeOK, TriggerTypeOK, NextBatch, SetGoto
<1>3. \A i \in DOMAIN Tail(sQueue[g]) :
        /\ i \in Nat /\ i + 1 \in DOMAIN sQueue[g] /\ i + 1 # 1
        /\ Tail(sQueue[g])[i] = sQueue[g][i + 1]
  BY <1>1
<1> QED
  BY <1>1, <1>2, <1>3

\* A trigger that passes on to the next batch leaves one batch, and its status, behind.
LEMMA NextBatchPart ==
  ASSUME BatchInv, NEW g \in Triggers, NextBatch(g), sQueue[g] # <<>>,
         \A b \in Batches \ {Head(sQueue[g])} : batchStatus'[b] = batchStatus[b]
  PROVE  /\ \A b \in Batches :
              /\ Holds(g, b)' => Holds(g, b)
              /\ batchStatus'[b] = batchStatus[b] \/ Holds(g, b)
         /\ QueueDistinct(g)'
         /\ AwaitsTurn(g)'
<1>0. TypeOK /\ QueueDistinct(g) /\ AwaitsTurn(g)
  BY DEF BatchInv, AuditInv, OwnBatches, NotYetAcknowledged
<1>1. /\ spc'[g] \in {"idle", "submit"}
      /\ spc'[g] = "idle" => sQueue'[g] = <<>>
      /\ Head(sQueue[g]) = sQueue[g][1] /\ 1 \in DOMAIN sQueue[g]
      /\ \A i \in DOMAIN sQueue'[g] :
            /\ i \in Nat /\ i + 1 \in DOMAIN sQueue[g] /\ i + 1 # 1
            /\ sQueue'[g][i] = sQueue[g][i + 1]
  BY <1>0, TailIndexes
<1>2. \A b \in Batches : Holds(g, b)' => Holds(g, b)
  BY <1>1 DEF Holds
<1>3. Holds(g, Head(sQueue[g]))
  BY <1>1 DEF Holds
<1>4. QueueDistinct(g)'
  <2>1. ASSUME NEW i \in DOMAIN sQueue'[g], NEW j \in DOMAIN sQueue'[g],
               sQueue'[g][i] = sQueue'[g][j]
        PROVE  i = j
    <3>1. i + 1 = j + 1
      BY <1>0, <1>1, <2>1 DEF QueueDistinct
    <3>2. i \in Nat /\ j \in Nat
      BY <1>1
    <3> QED
      BY <3>1, <3>2
  <2> QED
    BY <1>1, <2>1 DEF QueueDistinct
<1>5. AwaitsTurn(g)'
  <2>1. ASSUME NEW i \in DOMAIN sQueue'[g]
        PROVE  batchStatus'[sQueue'[g][i]] # "ACKNOWLEDGED"
    <3>1. i + 1 \in DOMAIN sQueue[g] /\ i + 1 # 1 /\ sQueue'[g][i] = sQueue[g][i + 1]
      BY <1>1
    <3>2. sQueue[g][i + 1] # Head(sQueue[g])
      BY <1>0, <1>1, <3>1 DEF QueueDistinct
    <3>3. sQueue[g][i + 1] \in Batches
      BY <1>0, <3>1 DEF TypeOK, TriggerTypeOK
    <3>4. batchStatus[sQueue[g][i + 1]] # "ACKNOWLEDGED"
      BY <1>0, <3>1 DEF AwaitsTurn
    <3> QED
      BY <3>1, <3>2, <3>3, <3>4
  <2> QED
    BY <1>1, <2>1 DEF AwaitsTurn
<1> QED
  BY <1>2, <1>3, <1>4, <1>5

\* Listing and writing a file touch no batch.
LEMMA ListBatches ==
  ASSUME BatchInv, TypeOK', TrailStep, NEW g \in Triggers, OthersKept(g), TriggerFrame,
         ListFundsPosted(g) \/ OpenSettlementFile(g) \/ WriteSettlementFile(g)
  PROVE  BatchStep
<1>0. /\ TypeOK /\ QueueDistinct(g) /\ AwaitsTurn(g) /\ WorksOnFunded(g)
  BY DEF BatchInv, AuditInv, OwnBatches, NotYetAcknowledged, FundedOnly
<1>1. /\ UNCHANGED <<state, batchStatus, batchFile, batchOf, sBatch, sQueue, sTids, sDone>>
      /\ spc[g] \in {"idle", "file", "write"} /\ spc'[g] \in {"file", "write", "batch"}
      /\ \A t \in sListed'[g] : t \in sListed[g] \/ state[t] = "FundsPosted"
  BY <1>0 DEF ListFundsPosted, OpenSettlementFile, WriteSettlementFile, SetGoto, batchVars,
              TypeOK, TriggerTypeOK
<1>2. \A b \in Batches : Holds(g, b)' => Holds(g, b)
  BY <1>1 DEF Holds
<1>3. QueueDistinct(g)' /\ AwaitsTurn(g)'
  BY <1>0, <1>1 DEF QueueDistinct, AwaitsTurn
<1>4. WorksOnFunded(g)'
  BY <1>0, <1>1 DEF WorksOnFunded, FundedStates
<1>5. OwnBatches' /\ FundedOnly' /\ NotYetAcknowledged'
  BY <1>1, <1>2, <1>3, <1>4, OwnPart
<1>6. BatchesKnown'
  BY <1>1, KnownPart
<1>7. \A t \in Transfers : ~Completes(g, t)
  BY <1>1 DEF Completes
<1>8. ~Faults => AcknowledgedInHand'
  BY <1>1, <1>7, InHandPart
<1> QED
  BY <1>5, <1>6, <1>8 DEF BatchStep

\* A new batch has an id that nobody holds.
LEMMA CreateBatches ==
  ASSUME BatchInv, TypeOK', TrailStep, NEW g \in Triggers, OthersKept(g), TriggerFrame,
         CreateBatch(g)
  PROVE  BatchStep
<1>0. /\ TypeOK /\ QueueDistinct(g) /\ AwaitsTurn(g) /\ WorksOnFunded(g)
  BY DEF BatchInv, AuditInv, OwnBatches, NotYetAcknowledged, FundedOnly
<1>1. PICK b \in Batches :
        /\ batchStatus[b] = "none"
        /\ batchStatus' = [batchStatus EXCEPT ![b] = "PENDING"]
        /\ batchFile' = [batchFile EXCEPT ![b] = FileOf[sCorr[g]]]
        /\ sBatch' = [sBatch EXCEPT ![g] = b]
  BY DEF CreateBatch, Fresh
<1>2. /\ UNCHANGED <<state, batchOf, sListed, sQueue, sTids, sDone>>
      /\ spc[g] = "batch" /\ spc'[g] = "link" /\ sBatch'[g] = b /\ batchStatus'[b] = "PENDING"
      /\ \A a \in Batches \ {b} : batchStatus'[a] = batchStatus[a] /\ batchFile'[a] = batchFile[a]
  BY <1>0, <1>1 DEF CreateBatch, SetGoto, TypeOK, TriggerTypeOK, SettlementTypeOK
<1>3. \A i \in DOMAIN sQueue[g] : sQueue[g][i] \in Batches /\ sQueue[g][i] # b
  BY <1>0, <1>1, HeldExist DEF BatchInv
<1>4. \A a \in Batches : Holds(g, a)' => Holds(g, a) \/ a = b
  BY <1>2 DEF Holds
<1>5. QueueDistinct(g)'
  BY <1>0, <1>2, <1>3 DEF QueueDistinct
<1>6. AwaitsTurn(g)'
  BY <1>0, <1>2, <1>3 DEF AwaitsTurn
<1>7. WorksOnFunded(g)'
  BY <1>0, <1>2 DEF WorksOnFunded
<1>8. OwnBatches' /\ FundedOnly' /\ NotYetAcknowledged'
  BY <1>1, <1>2, <1>4, <1>5, <1>6, <1>7, OwnPart
<1>9. BatchesKnown'
  <2>1. \A a \in Batches :
          /\ batchStatus[a] # "none" => batchStatus'[a] # "none" /\ batchFile'[a] = batchFile[a]
          /\ batchStatus'[a] = "none" => batchFile'[a] = batchFile[a]
    BY <1>1, <1>2
  <2> QED
    BY <1>2, <2>1, KnownPart
<1>10. ~Faults => AcknowledgedInHand'
  <2>1. \A t \in Transfers : batchOf[t] # None => batchOf[t] \in Batches /\ batchOf[t] # b
    BY <1>0, <1>1 DEF BatchInv, BatchesKnown, TypeOK, SettlementTypeOK
  <2>2. \A t \in Transfers : ~Completes(g, t)
    BY <1>2 DEF Completes
  <2> QED
    BY <1>2, <2>1, <2>2, InHandPart
<1> QED
  BY <1>8, <1>9, <1>10 DEF BatchStep

\* What a link does, and the end of a batch's links.
LEMMA LinkEffect ==
  ASSUME TypeOK, NEW g \in Triggers, LinkTransfer(g)
  PROVE  \E t \in Group(g, sCorr[g]) :
            /\ t \in Transfers /\ spc[g] = "link" /\ sBatch[g] \in Batches
            /\ sQueue[g] \in Seq(Batches) /\ sListed'[g] = sListed[g] \ {t}
            /\ batchOf'[t] = sBatch[g] \/ (Faults /\ batchOf'[t] = batchOf[t])
            /\ \A u \in Transfers \ {t} : batchOf'[u] = batchOf[u]
            /\ UNCHANGED <<state, batchStatus, batchFile, fileData, presented, torn, sTids, sDone>>
            /\ \/ /\ Group(g, sCorr[g]) # {t} /\ spc'[g] = "link"
                  /\ sCorr'[g] = sCorr[g] /\ sBatch'[g] = sBatch[g] /\ sQueue'[g] = sQueue[g]
               \/ /\ Group(g, sCorr[g]) = {t}
                  /\ spc'[g] \in {"submit", "file"}
                  /\ sQueue'[g] = Append(sQueue[g], sBatch[g])
                  /\ spc'[g] = "submit" => sListed'[g] = {}
<1>1. PICK t \in Group(g, sCorr[g]) :
          /\ \/ batchOf' = [batchOf EXCEPT ![t] = sBatch[g]]
             \/ Faults /\ UNCHANGED batchOf
          /\ sListed' = [sListed EXCEPT ![g] = @ \ {t}]
          /\ LET last == Group(g, sCorr[g]) = {t}
             IN  /\ sCorr' = [sCorr EXCEPT ![g] = IF last THEN None ELSE @]
                 /\ sBatch' = [sBatch EXCEPT ![g] = IF last THEN None ELSE @]
                 /\ sQueue' = [sQueue EXCEPT ![g] = IF last THEN Append(@, sBatch[g]) ELSE @]
                 /\ SetGoto(g, IF ~last THEN "link"
                               ELSE IF sListed[g] = {t} THEN "submit" ELSE "file")
  BY DEF LinkTransfer
<1>2. /\ t \in Transfers /\ spc[g] = "link" /\ sBatch[g] \in Batches /\ sQueue[g] \in Seq(Batches)
      /\ UNCHANGED <<state, batchStatus, batchFile, fileData, presented, torn, sTids, sDone>>
  BY DEF LinkTransfer, Group, TypeOK, TriggerTypeOK, TriggerLocalsOK
<1>3. /\ sListed'[g] = sListed[g] \ {t}
      /\ batchOf'[t] = sBatch[g] \/ (Faults /\ batchOf'[t] = batchOf[t])
      /\ \A u \in Transfers \ {t} : batchOf'[u] = batchOf[u]
  <2>1. sListed'[g] = sListed[g] \ {t}
    BY <1>1 DEF TypeOK, TriggerTypeOK
  <2>2. CASE batchOf' = [batchOf EXCEPT ![t] = sBatch[g]]
    BY <1>2, <2>1, <2>2 DEF TypeOK, SettlementTypeOK
  <2>3. CASE Faults /\ UNCHANGED batchOf
    BY <2>1, <2>3
  <2> QED
    BY <1>1, <2>2, <2>3
<1>4. CASE Group(g, sCorr[g]) = {t}
  <2>1. /\ sQueue'[g] = Append(sQueue[g], sBatch[g])
        /\ spc'[g] = IF sListed[g] = {t} THEN "submit" ELSE "file"
    BY <1>1, <1>4 DEF SetGoto, TypeOK, TriggerTypeOK
  <2> QED
    BY <1>2, <1>3, <1>4, <2>1
<1>5. CASE Group(g, sCorr[g]) # {t}
  <2>1. /\ spc'[g] = "link"
        /\ sCorr'[g] = sCorr[g] /\ sBatch'[g] = sBatch[g] /\ sQueue'[g] = sQueue[g]
    BY <1>1, <1>5 DEF SetGoto, TypeOK, TriggerTypeOK
  <2> QED
    BY <1>2, <1>3, <1>5, <2>1
<1> QED
  BY <1>4, <1>5

\* A link is to a batch that is not acknowledged yet.
LEMMA LinkBatches ==
  ASSUME BatchInv, TypeOK', TrailStep, NEW g \in Triggers, OthersKept(g), TriggerFrame,
         LinkTransfer(g)
  PROVE  BatchStep
<1>0. /\ TypeOK /\ QueueDistinct(g) /\ AwaitsTurn(g) /\ WorksOnFunded(g)
  BY DEF BatchInv, AuditInv, OwnBatches, NotYetAcknowledged, FundedOnly
<1>1. PICK t \in Group(g, sCorr[g]) :
        /\ t \in Transfers /\ spc[g] = "link" /\ sBatch[g] \in Batches
        /\ sQueue[g] \in Seq(Batches) /\ sListed'[g] = sListed[g] \ {t}
        /\ batchOf'[t] = sBatch[g] \/ batchOf'[t] = batchOf[t]
        /\ \A u \in Transfers \ {t} : batchOf'[u] = batchOf[u]
        /\ UNCHANGED <<state, batchStatus, batchFile, sTids, sDone>>
        /\ \/ /\ spc'[g] = "link" /\ sBatch'[g] = sBatch[g] /\ sQueue'[g] = sQueue[g]
           \/ /\ spc'[g] \in {"submit", "file"}
              /\ sQueue'[g] = Append(sQueue[g], sBatch[g])
  BY <1>0, LinkEffect
<1>2. \A b \in Batches : Holds(g, b)' => Holds(g, b)
  BY <1>1, AppendIndexes DEF Holds
<1>3. QueueDistinct(g)'
  <2>1. CASE spc'[g] = "link" /\ sBatch'[g] = sBatch[g] /\ sQueue'[g] = sQueue[g]
    BY <1>0, <1>1, <2>1 DEF QueueDistinct
  <2>2. CASE spc'[g] \in {"submit", "file"} /\ sQueue'[g] = Append(sQueue[g], sBatch[g])
    <3>1. \A i, j \in DOMAIN sQueue'[g] : sQueue'[g][i] = sQueue'[g][j] => i = j
      BY <1>0, <1>1, <2>2, AppendIndexes DEF QueueDistinct
    <3> QED
      BY <2>2, <3>1 DEF QueueDistinct
  <2> QED
    BY <1>1, <2>1, <2>2
<1>4. AwaitsTurn(g)'
  <2>1. CASE spc'[g] = "link" /\ sBatch'[g] = sBatch[g] /\ sQueue'[g] = sQueue[g]
    BY <1>0, <1>1, <2>1 DEF AwaitsTurn
  <2>2. CASE spc'[g] \in {"submit", "file"} /\ sQueue'[g] = Append(sQueue[g], sBatch[g])
    <3>1. \A i \in DOMAIN sQueue'[g] : batchStatus[sQueue'[g][i]] # "ACKNOWLEDGED"
      BY <1>0, <1>1, <2>2, AppendIndexes DEF AwaitsTurn
    <3> QED
      BY <1>1, <2>2, <3>1 DEF AwaitsTurn
  <2> QED
    BY <1>1, <2>1, <2>2
<1>5. WorksOnFunded(g)'
  BY <1>0, <1>1 DEF WorksOnFunded
<1>6. OwnBatches' /\ FundedOnly' /\ NotYetAcknowledged'
  BY <1>1, <1>2, <1>3, <1>4, <1>5, OwnPart
<1>7. /\ state[t] \in FundedStates /\ batchStatus[sBatch[g]] # "none"
      /\ batchStatus[sBatch[g]] # "ACKNOWLEDGED"
  BY <1>0, <1>1, HeldExist DEF BatchInv, WorksOnFunded, Group, AwaitsTurn
<1>8. BatchesKnown'
  BY <1>1, <1>7, KnownPart
<1>9. ~Faults => AcknowledgedInHand'
  <2>1. \A u \in Transfers : ~Completes(g, u)
    BY <1>1 DEF Completes
  <2> QED
    BY <1>1, <1>7, <2>1, InHandPart
<1> QED
  BY <1>6, <1>8, <1>9 DEF BatchStep

\* What a submission does: the file goes out and the batch awaits its answer, or the
\* batch is left behind, by a fault or because the file does not parse.
LEMMA SubmitEffect ==
  ASSUME TypeOK, NEW g \in Triggers, SubmitBatch(g)
  PROVE  LET b == Head(sQueue[g]) IN
         /\ spc[g] = "submit" /\ sQueue[g] # <<>> /\ b \in Batches
         /\ b = sQueue[g][1] /\ 1 \in DOMAIN sQueue[g]
         /\ UNCHANGED <<state, batchFile, batchOf, fileData, sListed, sCorr, sBatch, sTids, sDone>>
         /\ batchStatus'[b] = batchStatus[b] \/ batchStatus'[b] = "SUBMITTED"
         /\ \A a \in Batches \ {b} : batchStatus'[a] = batchStatus[a]
         /\ \/ spc'[g] = "ack" /\ sQueue'[g] = sQueue[g] /\ Present(b)
            \/ NextBatch(g) /\ ((Faults /\ Present(b)) \/ UNCHANGED presented)
<1>1. sQueue[g] \in Seq(Batches) /\ sQueue[g] # <<>>
  BY DEF SubmitBatch, TypeOK, TriggerTypeOK, TriggerLocalsOK
<1>2. /\ Head(sQueue[g]) \in Batches /\ Head(sQueue[g]) = sQueue[g][1] /\ 1 \in DOMAIN sQueue[g]
  BY <1>1
<1>3. batchStatus \in [Batches -> BatchStatuses] /\ spc \in [Triggers -> TriggerPCs]
  BY DEF TypeOK, SettlementTypeOK, TriggerTypeOK
<1>4. /\ batchStatus'[Head(sQueue[g])] = batchStatus[Head(sQueue[g])]
            \/ batchStatus'[Head(sQueue[g])] = "SUBMITTED"
      /\ \A a \in Batches \ {Head(sQueue[g])} : batchStatus'[a] = batchStatus[a]
  BY <1>2, <1>3 DEF SubmitBatch
<1>5. \/ spc'[g] = "ack" /\ sQueue'[g] = sQueue[g] /\ Present(Head(sQueue[g]))
      \/ NextBatch(g) /\ ((Faults /\ Present(Head(sQueue[g]))) \/ UNCHANGED presented)
  BY <1>3 DEF SubmitBatch, SetGoto
<1> QED
  BY <1>1, <1>2, <1>4, <1>5 DEF SubmitBatch

\* A submission acknowledges nothing.
LEMMA SubmitBatches ==
  ASSUME BatchInv, TypeOK', TrailStep, NEW g \in Triggers, OthersKept(g), TriggerFrame,
         SubmitBatch(g)
  PROVE  BatchStep
<1> DEFINE b == Head(sQueue[g])
<1>0. /\ TypeOK /\ QueueDistinct(g) /\ AwaitsTurn(g) /\ WorksOnFunded(g)
  BY DEF BatchInv, AuditInv, OwnBatches, NotYetAcknowledged, FundedOnly
<1>1. /\ spc[g] = "submit" /\ sQueue[g] # <<>> /\ b \in Batches
      /\ b = sQueue[g][1] /\ 1 \in DOMAIN sQueue[g]
      /\ UNCHANGED <<state, batchFile, batchOf, sListed, sTids, sDone>>
      /\ batchStatus'[b] = batchStatus[b] \/ batchStatus'[b] = "SUBMITTED"
      /\ \A a \in Batches \ {b} : batchStatus'[a] = batchStatus[a]
      /\ \/ spc'[g] = "ack" /\ sQueue'[g] = sQueue[g]
         \/ NextBatch(g)
  BY <1>0, SubmitEffect
<1> HIDE DEF b
<1>2. batchStatus[b] # "none" /\ batchStatus[b] # "ACKNOWLEDGED"
  BY <1>0, <1>1, HeldExist DEF BatchInv, AwaitsTurn
<1>3. WorksOnFunded(g)'
  <2>1. spc'[g] # "record"
    BY <1>0, <1>1, TailIndexes
  <2> QED
    BY <1>0, <1>1, <2>1 DEF WorksOnFunded
<1>4. OwnBatches' /\ FundedOnly' /\ NotYetAcknowledged'
  <2>1. CASE NextBatch(g)
    <3>1. /\ \A a \in Batches :
               /\ Holds(g, a)' => Holds(g, a)
               /\ batchStatus'[a] = batchStatus[a] \/ Holds(g, a)
          /\ QueueDistinct(g)' /\ AwaitsTurn(g)'
      BY <1>1, <2>1, NextBatchPart DEF b
    <3> QED
      BY <1>3, <3>1, OwnPart
  <2>2. CASE spc'[g] = "ack" /\ sQueue'[g] = sQueue[g]
    <3>1. Holds(g, b) /\ \A a \in Batches : Holds(g, a)' => Holds(g, a)
      BY <1>1, <2>2 DEF Holds
    <3>2. QueueDistinct(g)'
      BY <1>0, <1>1, <2>2 DEF QueueDistinct
    <3>3. \A i \in DOMAIN sQueue[g] : sQueue[g][i] \in Batches
      BY <1>0, HeldExist DEF BatchInv
    <3>4. AwaitsTurn(g)'
      BY <1>0, <1>1, <1>2, <2>2, <3>3 DEF AwaitsTurn
    <3> QED
      BY <1>1, <1>3, <3>1, <3>2, <3>4, OwnPart
  <2> QED
    BY <1>1, <2>1, <2>2
<1>5. \A a \in Batches : batchStatus[a] # "none" <=> batchStatus'[a] # "none"
  BY <1>1, <1>2
<1>6. BatchesKnown'
  BY <1>1, <1>5, KnownPart
<1>7. ~Faults => AcknowledgedInHand'
  <2>1. \A u \in Transfers : ~Completes(g, u)
    BY <1>1 DEF Completes
  <2>2. \A u \in Transfers : batchOf[u] # None => batchOf[u] \in Batches
    BY <1>0 DEF TypeOK, SettlementTypeOK
  <2> QED
    BY <1>1, <1>2, <2>1, <2>2, InHandPart
<1> QED
  BY <1>4, <1>6, <1>7 DEF BatchStep

\* What an acknowledgment does.
LEMMA AcknowledgeEffect ==
  ASSUME TypeOK, NEW g \in Triggers, AcknowledgeBatch(g)
  PROVE  LET b == Head(sQueue[g]) IN
         /\ spc[g] = "ack" /\ sQueue[g] # <<>> /\ b \in Batches
         /\ b = sQueue[g][1] /\ 1 \in DOMAIN sQueue[g]
         /\ UNCHANGED <<state, batchFile, batchOf, fileData, presented, sListed, sCorr, sBatch,
                        sDone>>
         /\ \A a \in Batches \ {b} : batchStatus'[a] = batchStatus[a]
         /\ \/ /\ batchStatus'[b] = "ACKNOWLEDGED" /\ sTids'[g] = LinkedTo(b)
               /\ \/ LinkedTo(b) = {} /\ NextBatch(g)
                  \/ LinkedTo(b) # {} /\ spc'[g] = "complete" /\ sQueue'[g] = sQueue[g]
            \/ Faults /\ NextBatch(g) /\ batchStatus'[b] = batchStatus[b] /\ sTids'[g] = sTids[g]
<1>1. sQueue[g] \in Seq(Batches) /\ sQueue[g] # <<>>
  BY DEF AcknowledgeBatch, TypeOK, TriggerTypeOK, TriggerLocalsOK
<1>2. /\ Head(sQueue[g]) \in Batches /\ Head(sQueue[g]) = sQueue[g][1] /\ 1 \in DOMAIN sQueue[g]
  BY <1>1
<1>3. /\ batchStatus \in [Batches -> BatchStatuses] /\ spc \in [Triggers -> TriggerPCs]
      /\ sTids \in [Triggers -> SUBSET Transfers]
  BY DEF TypeOK, SettlementTypeOK, TriggerTypeOK
<1>4. CASE /\ batchStatus' = [batchStatus EXCEPT ![Head(sQueue[g])] = "ACKNOWLEDGED"]
           /\ sTids' = [sTids EXCEPT ![g] = LinkedTo(Head(sQueue[g]))]
           /\ IF LinkedTo(Head(sQueue[g])) = {} THEN NextBatch(g)
              ELSE SetGoto(g, "complete") /\ UNCHANGED sQueue
  BY <1>1, <1>2, <1>3, <1>4 DEF AcknowledgeBatch, SetGoto
<1>5. CASE Faults /\ NextBatch(g) /\ UNCHANGED <<batchStatus, sTids>>
  BY <1>1, <1>2, <1>3, <1>5 DEF AcknowledgeBatch
<1> QED
  BY <1>4, <1>5 DEF AcknowledgeBatch

\* The trigger takes in hand whatever is linked to the batch it acknowledges.
LEMMA AcknowledgeBatches ==
  ASSUME BatchInv, TypeOK', TrailStep, NEW g \in Triggers, OthersKept(g), TriggerFrame,
         AcknowledgeBatch(g)
  PROVE  BatchStep
<1> DEFINE b == Head(sQueue[g])
<1>0. /\ TypeOK /\ QueueDistinct(g) /\ AwaitsTurn(g) /\ WorksOnFunded(g)
  BY DEF BatchInv, AuditInv, OwnBatches, NotYetAcknowledged, FundedOnly
<1>1. /\ spc[g] = "ack" /\ sQueue[g] # <<>> /\ b \in Batches
      /\ b = sQueue[g][1] /\ 1 \in DOMAIN sQueue[g]
      /\ UNCHANGED <<state, batchFile, batchOf, sListed, sDone>>
      /\ \A a \in Batches \ {b} : batchStatus'[a] = batchStatus[a]
      /\ \/ /\ batchStatus'[b] = "ACKNOWLEDGED" /\ sTids'[g] = LinkedTo(b)
            /\ \/ LinkedTo(b) = {} /\ NextBatch(g)
               \/ LinkedTo(b) # {} /\ spc'[g] = "complete" /\ sQueue'[g] = sQueue[g]
         \/ Faults /\ NextBatch(g) /\ batchStatus'[b] = batchStatus[b] /\ sTids'[g] = sTids[g]
  BY <1>0, AcknowledgeEffect
<1> HIDE DEF b
<1>2. batchStatus[b] # "none"
  BY <1>0, <1>1, HeldExist DEF BatchInv
<1>3. WorksOnFunded(g)'
  <2>1. spc'[g] # "record"
    BY <1>0, <1>1, TailIndexes
  <2>2. \A t \in LinkedTo(b) : state[t] \in FundedStates
    BY <1>1, NullAssumption DEF BatchInv, BatchesKnown, LinkedTo
  <2> QED
    BY <1>0, <1>1, <2>1, <2>2 DEF WorksOnFunded
<1>4. OwnBatches' /\ FundedOnly' /\ NotYetAcknowledged'
  <2>1. CASE NextBatch(g)
    <3>1. /\ \A a \in Batches :
               /\ Holds(g, a)' => Holds(g, a)
               /\ batchStatus'[a] = batchStatus[a] \/ Holds(g, a)
          /\ QueueDistinct(g)' /\ AwaitsTurn(g)'
      BY <1>1, <2>1, NextBatchPart DEF b
    <3> QED
      BY <1>3, <3>1, OwnPart
  <2>2. CASE spc'[g] = "complete" /\ sQueue'[g] = sQueue[g]
    <3>1. Holds(g, b) /\ \A a \in Batches : Holds(g, a)' => Holds(g, a)
      BY <1>1, <2>2 DEF Holds
    <3>2. QueueDistinct(g)'
      BY <1>0, <1>1, <2>2 DEF QueueDistinct
    <3>3. \A i \in DOMAIN sQueue[g] :
            sQueue[g][i] \in Batches /\ (i # 1 => sQueue[g][i] # b)
      BY <1>0, <1>1, HeldExist DEF BatchInv, QueueDistinct
    <3>4. AwaitsTurn(g)'
      BY <1>0, <1>1, <2>2, <3>3 DEF AwaitsTurn
    <3> QED
      BY <1>1, <1>3, <3>1, <3>2, <3>4, OwnPart
  <2> QED
    BY <1>1, <2>1, <2>2
<1>5. \A a \in Batches : batchStatus[a] # "none" <=> batchStatus'[a] # "none"
  BY <1>1, <1>2
<1>6. BatchesKnown'
  BY <1>1, <1>5, KnownPart
<1>7. ~Faults => AcknowledgedInHand'
  <2> SUFFICES ASSUME ~Faults PROVE AcknowledgedInHand'
    OBVIOUS
  <2>1. \A u \in Transfers : ~Completes(g, u)
    BY <1>1 DEF Completes
  <2>2. \A u \in Transfers : batchOf[u] # None => batchOf[u] \in Batches
    BY <1>0 DEF TypeOK, SettlementTypeOK
  <2>3. \A u \in Transfers : batchOf[u] = b => Completes(g, u)'
    BY <1>1 DEF Completes, LinkedTo, b
  <2> QED
    BY <1>1, <2>1, <2>2, <2>3, InHandPart
<1> QED
  BY <1>4, <1>6, <1>7 DEF BatchStep

\* What the completion of a transfer does.
LEMMA CompleteEffect ==
  ASSUME TypeOK, NEW g \in Triggers, CompleteTransfer(g)
  PROVE  \E t \in sTids[g] :
            /\ t \in Transfers /\ spc[g] = "complete" /\ sQueue[g] # <<>>
            /\ UNCHANGED <<batchStatus, batchFile, batchOf, fileData, presented, sListed, sCorr,
                           sBatch>>
            /\ sTids'[g] = sTids[g] \ {t}
            /\ \A u \in Transfers \ {t} : state'[u] = state[u]
            /\ \/ /\ state[t] = "FundsPosted" /\ state'[t] = "Completed" /\ sDone'[g] = t
                  /\ spc'[g] = "record" /\ sQueue'[g] = sQueue[g]
               \/ /\ state[t] # "FundsPosted" \/ Faults
                  /\ state'[t] = state[t] /\ sDone'[g] = sDone[g]
                  /\ \/ sTids[g] = {t} /\ NextBatch(g)
                     \/ sTids[g] # {t} /\ spc'[g] = spc[g] /\ sQueue'[g] = sQueue[g]
<1>1. PICK t \in sTids[g] :
          /\ sTids' = [sTids EXCEPT ![g] = @ \ {t}]
          /\ \/ /\ UpdateState(t, "FundsPosted", "Completed")
                /\ sDone' = [sDone EXCEPT ![g] = t]
                /\ SetGoto(g, "record") /\ UNCHANGED sQueue
             \/ /\ state[t] # "FundsPosted" \/ Faults
                /\ IF sTids[g] = {t} THEN NextBatch(g) ELSE UNCHANGED <<spc, sQueue>>
                /\ UNCHANGED <<state, sDone>>
  BY DEF CompleteTransfer
<1>2. /\ t \in Transfers /\ spc[g] = "complete" /\ sQueue[g] # <<>>
      /\ UNCHANGED <<batchStatus, batchFile, batchOf, fileData, presented, sListed, sCorr, sBatch>>
      /\ sTids'[g] = sTids[g] \ {t}
  BY <1>1 DEF CompleteTransfer, batchVars, TypeOK, TriggerTypeOK, TriggerLocalsOK
<1>3. CASE /\ UpdateState(t, "FundsPosted", "Completed")
           /\ sDone' = [sDone EXCEPT ![g] = t]
           /\ SetGoto(g, "record") /\ UNCHANGED sQueue
  <2>1. /\ state[t] = "FundsPosted" /\ state'[t] = "Completed"
        /\ \A u \in Transfers \ {t} : state'[u] = state[u]
    BY <1>2, <1>3 DEF UpdateState, TypeOK, TablesTypeOK
  <2>2. sDone'[g] = t /\ spc'[g] = "record" /\ sQueue'[g] = sQueue[g]
    BY <1>3 DEF SetGoto, TypeOK, TriggerTypeOK
  <2> QED
    BY <1>2, <2>1, <2>2
<1>4. CASE /\ state[t] # "FundsPosted" \/ Faults
           /\ IF sTids[g] = {t} THEN NextBatch(g) ELSE UNCHANGED <<spc, sQueue>>
           /\ UNCHANGED <<state, sDone>>
  BY <1>2, <1>4
<1> QED
  BY <1>1, <1>3, <1>4

\* A transfer that is skipped was settled already.
LEMMA CompleteBatches ==
  ASSUME BatchInv, TypeOK', TrailStep, NEW g \in Triggers, OthersKept(g), TriggerFrame,
         CompleteTransfer(g)
  PROVE  BatchStep
<1>0. /\ TypeOK /\ QueueDistinct(g) /\ AwaitsTurn(g) /\ WorksOnFunded(g)
  BY DEF BatchInv, AuditInv, OwnBatches, NotYetAcknowledged, FundedOnly
<1>1. PICK t \in sTids[g] :
        /\ t \in Transfers /\ spc[g] = "complete" /\ sQueue[g] # <<>>
        /\ UNCHANGED <<batchStatus, batchFile, batchOf, sListed, sBatch>>
        /\ sTids'[g] = sTids[g] \ {t}
        /\ \A u \in Transfers \ {t} : state'[u] = state[u]
        /\ \/ /\ state'[t] = "Completed" /\ sDone'[g] = t
              /\ spc'[g] = "record" /\ sQueue'[g] = sQueue[g]
           \/ /\ state[t] # "FundsPosted" \/ Faults
              /\ state'[t] = state[t]
              /\ \/ sTids[g] = {t} /\ NextBatch(g)
                 \/ sTids[g] # {t} /\ spc'[g] = "complete" /\ sQueue'[g] = sQueue[g]
  BY <1>0, CompleteEffect
<1>2. spc'[g] # "record" \/ (sDone'[g] = t /\ state'[t] = "Completed")
  BY <1>0, <1>1, TailIndexes
<1>3. WorksOnFunded(g)'
  <2>1. \A u \in sListed[g] \union sTids[g] : u \in Transfers
    BY <1>0 DEF TypeOK, TriggerTypeOK
  <2>2. \A u \in Transfers : state[u] \in FundedStates => state'[u] \in FundedStates
    BY <1>0, StatesAdvance
  <2> QED
    BY <1>0, <1>1, <1>2, <2>1, <2>2 DEF WorksOnFunded, SettledStates
<1>4. OwnBatches' /\ FundedOnly' /\ NotYetAcknowledged'
  <2>1. CASE NextBatch(g)
    <3>1. /\ \A a \in Batches : Holds(g, a)' => Holds(g, a)
          /\ QueueDistinct(g)' /\ AwaitsTurn(g)'
      BY <1>1, <2>1, NextBatchPart
    <3> QED
      BY <1>1, <1>3, <3>1, OwnPart
  <2>2. CASE spc'[g] \in {"complete", "record"} /\ sQueue'[g] = sQueue[g]
    <3>1. \A a \in Batches : Holds(g, a)' => Holds(g, a)
      BY <1>1, <2>2 DEF Holds
    <3>2. QueueDistinct(g)' /\ AwaitsTurn(g)'
      BY <1>0, <1>1, <2>2 DEF QueueDistinct, AwaitsTurn
    <3> QED
      BY <1>1, <1>3, <3>1, <3>2, OwnPart
  <2> QED
    BY <1>1, <2>1, <2>2
<1>5. BatchesKnown'
  BY <1>1, KnownPart
<1>6. ~Faults => AcknowledgedInHand'
  <2> SUFFICES ASSUME ~Faults PROVE AcknowledgedInHand'
    OBVIOUS
  <2>1. state'[t] \in SettledStates
    BY <1>0, <1>1 DEF WorksOnFunded, FundedStates, SettledStates
  <2>2. \A u \in Transfers \ {t} : Completes(g, u) => Completes(g, u)'
    BY <1>1 DEF Completes
  <2> QED
    BY <1>1, <2>1, <2>2, InHandPart
<1> QED
  BY <1>4, <1>5, <1>6 DEF BatchStep

\* What recording a completion does.
LEMMA RecordEffect ==
  ASSUME TypeOK, NEW g \in Triggers, RecordCompletion(g)
  PROVE  LET b == Head(sQueue[g]) IN
         /\ spc[g] = "record" /\ sQueue[g] # <<>> /\ b \in Batches /\ sDone[g] \in Transfers
         /\ b = sQueue[g][1] /\ 1 \in DOMAIN sQueue[g]
         /\ UNCHANGED <<state, batchStatus, batchFile, fileData, presented, sListed, sCorr, sBatch,
                        sTids>>
         /\ batchOf'[sDone[g]] = b \/ (Faults /\ batchOf'[sDone[g]] = batchOf[sDone[g]])
         /\ \A u \in Transfers \ {sDone[g]} : batchOf'[u] = batchOf[u]
         /\ \/ sTids[g] = {} /\ NextBatch(g)
            \/ sTids[g] # {} /\ spc'[g] = "complete" /\ sQueue'[g] = sQueue[g]
<1>1. sQueue[g] \in Seq(Batches) /\ sQueue[g] # <<>>
  BY DEF RecordCompletion, TypeOK, TriggerTypeOK, TriggerLocalsOK
<1>2. /\ Head(sQueue[g]) \in Batches /\ Head(sQueue[g]) = sQueue[g][1] /\ 1 \in DOMAIN sQueue[g]
  BY <1>1
<1>3. /\ spc[g] = "record" /\ sDone[g] \in Transfers
      /\ batchOf \in [Transfers -> Batches \union {None}] /\ spc \in [Triggers -> TriggerPCs]
  BY DEF RecordCompletion, TypeOK, TriggerTypeOK, TriggerLocalsOK, SettlementTypeOK
<1>4. /\ batchOf'[sDone[g]] = Head(sQueue[g])
            \/ (Faults /\ batchOf'[sDone[g]] = batchOf[sDone[g]])
      /\ \A u \in Transfers \ {sDone[g]} : batchOf'[u] = batchOf[u]
  BY <1>3 DEF RecordCompletion
<1>5. \/ sTids[g] = {} /\ NextBatch(g)
      \/ sTids[g] # {} /\ spc'[g] = "complete" /\ sQueue'[g] = sQueue[g]
  BY <1>3 DEF RecordCompletion, SetGoto
<1> QED
  BY <1>1, <1>2, <1>3, <1>4, <1>5 DEF RecordCompletion

\* What is recorded is settled.
LEMMA RecordBatches ==
  ASSUME BatchInv, TypeOK', TrailStep, NEW g \in Triggers, OthersKept(g), TriggerFrame,
         RecordCompletion(g)
  PROVE  BatchStep
<1> DEFINE b == Head(sQueue[g])
           d == sDone[g]
<1>0. /\ TypeOK /\ QueueDistinct(g) /\ AwaitsTurn(g) /\ WorksOnFunded(g)
  BY DEF BatchInv, AuditInv, OwnBatches, NotYetAcknowledged, FundedOnly
<1>1. /\ spc[g] = "record" /\ sQueue[g] # <<>> /\ b \in Batches /\ d \in Transfers
      /\ b = sQueue[g][1] /\ 1 \in DOMAIN sQueue[g]
      /\ UNCHANGED <<state, batchStatus, batchFile, sListed, sBatch, sTids>>
      /\ batchOf'[d] = b \/ batchOf'[d] = batchOf[d]
      /\ \A u \in Transfers \ {d} : batchOf'[u] = batchOf[u]
      /\ \/ sTids[g] = {} /\ NextBatch(g)
         \/ sTids[g] # {} /\ spc'[g] = "complete" /\ sQueue'[g] = sQueue[g]
  BY <1>0, RecordEffect
<1>2. batchStatus[b] # "none" /\ state[d] \in SettledStates
  BY <1>0, <1>1, HeldExist DEF BatchInv, WorksOnFunded
<1> HIDE DEF b, d
<1>3. WorksOnFunded(g)'
  <2>1. spc'[g] # "record"
    BY <1>0, <1>1, TailIndexes
  <2> QED
    BY <1>0, <1>1, <2>1 DEF WorksOnFunded
<1>4. OwnBatches' /\ FundedOnly' /\ NotYetAcknowledged'
  <2>1. CASE NextBatch(g)
    <3>1. /\ \A a \in Batches : Holds(g, a)' => Holds(g, a)
          /\ QueueDistinct(g)' /\ AwaitsTurn(g)'
      BY <1>1, <2>1, NextBatchPart
    <3> QED
      BY <1>1, <1>3, <3>1, OwnPart
  <2>2. CASE spc'[g] = "complete" /\ sQueue'[g] = sQueue[g]
    <3>1. \A a \in Batches : Holds(g, a)' => Holds(g, a)
      BY <1>1, <2>2 DEF Holds
    <3>2. QueueDistinct(g)' /\ AwaitsTurn(g)'
      BY <1>0, <1>1, <2>2 DEF QueueDistinct, AwaitsTurn
    <3> QED
      BY <1>1, <1>3, <3>1, <3>2, OwnPart
  <2> QED
    BY <1>1, <2>1, <2>2
<1>5. BatchesKnown'
  BY <1>1, <1>2, KnownPart DEF SettledStates, FundedStates
<1>6. ~Faults => AcknowledgedInHand'
  <2>1. \A u \in Transfers \ {d} : Completes(g, u) => Completes(g, u)'
    BY <1>1 DEF Completes
  <2> QED
    BY <1>1, <1>2, <2>1, InHandPart
<1> QED
  BY <1>4, <1>5, <1>6 DEF BatchStep

\* A trigger that is cut off leaves its batches behind.
LEMMA AbortBatches ==
  ASSUME BatchInv, TypeOK', TrailStep, NEW g \in Triggers, OthersKept(g), TriggerFrame,
         TriggerAborts(g)
  PROVE  BatchStep
<1>0. TypeOK
  BY DEF BatchInv, AuditInv
<1>1. /\ Faults /\ spc'[g] = "idle" /\ sListed'[g] = {} /\ sQueue'[g] = <<>> /\ sTids'[g] = {}
      /\ UNCHANGED <<batchStatus, batchFile, batchOf>>
  BY <1>0 DEF TriggerAborts, SetGoto, batchVars, TypeOK, TriggerTypeOK
<1>2. \A b \in Batches : ~Holds(g, b)'
  BY <1>1 DEF Holds
<1>3. QueueDistinct(g)' /\ WorksOnFunded(g)' /\ AwaitsTurn(g)'
  BY <1>1 DEF QueueDistinct, WorksOnFunded, AwaitsTurn
<1>4. OwnBatches' /\ FundedOnly' /\ NotYetAcknowledged'
  BY <1>1, <1>2, <1>3, OwnPart
<1>5. BatchesKnown'
  BY <1>1, KnownPart
<1> QED
  BY <1>1, <1>4, <1>5 DEF BatchStep

\* Every step of a trigger keeps the batches in order.
LEMMA TriggerBatches ==
  ASSUME BatchInv, TypeOK', TrailStep, NEW g \in Triggers, TriggerFrame,
         ListFundsPosted(g) \/ TriggerRuns(g) \/ TriggerAborts(g)
  PROVE  BatchStep /\ OthersKept(g)
<1>1. OthersKept(g)
  BY TriggerOthers DEF BatchInv, AuditInv
<1> QED
  BY <1>1, ListBatches, CreateBatches, LinkBatches, SubmitBatches, AcknowledgeBatches,
     CompleteBatches, RecordBatches, AbortBatches DEF TriggerRuns

\* The batches' invariant holds of the empty tables and every step keeps it.
LEMMA BatchInduction ==
  /\ Init => BatchInv
  /\ BatchInv /\ [Next]_vars => BatchInv'
<1>1. ASSUME Init PROVE BatchInv
  <2>1. /\ batchStatus = [b \in Batches |-> "none"] /\ batchFile = [b \in Batches |-> None]
        /\ batchOf = [t \in Transfers |-> None]
        /\ spc = [g \in Triggers |-> "idle"] /\ sListed = [g \in Triggers |-> {}]
        /\ sQueue = [g \in Triggers |-> <<>>] /\ sTids = [g \in Triggers |-> {}]
        /\ hpc = [h \in HealthRequests |-> "idle"]
    BY <1>1 DEF Init, SettlementInit, HealthInit
  <2>2. BatchesKnown /\ AcknowledgedInHand
    BY <2>1 DEF BatchesKnown, AcknowledgedInHand
  <2>3. OwnBatches /\ FundedOnly /\ NotYetAcknowledged
    BY <2>1 DEF OwnBatches, QueueDistinct, Holds, FundedOnly, WorksOnFunded, NotYetAcknowledged,
                AwaitsTurn
  <2> QED
    BY <1>1, <2>2, <2>3, AuditInduction DEF BatchInv
<1>2. ASSUME BatchInv, [Next]_vars PROVE BatchInv'
  <2>1. TypeOK /\ TypeOK' /\ AuditInv'
    BY <1>2, NextTypes, AuditInduction DEF BatchInv, AuditInv
  <2>2. TrailStep
    BY <1>2, <2>1, NextTrail
  <2>3. CASE UNCHANGED <<setVars, healthVars>>
    BY <1>2, <2>1, <2>2, <2>3, OutsideBatches DEF BatchInv, BatchStep
  <2>4. ASSUME NEW g \in Triggers, TriggerFrame,
               ListFundsPosted(g) \/ TriggerRuns(g) \/ TriggerAborts(g)
        PROVE  BatchInv'
    BY <1>2, <2>1, <2>2, <2>4, TriggerBatches DEF BatchInv, BatchStep
  <2>5. ASSUME NEW h \in HealthRequests, HealthFrame,
               SelectReady(h) \/ HealthRuns(h) \/ HealthAborts(h)
        PROVE  BatchInv'
    BY <1>2, <2>1, <2>5, HealthBatches DEF BatchInv, BatchStep
  <2>6. CASE UNCHANGED vars
    BY <2>3, <2>6 DEF vars
  <2>7. CASE Next
    BY <2>3, <2>4, <2>5, <2>7 DEF Next, DepositFrame, OperatorFrame, ReturnFrame, DepositStep,
                                  OperatorStep, ReturnStep, TriggerStep
  <2> QED
    BY <1>2, <2>6, <2>7
<1> QED
  BY <1>1, <1>2

\* The batches' invariant holds throughout.
LEMMA BatchInvariant == Spec => []BatchInv
  BY BatchInduction, PTL DEF Spec

\* When no request is cut off, nothing linked to a batch that the bank acknowledged is
\* left behind in FundsPosted once the triggers have answered, however many of them
\* relink each other's transfers and whatever returns and the health trigger do.
THEOREM AcknowledgedSettled == Spec => [](~Faults => AcknowledgedAreSettled)
<1>1. BatchInv => (~Faults => AcknowledgedAreSettled)
  <2> SUFFICES ASSUME BatchInv, ~Faults PROVE AcknowledgedAreSettled
    OBVIOUS
  <2>1. (\A g \in Triggers : spc[g] = "idle") => \A g \in Triggers, t \in Transfers : ~Completes(g, t)
    BY DEF Completes
  <2> QED
    BY <2>1 DEF BatchInv, AcknowledgedInHand, AcknowledgedAreSettled, SettledStates
<1> QED
  BY <1>1, BatchInvariant, PTL

----------------------------------------------------------------------------
(* What the settlement bank is shown, while one trigger runs at a time and *)
(* every correspondent has a file of its own.  Two triggers, or two        *)
(* correspondents with one path, overwrite each other's files.             *)

\* One trigger at a time, and a path for each correspondent.
Orderly ==
    /\ \A g, k \in Triggers : g = k
    /\ \A c, d \in Correspondents : FileOf[c] = FileOf[d] => c = d

\* While a batch is being built its correspondent's transfers are in the file, and
\* so is everything linked to the batch.
FileOfBuilt(g) ==
    /\ spc[g] \in {"write", "batch", "link"} => Group(g, sCorr[g]) # {}
    /\ spc[g] \in {"batch", "link"} => Group(g, sCorr[g]) \subseteq fileData[FileOf[sCorr[g]]]
    /\ spc[g] = "link" =>
          /\ batchFile[sBatch[g]] = FileOf[sCorr[g]]
          /\ LinkedTo(sBatch[g]) \subseteq fileData[FileOf[sCorr[g]]]

\* The file of a batch in the queue holds whatever is linked to the batch, and its
\* correspondent has no transfer left to link: the path is not written again.
QueuedFile(g, b) ==
    /\ LinkedTo(b) \subseteq fileData[batchFile[b]]
    /\ \E c \in Correspondents : batchFile[b] = FileOf[c] /\ Group(g, c) = {}

FilesOfQueue(g) == \A i \in DOMAIN sQueue[g] : QueuedFile(g, sQueue[g][i])

\* The bank has been shown the file of the batch being acknowledged, which holds every
\* transfer that the acknowledgment completes.
FileShown(g) ==
    spc[g] \in {"ack", "complete", "record"} =>
        LET b == Head(sQueue[g]) IN
        /\ \A t \in fileData[batchFile[b]] : <<b, t>> \in presented
        /\ spc[g] # "ack" => sTids[g] \subseteq fileData[batchFile[b]]
        /\ spc[g] = "record" => sDone[g] \in fileData[batchFile[b]]

FileInv ==
    /\ \A g \in Triggers : FileOfBuilt(g) /\ FilesOfQueue(g) /\ FileShown(g)
    /\ CompletedWasPresented

\* When no link is lost either, the file holds nothing else.
ExactFile(g, b) == \A t \in fileData[batchFile[b]] : batchOf[t] = b /\ t \notin sListed[g]

FileExact(g) ==
    /\ spc[g] \in {"batch", "link"} =>
          \A t \in fileData[FileOf[sCorr[g]]] :
              /\ CorrOf(t) = sCorr[g]
              /\ t \in Group(g, sCorr[g]) \/ (spc[g] = "link" /\ batchOf[t] = sBatch[g])
    /\ \A i \in DOMAIN sQueue[g] : ExactFile(g, sQueue[g][i])

\* A trigger has still to show t to the bank.
ToPresent(g, t) ==
    \/ t \in sListed[g]
    \/ spc[g] = "link" /\ batchOf[t] = sBatch[g]
    \/ \E i \in DOMAIN sQueue[g] :
          /\ i # 1 \/ spc[g] \notin {"ack", "complete", "record"}
          /\ batchOf[t] = sQueue[g][i]

\* A trigger has shown t to the bank in b and has still to complete it.
InHand(g, b, t) ==
    /\ \/ spc[g] = "ack" /\ batchOf[t] = b
       \/ spc[g] \in {"complete", "record"} /\ t \in sTids[g]
    /\ Head(sQueue[g]) = b

\* What the bank was shown is settled, or the trigger has it in hand ...
PresentedInHand ==
    \A b \in Batches, t \in Transfers :
        <<b, t>> \in presented =>
            state[t] \in SettledStates \/ \E g \in Triggers : InHand(g, b, t)

\* ... and is not about to be shown again.
NotPresentedYet ==
    \A g \in Triggers, b \in Batches, t \in Transfers :
        ToPresent(g, t) => <<b, t>> \notin presented

PresentInv ==
    /\ \A g \in Triggers : FileExact(g)
    /\ PresentedInHand
    /\ NotPresentedYet
    /\ PresentedOnce

\* The inductive invariant, with those of the batches and of the audit trail.
SettlementInv ==
    /\ BatchInv
    /\ Orderly => FileInv /\ (~Faults => PresentInv)

----------------------------------------------------------------------------
(* Steps of other requests *)

\* What every step must establish about the files and what the bank was shown.
FileStep == FileInv' /\ (~Faults => PresentInv')

OrderlyInv == Orderly /\ SettlementInv

\* Deposits, operators and returns leave the files alone, and complete no transfer.
LEMMA OutsideFiles ==
  ASSUME OrderlyInv, TrailStep, UNCHANGED <<setVars, healthVars>>
  PROVE  FileStep
<1>0. TypeOK /\ FileInv /\ (~Faults => PresentInv)
  BY DEF OrderlyInv, SettlementInv, BatchInv, AuditInv
<1>1. UNCHANGED <<batchFile, batchOf, fileData, presented, spc, sListed, sCorr, sBatch, sQueue,
                  sTids, sDone>>
  BY DEF setVars, batchVars
<1>2. \A t \in Transfers :
         /\ state[t] \in SettledStates => state'[t] \in SettledStates
         /\ state'[t] = "Completed" => state[t] = "Completed"
  BY <1>0, <1>1, StatesAdvance
<1>3. CompletedWasPresented'
  BY <1>0, <1>1, <1>2 DEF FileInv, CompletedWasPresented
<1>4. \A g \in Triggers : (FileOfBuilt(g) /\ FilesOfQueue(g) /\ FileShown(g))'
  BY <1>0, <1>1 DEF FileInv, FileOfBuilt, FilesOfQueue, QueuedFile, FileShown, Group, LinkedTo
<1>5. ASSUME ~Faults PROVE PresentInv'
  <2>1. \A g \in Triggers : FileExact(g)'
    BY <1>0, <1>1, <1>5 DEF PresentInv, FileExact, ExactFile, Group
  <2>2. PresentedInHand'
    BY <1>0, <1>1, <1>2, <1>5 DEF PresentInv, PresentedInHand, InHand
  <2>3. NotPresentedYet' /\ PresentedOnce'
    BY <1>0, <1>1, <1>5 DEF PresentInv, NotPresentedYet, ToPresent, PresentedOnce
  <2> QED
    BY <2>1, <2>2, <2>3 DEF PresentInv
<1> QED
  BY <1>3, <1>4, <1>5 DEF FileStep, FileInv

\* The health trigger links unbatched transfers to batches that no trigger holds.
LEMMA HealthFiles ==
  ASSUME OrderlyInv, NEW h \in HealthRequests, HealthFrame,
         SelectReady(h) \/ HealthRuns(h) \/ HealthAborts(h)
  PROVE  FileStep
<1>0. TypeOK /\ BatchesKnown /\ FileInv /\ (~Faults => PresentInv)
  BY DEF OrderlyInv, SettlementInv, BatchInv, AuditInv
<1>1. UNCHANGED <<state, batchFile, fileData, presented, spc, sListed, sCorr, sBatch, sQueue,
                  sTids, sDone>>
  BY DEF HealthFrame
<1>2. \A t \in Transfers :
        \/ batchOf'[t] = batchOf[t]
        \/ batchOf[t] = None /\ hpc[h] = "link" /\ batchOf'[t] = hBatch[h]
  BY DEF SelectReady, HealthRuns, HealthAborts, InsertAcknowledged, LinkUnbatched, Unbatched
<1>3. \A g \in Triggers, b \in Batches : Holds(g, b) =>
        \A t \in Transfers : batchOf'[t] = b <=> batchOf[t] = b
  BY <1>0, <1>2, HeldExist, NullAssumption
<1>4. \A g \in Triggers :
        /\ \A i \in DOMAIN sQueue[g] : sQueue[g][i] \in Batches /\ Holds(g, sQueue[g][i])
        /\ spc[g] = "link" => sBatch[g] \in Batches /\ Holds(g, sBatch[g])
  BY <1>0, HeldExist
<1>5. \A g \in Triggers :
        /\ \A i \in DOMAIN sQueue[g] :
              /\ \A t \in Transfers : batchOf'[t] = sQueue[g][i] <=> batchOf[t] = sQueue[g][i]
              /\ LinkedTo(sQueue[g][i])' = LinkedTo(sQueue[g][i])
        /\ spc[g] = "link" =>
              /\ \A t \in Transfers : batchOf'[t] = sBatch[g] <=> batchOf[t] = sBatch[g]
              /\ LinkedTo(sBatch[g])' = LinkedTo(sBatch[g])
  BY <1>1, <1>3, <1>4 DEF LinkedTo
<1>6. CompletedWasPresented'
  BY <1>0, <1>1 DEF FileInv, CompletedWasPresented
<1>7. \A g \in Triggers : (FileOfBuilt(g) /\ FilesOfQueue(g) /\ FileShown(g))'
  BY <1>0, <1>1, <1>5 DEF FileInv, FileOfBuilt, FilesOfQueue, QueuedFile, FileShown, Group
<1>8. ASSUME ~Faults PROVE PresentInv'
  <2>1. fileData \in [Files -> SUBSET Transfers] /\ \A g \in Triggers : FileExact(g)
    BY <1>0, <1>8 DEF PresentInv, TypeOK, SettlementTypeOK
  <2>2. \A g \in Triggers : FileExact(g)'
    <3> SUFFICES ASSUME NEW g \in Triggers PROVE FileExact(g)'
      OBVIOUS
    <3>1. \A i \in DOMAIN sQueue[g] : ExactFile(g, sQueue[g][i])'
      <4>1. \A i \in DOMAIN sQueue[g] : \A t \in fileData[batchFile[sQueue[g][i]]] : t \in Transfers
        BY <1>0, <2>1 DEF TypeOK, TriggerLocalsOK
      <4> QED
        BY <1>1, <1>5, <2>1, <4>1 DEF FileExact, ExactFile
    <3>2. spc[g] \in {"batch", "link"} => fileData[FileOf[sCorr[g]]] \subseteq Transfers
      BY <1>0, <2>1, FileAssumption DEF TypeOK, TriggerLocalsOK
    <3> QED
      BY <1>1, <1>5, <2>1, <3>1, <3>2 DEF FileExact, Group
  <2>3. PresentedInHand'
    BY <1>0, <1>1, <1>2, <1>8, NullAssumption DEF PresentInv, PresentedInHand, InHand
  <2>4. NotPresentedYet' /\ PresentedOnce'
    BY <1>0, <1>1, <1>5, <1>8 DEF PresentInv, NotPresentedYet, ToPresent, PresentedOnce
  <2> QED
    BY <2>2, <2>3, <2>4 DEF PresentInv
<1> QED
  BY <1>6, <1>7, <1>8 DEF FileStep, FileInv

----------------------------------------------------------------------------
(* Steps of the trigger *)

\* There is one trigger, so what its steps do for its own files they do for all.
LEMMA FilePart ==
  ASSUME Orderly, NEW g \in Triggers,
         FileOfBuilt(g)', FilesOfQueue(g)', FileShown(g)', CompletedWasPresented',
         ~Faults => PresentInv'
  PROVE  FileStep
<1>1. \A k \in Triggers : k = g
  BY DEF Orderly
<1> QED
  BY <1>1 DEF FileStep, FileInv

\* A step that shows the bank nothing.
LEMMA PresentPart ==
  ASSUME OrderlyInv, ~Faults, TrailStep, NEW g \in Triggers, UNCHANGED presented,
         FileExact(g)',
         \A t \in Transfers : ToPresent(g, t)' => ToPresent(g, t),
         \A b \in Batches, t \in Transfers :
            InHand(g, b, t) => state'[t] \in SettledStates \/ InHand(g, b, t)'
  PROVE  PresentInv'
<1>0. TypeOK /\ PresentInv /\ \A k \in Triggers : k = g
  BY DEF OrderlyInv, SettlementInv, BatchInv, AuditInv, Orderly
<1>1. \A k \in Triggers : FileExact(k)'
  BY <1>0
<1>2. PresentedInHand'
  BY <1>0, StatesAdvance DEF PresentInv, PresentedInHand
<1>3. NotPresentedYet'
  BY <1>0 DEF PresentInv, NotPresentedYet
<1>4. PresentedOnce'
  BY <1>0 DEF PresentInv, PresentedOnce
<1> QED
  BY <1>1, <1>2, <1>3, <1>4 DEF PresentInv

\* What a trigger's step starts from.
LEMMA OrderlyParts ==
  ASSUME OrderlyInv, NEW g \in Triggers
  PROVE  /\ TypeOK /\ BatchesKnown /\ Orderly
         /\ QueueDistinct(g) /\ WorksOnFunded(g)
         /\ FileOfBuilt(g) /\ FilesOfQueue(g) /\ FileShown(g) /\ CompletedWasPresented
         /\ ~Faults => FileExact(g) /\ PresentedInHand /\ NotPresentedYet /\ PresentedOnce
  BY DEF OrderlyInv, SettlementInv, BatchInv, AuditInv, OwnBatches, FundedOnly, FileInv, PresentInv

\* Nothing that was shown to the bank is listed.
LEMMA ListFiles ==
  ASSUME OrderlyInv, TrailStep, NEW g \in Triggers, ListFundsPosted(g)
  PROVE  FileStep
<1>0. /\ TypeOK /\ Orderly /\ QueueDistinct(g) /\ CompletedWasPresented
      /\ ~Faults => PresentedInHand /\ PresentedOnce
  BY OrderlyParts
<1>1. /\ UNCHANGED <<state, presented>> /\ spc[g] = "idle" /\ spc'[g] = "file"
      /\ sQueue'[g] = <<>> /\ sListed'[g] = {t \in Transfers : state[t] = "FundsPosted"}
  BY <1>0 DEF ListFundsPosted, SetGoto, batchVars, TypeOK, TriggerTypeOK, QueueDistinct
<1>2. FileOfBuilt(g)' /\ FilesOfQueue(g)' /\ FileShown(g)' /\ FileExact(g)'
  BY <1>1 DEF FileOfBuilt, FilesOfQueue, FileShown, FileExact
<1>3. CompletedWasPresented'
  BY <1>0, <1>1 DEF CompletedWasPresented
<1>4. ASSUME ~Faults PROVE PresentInv'
  <2>0. \A k \in Triggers : k = g
    BY <1>0 DEF Orderly
  <2>1. \A b \in Batches, t \in Transfers : <<b, t>> \in presented => state[t] \in SettledStates
    BY <1>0, <1>1, <1>4, <2>0 DEF PresentedInHand, InHand
  <2>2. PresentedInHand' /\ PresentedOnce'
    BY <1>0, <1>1, <1>4, <2>1 DEF PresentedInHand, PresentedOnce
  <2>3. NotPresentedYet'
    BY <1>1, <2>0, <2>1 DEF NotPresentedYet, ToPresent, SettledStates
  <2> QED
    BY <1>2, <2>0, <2>2, <2>3 DEF PresentInv
<1> QED
  BY <1>0, <1>2, <1>3, <1>4, FilePart

\* Opening a file chooses a correspondent with transfers left.
LEMMA OpenFiles ==
  ASSUME OrderlyInv, TrailStep, NEW g \in Triggers, OpenSettlementFile(g)
  PROVE  FileStep
<1>0. /\ TypeOK /\ Orderly /\ FilesOfQueue(g) /\ CompletedWasPresented /\ (~Faults => FileExact(g))
  BY OrderlyParts
<1>1. /\ UNCHANGED <<state, batchFile, batchOf, fileData, presented, sListed, sBatch, sQueue>>
      /\ spc[g] = "file" /\ spc'[g] = "write" /\ Group(g, sCorr'[g]) # {}
  BY <1>0 DEF OpenSettlementFile, SetGoto, TypeOK, TriggerTypeOK
<1>2. FileOfBuilt(g)' /\ FileShown(g)'
  BY <1>1 DEF FileOfBuilt, FileShown, Group
<1>3. FilesOfQueue(g)' /\ CompletedWasPresented'
  BY <1>0, <1>1 DEF FilesOfQueue, QueuedFile, LinkedTo, Group, CompletedWasPresented
<1>4. ~Faults => FileExact(g)'
  BY <1>0, <1>1 DEF FileExact, ExactFile
<1>5. /\ \A t \in Transfers : ToPresent(g, t)' => ToPresent(g, t)
      /\ \A b \in Batches, t \in Transfers : ~InHand(g, b, t)
  BY <1>1 DEF ToPresent, InHand
<1>6. ~Faults => PresentInv'
  BY <1>1, <1>4, <1>5, PresentPart
<1> QED
  BY <1>0, <1>2, <1>3, <1>6, FilePart

\* The file written is none of the queued batches'.
LEMMA WriteFiles ==
  ASSUME OrderlyInv, TrailStep, NEW g \in Triggers, WriteSettlementFile(g)
  PROVE  FileStep
<1> DEFINE f == FileOf[sCorr[g]]
<1>0. /\ TypeOK /\ Orderly /\ FileOfBuilt(g) /\ FilesOfQueue(g) /\ CompletedWasPresented
      /\ (~Faults => FileExact(g))
  BY OrderlyParts
<1>1. /\ UNCHANGED <<state, batchFile, batchOf, presented, sListed, sCorr, sBatch, sQueue>>
      /\ spc[g] = "write" /\ spc'[g] = "batch"
  BY <1>0 DEF WriteSettlementFile, SetGoto, TypeOK, TriggerTypeOK
<1>2. sCorr[g] \in Correspondents /\ f \in Files
  BY <1>0, <1>1, FileAssumption DEF TypeOK, TriggerLocalsOK
<1>3. /\ fileData'[f] = Group(g, sCorr[g])
      /\ \A e \in Files \ {f} : fileData'[e] = fileData[e]
  BY <1>0, <1>2 DEF WriteSettlementFile, TypeOK, SettlementTypeOK
<1>4. Group(g, sCorr[g]) # {}
  BY <1>0, <1>1 DEF FileOfBuilt
<1>5. \A i \in DOMAIN sQueue[g] :
        batchFile[sQueue[g][i]] \in Files /\ batchFile[sQueue[g][i]] # f
  <2> SUFFICES ASSUME NEW i \in DOMAIN sQueue[g]
      PROVE  batchFile[sQueue[g][i]] \in Files /\ batchFile[sQueue[g][i]] # f
    OBVIOUS
  <2>1. PICK c \in Correspondents : batchFile[sQueue[g][i]] = FileOf[c] /\ Group(g, c) = {}
    BY <1>0 DEF FilesOfQueue, QueuedFile
  <2>2. c # sCorr[g]
    BY <1>4, <2>1
  <2> QED
    BY <1>0, <1>2, <2>1, <2>2, FileAssumption DEF Orderly
<1> HIDE DEF f
<1>6. FileOfBuilt(g)' /\ FileShown(g)'
  BY <1>1, <1>3, <1>4 DEF FileOfBuilt, FileShown, Group, f
<1>7. FilesOfQueue(g)'
  <2> SUFFICES ASSUME NEW i \in DOMAIN sQueue[g] PROVE QueuedFile(g, sQueue[g][i])'
    BY <1>1 DEF FilesOfQueue
  <2>1. QueuedFile(g, sQueue[g][i])
    BY <1>0 DEF FilesOfQueue
  <2> QED
    BY <1>1, <1>3, <1>5, <2>1 DEF QueuedFile, LinkedTo, Group
<1>8. CompletedWasPresented'
  BY <1>0, <1>1 DEF CompletedWasPresented
<1>9. ~Faults => FileExact(g)'
  <2>1. ~Faults => \A i \in DOMAIN sQueue[g] : ExactFile(g, sQueue[g][i])'
    BY <1>0, <1>1, <1>3, <1>5 DEF FileExact, ExactFile
  <2>2. \A t \in fileData'[FileOf[sCorr[g]]] : CorrOf(t) = sCorr[g] /\ t \in Group(g, sCorr[g])
    BY <1>3 DEF f, Group
  <2> QED
    BY <1>1, <2>1, <2>2 DEF FileExact, Group
<1>10. /\ \A t \in Transfers : ToPresent(g, t)' => ToPresent(g, t)
       /\ \A b \in Batches, t \in Transfers : ~InHand(g, b, t)
  BY <1>1 DEF ToPresent, InHand
<1>11. ~Faults => PresentInv'
  BY <1>1, <1>9, <1>10, PresentPart
<1> QED
  BY <1>0, <1>6, <1>7, <1>8, <1>11, FilePart

\* Nothing is linked to a new batch.
LEMMA CreateFiles ==
  ASSUME OrderlyInv, TrailStep, NEW g \in Triggers, CreateBatch(g)
  PROVE  FileStep
<1>0. /\ TypeOK /\ BatchesKnown /\ Orderly /\ FileOfBuilt(g) /\ FilesOfQueue(g)
      /\ CompletedWasPresented /\ (~Faults => FileExact(g))
  BY OrderlyParts
<1>1. PICK b \in Batches :
        /\ batchStatus[b] = "none"
        /\ batchFile' = [batchFile EXCEPT ![b] = FileOf[sCorr[g]]]
        /\ sBatch' = [sBatch EXCEPT ![g] = b]
  BY DEF CreateBatch, Fresh
<1>2. /\ UNCHANGED <<state, batchOf, fileData, presented, sListed, sCorr, sQueue>>
      /\ spc[g] = "batch" /\ spc'[g] = "link" /\ sBatch'[g] = b
      /\ batchFile'[b] = FileOf[sCorr[g]]
      /\ \A a \in Batches \ {b} : batchFile'[a] = batchFile[a]
  BY <1>0, <1>1 DEF CreateBatch, SetGoto, TypeOK, TriggerTypeOK, SettlementTypeOK
<1>3. \A i \in DOMAIN sQueue[g] :
        sQueue[g][i] \in Batches /\ batchFile'[sQueue[g][i]] = batchFile[sQueue[g][i]]
  BY <1>0, <1>1, <1>2, HeldExist
<1>4. \A t \in Transfers : batchOf[t] # b
  BY <1>0, <1>1, NullAssumption DEF BatchesKnown
<1>5. FileOfBuilt(g)' /\ FileShown(g)'
  BY <1>0, <1>2, <1>4 DEF FileOfBuilt, FileShown, Group, LinkedTo
<1>6. FilesOfQueue(g)' /\ CompletedWasPresented'
  BY <1>0, <1>2, <1>3 DEF FilesOfQueue, QueuedFile, LinkedTo, Group, CompletedWasPresented
<1>7. ~Faults => FileExact(g)'
  BY <1>0, <1>2, <1>3 DEF FileExact, ExactFile, Group
<1>8. /\ \A t \in Transfers : ToPresent(g, t)' => ToPresent(g, t)
      /\ \A a \in Batches, t \in Transfers : ~InHand(g, a, t)
  BY <1>2, <1>4 DEF ToPresent, InHand
<1>9. ~Faults => PresentInv'
  BY <1>2, <1>7, <1>8, PresentPart
<1> QED
  BY <1>0, <1>5, <1>6, <1>9, FilePart

\* What is linked is in the file of the batch, and the last link closes the file.
LEMMA LinkFiles ==
  ASSUME OrderlyInv, TrailStep, NEW g \in Triggers, LinkTransfer(g)
  PROVE  FileStep
<1>0. /\ TypeOK /\ BatchesKnown /\ Orderly /\ QueueDistinct(g) /\ FileOfBuilt(g) /\ FilesOfQueue(g)
      /\ CompletedWasPresented /\ (~Faults => FileExact(g))
  BY OrderlyParts
<1>a. PICK b, c : b = sBatch[g] /\ c = sCorr[g]
  OBVIOUS
<1>1. PICK t \in Group(g, c) :
        /\ t \in Transfers /\ spc[g] = "link" /\ b \in Batches
        /\ sQueue[g] \in Seq(Batches) /\ sListed'[g] = sListed[g] \ {t}
        /\ batchOf'[t] = b \/ (Faults /\ batchOf'[t] = batchOf[t])
        /\ \A u \in Transfers \ {t} : batchOf'[u] = batchOf[u]
        /\ UNCHANGED <<state, batchFile, fileData, presented>>
        /\ \/ /\ Group(g, c) # {t} /\ spc'[g] = "link"
              /\ sCorr'[g] = c /\ sBatch'[g] = b /\ sQueue'[g] = sQueue[g]
           \/ /\ Group(g, c) = {t} /\ spc'[g] \in {"submit", "file"}
              /\ sQueue'[g] = Append(sQueue[g], b)
  BY <1>0, <1>a, LinkEffect
<1>2. /\ c \in Correspondents /\ batchFile[b] = FileOf[c] /\ batchFile[b] \in Files
      /\ t \in sListed[g] /\ CorrOf(t) = c
      /\ Group(g, c) \subseteq fileData[FileOf[c]] /\ LinkedTo(b) \subseteq fileData[FileOf[c]]
      /\ sListed[g] \subseteq Transfers
  BY <1>0, <1>a, <1>1 DEF FileOfBuilt, TypeOK, TriggerLocalsOK, TriggerTypeOK, Group
<1>3. \A i \in DOMAIN sQueue[g] : sQueue[g][i] # b
  BY <1>0, <1>a, <1>1 DEF QueueDistinct
<1>4. \A d : Group(g, d)' = Group(g, d) \ {t}
  BY <1>1 DEF Group
<1>5. /\ LinkedTo(b)' \subseteq fileData[FileOf[c]]
      /\ \A a : a # b => LinkedTo(a)' \subseteq LinkedTo(a)
  BY <1>1, <1>2 DEF LinkedTo
<1>6. ASSUME NEW i \in DOMAIN sQueue[g], NEW a, a = sQueue[g][i]
      PROVE  QueuedFile(g, a)' /\ (~Faults => ExactFile(g, a)')
  <2>1. QueuedFile(g, a) /\ (~Faults => ExactFile(g, a))
    BY <1>0, <1>6 DEF FilesOfQueue, FileExact
  <2>2. QueuedFile(g, a)'
    BY <1>1, <1>3, <1>4, <1>5, <1>6, <2>1 DEF QueuedFile
  <2>3. ~Faults => ExactFile(g, a)'
    <3>1. batchFile[a] \in Files /\ fileData \in [Files -> SUBSET Transfers]
      BY <1>0, <1>6 DEF TypeOK, TriggerLocalsOK, SettlementTypeOK
    <3>2. fileData[batchFile[a]] \subseteq Transfers
      BY <3>1
    <3> QED
      BY <1>1, <1>2, <2>1, <3>2 DEF ExactFile
  <2> QED
    BY <2>2, <2>3
<1>7. FileShown(g)'
  BY <1>1 DEF FileShown
<1>8. CompletedWasPresented'
  BY <1>0, <1>1 DEF CompletedWasPresented
<1>9. ~Faults => /\ batchOf'[t] = b
                 /\ \A u \in fileData[FileOf[c]] :
                       /\ u \in Transfers /\ CorrOf(u) = c
                       /\ u \in Group(g, c) \/ batchOf[u] = b
  <2>1. fileData[FileOf[c]] \subseteq Transfers
    BY <1>0, <1>2 DEF TypeOK, SettlementTypeOK
  <2> QED
    BY <1>0, <1>a, <1>1, <2>1 DEF FileExact
<1>10. CASE /\ Group(g, c) # {t} /\ spc'[g] = "link"
            /\ sCorr'[g] = c /\ sBatch'[g] = b /\ sQueue'[g] = sQueue[g]
  <2>1. FilesOfQueue(g)' /\ (~Faults => \A i \in DOMAIN sQueue'[g] : ExactFile(g, sQueue[g][i])')
    BY <1>6, <1>10 DEF FilesOfQueue
  <2>2. FileOfBuilt(g)'
    <3>1. Group(g, c)' # {} /\ Group(g, c)' \subseteq fileData[FileOf[c]]
      BY <1>1, <1>2, <1>4, <1>10
    <3>2. Group(g, sCorr[g])' = Group(g, c)' /\ LinkedTo(sBatch[g])' = LinkedTo(b)'
      BY <1>10 DEF Group, LinkedTo
    <3> QED
      BY <1>1, <1>2, <1>5, <1>10, <3>1, <3>2 DEF FileOfBuilt
  <2>3. ~Faults => FileExact(g)'
    <3>1. Group(g, sCorr[g])' = Group(g, c) \ {t}
      BY <1>4, <1>10 DEF Group
    <3> QED
      BY <1>1, <1>9, <1>10, <2>1, <3>1 DEF FileExact
  <2>4. /\ \A u \in Transfers : ToPresent(g, u)' => ToPresent(g, u)
        /\ \A a \in Batches, u \in Transfers : ~InHand(g, a, u)
    BY <1>a, <1>1, <1>2, <1>10 DEF ToPresent, InHand
  <2>5. ~Faults => PresentInv'
    BY <1>1, <2>3, <2>4, PresentPart
  <2> QED
    BY <1>0, <1>7, <1>8, <2>1, <2>2, <2>5, FilePart
<1>11. CASE /\ Group(g, c) = {t} /\ spc'[g] \in {"submit", "file"}
            /\ sQueue'[g] = Append(sQueue[g], b)
  <2>1. \A i \in DOMAIN sQueue'[g] :
          (i \in DOMAIN sQueue[g] /\ sQueue'[g][i] = sQueue[g][i]) \/ sQueue'[g][i] = b
    BY <1>1, <1>11, AppendIndexes
  <2>2. QueuedFile(g, b)'
    <3>1. Group(g, c)' = {}
      BY <1>4, <1>11
    <3> QED
      BY <1>1, <1>2, <1>5, <3>1 DEF QueuedFile
  <2>3. ~Faults => ExactFile(g, b)'
    BY <1>1, <1>2, <1>9, <1>11 DEF ExactFile, Group
  <2>4. \A i \in DOMAIN sQueue'[g] : \A a :
          a = sQueue'[g][i] => QueuedFile(g, a)' /\ (~Faults => ExactFile(g, a)')
    BY <1>6, <2>1, <2>2, <2>3
  <2>5. FilesOfQueue(g)' /\ (~Faults => FileExact(g)')
    BY <1>11, <2>4 DEF FilesOfQueue, FileExact
  <2>6. FileOfBuilt(g)'
    BY <1>11 DEF FileOfBuilt
  <2>7. /\ \A u \in Transfers : ToPresent(g, u)' => ToPresent(g, u)
        /\ \A a \in Batches, u \in Transfers : ~InHand(g, a, u)
    BY <1>a, <1>1, <1>2, <1>11, <2>1 DEF ToPresent, InHand
  <2>8. ~Faults => PresentInv'
    BY <1>1, <2>5, <2>7, PresentPart
  <2> QED
    BY <1>0, <1>7, <1>8, <2>5, <2>6, <2>8, FilePart
<1> QED
  BY <1>1, <1>10, <1>11

\* Passing on to the next batch: the files of the batches left are as they were.
LEMMA NextFiles ==
  ASSUME OrderlyInv, NEW g \in Triggers, NextBatch(g), sQueue[g] # <<>>,
         UNCHANGED <<batchFile, fileData, sListed>>,
         \A t \in Transfers :
            batchOf'[t] = batchOf[t] \/ (Faults /\ batchOf'[t] = Head(sQueue[g]))
  PROVE  /\ FileOfBuilt(g)' /\ FilesOfQueue(g)' /\ FileShown(g)'
         /\ ~Faults => FileExact(g)'
         /\ ~Faults => \A t \in Transfers : ToPresent(g, t)' => ToPresent(g, t)
<1>0. TypeOK /\ QueueDistinct(g) /\ FilesOfQueue(g) /\ (~Faults => FileExact(g))
  BY OrderlyParts
<1>1. /\ spc'[g] \in {"idle", "submit"}
      /\ Head(sQueue[g]) = sQueue[g][1] /\ 1 \in DOMAIN sQueue[g]
      /\ \A i \in DOMAIN sQueue'[g] :
            /\ i + 1 \in DOMAIN sQueue[g] /\ i + 1 # 1
            /\ sQueue'[g][i] = sQueue[g][i + 1]
  BY <1>0, TailIndexes
<1>2. FileOfBuilt(g)' /\ FileShown(g)'
  BY <1>1 DEF FileOfBuilt, FileShown
<1>3. ASSUME NEW i \in DOMAIN sQueue'[g], NEW a, a = sQueue'[g][i]
      PROVE  QueuedFile(g, a)' /\ (~Faults => ExactFile(g, a)')
  <2>1. a = sQueue[g][i + 1] /\ a # Head(sQueue[g]) /\ i + 1 \in DOMAIN sQueue[g]
    BY <1>0, <1>1, <1>3 DEF QueueDistinct
  <2>2. QueuedFile(g, a) /\ (~Faults => ExactFile(g, a)) /\ batchFile[a] \in Files
    BY <1>0, <2>1 DEF FilesOfQueue, FileExact, TypeOK, TriggerLocalsOK
  <2>3. LinkedTo(a)' \subseteq LinkedTo(a) /\ \A c : Group(g, c)' = Group(g, c)
    BY <2>1 DEF LinkedTo, Group
  <2>4. QueuedFile(g, a)'
    BY <2>2, <2>3 DEF QueuedFile
  <2>5. fileData[batchFile[a]] \subseteq Transfers
    BY <1>0, <2>2 DEF TypeOK, SettlementTypeOK
  <2> QED
    BY <2>2, <2>4, <2>5 DEF ExactFile
<1>4. FilesOfQueue(g)'
  BY <1>3 DEF FilesOfQueue
<1>5. ~Faults => FileExact(g)'
  BY <1>1, <1>3 DEF FileExact
<1>6. ~Faults => \A t \in Transfers : ToPresent(g, t)' => ToPresent(g, t)
  BY <1>1 DEF ToPresent
<1> QED
  BY <1>2, <1>4, <1>5, <1>6

\* A submission shows the bank only what it has never been shown.
LEMMA SubmitFiles ==
  ASSUME OrderlyInv, TrailStep, NEW g \in Triggers, SubmitBatch(g)
  PROVE  FileStep
<1>0. /\ TypeOK /\ Orderly /\ QueueDistinct(g) /\ FilesOfQueue(g) /\ CompletedWasPresented
      /\ ~Faults => FileExact(g) /\ PresentedInHand /\ NotPresentedYet /\ PresentedOnce
  BY OrderlyParts
<1>a. PICK b : b = Head(sQueue[g])
  OBVIOUS
<1>1. /\ spc[g] = "submit" /\ sQueue[g] # <<>> /\ b \in Batches
      /\ b = sQueue[g][1] /\ 1 \in DOMAIN sQueue[g]
      /\ UNCHANGED <<state, batchFile, batchOf, fileData, sListed, sTids, sDone>>
      /\ \/ spc'[g] = "ack" /\ sQueue'[g] = sQueue[g] /\ Present(b)
         \/ NextBatch(g) /\ ((Faults /\ Present(b)) \/ UNCHANGED presented)
  BY <1>0, <1>a, SubmitEffect
<1>2. \A a \in Batches, t \in Transfers : <<a, t>> \in presented => <<a, t>> \in presented'
  BY <1>1 DEF Present
<1>3. CompletedWasPresented'
  BY <1>0, <1>1, <1>2 DEF CompletedWasPresented
<1>4. CASE NextBatch(g) /\ ((Faults /\ Present(b)) \/ UNCHANGED presented)
  <2>1. /\ FileOfBuilt(g)' /\ FilesOfQueue(g)' /\ FileShown(g)'
        /\ ~Faults => FileExact(g)' /\ \A t \in Transfers : ToPresent(g, t)' => ToPresent(g, t)
    BY <1>1, <1>4, NextFiles
  <2>2. \A a \in Batches, t \in Transfers : ~InHand(g, a, t)
    BY <1>1 DEF InHand
  <2>3. ~Faults => PresentInv'
    BY <1>4, <2>1, <2>2, PresentPart
  <2> QED
    BY <1>0, <1>3, <2>1, <2>3, FilePart
<1>5. CASE spc'[g] = "ack" /\ sQueue'[g] = sQueue[g] /\ Present(b)
  <2>0. fileData[batchFile[b]] \subseteq Transfers
    BY <1>0, <1>1 DEF TypeOK, TriggerLocalsOK, SettlementTypeOK
  <2>1. \A a, t : <<a, t>> \in presented' <=>
          <<a, t>> \in presented \/ (a = b /\ t \in fileData[batchFile[b]])
    BY <1>5 DEF Present
  <2>2. FileOfBuilt(g)' /\ FileShown(g)'
    BY <1>a, <1>1, <1>5, <2>1 DEF FileOfBuilt, FileShown
  <2>3. FilesOfQueue(g)'
    BY <1>0, <1>1, <1>5 DEF FilesOfQueue, QueuedFile, LinkedTo, Group
  <2>4. ASSUME ~Faults PROVE PresentInv'
    <3>0. \A k \in Triggers : k = g
      BY <1>0 DEF Orderly
    <3>1. FileExact(g)'
      BY <1>0, <1>1, <1>5, <2>4 DEF FileExact, ExactFile
    <3>2. \A t \in fileData[batchFile[b]] : batchOf[t] = b /\ t \notin sListed[g]
      BY <1>0, <1>1, <2>4 DEF FileExact, ExactFile
    <3>3. PresentedInHand'
      <4>1. \A a \in Batches, t \in Transfers : <<a, t>> \in presented => state[t] \in SettledStates
        BY <1>0, <1>1, <2>4, <3>0 DEF PresentedInHand, InHand
      <4>2. \A t \in fileData[batchFile[b]] : InHand(g, b, t)'
        BY <1>a, <1>1, <1>5, <3>2 DEF InHand
      <4> QED
        BY <1>1, <2>1, <4>1, <4>2 DEF PresentedInHand
    <3>4. \A t \in Transfers : ToPresent(g, t)' =>
                              (ToPresent(g, t) /\ batchOf[t] # b) \/ t \in sListed[g]
      BY <1>0, <1>1, <1>5 DEF ToPresent, QueueDistinct
    <3>5. NotPresentedYet'
      BY <1>0, <2>1, <2>4, <3>0, <3>2, <3>4 DEF NotPresentedYet, ToPresent
    <3>6. \A t \in fileData[batchFile[b]] : ToPresent(g, t)
      BY <1>1, <3>2 DEF ToPresent
    <3>7. PresentedOnce'
      <4>1. presented \subseteq Batches \X Transfers
        BY <1>0 DEF TypeOK, SettlementTypeOK
      <4>2. \A t \in fileData[batchFile[b]], a \in Batches : <<a, t>> \notin presented
        BY <1>0, <2>0, <2>4, <3>6 DEF NotPresentedYet
      <4>3. presented' = presented \union ({b} \X fileData[batchFile[b]])
        BY <1>5 DEF Present
      <4>4. \A p \in presented' : \/ p \in presented
                                  \/ p = <<b, p[2]>> /\ p[2] \in fileData[batchFile[b]]
        BY <4>3
      <4>5. \A p \in presented : p = <<p[1], p[2]>> /\ p[1] \in Batches
        BY <4>1
      <4> QED
        BY <1>0, <2>4, <4>2, <4>4, <4>5 DEF PresentedOnce
    <3> QED
      BY <3>0, <3>1, <3>3, <3>5, <3>7 DEF PresentInv
  <2> QED
    BY <1>0, <1>3, <2>2, <2>3, <2>4, FilePart
<1> QED
  BY <1>1, <1>4, <1>5

\* The transfers taken in hand are in the file that the bank was shown.
LEMMA AcknowledgeFiles ==
  ASSUME OrderlyInv, TrailStep, NEW g \in Triggers, AcknowledgeBatch(g)
  PROVE  FileStep
<1>0. /\ TypeOK /\ Orderly /\ FilesOfQueue(g) /\ FileShown(g) /\ CompletedWasPresented
      /\ ~Faults => FileExact(g)
  BY OrderlyParts
<1>a. PICK b : b = Head(sQueue[g])
  OBVIOUS
<1>1. /\ spc[g] = "ack" /\ sQueue[g] # <<>> /\ b \in Batches
      /\ b = sQueue[g][1] /\ 1 \in DOMAIN sQueue[g]
      /\ UNCHANGED <<state, batchFile, batchOf, fileData, presented, sListed, sDone>>
      /\ \/ /\ sTids'[g] = LinkedTo(b)
            /\ \/ LinkedTo(b) = {} /\ NextBatch(g)
               \/ LinkedTo(b) # {} /\ spc'[g] = "complete" /\ sQueue'[g] = sQueue[g]
         \/ Faults /\ NextBatch(g)
  BY <1>0, <1>a, AcknowledgeEffect
<1>2. CompletedWasPresented'
  BY <1>0, <1>1 DEF CompletedWasPresented
<1>3. \A a \in Batches, t \in Transfers : InHand(g, a, t) => a = b /\ t \in LinkedTo(b)
  BY <1>a, <1>1 DEF InHand, LinkedTo
<1>4. CASE NextBatch(g) /\ (Faults \/ LinkedTo(b) = {})
  <2>1. /\ FileOfBuilt(g)' /\ FilesOfQueue(g)' /\ FileShown(g)'
        /\ ~Faults => FileExact(g)' /\ \A t \in Transfers : ToPresent(g, t)' => ToPresent(g, t)
    BY <1>1, <1>4, NextFiles
  <2>2. ~Faults => PresentInv'
    BY <1>1, <1>3, <1>4, <2>1, PresentPart
  <2> QED
    BY <1>0, <1>2, <2>1, <2>2, FilePart
<1>5. CASE sTids'[g] = LinkedTo(b) /\ spc'[g] = "complete" /\ sQueue'[g] = sQueue[g]
  <2>1. FileOfBuilt(g)'
    BY <1>5 DEF FileOfBuilt
  <2>2. FilesOfQueue(g)'
    BY <1>0, <1>1, <1>5 DEF FilesOfQueue, QueuedFile, LinkedTo, Group
  <2>3. LinkedTo(b) \subseteq fileData[batchFile[b]]
    BY <1>0, <1>1 DEF FilesOfQueue, QueuedFile
  <2>4. FileShown(g)'
    BY <1>0, <1>a, <1>1, <1>5, <2>3 DEF FileShown
  <2>5. ~Faults => FileExact(g)'
    BY <1>0, <1>1, <1>5 DEF FileExact, ExactFile
  <2>6. \A t \in Transfers : ToPresent(g, t)' => ToPresent(g, t)
    BY <1>1, <1>5 DEF ToPresent
  <2>7. \A a \in Batches, t \in Transfers : InHand(g, a, t) => InHand(g, a, t)'
    BY <1>a, <1>1, <1>3, <1>5 DEF InHand
  <2>8. ~Faults => PresentInv'
    BY <1>1, <2>5, <2>6, <2>7, PresentPart
  <2> QED
    BY <1>0, <1>2, <2>1, <2>2, <2>4, <2>8, FilePart
<1> QED
  BY <1>1, <1>4, <1>5

\* A transfer that is completed was shown to the bank.
LEMMA CompleteFiles ==
  ASSUME OrderlyInv, TrailStep, NEW g \in Triggers, CompleteTransfer(g)
  PROVE  FileStep
<1>0. /\ TypeOK /\ Orderly /\ WorksOnFunded(g) /\ FilesOfQueue(g) /\ FileShown(g)
      /\ CompletedWasPresented /\ (~Faults => FileExact(g))
  BY OrderlyParts
<1>1. PICK t \in sTids[g] :
        /\ t \in Transfers /\ spc[g] = "complete" /\ sQueue[g] # <<>>
        /\ UNCHANGED <<batchFile, batchOf, fileData, presented, sListed>>
        /\ sTids'[g] = sTids[g] \ {t}
        /\ \A u \in Transfers \ {t} : state'[u] = state[u]
        /\ \/ /\ state'[t] = "Completed" /\ sDone'[g] = t
              /\ spc'[g] = "record" /\ sQueue'[g] = sQueue[g]
           \/ /\ state[t] # "FundsPosted" \/ Faults
              /\ state'[t] = state[t]
              /\ \/ sTids[g] = {t} /\ NextBatch(g)
                 \/ sTids[g] # {t} /\ spc'[g] = "complete" /\ sQueue'[g] = sQueue[g]
  BY <1>0, CompleteEffect
<1>a. PICK b : b = Head(sQueue[g])
  OBVIOUS
<1>2. /\ b \in Batches /\ t \in fileData[batchFile[b]] /\ <<b, t>> \in presented
      /\ sTids[g] \subseteq fileData[batchFile[b]]
  BY <1>0, <1>a, <1>1, QueueHeads DEF FileShown
<1>3. CompletedWasPresented'
  BY <1>0, <1>1, <1>2 DEF CompletedWasPresented
<1>4. ~Faults => state'[t] \in SettledStates
  BY <1>0, <1>1 DEF WorksOnFunded, FundedStates, SettledStates
<1>5. CASE sTids[g] = {t} /\ NextBatch(g)
  <2>1. /\ FileOfBuilt(g)' /\ FilesOfQueue(g)' /\ FileShown(g)'
        /\ ~Faults => FileExact(g)' /\ \A u \in Transfers : ToPresent(g, u)' => ToPresent(g, u)
    BY <1>1, <1>5, NextFiles
  <2>2. \A a \in Batches, u \in Transfers : InHand(g, a, u) => u = t
    BY <1>1, <1>5 DEF InHand
  <2>3. ~Faults => PresentInv'
    BY <1>1, <1>4, <2>1, <2>2, PresentPart
  <2> QED
    BY <1>0, <1>3, <2>1, <2>3, FilePart
<1>6. CASE /\ sQueue'[g] = sQueue[g]
           /\ spc'[g] = "complete" \/ (spc'[g] = "record" /\ sDone'[g] = t)
  <2>1. FileOfBuilt(g)'
    BY <1>6 DEF FileOfBuilt
  <2>2. FilesOfQueue(g)'
    BY <1>0, <1>1, <1>6 DEF FilesOfQueue, QueuedFile, LinkedTo, Group
  <2>3. FileShown(g)'
    BY <1>0, <1>a, <1>1, <1>2, <1>6 DEF FileShown
  <2>4. ~Faults => FileExact(g)'
    BY <1>0, <1>1, <1>6 DEF FileExact, ExactFile
  <2>5. \A u \in Transfers : ToPresent(g, u)' => ToPresent(g, u)
    BY <1>1, <1>6 DEF ToPresent
  <2>6. \A a \in Batches, u \in Transfers : InHand(g, a, u) => u = t \/ InHand(g, a, u)'
    BY <1>1, <1>6 DEF InHand
  <2>7. ~Faults => PresentInv'
    BY <1>1, <1>4, <2>4, <2>5, <2>6, PresentPart
  <2> QED
    BY <1>0, <1>3, <2>1, <2>2, <2>3, <2>7, FilePart
<1> QED
  BY <1>1, <1>5, <1>6

\* Recording a completion links it to the batch in whose file it is.
LEMMA RecordFiles ==
  ASSUME OrderlyInv, TrailStep, NEW g \in Triggers, RecordCompletion(g)
  PROVE  FileStep
<1>0. /\ TypeOK /\ Orderly /\ QueueDistinct(g) /\ FilesOfQueue(g) /\ FileShown(g)
      /\ CompletedWasPresented /\ (~Faults => FileExact(g))
  BY OrderlyParts
<1>a. PICK b, d : b = Head(sQueue[g]) /\ d = sDone[g]
  OBVIOUS
<1>1. /\ spc[g] = "record" /\ sQueue[g] # <<>> /\ b \in Batches /\ d \in Transfers
      /\ b = sQueue[g][1] /\ 1 \in DOMAIN sQueue[g]
      /\ UNCHANGED <<state, batchFile, fileData, presented, sListed, sTids>>
      /\ batchOf'[d] = b \/ (Faults /\ batchOf'[d] = batchOf[d])
      /\ \A u \in Transfers \ {d} : batchOf'[u] = batchOf[u]
      /\ \/ sTids[g] = {} /\ NextBatch(g)
         \/ sTids[g] # {} /\ spc'[g] = "complete" /\ sQueue'[g] = sQueue[g]
  BY <1>0, <1>a, RecordEffect
<1>2. /\ d \in fileData[batchFile[b]] /\ sTids[g] \subseteq fileData[batchFile[b]]
      /\ \A t \in fileData[batchFile[b]] : <<b, t>> \in presented
  BY <1>0, <1>a, <1>1 DEF FileShown
<1>3. ~Faults => \A u \in Transfers : batchOf'[u] = batchOf[u]
  BY <1>0, <1>1, <1>2 DEF FileExact, ExactFile
<1>4. CompletedWasPresented'
  BY <1>0, <1>1 DEF CompletedWasPresented
<1>5. CASE sTids[g] = {} /\ NextBatch(g)
  <2>1. \A u \in Transfers : batchOf'[u] = batchOf[u] \/ (Faults /\ batchOf'[u] = Head(sQueue[g]))
    BY <1>a, <1>1, <1>3
  <2>2. /\ FileOfBuilt(g)' /\ FilesOfQueue(g)' /\ FileShown(g)'
        /\ ~Faults => FileExact(g)' /\ \A u \in Transfers : ToPresent(g, u)' => ToPresent(g, u)
    BY <1>1, <1>5, <2>1, NextFiles
  <2>3. \A a \in Batches, u \in Transfers : ~InHand(g, a, u)
    BY <1>1, <1>5 DEF InHand
  <2>4. ~Faults => PresentInv'
    BY <1>1, <2>2, <2>3, PresentPart
  <2> QED
    BY <1>0, <1>4, <2>2, <2>4, FilePart
<1>6. CASE sTids[g] # {} /\ spc'[g] = "complete" /\ sQueue'[g] = sQueue[g]
  <2>1. FileOfBuilt(g)'
    BY <1>6 DEF FileOfBuilt
  <2>2. FilesOfQueue(g)'
    <3> SUFFICES ASSUME NEW i \in DOMAIN sQueue[g], NEW a, a = sQueue[g][i]
        PROVE  QueuedFile(g, a)'
      BY <1>6 DEF FilesOfQueue
    <3>1. QueuedFile(g, a) /\ \A c : Group(g, c)' = Group(g, c)
      BY <1>0, <1>1 DEF FilesOfQueue, Group
    <3>2. LinkedTo(a)' \subseteq LinkedTo(a) \/ (a = b /\ LinkedTo(a)' \subseteq LinkedTo(a) \union {d})
      BY <1>1 DEF LinkedTo
    <3> QED
      BY <1>1, <1>2, <3>1, <3>2 DEF QueuedFile
  <2>3. FileShown(g)'
    BY <1>a, <1>1, <1>2, <1>6 DEF FileShown
  <2>4. ~Faults => FileExact(g)'
    <3>1. \A i \in DOMAIN sQueue[g] : fileData[batchFile[sQueue[g][i]]] \subseteq Transfers
      BY <1>0 DEF TypeOK, TriggerLocalsOK, SettlementTypeOK
    <3> QED
      BY <1>0, <1>1, <1>3, <1>6, <3>1 DEF FileExact, ExactFile
  <2>5. ~Faults => \A u \in Transfers : ToPresent(g, u)' => ToPresent(g, u)
    BY <1>1, <1>3, <1>6 DEF ToPresent
  <2>6. \A a \in Batches, u \in Transfers : InHand(g, a, u) => InHand(g, a, u)'
    BY <1>1, <1>6 DEF InHand
  <2>7. ~Faults => PresentInv'
    BY <1>1, <2>4, <2>5, <2>6, PresentPart
  <2> QED
    BY <1>0, <1>4, <2>1, <2>2, <2>3, <2>7, FilePart
<1> QED
  BY <1>1, <1>5, <1>6

\* A trigger that is cut off holds no file.
LEMMA AbortFiles ==
  ASSUME OrderlyInv, NEW g \in Triggers, TriggerAborts(g)
  PROVE  FileStep
<1>0. TypeOK /\ Orderly /\ CompletedWasPresented
  BY OrderlyParts
<1>1. Faults /\ spc'[g] = "idle" /\ sQueue'[g] = <<>> /\ UNCHANGED <<state, presented>>
  BY <1>0 DEF TriggerAborts, SetGoto, batchVars, TypeOK, TriggerTypeOK
<1>2. FileOfBuilt(g)' /\ FilesOfQueue(g)' /\ FileShown(g)' /\ CompletedWasPresented'
  BY <1>0, <1>1 DEF FileOfBuilt, FilesOfQueue, FileShown, CompletedWasPresented
<1> QED
  BY <1>0, <1>1, <1>2, FilePart

----------------------------------------------------------------------------
(* The theorems *)

\* The invariant holds of the empty tables and every step keeps it.
LEMMA SettlementInduction ==
  /\ Init => SettlementInv
  /\ SettlementInv /\ [Next]_vars => SettlementInv'
<1>1. ASSUME Init PROVE SettlementInv
  <2>1. /\ state = [t \in Transfers |-> "none"] /\ presented = {}
        /\ spc = [g \in Triggers |-> "idle"] /\ sListed = [g \in Triggers |-> {}]
        /\ sQueue = [g \in Triggers |-> <<>>]
    BY <1>1 DEF Init, DBInit, SettlementInit
  <2>2. FileInv
    BY <2>1 DEF FileInv, FileOfBuilt, FilesOfQueue, FileShown, CompletedWasPresented
  <2>3. PresentInv
    BY <2>1 DEF PresentInv, FileExact, PresentedInHand, NotPresentedYet, PresentedOnce
  <2> QED
    BY <1>1, <2>2, <2>3, BatchInduction DEF SettlementInv
<1>2. ASSUME SettlementInv, [Next]_vars PROVE SettlementInv'
  <2>1. BatchInv' /\ TypeOK
    BY <1>2, BatchInduction DEF SettlementInv, BatchInv, AuditInv
  <2>2. TrailStep
    BY <1>2, <2>1, NextTrail
  <2>3. SUFFICES ASSUME Orderly PROVE FileStep
    BY <2>1 DEF SettlementInv, FileStep, Orderly
  <2>4. OrderlyInv
    BY <1>2, <2>3 DEF OrderlyInv
  <2>5. CASE UNCHANGED <<setVars, healthVars>>
    BY <2>2, <2>4, <2>5, OutsideFiles
  <2>6. ASSUME NEW g \in Triggers, ListFundsPosted(g) \/ TriggerRuns(g) \/ TriggerAborts(g)
        PROVE  FileStep
    BY <2>2, <2>4, <2>6, ListFiles, OpenFiles, WriteFiles, CreateFiles, LinkFiles, SubmitFiles,
       AcknowledgeFiles, CompleteFiles, RecordFiles, AbortFiles DEF TriggerRuns
  <2>7. ASSUME NEW h \in HealthRequests, HealthFrame,
               SelectReady(h) \/ HealthRuns(h) \/ HealthAborts(h)
        PROVE  FileStep
    BY <2>4, <2>7, HealthFiles
  <2>8. CASE UNCHANGED vars
    BY <2>5, <2>8 DEF vars
  <2>9. CASE Next
    BY <2>5, <2>6, <2>7, <2>9 DEF Next, DepositFrame, OperatorFrame, ReturnFrame, DepositStep,
                                  OperatorStep, ReturnStep, TriggerStep
  <2> QED
    BY <1>2, <2>8, <2>9
<1> QED
  BY <1>1, <1>2

\* The invariant holds throughout.
LEMMA SettlementInvariant == Spec => []SettlementInv
  BY SettlementInduction, PTL DEF Spec

\* While one trigger runs at a time and correspondents share no path, a Completed
\* transfer was in a file that the settlement bank received, also when triggers are cut
\* off, answers are lost and links fail.
THEOREM CompletedPresented == Spec => [](Orderly => CompletedWasPresented)
<1>1. SettlementInv => (Orderly => CompletedWasPresented)
  BY DEF SettlementInv, FileInv
<1> QED
  BY <1>1, SettlementInvariant, PTL

\* ... and when no request is cut off, the bank is not asked twice to settle the same
\* check, whatever returns and the health trigger do to the rows meanwhile.
THEOREM PresentedAtMostOnce == Spec => [](Orderly /\ ~Faults => PresentedOnce)
<1>1. SettlementInv => (Orderly /\ ~Faults => PresentedOnce)
  BY DEF SettlementInv, PresentInv
<1> QED
  BY <1>1, SettlementInvariant, PTL

\* ... and everything it was shown is settled or returned once the trigger has answered.
THEOREM PresentedSettled == Spec => [](Orderly /\ ~Faults => PresentedAreSettled)
<1>1. SettlementInv => (Orderly /\ ~Faults => PresentedAreSettled)
  <2> SUFFICES ASSUME SettlementInv, Orderly, ~Faults, \A g \in Triggers : spc[g] = "idle",
                      NEW p \in presented
      PROVE  state[p[2]] \in {"Completed", "Returned"}
    BY DEF PresentedAreSettled
  <2>1. p = <<p[1], p[2]>> /\ p[1] \in Batches /\ p[2] \in Transfers
    BY DEF SettlementInv, BatchInv, AuditInv, TypeOK, SettlementTypeOK
  <2>2. <<p[1], p[2]>> \in presented
    BY <2>1
  <2> QED
    BY <2>1, <2>2 DEF SettlementInv, PresentInv, PresentedInHand, InHand, SettledStates
<1> QED
  BY <1>1, SettlementInvariant, PTL
=============================================================================
