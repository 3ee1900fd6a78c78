---------------------------- MODULE AuditProofs ----------------------------
(***************************************************************************)
(* The audit trail of module CheckDeposit, for any number of transfers and *)
(* concurrent requests.  The argument treats an event and the request that *)
(* is about to write it alike: the trail is what has been told or is about *)
(* to be, and it grows exactly when a transfer moves.                      *)
(***************************************************************************)
EXTENDS CheckDepositProofs

\* The event is written, or a request is about to write it.
Tells(t, from, to) == <<t, from, to>> \in events \/ AboutToTell(t, from, to)

\* The trail with its pending events lies on one path that leads to the state.
TrailTruthful ==
    \A t \in Transfers, f1, s1, f2, s2 \in TransferStates :
        Tells(t, f1, s1) =>
            /\ isValidTransition(f1, s1)
            /\ s1 \in MayHavePassed(state[t])
            /\ Tells(t, f2, s2) /\ (f1 = f2 \/ s1 = s2) => f1 = f2 /\ s1 = s2

\* ... and leaves no state out.
TrailComplete ==
    \A t \in Transfers : \A s \in Passed(state[t]) :
        \E from \in TransferStates : Tells(t, from, s)

\* The investor has been told of the return, or a request is about to do so.
Announced(t) ==
    t \in notifications \/ \E r \in RetRequests : rT[r] = t /\ rpc[r] = "record"

\* Every return is announced.
ReturnsAnnounced == \A t \in Transfers : state[t] = "Returned" => Announced(t)

\* Nobody is told of a return that did not happen.
NoticesTruthful == \A t \in notifications : state[t] = "Returned"

\* The inductive invariant: completeness and announcements only where no request is
\* cut off and no best-effort write is lost.
AuditInv ==
    /\ TypeOK
    /\ TrailTruthful
    /\ ~Faults => TrailComplete /\ ReturnsAnnounced

----------------------------------------------------------------------------
(* Every step of a request is one of three as far as the trail goes.        *)

\* No transfer moves, and nothing is told that was not about to be; what was about
\* to be told is lost only by a fault.
TrailKept ==
    /\ UNCHANGED state
    /\ \A t \in Transfers, f, s \in TransferStates :
          /\ Tells(t, f, s)' => Tells(t, f, s)
          /\ ~Faults /\ Tells(t, f, s) => Tells(t, f, s)'

\* A transfer moves, and that is what is told from now on; only a trigger completes it.
TrailGrows ==
    \E t \in Transfers, from, to \in TransferStates :
        /\ isValidTransition(from, to)
        /\ UpdateState(t, from, to)
        /\ \A u \in Transfers, f, s \in TransferStates :
              Tells(u, f, s)' <=> Tells(u, f, s) \/ (u = t /\ f = from /\ s = to)
        /\ to = "Returned" => Announced(t)'
        /\ to = "Completed" => spc' # spc

\* A row is created.
TrailStarts ==
    /\ \E t \in Transfers : Create(t)
    /\ \A u \in Transfers, f, s \in TransferStates : Tells(u, f, s)' <=> Tells(u, f, s)

\* ... and an announcement is lost only by a fault.
TrailStep ==
    /\ TrailKept \/ TrailGrows \/ TrailStarts
    /\ \A t \in Transfers : ~Faults /\ Announced(t) => Announced(t)'

\* Such a step keeps the invariant.
LEMMA TrailStepKeeps ==
  ASSUME AuditInv, TypeOK', TrailStep
  PROVE  AuditInv'
<1>0. state \in [Transfers -> TransferStates \union {"none"}]
  BY DEF AuditInv, TypeOK, TablesTypeOK
<1>1. CASE TrailKept
  <2>1. TrailTruthful'
    BY <1>1 DEF AuditInv, TrailKept, TrailTruthful
  <2>2. ~Faults => TrailComplete'
    <3> SUFFICES ASSUME ~Faults, NEW t \in Transfers, NEW s \in Passed(state[t])
        PROVE \E from \in TransferStates : Tells(t, from, s)'
      BY <1>1 DEF TrailKept, TrailComplete
    <3>1. s \in TransferStates
      BY DEF Passed, TransferStates
    <3> QED
      BY <1>1, <3>1 DEF AuditInv, TrailKept, TrailComplete
  <2>3. ~Faults => ReturnsAnnounced'
    BY <1>1 DEF AuditInv, TrailKept, TrailStep, ReturnsAnnounced
  <2> QED
    BY <2>1, <2>2, <2>3 DEF AuditInv
<1>2. CASE TrailGrows
  <2>1. PICK t \in Transfers, from \in TransferStates, to \in TransferStates :
          /\ isValidTransition(from, to)
          /\ UpdateState(t, from, to)
          /\ \A u \in Transfers, f, s \in TransferStates :
                Tells(u, f, s)' <=> Tells(u, f, s) \/ (u = t /\ f = from /\ s = to)
          /\ to = "Returned" => Announced(t)'
    BY <1>2 DEF TrailGrows
  <2>2. /\ state[t] = from /\ state'[t] = to
        /\ \A u \in Transfers \ {t} : state'[u] = state[u]
    BY <1>0, <2>1 DEF UpdateState
  <2>3. /\ MayHavePassed(from) \subseteq MayHavePassed(to)
        /\ to \in MayHavePassed(to) /\ to \notin MayHavePassed(from)
        /\ \A s \in MayHavePassed(from) : ~isValidTransition(from, s)
        /\ Passed(to) \subseteq Passed(from) \union {to}
    BY <2>1 DEF isValidTransition, validTransitions, MayHavePassed, Passed
  <2>4. TrailTruthful'
    <3> SUFFICES ASSUME NEW u \in Transfers, NEW f1 \in TransferStates, NEW s1 \in TransferStates,
                        NEW f2 \in TransferStates, NEW s2 \in TransferStates, Tells(u, f1, s1)'
        PROVE /\ isValidTransition(f1, s1)
              /\ s1 \in MayHavePassed(state'[u])
              /\ Tells(u, f2, s2)' /\ (f1 = f2 \/ s1 = s2) => f1 = f2 /\ s1 = s2
      BY DEF TrailTruthful, MayHavePassed, Passed
    <3>1. Tells(u, f1, s1) => isValidTransition(f1, s1) /\ s1 \in MayHavePassed(state[u])
      BY DEF AuditInv, TrailTruthful
    <3>2. Tells(u, f2, s2) => isValidTransition(f2, s2) /\ s2 \in MayHavePassed(state[u])
      BY DEF AuditInv, TrailTruthful
    <3>3. Tells(u, f1, s1) /\ Tells(u, f2, s2) /\ (f1 = f2 \/ s1 = s2) => f1 = f2 /\ s1 = s2
      BY DEF AuditInv, TrailTruthful
    <3>4. CASE u # t
      BY <2>1, <2>2, <3>1, <3>3, <3>4
    <3>5. CASE u = t
      BY <2>1, <2>2, <2>3, <3>1, <3>2, <3>3, <3>5
    <3> QED
      BY <3>4, <3>5
  <2>5. ~Faults => TrailComplete'
    <3> SUFFICES ASSUME ~Faults, NEW u \in Transfers, NEW s \in Passed(state'[u])
        PROVE \E f \in TransferStates : Tells(u, f, s)'
      BY DEF TrailComplete
    <3>1. u # t => \E f \in TransferStates : Tells(u, f, s)
      BY <2>2 DEF AuditInv, TrailComplete
    <3>2. u = t => s = to \/ \E f \in TransferStates : Tells(u, f, s)
      BY <2>2, <2>3 DEF AuditInv, TrailComplete
    <3>3. s \in TransferStates
      BY DEF Passed, TransferStates
    <3> QED
      BY <2>1, <3>1, <3>2, <3>3
  <2>6. ~Faults => ReturnsAnnounced'
    BY <2>1, <2>2 DEF AuditInv, TrailStep, ReturnsAnnounced
  <2> QED
    BY <2>4, <2>5, <2>6 DEF AuditInv
<1>3. CASE TrailStarts
  <2>1. PICK t \in Transfers : Create(t)
    BY <1>3 DEF TrailStarts
  <2>2. /\ state[t] = "none" /\ state'[t] = "Requested"
        /\ \A u \in Transfers \ {t} : state'[u] = state[u]
    BY <1>0, <2>1 DEF Create
  <2>3. /\ MayHavePassed("none") = {} /\ Passed("Requested") = {}
    BY DEF MayHavePassed, Passed
  <2>4. TrailTruthful'
    BY <1>3, <2>2, <2>3 DEF AuditInv, TrailStarts, TrailTruthful
  <2>5. ~Faults => TrailComplete'
    <3> SUFFICES ASSUME ~Faults, NEW u \in Transfers, NEW s \in Passed(state'[u])
        PROVE \E f \in TransferStates : Tells(u, f, s)'
      BY DEF TrailComplete
    <3>1. u # t /\ s \in Passed(state[u])
      BY <2>2, <2>3
    <3>2. s \in TransferStates
      BY DEF Passed, TransferStates
    <3> QED
      BY <1>3, <3>1, <3>2 DEF AuditInv, TrailStarts, TrailComplete
  <2>6. ~Faults => ReturnsAnnounced'
    BY <2>2 DEF AuditInv, TrailStep, ReturnsAnnounced
  <2> QED
    BY <2>4, <2>5, <2>6 DEF AuditInv
<1> QED
  BY <1>1, <1>2, <1>3 DEF TrailStep

----------------------------------------------------------------------------
(* Deposits *)

\* What a request at this statement is about to tell: nothing, or one transition.
Silent(pc) == \A f, s : <<pc, f, s>> \notin DepositWrites

Telling(pc, from, to) == \A f, s : <<pc, f, s>> \in DepositWrites <=> f = from /\ s = to

\* A deposit request's step leaves what the other requests are about to tell.
LEMMA DepositTells ==
  ASSUME TypeOK, NEW t \in Transfers, DepositFrame, NEW pc, dpc' = [dpc EXCEPT ![t] = pc]
  PROVE  /\ \A u \in Transfers : \A f, s :
              u # t => (AboutToTell(u, f, s)' <=> AboutToTell(u, f, s))
         /\ \A f, s :
              /\ Silent(dpc[t]) => (AboutToTell(t, f, s)' <=>
                    AboutToTell(t, f, s) \/ <<pc, f, s>> \in DepositWrites)
              /\ Silent(pc) => (AboutToTell(t, f, s) <=>
                    AboutToTell(t, f, s)' \/ <<dpc[t], f, s>> \in DepositWrites)
         /\ \A u \in Transfers : Announced(u)' <=> Announced(u)
<1>1. /\ dpc'[t] = pc /\ \A u \in Transfers \ {t} : dpc'[u] = dpc[u]
      /\ UNCHANGED <<notifications, opc, oT, oSeen, rpc, rT, rSeen, spc, sDone>>
  BY DEF TypeOK, DepositTypeOK, DepositFrame, opVars, retVars, setVars
<1> QED
  BY <1>1 DEF AboutToTell, OperatorWrites, RejectFrom, Silent, Announced

\* A step between two silent statements.
LEMMA DepositSilent ==
  ASSUME TypeOK, NEW t \in Transfers, DepositFrame, UNCHANGED <<state, events>>,
         NEW pc, dpc' = [dpc EXCEPT ![t] = pc], Silent(pc), Silent(dpc[t]) \/ Faults
  PROVE  TrailStep
  BY DepositTells DEF TrailStep, TrailKept, Tells, Silent

\* A call of Transition: won, the request is about to tell it; lost, nothing happened.
LEMMA DepositUpdateTrail ==
  ASSUME TypeOK, NEW t \in Transfers, DepositFrame, NEW here, NEW from \in TransferStates,
         NEW to \in TransferStates, NEW event, DepositUpdate(t, here, from, to, event),
         Silent(here), Telling(event, from, to), Silent("done"), to \notin {"Completed", "Returned"}
  PROVE  TrailStep
<1>1. CASE TransitionFails(t, from, to) /\ Goto(t, "done")
  BY <1>1, DepositSilent DEF DepositUpdate, TransitionFails, Goto
<1>2. CASE Transition(t, from, to) /\ Goto(t, event)
  <2>1. dpc' = [dpc EXCEPT ![t] = event] /\ dpc[t] = here /\ UNCHANGED events
    BY <1>2 DEF DepositUpdate, Goto
  <2>2. \A u \in Transfers, f, s \in TransferStates :
          Tells(u, f, s)' <=> Tells(u, f, s) \/ (u = t /\ f = from /\ s = to)
    <3>1. \A f, s : AboutToTell(t, f, s)' <=> AboutToTell(t, f, s) \/ (f = from /\ s = to)
      BY <2>1, DepositTells DEF Telling
    <3>2. \A u \in Transfers \ {t} : \A f, s : AboutToTell(u, f, s)' <=> AboutToTell(u, f, s)
      BY <2>1, DepositTells
    <3> QED
      BY <2>1, <3>1, <3>2 DEF Tells
  <2>3. isValidTransition(from, to) /\ UpdateState(t, from, to)
    BY <1>2 DEF Transition
  <2>4. TrailGrows
    BY <2>2, <2>3 DEF TrailGrows
  <2> QED
    BY <2>1, <2>4, DepositTells DEF TrailStep
<1> QED
  BY <1>1, <1>2 DEF DepositUpdate

\* Writing the event.
LEMMA DepositEventTrail ==
  ASSUME TypeOK, NEW t \in Transfers, DepositFrame, NEW here, NEW from \in TransferStates,
         NEW to \in TransferStates, NEW next, DepositEvent(t, here, from, to, next),
         Telling(here, from, to), Silent(next)
  PROVE  TrailStep
<1>1. /\ dpc' = [dpc EXCEPT ![t] = next] /\ dpc[t] = here /\ UNCHANGED state
      /\ events' = events \union {<<t, from, to>>}
  BY DEF DepositEvent, Goto, writeStateChangedEvent
<1>2. \A u \in Transfers, f, s \in TransferStates : Tells(u, f, s)' <=> Tells(u, f, s)
  <2> SUFFICES ASSUME NEW u \in Transfers, NEW f \in TransferStates, NEW s \in TransferStates
      PROVE Tells(u, f, s)' <=> Tells(u, f, s)
    OBVIOUS
  <2>1. CASE u # t
    BY <1>1, <2>1, DepositTells DEF Tells
  <2>2. CASE u = t
    <3>1. AboutToTell(t, f, s) <=> AboutToTell(t, f, s)' \/ (f = from /\ s = to)
      BY <1>1, DepositTells DEF Telling
    <3>2. <<t, f, s>> \in events' <=> <<t, f, s>> \in events \/ (f = from /\ s = to)
      BY <1>1
    <3> QED
      BY <2>2, <3>1, <3>2 DEF Tells
  <2> QED
    BY <2>1, <2>2
<1> QED
  BY <1>1, <1>2, DepositTells DEF TrailStep, TrailKept

\* Every step of POST /deposits is a step of the trail.
LEMMA DepositTrail ==
  ASSUME TypeOK, NEW t \in Transfers, DepositFrame,
         CreateDeposit(t) \/ DepositRuns(t) \/ DepositAborts(t)
  PROVE  TrailStep
<1>0. /\ \A pc \in {"idle", "toValidating", "vss", "codeV", "toRejectedV", "toAnalyzing",
                    "evaluate", "codeA", "toRejectedA", "flag", "toApproved", "post",
                    "toFundsPosted", "done"} : Silent(pc)
      /\ Telling("evValidating", "Requested", "Validating")
      /\ Telling("evAnalyzing", "Validating", "Analyzing")
      /\ Telling("evRejectedV", "Validating", "Rejected")
      /\ Telling("evRejectedA", "Analyzing", "Rejected")
      /\ Telling("evApproved", "Analyzing", "Approved")
      /\ Telling("evFundsPosted", "Approved", "FundsPosted")
  BY DEF Silent, Telling, DepositWrites
<1> USE DEF TransferStates
<1>1. CASE CreateDeposit(t)
  <2>1. dpc' = [dpc EXCEPT ![t] = "toValidating"] /\ dpc[t] = "idle" /\ UNCHANGED events
    BY <1>1 DEF CreateDeposit
  <2>2. Silent("idle") /\ Silent("toValidating")
    BY <1>0
  <2>3. TrailStarts
    BY <1>1, <2>1, <2>2, DepositTells DEF CreateDeposit, TrailStarts, Tells, Silent
  <2> QED
    BY <2>1, <2>3, DepositTells DEF TrailStep
<1>2. CASE ToValidating(t)
  BY <1>0, <1>2, DepositUpdateTrail DEF ToValidating
<1>3. CASE ValidatingEvent(t)
  BY <1>0, <1>3, DepositEventTrail DEF ValidatingEvent
<1>4. CASE CallVSS(t)
  <2>1. PICK pc \in {"codeV", "toAnalyzing", "done"} : dpc' = [dpc EXCEPT ![t] = pc]
    BY <1>4 DEF CallVSS, Goto
  <2> QED
    BY <1>0, <1>4, <2>1, DepositSilent DEF CallVSS
<1>5. CASE VSSRejectCode(t)
  BY <1>0, <1>5, DepositSilent DEF VSSRejectCode, SetCode, Goto
<1>6. CASE VSSReject(t)
  BY <1>0, <1>6, DepositUpdateTrail DEF VSSReject
<1>7. CASE VSSRejectEvent(t)
  BY <1>0, <1>7, DepositEventTrail DEF VSSRejectEvent
<1>8. CASE ToAnalyzing(t)
  BY <1>0, <1>8, DepositUpdateTrail DEF ToAnalyzing
<1>9. CASE AnalyzingEvent(t)
  BY <1>0, <1>9, DepositEventTrail DEF AnalyzingEvent
<1>10. CASE Evaluate(t)
  <2>1. PICK pc \in {"codeA", "flag", "toApproved"} : dpc' = [dpc EXCEPT ![t] = pc]
    BY <1>10 DEF Evaluate, Goto
  <2> QED
    BY <1>0, <1>10, <2>1, DepositSilent DEF Evaluate
<1>11. CASE FundingRejectCode(t)
  BY <1>0, <1>11, DepositSilent DEF FundingRejectCode, SetCode, Goto
<1>12. CASE FundingReject(t)
  BY <1>0, <1>12, DepositUpdateTrail DEF FundingReject
<1>13. CASE FundingRejectEvent(t)
  BY <1>0, <1>13, DepositEventTrail DEF FundingRejectEvent
<1>14. CASE Flag(t)
  BY <1>0, <1>14, DepositSilent DEF Flag, Goto
<1>15. CASE ToApproved(t)
  BY <1>0, <1>15, DepositUpdateTrail DEF ToApproved
<1>16. CASE ApprovedEvent(t)
  BY <1>0, <1>16, DepositEventTrail DEF ApprovedEvent
<1>17. CASE PostCredit(t)
  <2>1. PICK pc \in {"toFundsPosted", "done"} : dpc' = [dpc EXCEPT ![t] = pc]
    BY <1>17 DEF PostCredit, Goto
  <2> QED
    BY <1>0, <1>17, <2>1, DepositSilent DEF PostCredit
<1>18. CASE ToFundsPosted(t)
  BY <1>0, <1>18, DepositUpdateTrail DEF ToFundsPosted
<1>19. CASE FundsPostedEvent(t)
  BY <1>0, <1>19, DepositEventTrail DEF FundsPostedEvent
<1>20. CASE DepositAborts(t)
  BY <1>0, <1>20, DepositSilent DEF DepositAborts, Goto
<1> QED
  BY <1>1, <1>2, <1>3, <1>4, <1>5, <1>6, <1>7, <1>8, <1>9, <1>10, <1>11, <1>12, <1>13,
     <1>14, <1>15, <1>16, <1>17, <1>18, <1>19, <1>20 DEF DepositRuns

----------------------------------------------------------------------------
(* Operators *)

\* What an operator's request is about to tell.
OpTells(r, t, from, to) == oT[r] = t /\ <<opc[r], from, to>> \in OperatorWrites(r)

\* An operator's step leaves what the other requests are about to tell.
LEMMA OperatorTells ==
  ASSUME NEW r \in OpRequests, OperatorFrame,
         \A q \in OpRequests \ {r} : oT'[q] = oT[q] /\ opc'[q] = opc[q] /\ oSeen'[q] = oSeen[q]
  PROVE  /\ \A t, f, s :
              /\ ~OpTells(r, t, f, s) =>
                    (AboutToTell(t, f, s)' <=> AboutToTell(t, f, s) \/ OpTells(r, t, f, s)')
              /\ ~OpTells(r, t, f, s)' =>
                    (AboutToTell(t, f, s) <=> AboutToTell(t, f, s)' \/ OpTells(r, t, f, s))
         /\ \A t : Announced(t)' <=> Announced(t)
<1>1. UNCHANGED <<notifications, dpc, rpc, rT, rSeen, spc, sDone>>
  BY DEF OperatorFrame, depVars, retVars, setVars
<1>2. \A q \in OpRequests \ {r} : \A t, f, s : OpTells(q, t, f, s)' <=> OpTells(q, t, f, s)
  BY DEF OpTells, OperatorWrites, RejectFrom
<1>3. \A t, f, s : AboutToTell(t, f, s) <=>
          \/ <<dpc[t], f, s>> \in DepositWrites
          \/ \E q \in OpRequests : OpTells(q, t, f, s)
          \/ \E q \in RetRequests :
                rpc[q] = "record" /\ rT[q] = t /\ f = rSeen[q] /\ s = "Returned"
          \/ \E g \in Triggers :
                spc[g] = "record" /\ sDone[g] = t /\ f = "FundsPosted" /\ s = "Completed"
  BY DEF AboutToTell, OpTells
<1>4. \A t, f, s : AboutToTell(t, f, s)' <=>
          \/ <<dpc'[t], f, s>> \in DepositWrites
          \/ \E q \in OpRequests : OpTells(q, t, f, s)'
          \/ \E q \in RetRequests :
                rpc'[q] = "record" /\ rT'[q] = t /\ f = rSeen'[q] /\ s = "Returned"
          \/ \E g \in Triggers :
                spc'[g] = "record" /\ sDone'[g] = t /\ f = "FundsPosted" /\ s = "Completed"
  BY DEF AboutToTell, OpTells
<1>5. \A t : Announced(t)' <=> Announced(t)
  BY <1>1 DEF Announced
<1> QED
  BY <1>1, <1>2, <1>3, <1>4, <1>5

\* A step between two silent statements.
LEMMA OperatorSilent ==
  ASSUME NEW r \in OpRequests, OperatorFrame, UNCHANGED <<state, events>>,
         \A q \in OpRequests \ {r} : oT'[q] = oT[q] /\ opc'[q] = opc[q] /\ oSeen'[q] = oSeen[q],
         \A t, f, s : ~OpTells(r, t, f, s)',
         Faults \/ \A t, f, s : ~OpTells(r, t, f, s)
  PROVE  TrailStep
  BY OperatorTells DEF TrailStep, TrailKept, Tells

\* A call of Transition by an operator's request.
LEMMA OperatorUpdateTrail ==
  ASSUME TypeOK, NEW r \in OpRequests, OperatorFrame, NEW here, NEW from \in TransferStates,
         NEW to \in TransferStates, NEW event, OperatorUpdate(r, here, from, to, event),
         here \in {"toApproved", "toFundsPosted", "toRejected"}, event # "idle",
         \A f, s : <<event, f, s>> \in OperatorWrites(r) <=> f = from /\ s = to,
         to \notin {"Completed", "Returned"}
  PROVE  TrailStep
<1>0. oT[r] \in Transfers /\ opc[r] = here /\ UNCHANGED events
  BY DEF OperatorUpdate, TypeOK, OperatorTypeOK
<1>1. \A q \in OpRequests \ {r} :
         oT'[q] = oT[q] /\ opc'[q] = opc[q] /\ oSeen'[q] = oSeen[q]
  BY DEF TypeOK, OperatorTypeOK, OperatorUpdate, OpGoto
<1>2. \A t, f, s : ~OpTells(r, t, f, s)
  BY <1>0 DEF OpTells, OperatorWrites
<1>3. CASE TransitionFails(oT[r], from, to) /\ OpGoto(r, "idle")
  <2>1. opc'[r] = "idle" /\ UNCHANGED state
    BY <1>3 DEF TypeOK, OperatorTypeOK, OpGoto, TransitionFails
  <2>2. \A t, f, s : ~OpTells(r, t, f, s)'
    BY <2>1 DEF OpTells, OperatorWrites
  <2> QED
    BY <1>0, <1>1, <1>2, <2>1, <2>2, OperatorSilent
<1>4. CASE Transition(oT[r], from, to) /\ OpGoto(r, event)
  <2>1. opc'[r] = event /\ oT'[r] = oT[r] /\ oSeen'[r] = oSeen[r]
    BY <1>4 DEF TypeOK, OperatorTypeOK, OpGoto
  <2>2. \A t, f, s : OpTells(r, t, f, s)' <=> t = oT[r] /\ f = from /\ s = to
    BY <2>1 DEF OpTells, OperatorWrites, RejectFrom
  <2>3. \A t, f, s : AboutToTell(t, f, s)' <=>
                        AboutToTell(t, f, s) \/ (t = oT[r] /\ f = from /\ s = to)
    BY <1>1, <1>2, <2>2, OperatorTells
  <2>4. TrailGrows
    BY <1>0, <1>4, <2>3 DEF Transition, TrailGrows, Tells
  <2> QED
    BY <1>1, <2>4, OperatorTells DEF TrailStep
<1> QED
  BY <1>3, <1>4 DEF OperatorUpdate

\* Writing the event.
LEMMA OperatorEventTrail ==
  ASSUME TypeOK, NEW r \in OpRequests, OperatorFrame, NEW here, NEW from \in TransferStates,
         NEW to \in TransferStates, NEW next, OperatorEvent(r, here, from, to, next),
         \A f, s : <<here, f, s>> \in OperatorWrites(r) <=> f = from /\ s = to,
         next \in {"post", "idle"}
  PROVE  TrailStep
<1>0. opc[r] = here /\ UNCHANGED state /\ events' = events \union {<<oT[r], from, to>>}
  BY DEF OperatorEvent, writeStateChangedEvent
<1>1. /\ \A q \in OpRequests \ {r} :
            oT'[q] = oT[q] /\ opc'[q] = opc[q] /\ oSeen'[q] = oSeen[q]
      /\ opc'[r] = next
  BY DEF TypeOK, OperatorTypeOK, OperatorEvent, OpGoto
<1>2. \A t, f, s : ~OpTells(r, t, f, s)'
  BY <1>1 DEF OpTells, OperatorWrites
<1>3. \A t, f, s : OpTells(r, t, f, s) <=> t = oT[r] /\ f = from /\ s = to
  BY <1>0 DEF OpTells
<1>4. \A t, f, s : AboutToTell(t, f, s) <=>
                      AboutToTell(t, f, s)' \/ (t = oT[r] /\ f = from /\ s = to)
  BY <1>1, <1>2, <1>3, OperatorTells
<1>5. \A t, f, s : <<t, f, s>> \in events' <=>
                      <<t, f, s>> \in events \/ (t = oT[r] /\ f = from /\ s = to)
  BY <1>0
<1>6. TrailKept
  BY <1>0, <1>4, <1>5 DEF TrailKept, Tells
<1> QED
  BY <1>1, <1>6, OperatorTells DEF TrailStep

\* Every step of POST /operator/actions is a step of the trail.
LEMMA OperatorTrail ==
  ASSUME TypeOK, NEW r \in OpRequests, OperatorFrame,
         PostAction(r) \/ OperatorRuns(r) \/ OperatorAborts(r)
  PROVE  TrailStep
<1>0. /\ opc \in [OpRequests -> OperatorPCs] /\ oT \in [OpRequests -> Transfers \union {None}]
      /\ oSeen \in [OpRequests -> {"Validating", "Analyzing", None}]
      /\ RejectFrom(r) \in TransferStates
  BY DEF TypeOK, OperatorTypeOK, RejectFrom, TransferStates
<1>1. CASE PostAction(r)
  <2>1. /\ opc[r] = "idle" /\ opc'[r] \in {"toApproved", "code", "toRejected"}
        /\ \A q \in OpRequests \ {r} :
              oT'[q] = oT[q] /\ opc'[q] = opc[q] /\ oSeen'[q] = oSeen[q]
        /\ UNCHANGED <<state, events>>
    BY <1>0, <1>1 DEF PostAction
  <2>2. \A t, f, s : ~OpTells(r, t, f, s)' /\ ~OpTells(r, t, f, s)
    BY <2>1 DEF OpTells, OperatorWrites
  <2> QED
    BY <2>1, <2>2, OperatorSilent
<1>2. CASE Approve(r)
  <2>1. \A f, s : <<"evApproved", f, s>> \in OperatorWrites(r) <=> f = "Analyzing" /\ s = "Approved"
    BY DEF OperatorWrites
  <2> QED
    BY <1>2, <2>1, OperatorUpdateTrail DEF Approve, TransferStates
<1>3. CASE ApproveEvent(r)
  <2>1. \A f, s : <<"evApproved", f, s>> \in OperatorWrites(r) <=> f = "Analyzing" /\ s = "Approved"
    BY DEF OperatorWrites
  <2> QED
    BY <1>3, <2>1, OperatorEventTrail DEF ApproveEvent, TransferStates
<1>4. CASE ApprovePost(r) \/ RejectCode(r)
  <2>1. /\ opc[r] \in {"post", "code"} /\ opc'[r] \in {"toFundsPosted", "idle", "toRejected"}
        /\ \A q \in OpRequests \ {r} :
              oT'[q] = oT[q] /\ opc'[q] = opc[q] /\ oSeen'[q] = oSeen[q]
        /\ UNCHANGED <<state, events>>
    BY <1>0, <1>4 DEF ApprovePost, RejectCode, OpGoto
  <2>2. \A t, f, s : ~OpTells(r, t, f, s)' /\ ~OpTells(r, t, f, s)
    BY <2>1 DEF OpTells, OperatorWrites
  <2> QED
    BY <2>1, <2>2, OperatorSilent
<1>5. CASE ApproveFunds(r)
  <2>1. \A f, s : <<"evFundsPosted", f, s>> \in OperatorWrites(r) <=>
                     f = "Approved" /\ s = "FundsPosted"
    BY DEF OperatorWrites
  <2> QED
    BY <1>5, <2>1, OperatorUpdateTrail DEF ApproveFunds, TransferStates
<1>6. CASE ApproveFundsEvent(r)
  <2>1. \A f, s : <<"evFundsPosted", f, s>> \in OperatorWrites(r) <=>
                     f = "Approved" /\ s = "FundsPosted"
    BY DEF OperatorWrites
  <2> QED
    BY <1>6, <2>1, OperatorEventTrail DEF ApproveFundsEvent, TransferStates
<1>7. CASE Reject(r)
  <2>1. \A f, s : <<"evRejected", f, s>> \in OperatorWrites(r) <=>
                     f = RejectFrom(r) /\ s = "Rejected"
    BY DEF OperatorWrites
  <2>2. "Rejected" \in TransferStates
    BY DEF TransferStates
  <2> QED
    BY <1>0, <1>7, <2>1, <2>2, OperatorUpdateTrail DEF Reject
<1>8. CASE RejectEvent(r)
  <2>1. \A f, s : <<"evRejected", f, s>> \in OperatorWrites(r) <=>
                     f = RejectFrom(r) /\ s = "Rejected"
    BY DEF OperatorWrites
  <2>2. "Rejected" \in TransferStates
    BY DEF TransferStates
  <2> QED
    BY <1>0, <1>8, <2>1, <2>2, OperatorEventTrail DEF RejectEvent
<1>9. CASE OperatorAborts(r)
  <2>1. /\ Faults /\ opc'[r] = "idle"
        /\ \A q \in OpRequests \ {r} :
              oT'[q] = oT[q] /\ opc'[q] = opc[q] /\ oSeen'[q] = oSeen[q]
        /\ UNCHANGED <<state, events>>
    BY <1>0, <1>9 DEF OperatorAborts, OpGoto
  <2>2. \A t, f, s : ~OpTells(r, t, f, s)'
    BY <2>1 DEF OpTells, OperatorWrites
  <2> QED
    BY <2>1, <2>2, OperatorSilent
<1> QED
  BY <1>1, <1>2, <1>3, <1>4, <1>5, <1>6, <1>7, <1>8, <1>9 DEF OperatorRuns

----------------------------------------------------------------------------
(* Returns *)

\* What a return is about to tell, of the state it read when it arrived.
RetTells(r, t, from, to) ==
    rpc[r] = "record" /\ rT[r] = t /\ from = rSeen[r] /\ to = "Returned"

\* A return's step leaves what the other requests are about to tell or announce.
LEMMA ReturnTells ==
  ASSUME NEW r \in RetRequests, ReturnFrame,
         \A q \in RetRequests \ {r} : rT'[q] = rT[q] /\ rpc'[q] = rpc[q] /\ rSeen'[q] = rSeen[q]
  PROVE  /\ \A t, f, s :
              /\ ~RetTells(r, t, f, s) =>
                    (AboutToTell(t, f, s)' <=> AboutToTell(t, f, s) \/ RetTells(r, t, f, s)')
              /\ ~RetTells(r, t, f, s)' =>
                    (AboutToTell(t, f, s) <=> AboutToTell(t, f, s)' \/ RetTells(r, t, f, s))
         /\ \A t : notifications \subseteq notifications' /\ Announced(t) =>
                  Announced(t)' \/ (rpc[r] = "record" /\ rT[r] = t)
<1>1. UNCHANGED <<dpc, opc, oT, oSeen, spc, sDone>>
  BY DEF ReturnFrame, depVars, opVars, setVars
<1>2. \A q \in RetRequests \ {r} : \A t, f, s : RetTells(q, t, f, s)' <=> RetTells(q, t, f, s)
  BY DEF RetTells
<1>3. \A t, f, s : AboutToTell(t, f, s) <=>
          \/ <<dpc[t], f, s>> \in DepositWrites
          \/ \E q \in OpRequests : OpTells(q, t, f, s)
          \/ \E q \in RetRequests : RetTells(q, t, f, s)
          \/ \E g \in Triggers :
                spc[g] = "record" /\ sDone[g] = t /\ f = "FundsPosted" /\ s = "Completed"
  BY DEF AboutToTell, OpTells, RetTells
<1>4. \A t, f, s : AboutToTell(t, f, s)' <=>
          \/ <<dpc'[t], f, s>> \in DepositWrites
          \/ \E q \in OpRequests : OpTells(q, t, f, s)'
          \/ \E q \in RetRequests : RetTells(q, t, f, s)'
          \/ \E g \in Triggers :
                spc'[g] = "record" /\ sDone'[g] = t /\ f = "FundsPosted" /\ s = "Completed"
  BY DEF AboutToTell, OpTells, RetTells
<1>5. \A q \in OpRequests : \A t, f, s : OpTells(q, t, f, s)' <=> OpTells(q, t, f, s)
  BY <1>1 DEF OpTells, OperatorWrites, RejectFrom
<1>6. \A t : notifications \subseteq notifications' /\ Announced(t) =>
                Announced(t)' \/ (rpc[r] = "record" /\ rT[r] = t)
  BY DEF Announced
<1> QED
  BY <1>1, <1>2, <1>3, <1>4, <1>5, <1>6

\* A step between two silent statements.
LEMMA ReturnSilent ==
  ASSUME NEW r \in RetRequests, ReturnFrame, UNCHANGED <<state, events, notifications>>,
         \A q \in RetRequests \ {r} : rT'[q] = rT[q] /\ rpc'[q] = rpc[q] /\ rSeen'[q] = rSeen[q],
         rpc'[r] # "record", rpc[r] # "record" \/ Faults
  PROVE  TrailStep
<1>1. \A t, f, s : ~RetTells(r, t, f, s)' /\ (RetTells(r, t, f, s) => Faults)
  BY DEF RetTells
<1>2. TrailKept
  BY <1>1, ReturnTells DEF TrailKept, Tells
<1> QED
  BY <1>2, ReturnTells DEF TrailStep

\* Every step of POST /returns is a step of the trail.
LEMMA ReturnTrail ==
  ASSUME TypeOK, NEW r \in RetRequests, ReturnFrame,
         ProcessReturn(r) \/ ReturnRuns(r) \/ ReturnAborts(r)
  PROVE  TrailStep
<1>0. /\ rpc \in [RetRequests -> ReturnPCs] /\ rT \in [RetRequests -> Transfers \union {None}]
      /\ rSeen \in [RetRequests -> {"FundsPosted", "Completed", None}]
      /\ rpc[r] # "idle" => rT[r] \in Transfers /\ rSeen[r] \in {"FundsPosted", "Completed"}
  BY DEF TypeOK, ReturnTypeOK
<1>1. CASE ProcessReturn(r)
  <2>1. /\ rpc[r] = "idle" /\ rpc'[r] = "reversal" /\ UNCHANGED <<state, events, notifications>>
        /\ \A q \in RetRequests \ {r} :
              rT'[q] = rT[q] /\ rpc'[q] = rpc[q] /\ rSeen'[q] = rSeen[q]
    BY <1>0, <1>1 DEF ProcessReturn
  <2> QED
    BY <2>1, ReturnSilent
<1>2. CASE PostReversal(r) \/ PostFee(r) \/ CheckBalance(r) \/ FlagCollections(r)
  <2>1. PICK pc \in {"fee", "toReturned", "collections", "idle"} : RetGoto(r, pc)
    BY <1>2 DEF PostReversal, PostFee, PostReturnEntry, CheckBalance, FlagCollections
  <2>2. rpc[r] # "record" /\ UNCHANGED <<state, events, notifications>>
    BY <1>2 DEF PostReversal, PostFee, PostReturnEntry, CheckBalance, FlagCollections
  <2>3. /\ rpc'[r] = pc
        /\ \A q \in RetRequests \ {r} :
              rT'[q] = rT[q] /\ rpc'[q] = rpc[q] /\ rSeen'[q] = rSeen[q]
    BY <1>0, <2>1 DEF RetGoto
  <2> QED
    BY <2>2, <2>3, ReturnSilent
<1>3. CASE ToReturned(r)
  <2>0. /\ \A q \in RetRequests \ {r} :
              rT'[q] = rT[q] /\ rpc'[q] = rpc[q] /\ rSeen'[q] = rSeen[q]
        /\ rpc[r] = "toReturned" /\ UNCHANGED <<events, notifications>>
    BY <1>0, <1>3 DEF ToReturned, RetGoto
  <2>1. CASE UNCHANGED state /\ RetGoto(r, "idle")
    <3>1. rpc'[r] = "idle"
      BY <1>0, <2>1 DEF RetGoto
    <3> QED
      BY <2>0, <2>1, <3>1, ReturnSilent
  <2>2. CASE UpdateState(rT[r], rSeen[r], "Returned") /\ RetGoto(r, "record")
    <3>1. rpc'[r] = "record" /\ rT'[r] = rT[r] /\ rSeen'[r] = rSeen[r]
      BY <1>0, <2>2 DEF RetGoto
    <3>2. PICK t \in Transfers, from \in {"FundsPosted", "Completed"} :
            t = rT[r] /\ from = rSeen[r]
      BY <1>0, <2>0
    <3>3. isValidTransition(from, "Returned") /\ from \in TransferStates
          /\ "Returned" \in TransferStates
      BY DEF isValidTransition, validTransitions, TransferStates
    <3>4. \A u, f, s :
            /\ ~RetTells(r, u, f, s)
            /\ RetTells(r, u, f, s)' <=> u = t /\ f = from /\ s = "Returned"
      BY <2>0, <3>1, <3>2 DEF RetTells
    <3>5. \A u, f, s : AboutToTell(u, f, s)' <=>
                          AboutToTell(u, f, s) \/ (u = t /\ f = from /\ s = "Returned")
      BY <2>0, <3>4, ReturnTells
    <3>6. Announced(t)'
      BY <3>1, <3>2 DEF Announced
    <3>7. TrailGrows
      BY <2>0, <2>2, <3>2, <3>3, <3>5, <3>6 DEF TrailGrows, Tells
    <3> QED
      BY <2>0, <3>7, ReturnTells DEF TrailStep
  <2> QED
    BY <1>3, <2>1, <2>2 DEF ToReturned
<1>4. CASE RecordReturn(r)
  <2>0. /\ \A q \in RetRequests \ {r} :
              rT'[q] = rT[q] /\ rpc'[q] = rpc[q] /\ rSeen'[q] = rSeen[q]
        /\ rpc[r] = "record" /\ rpc'[r] = "balance" /\ UNCHANGED state
    BY <1>0, <1>4 DEF RecordReturn, RetGoto
  <2>1. \/ events' = events \union {<<rT[r], rSeen[r], "Returned">>}
        \/ Faults /\ UNCHANGED events
    BY <1>4 DEF RecordReturn, writeStateChangedEvent
  <2>2. \/ notifications' = notifications \union {rT[r]}
        \/ Faults /\ UNCHANGED notifications
    BY <1>4 DEF RecordReturn, CreateNotification
  <2>3. \A u, f, s :
          /\ ~RetTells(r, u, f, s)'
          /\ RetTells(r, u, f, s) <=> u = rT[r] /\ f = rSeen[r] /\ s = "Returned"
    BY <2>0 DEF RetTells
  <2>4. \A u, f, s : AboutToTell(u, f, s) <=>
                        AboutToTell(u, f, s)' \/ (u = rT[r] /\ f = rSeen[r] /\ s = "Returned")
    BY <2>0, <2>3, ReturnTells
  <2>5. \A u, f, s :
          /\ <<u, f, s>> \in events =>  <<u, f, s>> \in events'
          /\ <<u, f, s>> \in events' =>
                <<u, f, s>> \in events \/ (u = rT[r] /\ f = rSeen[r] /\ s = "Returned")
          /\ ~Faults /\ u = rT[r] /\ f = rSeen[r] /\ s = "Returned" => <<u, f, s>> \in events'
    BY <2>1
  <2>6. TrailKept
    BY <2>0, <2>4, <2>5 DEF TrailKept, Tells
  <2>7. \A u : ~Faults /\ Announced(u) => Announced(u)'
    <3>1. notifications \subseteq notifications'
      BY <2>2
    <3>2. \A u : ~Faults /\ u = rT[r] => Announced(u)'
      BY <2>2 DEF Announced
    <3> QED
      BY <2>0, <3>1, <3>2, ReturnTells
  <2> QED
    BY <2>6, <2>7 DEF TrailStep
<1>5. CASE ReturnAborts(r)
  <2>1. /\ Faults /\ rpc'[r] = "idle" /\ UNCHANGED <<state, events, notifications>>
        /\ \A q \in RetRequests \ {r} :
              rT'[q] = rT[q] /\ rpc'[q] = rpc[q] /\ rSeen'[q] = rSeen[q]
    BY <1>0, <1>5 DEF ReturnAborts, RetGoto
  <2> QED
    BY <2>1, ReturnSilent
<1> QED
  BY <1>1, <1>2, <1>3, <1>4, <1>5 DEF ReturnRuns

----------------------------------------------------------------------------
(* Settlement *)

\* What a trigger is about to tell.
TrigTells(g, t, from, to) ==
    spc[g] = "record" /\ sDone[g] = t /\ from = "FundsPosted" /\ to = "Completed"

\* A trigger's step leaves what the other requests are about to tell or announce.
LEMMA TriggerTells ==
  ASSUME NEW g \in Triggers, TriggerFrame,
         \A q \in Triggers \ {g} : spc'[q] = spc[q] /\ sDone'[q] = sDone[q]
  PROVE  /\ \A t, f, s :
              /\ ~TrigTells(g, t, f, s) =>
                    (AboutToTell(t, f, s)' <=> AboutToTell(t, f, s) \/ TrigTells(g, t, f, s)')
              /\ ~TrigTells(g, t, f, s)' =>
                    (AboutToTell(t, f, s) <=> AboutToTell(t, f, s)' \/ TrigTells(g, t, f, s))
         /\ \A t : Announced(t)' <=> Announced(t)
<1>1. UNCHANGED <<notifications, dpc, opc, oT, oSeen, rpc, rT, rSeen>>
  BY DEF TriggerFrame, depVars, opVars, retVars
<1>2. \A q \in Triggers \ {g} : \A t, f, s : TrigTells(q, t, f, s)' <=> TrigTells(q, t, f, s)
  BY DEF TrigTells
<1>3. \A t, f, s : AboutToTell(t, f, s) <=>
          \/ <<dpc[t], f, s>> \in DepositWrites
          \/ \E q \in OpRequests : OpTells(q, t, f, s)
          \/ \E q \in RetRequests : RetTells(q, t, f, s)
          \/ \E q \in Triggers : TrigTells(q, t, f, s)
  BY DEF AboutToTell, OpTells, RetTells, TrigTells
<1>4. \A t, f, s : AboutToTell(t, f, s)' <=>
          \/ <<dpc'[t], f, s>> \in DepositWrites
          \/ \E q \in OpRequests : OpTells(q, t, f, s)'
          \/ \E q \in RetRequests : RetTells(q, t, f, s)'
          \/ \E q \in Triggers : TrigTells(q, t, f, s)'
  BY DEF AboutToTell, OpTells, RetTells, TrigTells
<1>5. /\ \A q \in OpRequests : \A t, f, s : OpTells(q, t, f, s)' <=> OpTells(q, t, f, s)
      /\ \A q \in RetRequests : \A t, f, s : RetTells(q, t, f, s)' <=> RetTells(q, t, f, s)
  BY <1>1 DEF OpTells, OperatorWrites, RejectFrom, RetTells
<1>6. \A t : Announced(t)' <=> Announced(t)
  BY <1>1 DEF Announced
<1> QED
  BY <1>1, <1>2, <1>3, <1>4, <1>5, <1>6

\* A step between two silent statements.
LEMMA TriggerSilent ==
  ASSUME NEW g \in Triggers, TriggerFrame, UNCHANGED <<state, events>>,
         \A q \in Triggers \ {g} : spc'[q] = spc[q] /\ sDone'[q] = sDone[q],
         spc'[g] # "record", spc[g] # "record" \/ Faults
  PROVE  TrailStep
<1>1. \A t, f, s : ~TrigTells(g, t, f, s)' /\ (TrigTells(g, t, f, s) => Faults)
  BY DEF TrigTells
<1>2. TrailKept
  BY <1>1, TriggerTells DEF TrailKept, Tells
<1> QED
  BY <1>2, TriggerTells DEF TrailStep

\* Every step of POST /settlement/trigger is a step of the trail.
LEMMA TriggerTrail ==
  ASSUME TypeOK, NEW g \in Triggers, TriggerFrame,
         ListFundsPosted(g) \/ TriggerRuns(g) \/ TriggerAborts(g)
  PROVE  TrailStep
<1>0. /\ spc \in [Triggers -> TriggerPCs] /\ sDone \in [Triggers -> Transfers \union {None}]
      /\ sTids \in [Triggers -> SUBSET Transfers]
      /\ spc[g] = "record" => sDone[g] \in Transfers
  BY DEF TypeOK, TriggerTypeOK, TriggerLocalsOK
<1>1. CASE \/ ListFundsPosted(g) \/ OpenSettlementFile(g) \/ WriteSettlementFile(g)
           \/ CreateBatch(g) \/ LinkTransfer(g) \/ SubmitBatch(g) \/ AcknowledgeBatch(g)
  <2>1. \E pc \in TriggerPCs \ {"record"} : spc' = [spc EXCEPT ![g] = pc]
    <3>1. CASE ListFundsPosted(g) \/ OpenSettlementFile(g) \/ WriteSettlementFile(g)
      BY <3>1 DEF ListFundsPosted, OpenSettlementFile, WriteSettlementFile, SetGoto, TriggerPCs
    <3>2. CASE CreateBatch(g) \/ LinkTransfer(g)
      BY <3>2 DEF CreateBatch, LinkTransfer, SetGoto, TriggerPCs
    <3>3. CASE SubmitBatch(g) \/ AcknowledgeBatch(g)
      BY <3>3 DEF SubmitBatch, AcknowledgeBatch, NextBatch, SetGoto, TriggerPCs
    <3> QED
      BY <1>1, <3>1, <3>2, <3>3
  <2>2. spc[g] # "record" /\ UNCHANGED <<state, events, sDone>>
    BY <1>1 DEF ListFundsPosted, OpenSettlementFile, WriteSettlementFile, CreateBatch,
                LinkTransfer, SubmitBatch, AcknowledgeBatch
  <2> QED
    BY <1>0, <2>1, <2>2, TriggerSilent
<1>2. CASE CompleteTransfer(g)
  <2>0. spc[g] = "complete" /\ UNCHANGED events
    BY <1>2 DEF CompleteTransfer
  <2>1. CASE UNCHANGED <<state, sDone>> /\ (NextBatch(g) \/ UNCHANGED spc)
    <3>1. \E pc \in {"idle", "submit", "complete"} : spc' = [spc EXCEPT ![g] = pc]
      BY <1>0, <2>0, <2>1 DEF NextBatch, SetGoto
    <3> QED
      BY <1>0, <2>0, <2>1, <3>1, TriggerSilent
  <2>2. ASSUME NEW t \in sTids[g], UpdateState(t, "FundsPosted", "Completed"),
               sDone' = [sDone EXCEPT ![g] = t], SetGoto(g, "record")
        PROVE  TrailStep
    <3>1. /\ t \in Transfers /\ spc'[g] = "record" /\ sDone'[g] = t
          /\ \A q \in Triggers \ {g} : spc'[q] = spc[q] /\ sDone'[q] = sDone[q]
      BY <1>0, <2>2 DEF SetGoto
    <3>2. /\ isValidTransition("FundsPosted", "Completed")
          /\ "FundsPosted" \in TransferStates /\ "Completed" \in TransferStates
      BY DEF isValidTransition, validTransitions, TransferStates
    <3>3. \A u, f, s :
            /\ ~TrigTells(g, u, f, s)
            /\ TrigTells(g, u, f, s)' <=> u = t /\ f = "FundsPosted" /\ s = "Completed"
      BY <2>0, <3>1 DEF TrigTells
    <3>4. \A u, f, s : AboutToTell(u, f, s)' <=>
                          AboutToTell(u, f, s) \/ (u = t /\ f = "FundsPosted" /\ s = "Completed")
      BY <3>1, <3>3, TriggerTells
    <3>5. TrailGrows
      BY <1>0, <2>0, <2>2, <3>1, <3>2, <3>4 DEF TrailGrows, Tells
    <3> QED
      BY <3>1, <3>5, TriggerTells DEF TrailStep
  <2> QED
    BY <1>2, <2>1, <2>2 DEF CompleteTransfer
<1>3. CASE RecordCompletion(g)
  <2>0. spc[g] = "record" /\ UNCHANGED state /\ sDone' = [sDone EXCEPT ![g] = None]
    BY <1>3 DEF RecordCompletion
  <2>1. \/ events' = events \union {<<sDone[g], "FundsPosted", "Completed">>}
        \/ Faults /\ UNCHANGED events
    BY <1>3 DEF RecordCompletion, writeStateChangedEvent
  <2>2. \E pc \in {"idle", "submit", "complete"} : spc' = [spc EXCEPT ![g] = pc]
    BY <1>3 DEF RecordCompletion, NextBatch, SetGoto
  <2>3. \A q \in Triggers \ {g} : spc'[q] = spc[q] /\ sDone'[q] = sDone[q]
    BY <1>0, <2>0, <2>2
  <2>4. \A u, f, s :
          /\ ~TrigTells(g, u, f, s)'
          /\ TrigTells(g, u, f, s) <=> u = sDone[g] /\ f = "FundsPosted" /\ s = "Completed"
    BY <1>0, <2>0, <2>2 DEF TrigTells
  <2>5. \A u, f, s :
          AboutToTell(u, f, s) <=>
            AboutToTell(u, f, s)' \/ (u = sDone[g] /\ f = "FundsPosted" /\ s = "Completed")
    BY <2>3, <2>4, TriggerTells
  <2>6. \A u, f, s :
          /\ <<u, f, s>> \in events =>  <<u, f, s>> \in events'
          /\ <<u, f, s>> \in events' =>
                <<u, f, s>> \in events \/ (u = sDone[g] /\ f = "FundsPosted" /\ s = "Completed")
          /\ ~Faults /\ u = sDone[g] /\ f = "FundsPosted" /\ s = "Completed" =>
                <<u, f, s>> \in events'
    BY <2>1
  <2>7. TrailKept
    BY <2>0, <2>5, <2>6 DEF TrailKept, Tells
  <2> QED
    BY <2>3, <2>7, TriggerTells DEF TrailStep
<1>4. CASE TriggerAborts(g)
  BY <1>0, <1>4, TriggerSilent DEF TriggerAborts, SetGoto
<1> QED
  BY <1>1, <1>2, <1>3, <1>4 DEF TriggerRuns

\* A step that touches nothing the trail is made of.
LEMMA UnrelatedTrail ==
  ASSUME UNCHANGED <<state, events, notifications, depVars, opVars, retVars, spc, sDone>>
  PROVE  TrailStep
<1>1. \A t, f, s : AboutToTell(t, f, s)' <=> AboutToTell(t, f, s)
  BY DEF depVars, opVars, retVars, AboutToTell, OperatorWrites, RejectFrom
<1>2. \A t : Announced(t)' <=> Announced(t)
  BY DEF retVars, Announced
<1> QED
  BY <1>1, <1>2 DEF TrailStep, TrailKept, Tells

----------------------------------------------------------------------------
\* Every step of the server is a step of the trail.
LEMMA NextTrail ==
  ASSUME TypeOK, [Next]_vars
  PROVE  TrailStep
<1>1. CASE Next
  <2>1. ASSUME NEW h \in HealthRequests, HealthFrame PROVE TrailStep
    BY <2>1, UnrelatedTrail DEF HealthFrame
  <2> QED
    BY <1>1, <2>1, DepositTrail, OperatorTrail, ReturnTrail, TriggerTrail
    DEF Next, DepositStep, OperatorStep, ReturnStep, TriggerStep
<1>2. CASE UNCHANGED vars
  BY <1>2, UnrelatedTrail DEF vars, setVars
<1> QED
  BY <1>1, <1>2

\* The invariant is inductive.
LEMMA AuditInduction ==
  /\ Init => AuditInv
  /\ AuditInv /\ [Next]_vars => AuditInv'
<1>1. Init => AuditInv
  <2> SUFFICES ASSUME Init PROVE AuditInv
    OBVIOUS
  <2>1. /\ state = [t \in Transfers |-> "none"] /\ events = {}
        /\ dpc = [t \in Transfers |-> "idle"] /\ opc = [r \in OpRequests |-> "idle"]
        /\ rpc = [r \in RetRequests |-> "idle"] /\ spc = [g \in Triggers |-> "idle"]
    BY DEF Init, DBInit, DepositInit, OperatorInit, ReturnInit, SettlementInit
  <2>2. \A t \in Transfers : \A f, s : ~Tells(t, f, s)
    BY <2>1 DEF Tells, AboutToTell, DepositWrites, OperatorWrites
  <2>3. Passed("none") = {}
    BY DEF Passed
  <2>4. TrailTruthful
    BY <2>2 DEF TrailTruthful
  <2>5. TrailComplete /\ ReturnsAnnounced
    BY <2>1, <2>3 DEF TrailComplete, ReturnsAnnounced
  <2> QED
    BY <2>4, <2>5, InitTypes DEF AuditInv
<1>2. ASSUME AuditInv, [Next]_vars PROVE AuditInv'
  <2>1. TypeOK /\ TypeOK'
    BY <1>2, NextTypes DEF AuditInv
  <2>2. TrailStep
    BY <1>2, <2>1, NextTrail
  <2> QED
    BY <1>2, <2>1, <2>2, TrailStepKeeps
<1> QED
  BY <1>1, <1>2

\* The invariant holds throughout.
LEMMA AuditInvariant == Spec => []AuditInv
  BY AuditInduction, PTL DEF Spec

\* Whatever requests interleave, lose a race or are cut off, the events of a transfer
\* lie on one path of the state machine that leads to its state.
THEOREM TrailIsTruthful == Spec => []AuditTruthful
<1>1. AuditInv => AuditTruthful
  <2> SUFFICES ASSUME AuditInv PROVE AuditTruthful
    OBVIOUS
  <2>1. \A e \in events : /\ e[1] \in Transfers /\ e[2] \in TransferStates
                          /\ e[3] \in TransferStates /\ e = <<e[1], e[2], e[3]>>
    BY DEF AuditInv, TypeOK, TablesTypeOK
  <2>2. \A e \in events : Tells(e[1], e[2], e[3])
    BY <2>1 DEF Tells
  <2> QED
    BY <2>1, <2>2 DEF AuditInv, TrailTruthful, AuditTruthful
<1> QED
  BY <1>1, AuditInvariant, PTL

\* When no request is cut off, every state a transfer has been through has its event,
\* or a request about to write it.
THEOREM TrailIsComplete == Spec => [](~Faults => AuditComplete)
<1>1. AuditInv => (~Faults => AuditComplete)
  <2> SUFFICES ASSUME AuditInv, ~Faults, NEW t \in Transfers, NEW s \in Passed(state[t])
      PROVE  EventPending(t, s) \/ \E e \in events : e[1] = t /\ e[3] = s
    BY DEF AuditComplete
  <2>1. PICK from \in TransferStates : Tells(t, from, s)
    BY DEF AuditInv, TrailComplete
  <2>2. <<t, from, s>> \in events => \E e \in events : e[1] = t /\ e[3] = s
    OBVIOUS
  <2> QED
    BY <2>1, <2>2 DEF Tells, EventPending
<1> QED
  BY <1>1, AuditInvariant, PTL

\* Only a return that has moved its transfer tells the investor.
LEMMA NoticeStep ==
  ASSUME TypeOK, [Next]_vars
  PROVE  \A t \in notifications' \ notifications :
            \E r \in RetRequests :
                rpc[r] = "record" /\ rT[r] = t /\ rSeen[r] \in {"FundsPosted", "Completed"}
<1>1. CASE \E r \in RetRequests : ReturnFrame /\ (ProcessReturn(r) \/ ReturnRuns(r) \/ ReturnAborts(r))
  <2>1. PICK r \in RetRequests :
          ReturnFrame /\ (ProcessReturn(r) \/ ReturnRuns(r) \/ ReturnAborts(r))
    BY <1>1
  <2>2. CASE RecordReturn(r)
    <3>1. rpc[r] = "record" /\ rSeen[r] \in {"FundsPosted", "Completed"}
      BY <2>2 DEF RecordReturn, TypeOK, ReturnTypeOK
    <3>2. notifications' \subseteq notifications \union {rT[r]}
      BY <2>2 DEF RecordReturn, CreateNotification
    <3> QED
      BY <3>1, <3>2
  <2>3. CASE ProcessReturn(r) \/ PostReversal(r) \/ PostFee(r) \/ ToReturned(r)
    BY <2>3 DEF ProcessReturn, PostReversal, PostFee, PostReturnEntry, ToReturned
  <2>4. CASE CheckBalance(r) \/ FlagCollections(r) \/ ReturnAborts(r)
    BY <2>4 DEF CheckBalance, FlagCollections, ReturnAborts
  <2> QED
    BY <2>1, <2>2, <2>3, <2>4 DEF ReturnRuns
<1>2. CASE UNCHANGED notifications
  BY <1>2
<1> QED
  BY <1>1, <1>2 DEF Next, vars, DepositStep, DepositFrame, OperatorStep, OperatorFrame,
                    ReturnStep, TriggerStep, TriggerFrame, HealthFrame

\* A return that happened is final, so what was told stays true.
LEMMA NoticesKept ==
  ASSUME AuditInv, NoticesTruthful, [Next]_vars
  PROVE  NoticesTruthful'
<1> SUFFICES ASSUME NEW t \in notifications' PROVE state'[t] = "Returned"
  BY DEF NoticesTruthful
<1>0. TypeOK /\ TypeOK' /\ TrailStep
  BY NextTypes, NextTrail DEF AuditInv
<1>1. t \in Transfers /\ state \in [Transfers -> TransferStates \union {"none"}]
  BY <1>0 DEF TypeOK, TablesTypeOK
<1>2. state[t] = "Returned"
  <2>1. CASE t \in notifications
    BY <2>1 DEF NoticesTruthful
  <2>2. CASE t \notin notifications
    <3>1. PICK r \in RetRequests :
            rpc[r] = "record" /\ rT[r] = t /\ rSeen[r] \in {"FundsPosted", "Completed"}
      BY <2>2, NoticeStep, <1>0
    <3>2. Tells(t, rSeen[r], "Returned")
      BY <3>1 DEF Tells, AboutToTell
    <3>3. rSeen[r] \in TransferStates /\ "Returned" \in TransferStates
      BY <3>1 DEF TransferStates
    <3>4. "Returned" \in MayHavePassed(state[t])
      BY <1>1, <3>2, <3>3 DEF AuditInv, TrailTruthful
    <3> QED
      BY <3>4 DEF MayHavePassed, Passed
  <2> QED
    BY <2>1, <2>2
<1>3. \A to : ~isValidTransition("Returned", to)
  BY DEF isValidTransition, validTransitions
<1>4. CASE TrailKept
  BY <1>2, <1>4 DEF TrailKept
<1>5. CASE TrailGrows
  <2>1. PICK u \in Transfers, from, to \in TransferStates :
          isValidTransition(from, to) /\ UpdateState(u, from, to)
    BY <1>5 DEF TrailGrows
  <2>2. u # t
    BY <1>2, <1>3, <2>1 DEF UpdateState
  <2> QED
    BY <1>1, <1>2, <2>1, <2>2 DEF UpdateState
<1>6. CASE TrailStarts
  BY <1>1, <1>2, <1>6 DEF TrailStarts, Create
<1> QED
  BY <1>0, <1>4, <1>5, <1>6 DEF TrailStep

\* Nobody is told of a return that did not happen, whichever requests are cut off; and
\* when none is, an investor whose deposit was returned has been told, or the request
\* that returned it is about to, however many returns race.
THEOREM ReturnsAreNotified == Spec => [](NoticesTruthful /\ (~Faults => ReturnNotified))
<1>1. Init => AuditInv /\ NoticesTruthful
  BY AuditInduction DEF Init, DBInit, NoticesTruthful
<1>2. AuditInv /\ NoticesTruthful /\ [Next]_vars => (AuditInv /\ NoticesTruthful)'
  BY AuditInduction, NoticesKept
<1>3. AuditInv /\ NoticesTruthful => NoticesTruthful /\ (~Faults => ReturnNotified)
  BY DEF AuditInv, ReturnsAnnounced, Announced, NoticesTruthful, ReturnNotified
<1> QED
  BY <1>1, <1>2, <1>3, PTL DEF Spec
=============================================================================
