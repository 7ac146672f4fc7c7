------------------------ MODULE MarketLifecycle_proofs ------------------------
(***************************************************************************)
(* Theorems about MarketLifecycle for any number of markets, officers and  *)
(* outcomes: type correctness, the independent approval of every market    *)
(* that left review, and the two officers behind every resolution; and     *)
(* about MarketScheduler for any number of workers and occurrences: that   *)
(* no occurrence has two workers, and that the lifecycle beside a schedule *)
(* is the lifecycle MarketLifecycle describes.                             *)
(***************************************************************************)
EXTENDS MarketScheduler, TLAPS

\* The two copies of the transition table agree for all pairs of statuses.
THEOREM TransitionTablesAgree == TablesAgree
  BY DEF TablesAgree, canTransitionMarket, transitions, AllowedMoves, Status

\* transition_market leads only to statuses of the enumeration.
LEMMA MovesAreStatuses ==
  ASSUME NEW from, NEW target, <<from, target>> \in AllowedMoves
  PROVE  target \in Status
  BY DEF AllowedMoves, Status

\* What transition_market writes is well typed whenever its target is one of
\* the enumeration and its actor is an officer, or it approves nothing.
LEMMA RecordTransitionType ==
  ASSUME TypeOK, NEW m \in Markets, NEW target \in Status, NEW actor,
         target = "approved" => actor \in Officers,
         recordTransition(m, target, actor)
  PROVE  /\ status' \in [Markets -> Status \cup {"absent"}]
         /\ approvedBy' \in [Markets -> Officers \cup {None}]
         /\ tradingSuspended' \in [Markets -> BOOLEAN]
<1>1. status' \in [Markets -> Status \cup {"absent"}]
  BY DEF TypeOK, recordTransition
<1>2. approvedBy' \in [Markets -> Officers \cup {None}]
  BY DEF TypeOK, recordTransition
<1>3. tradingSuspended' \in [Markets -> BOOLEAN]
  <2>1. CASE target = "suspended" BY <2>1 DEF TypeOK, recordTransition
  <2>2. CASE target = "open" BY <2>2 DEF TypeOK, recordTransition
  <2>3. CASE target \notin {"suspended", "open"}
    BY <2>3 DEF TypeOK, recordTransition
  <2> QED BY <2>1, <2>2, <2>3
<1> QED BY <1>1, <1>2, <1>3

-----------------------------------------------------------------------------
(* Type correctness, one lemma for the step and one step per action.       *)

LEMMA TypeStep == TypeOK /\ [Next]_vars => TypeOK'
<1> SUFFICES ASSUME TypeOK, [Next]_vars PROVE TypeOK'
  OBVIOUS
<1>1. ASSUME NEW m \in Markets, NEW o \in Officers, createMarket(o, m)
      PROVE  TypeOK'
  BY <1>1 DEF TypeOK, createMarket, Status
<1>2. ASSUME NEW m \in Markets, NEW o \in Officers, NEW target \in RouteTargets,
             transitionMarket(o, m, target)
      PROVE  TypeOK'
  <2>1. target \in Status BY DEF RouteTargets, Status
  <2>2. recordTransition(m, target, o) BY <1>2 DEF transitionMarket
  <2> QED BY <1>2, <2>1, <2>2, RecordTransitionType DEF TypeOK, transitionMarket
<1>3. ASSUME NEW m \in Markets, NEW o \in Officers, closeMarket(o, m)
      PROVE  TypeOK'
  <2>1. recordTransition(m, "resolution_pending", o) BY <1>3 DEF closeMarket
  <2>2. "resolution_pending" \in Status BY DEF Status
  <2> QED BY <1>3, <2>1, <2>2, RecordTransitionType DEF TypeOK, closeMarket
<1>4. ASSUME NEW m \in Markets, NEW o \in Officers, NEW x \in Outcomes,
             proposeResolution(o, m, x)
      PROVE  TypeOK'
  <2>1. recordTransition(m, "proposed", o) BY <1>4 DEF proposeResolution
  <2>2. "proposed" \in Status BY DEF Status
  <2>3. proposal' \in [Markets -> Proposals]
    BY <1>4 DEF TypeOK, proposeResolution, Proposals
  <2> QED BY <1>4, <2>1, <2>2, <2>3, RecordTransitionType
          DEF TypeOK, proposeResolution
<1>5. ASSUME NEW m \in Markets, NEW o \in Officers, approveResolution(o, m)
      PROVE  TypeOK'
  <2> DEFINE approved == [proposal[m] EXCEPT
                            !.status = "approved_pending_dispute", !.officer = o]
  <2>1. proposal[m] \in Proposals BY DEF TypeOK
  <2>2. approved \in Proposals BY <2>1 DEF Proposals
  <2>3. proposal' = [proposal EXCEPT ![m] = approved]
    BY <1>5 DEF approveResolution
  <2>4. proposal' \in [Markets -> Proposals] BY <2>2, <2>3 DEF TypeOK
  <2>5. disputeOver' \in [Markets -> BOOLEAN]
    BY <1>5 DEF TypeOK, approveResolution
  <2> QED BY <1>5, <2>4, <2>5 DEF TypeOK, approveResolution
<1>6. ASSUME NEW m \in Markets, openScheduledMarket(m)
      PROVE  TypeOK'
  <2>1. recordTransition(m, "open", approvedBy[m])
    BY <1>6 DEF openScheduledMarket
  <2>2. "open" \in Status BY DEF Status
  <2> QED BY <1>6, <2>1, <2>2, RecordTransitionType
          DEF TypeOK, openScheduledMarket
<1>7. ASSUME NEW m \in Markets, closeExpiredMarket(m)
      PROVE  TypeOK'
  <2>1. recordTransition(m, "resolution_pending", approvedBy[m])
    BY <1>7 DEF closeExpiredMarket
  <2>2. "resolution_pending" \in Status BY DEF Status
  <2> QED BY <1>7, <2>1, <2>2, RecordTransitionType
          DEF TypeOK, closeExpiredMarket
<1>8. ASSUME NEW m \in Markets, finaliseApprovedResolution(m)
      PROVE  TypeOK'
  <2>1. recordTransition(m, "resolved", proposal[m].officer)
    BY <1>8 DEF finaliseApprovedResolution
  <2>2. "resolved" \in Status BY DEF Status
  <2>3. proposal' \in [Markets -> Proposals]
    BY <1>8, ZenonT(60) DEF TypeOK, finaliseApprovedResolution, Proposals
  <2> QED BY <1>8, <2>1, <2>2, <2>3, RecordTransitionType
          DEF TypeOK, finaliseApprovedResolution
<1>9. ASSUME NEW m \in Markets, settleMarket(m)
      PROVE  TypeOK'
  <2>1. recordTransition(m, "settled", proposal[m].officer)
    BY <1>9 DEF settleMarket
  <2>2. "settled" \in Status BY DEF Status
  <2> QED BY <1>9, <2>1, <2>2, RecordTransitionType DEF TypeOK, settleMarket
<1>10. ASSUME NEW m \in Markets,
              passOpening(m) \/ passClosing(m) \/ passDisputeWindow(m)
       PROVE  TypeOK'
  BY <1>10 DEF TypeOK, passOpening, passClosing, passDisputeWindow
<1>11. CASE UNCHANGED vars
  BY <1>11 DEF TypeOK, vars
<1> QED
  BY <1>1, <1>2, <1>3, <1>4, <1>5, <1>6, <1>7, <1>8, <1>9, <1>10, <1>11
  DEF Next

\* Every variable keeps its type, however many markets and officers there are.
THEOREM TypeCorrect == Spec => []TypeOK
<1>1. Init => TypeOK BY DEF Init, TypeOK, NoProposal, Proposals
<1>2. QED BY <1>1, TypeStep, PTL DEF Spec

-----------------------------------------------------------------------------
(* Independent approval.  With TypeOK it is inductive: only the move from  *)
(* under_review to approved leaves BeforeApproval, and transition_market   *)
(* refuses it to the creator.                                              *)

\* A status change that leaves review only by an independent approval.
LEMMA ApprovalKept ==
  ASSUME TypeOK, IndependentApproval, NEW m \in Markets, NEW target, NEW actor,
         recordTransition(m, target, actor),
         UNCHANGED createdBy,
         target = "approved" => actor \in Officers \ {createdBy[m]},
         \/ target \in BeforeApproval \cup {"approved"}
         \/ status[m] \notin BeforeApproval
  PROVE  IndependentApproval'
<1> SUFFICES ASSUME NEW n \in Markets, status'[n] \notin BeforeApproval
             PROVE  approvedBy'[n] \in Officers \ {createdBy'[n]}
  BY DEF IndependentApproval
<1>1. CASE n # m
  BY <1>1 DEF recordTransition, TypeOK, IndependentApproval
<1>2. CASE n = m /\ target = "approved"
  BY <1>2 DEF recordTransition, TypeOK
<1>3. CASE n = m /\ target # "approved"
  BY <1>3 DEF recordTransition, TypeOK, IndependentApproval
<1> QED BY <1>1, <1>2, <1>3

LEMMA ApprovalStep ==
  TypeOK /\ IndependentApproval /\ [Next]_vars => IndependentApproval'
<1> SUFFICES ASSUME TypeOK, IndependentApproval, [Next]_vars
             PROVE  IndependentApproval'
  OBVIOUS
<1>1. ASSUME NEW m \in Markets, NEW o \in Officers, createMarket(o, m)
      PROVE  IndependentApproval'
  BY <1>1 DEF createMarket, IndependentApproval, TypeOK, BeforeApproval
<1>2. ASSUME NEW m \in Markets, NEW o \in Officers, NEW target \in RouteTargets,
             transitionMarket(o, m, target)
      PROVE  IndependentApproval'
  <2>1. /\ recordTransition(m, target, o)
        /\ UNCHANGED createdBy
        /\ <<status[m], target>> \in AllowedMoves
        /\ target = "approved" => createdBy[m] # o
    BY <1>2 DEF transitionMarket, mayTransition
  <2>2. \/ target \in BeforeApproval \cup {"approved"}
        \/ status[m] \notin BeforeApproval
    BY <2>1 DEF AllowedMoves, RouteTargets, BeforeApproval
  <2> QED BY <2>1, <2>2, ApprovalKept
<1>3. ASSUME NEW m \in Markets, NEW o \in Officers, closeMarket(o, m)
      PROVE  IndependentApproval'
  <2>1. /\ recordTransition(m, "resolution_pending", o)
        /\ UNCHANGED createdBy
        /\ <<status[m], "closing">> \in AllowedMoves
    BY <1>3 DEF closeMarket, mayTransition
  <2>2. status[m] \notin BeforeApproval
    BY <2>1 DEF AllowedMoves, BeforeApproval
  <2> QED BY <2>1, <2>2, ApprovalKept
<1>4. ASSUME NEW m \in Markets, NEW o \in Officers, NEW x \in Outcomes,
             proposeResolution(o, m, x)
      PROVE  IndependentApproval'
  <2>1. /\ recordTransition(m, "proposed", o)
        /\ UNCHANGED createdBy
        /\ status[m] \notin BeforeApproval
    BY <1>4 DEF proposeResolution, BeforeApproval
  <2> QED BY <2>1, ApprovalKept
<1>5. ASSUME NEW m \in Markets, openScheduledMarket(m)
      PROVE  IndependentApproval'
  <2>1. /\ recordTransition(m, "open", approvedBy[m])
        /\ UNCHANGED createdBy
        /\ status[m] \notin BeforeApproval
    BY <1>5 DEF openScheduledMarket, BeforeApproval
  <2> QED BY <2>1, ApprovalKept
<1>6. ASSUME NEW m \in Markets, closeExpiredMarket(m)
      PROVE  IndependentApproval'
  <2>1. /\ recordTransition(m, "resolution_pending", approvedBy[m])
        /\ UNCHANGED createdBy
        /\ status[m] \notin BeforeApproval
    BY <1>6 DEF closeExpiredMarket, BeforeApproval
  <2> QED BY <2>1, ApprovalKept
<1>7. ASSUME NEW m \in Markets, finaliseApprovedResolution(m)
      PROVE  IndependentApproval'
  <2>1. /\ recordTransition(m, "resolved", proposal[m].officer)
        /\ UNCHANGED createdBy
        /\ status[m] \notin BeforeApproval
    BY <1>7 DEF finaliseApprovedResolution, BeforeApproval
  <2> QED BY <2>1, ApprovalKept
<1>8. ASSUME NEW m \in Markets, settleMarket(m)
      PROVE  IndependentApproval'
  <2>1. /\ recordTransition(m, "settled", proposal[m].officer)
        /\ UNCHANGED createdBy
        /\ status[m] \notin BeforeApproval
    BY <1>8 DEF settleMarket, BeforeApproval
  <2> QED BY <2>1, ApprovalKept
<1>9. CASE UNCHANGED <<status, approvedBy, createdBy>>
  BY <1>9 DEF IndependentApproval
<1> QED
  BY <1>1, <1>2, <1>3, <1>4, <1>5, <1>6, <1>7, <1>8, <1>9
  DEF Next, vars, approveResolution, passOpening, passClosing, passDisputeWindow

\* A market that left review was approved by an officer who did not create it.
THEOREM ApprovalIsIndependent == Spec => []IndependentApproval
<1>1. Init => IndependentApproval
  BY DEF Init, IndependentApproval, BeforeApproval
<1>2. QED BY <1>1, ApprovalStep, TypeCorrect, PTL DEF Spec

-----------------------------------------------------------------------------
(* Resolution by two officers.  ResolvedByTwoOfficers speaks of markets    *)
(* that are decided; the strengthening says what a proposal has gone       *)
(* through already while its market is still proposed.                     *)

ProposalInv(m) ==
  /\ proposal[m].status # "none" =>
       /\ proposal[m].outcome \in Outcomes
       /\ proposal[m].proposedBy \in Officers
  /\ proposal[m].status \in {"approved_pending_dispute", "approved"} =>
       proposal[m].officer \in Officers \ {proposal[m].proposedBy}
  /\ proposal[m].status = "approved" => disputeOver[m]
  /\ status[m] \in Decided => proposal[m].status = "approved"

ResolutionInv == \A m \in Markets : ProposalInv(m)

\* A status change to an undecided status leaves the proposals sound.
LEMMA UndecidedMove ==
  ASSUME TypeOK, ResolutionInv, NEW m \in Markets, NEW target, NEW actor,
         recordTransition(m, target, actor), target \notin Decided,
         UNCHANGED <<proposal, disputeOver>>
  PROVE  ResolutionInv'
<1> SUFFICES ASSUME NEW n \in Markets PROVE ProposalInv(n)'
  BY DEF ResolutionInv
<1>1. status'[n] \in Decided => status[n] \in Decided
  BY DEF recordTransition, TypeOK
<1> QED BY <1>1 DEF ResolutionInv, ProposalInv

LEMMA ResolutionStep == TypeOK /\ ResolutionInv /\ [Next]_vars => ResolutionInv'
<1> SUFFICES ASSUME TypeOK, ResolutionInv, [Next]_vars PROVE ResolutionInv'
  OBVIOUS
<1>1. ASSUME NEW m \in Markets, NEW o \in Officers, createMarket(o, m)
      PROVE  ResolutionInv'
  BY <1>1 DEF createMarket, ResolutionInv, ProposalInv, TypeOK, Decided
<1>2. ASSUME NEW m \in Markets, NEW o \in Officers, NEW target \in RouteTargets,
             transitionMarket(o, m, target)
      PROVE  ResolutionInv'
  <2>1. target \notin Decided BY DEF RouteTargets, Decided
  <2> QED BY <1>2, <2>1, UndecidedMove DEF transitionMarket
<1>3. ASSUME NEW m \in Markets, NEW o \in Officers, closeMarket(o, m)
      PROVE  ResolutionInv'
  BY <1>3, UndecidedMove DEF closeMarket, Decided
<1>4. ASSUME NEW m \in Markets, NEW o \in Officers, NEW x \in Outcomes,
             proposeResolution(o, m, x)
      PROVE  ResolutionInv'
  <2> SUFFICES ASSUME NEW n \in Markets PROVE ProposalInv(n)'
    BY DEF ResolutionInv
  <2>1. CASE n = m
    <3>1. proposal'[m] = [status |-> "proposed", outcome |-> x,
                          proposedBy |-> o, officer |-> None]
      BY <1>4 DEF proposeResolution, TypeOK
    <3>2. status'[m] = "proposed"
      BY <1>4 DEF proposeResolution, recordTransition, TypeOK
    <3> QED BY <2>1, <3>1, <3>2 DEF ProposalInv, Decided
  <2>2. CASE n # m
    BY <1>4, <2>2
    DEF proposeResolution, recordTransition, TypeOK, ResolutionInv, ProposalInv
  <2> QED BY <2>1, <2>2
<1>5. ASSUME NEW m \in Markets, NEW o \in Officers, approveResolution(o, m)
      PROVE  ResolutionInv'
  <2> SUFFICES ASSUME NEW n \in Markets PROVE ProposalInv(n)'
    BY DEF ResolutionInv
  <2>1. CASE n = m
    <3>1. /\ proposal'[m].status = "approved_pending_dispute"
          /\ proposal'[m].outcome = proposal[m].outcome
          /\ proposal'[m].proposedBy = proposal[m].proposedBy
          /\ proposal'[m].officer = o
      BY <1>5 DEF approveResolution, TypeOK, Proposals
    <3>2. status[m] \notin Decided
      BY <1>5 DEF approveResolution, ResolutionInv, ProposalInv
    <3> QED BY <1>5, <2>1, <3>1, <3>2
            DEF approveResolution, ResolutionInv, ProposalInv
  <2>2. CASE n # m
    BY <1>5, <2>2 DEF approveResolution, TypeOK, ResolutionInv, ProposalInv
  <2> QED BY <2>1, <2>2
<1>6. ASSUME NEW m \in Markets,
             openScheduledMarket(m) \/ closeExpiredMarket(m)
      PROVE  ResolutionInv'
  BY <1>6, UndecidedMove DEF openScheduledMarket, closeExpiredMarket, Decided
<1>7. ASSUME NEW m \in Markets, finaliseApprovedResolution(m)
      PROVE  ResolutionInv'
  <2> SUFFICES ASSUME NEW n \in Markets PROVE ProposalInv(n)'
    BY DEF ResolutionInv
  <2>1. CASE n = m
    <3>1. /\ proposal'[m].status = "approved"
          /\ proposal'[m].outcome = proposal[m].outcome
          /\ proposal'[m].proposedBy = proposal[m].proposedBy
          /\ proposal'[m].officer = proposal[m].officer
      BY <1>7 DEF finaliseApprovedResolution, TypeOK, Proposals
    <3> QED BY <1>7, <2>1, <3>1
            DEF finaliseApprovedResolution, ResolutionInv, ProposalInv
  <2>2. CASE n # m
    BY <1>7, <2>2 DEF finaliseApprovedResolution, recordTransition, TypeOK,
                      ResolutionInv, ProposalInv
  <2> QED BY <2>1, <2>2
<1>8. ASSUME NEW m \in Markets, settleMarket(m)
      PROVE  ResolutionInv'
  BY <1>8 DEF settleMarket, recordTransition, TypeOK, ResolutionInv,
              ProposalInv, Decided
<1>9. ASSUME NEW m \in Markets, passDisputeWindow(m)
      PROVE  ResolutionInv'
  BY <1>9 DEF passDisputeWindow, TypeOK, ResolutionInv, ProposalInv
<1>10. CASE UNCHANGED <<status, proposal, disputeOver>>
  BY <1>10 DEF ResolutionInv, ProposalInv
<1> QED
  BY <1>1, <1>2, <1>3, <1>4, <1>5, <1>6, <1>7, <1>8, <1>9, <1>10
  DEF Next, vars, passOpening, passClosing

\* The strengthening is an invariant.
LEMMA ResolutionInvariant == Spec => []ResolutionInv
<1>1. Init => ResolutionInv
  BY DEF Init, ResolutionInv, ProposalInv, NoProposal, Decided
<1>2. QED BY <1>1, ResolutionStep, TypeCorrect, PTL DEF Spec

\* A decided market has the word of two officers and a dispute window behind
\* it: proposeResolution, approveResolution and finalise, in this order.
THEOREM ResolutionByTwoOfficers == Spec => []ResolvedByTwoOfficers
<1>1. ResolutionInv => ResolvedByTwoOfficers
  BY DEF ResolutionInv, ProposalInv, ResolvedByTwoOfficers
<1>2. QED BY <1>1, ResolutionInvariant, PTL

-----------------------------------------------------------------------------
\* Trading that ended never resumes, and a decided outcome never changes: a
\* property of each single step of well-typed states.
LEMMA NoReturnStep ==
  TypeOK /\ [Next]_vars =>
    \A m \in Markets :
      /\ status[m] \in AfterTrading => status'[m] \in AfterTrading
      /\ status[m] \in Decided =>
           /\ status'[m] \in Decided
           /\ proposal'[m].outcome = proposal[m].outcome
<1> SUFFICES ASSUME TypeOK, [Next]_vars, NEW n \in Markets
             PROVE  /\ status[n] \in AfterTrading => status'[n] \in AfterTrading
                    /\ status[n] \in Decided =>
                         /\ status'[n] \in Decided
                         /\ proposal'[n].outcome = proposal[n].outcome
  OBVIOUS
<1> DEFINE Goal == /\ status[n] \in AfterTrading => status'[n] \in AfterTrading
                   /\ status[n] \in Decided =>
                        /\ status'[n] \in Decided
                        /\ proposal'[n].outcome = proposal[n].outcome
<1>1. ASSUME NEW m \in Markets, NEW o \in Officers, createMarket(o, m) PROVE Goal
  BY <1>1 DEF createMarket, TypeOK, AfterTrading, Decided
<1>2. ASSUME NEW m \in Markets, NEW o \in Officers, NEW target \in RouteTargets,
             transitionMarket(o, m, target)
      PROVE  Goal
  <2>1. /\ status[m] \in AfterTrading => target \in AfterTrading
        /\ status[m] \notin Decided
    BY <1>2 DEF transitionMarket, mayTransition, AllowedMoves, RouteTargets,
                AfterTrading, Decided
  <2> QED BY <1>2, <2>1 DEF transitionMarket, recordTransition, TypeOK
<1>3. ASSUME NEW m \in Markets, NEW o \in Officers, closeMarket(o, m) PROVE Goal
  <2>1. status[m] \notin AfterTrading \cup Decided
    BY <1>3 DEF closeMarket, mayTransition, AllowedMoves, AfterTrading, Decided
  <2> QED BY <1>3, <2>1 DEF closeMarket, recordTransition, TypeOK
<1>4. ASSUME NEW m \in Markets, NEW o \in Officers, NEW x \in Outcomes,
             proposeResolution(o, m, x)
      PROVE  Goal
  BY <1>4 DEF proposeResolution, recordTransition, TypeOK, AfterTrading, Decided
<1>5. ASSUME NEW m \in Markets, NEW o \in Officers, approveResolution(o, m)
      PROVE  Goal
  BY <1>5 DEF approveResolution, TypeOK, Proposals
<1>6. ASSUME NEW m \in Markets, openScheduledMarket(m) \/ closeExpiredMarket(m)
      PROVE  Goal
  BY <1>6 DEF openScheduledMarket, closeExpiredMarket, recordTransition, TypeOK,
              AfterTrading, Decided
<1>7. ASSUME NEW m \in Markets, finaliseApprovedResolution(m) PROVE Goal
  BY <1>7 DEF finaliseApprovedResolution, recordTransition, TypeOK, Proposals,
              AfterTrading, Decided
<1>8. ASSUME NEW m \in Markets, settleMarket(m) PROVE Goal
  BY <1>8 DEF settleMarket, recordTransition, TypeOK, AfterTrading, Decided
<1>9. CASE UNCHANGED <<status, proposal>>
  BY <1>9
<1> QED
  BY <1>1, <1>2, <1>3, <1>4, <1>5, <1>6, <1>7, <1>8, <1>9
  DEF Next, vars, passOpening, passClosing, passDisputeWindow

\* No step reopens a market whose trading ended or rewrites a decision.
THEOREM TradingNeverResumes == Spec => NoReturnToTrading
  BY TypeCorrect, NoReturnStep, PTL DEF Spec, NoReturnToTrading
-----------------------------------------------------------------------------
\* The schedule beside the lifecycle: whatever is claimed lies behind its next
\* occurrence, which only moves forward.
ClaimedIsBehind ==
  /\ schedule \in [next : Nat \ {0}, lockedBy : Workers \cup {None}, stale : BOOLEAN]
  /\ workers \in [Workers -> [phase : {"idle", "claimed", "failing"}, run : Nat]]
  /\ \A w \in Workers :
       workers[w] # Idle => workers[w].run # 0 /\ workers[w].run < schedule.next

SchedulerInv == ClaimedIsBehind /\ OneWorkerPerOccurrence
-----------------------------------------------------------------------------
LEMMA SchedulerInvInit == SchedulerInit => SchedulerInv
  BY SchedulerAssumption
  DEF SchedulerInit, SchedulerInv, ClaimedIsBehind, OneWorkerPerOccurrence, Idle

\* A claim takes the next occurrence, which nobody has, and moves it on; all
\* other steps keep the occurrence of a worker or free the worker.
LEMMA SchedulerStep == SchedulerInv /\ [GovernanceNext]_allVars => SchedulerInv'
<1> SUFFICES ASSUME SchedulerInv, [GovernanceNext]_allVars PROVE SchedulerInv'
  OBVIOUS
<1> USE DEF SchedulerInv, ClaimedIsBehind, OneWorkerPerOccurrence, Idle
<1>1. CASE UNCHANGED schedulerVars \/ passRunTime
  BY <1>1 DEF schedulerVars, passRunTime
<1>2. CASE passLockTime BY <1>2 DEF passLockTime
<1>3. ASSUME NEW w \in Workers, claim(w) PROVE SchedulerInv'
  BY <1>3 DEF claim
<1>4. ASSUME NEW w \in Workers, materialiseScheduledMarket(w) PROVE SchedulerInv'
  BY <1>4 DEF materialiseScheduledMarket, acceptsConfiguration
<1>5. ASSUME NEW w \in Workers, markScheduleFailure(w) PROVE SchedulerInv'
  BY <1>5 DEF markScheduleFailure, unlocked
<1>6. ASSUME NEW w \in Workers, crash(w) PROVE SchedulerInv'
  BY <1>6 DEF crash
<1> QED
  BY <1>1, <1>2, <1>3, <1>4, <1>5, <1>6
  DEF GovernanceNext, SchedulerNext, allVars, schedulerVars

\* No two workers make the market of one occurrence: the schedule moves on in
\* the transaction of the claim, so a lock taken over, or given up by a worker
\* that no longer holds it, gives access to later occurrences only.
THEOREM OccurrenceHasOneWorker == GovernanceSpec => []OneWorkerPerOccurrence
<1>1. GovernanceInit => SchedulerInv BY SchedulerInvInit DEF GovernanceInit
<1>2. SchedulerInv => OneWorkerPerOccurrence BY DEF SchedulerInv
<1> QED BY <1>1, <1>2, SchedulerStep, PTL DEF GovernanceSpec
-----------------------------------------------------------------------------
\* A step of the scheduler leaves every market as it is: the trigger refuses
\* the rules of a market that is inserted as scheduled.
LEMMA SchedulerLeavesMarkets == SchedulerNext => UNCHANGED vars
  BY DEF SchedulerNext, passRunTime, passLockTime, claim,
         materialiseScheduledMarket, acceptsConfiguration, markScheduleFailure, crash

\* Beside a schedule, markets follow the lifecycle of MarketLifecycle.
THEOREM GovernanceIsLifecycle == GovernanceSpec => Spec
<1>1. GovernanceInit => Init BY DEF GovernanceInit
<1>2. [GovernanceNext]_allVars => [Next]_vars
  BY SchedulerLeavesMarkets DEF GovernanceNext, allVars
<1> QED BY <1>1, <1>2, PTL DEF GovernanceSpec, Spec

\* The schedule is no way around the review: a market that left it has been
\* approved by an officer other than its creator.
THEOREM ScheduleKeepsReview == GovernanceSpec => []IndependentApproval
  BY GovernanceIsLifecycle, ApprovalIsIndependent, PTL

\* Nor around the two officers of a resolution.
THEOREM ScheduleKeepsTwoOfficers == GovernanceSpec => []ResolvedByTwoOfficers
  BY GovernanceIsLifecycle, ResolutionByTwoOfficers, PTL

\* Nor a way back to trading.
THEOREM ScheduleKeepsEnd == GovernanceSpec => NoReturnToTrading
  BY GovernanceIsLifecycle, TradingNeverResumes, PTL
=============================================================================
