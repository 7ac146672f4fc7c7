--------------------------- MODULE MarketLifecycle ---------------------------
(***************************************************************************)
(* The governance of markets: creation, review, publication, the trading   *)
(* window, resolution by two officers, the dispute window and settlement,  *)
(* as driven by the operations API (apps/api: createMarket,                *)
(* transitionMarket, proposeResolution, approveResolution) and by the      *)
(* polling worker (apps/worker: openScheduledMarkets, closeExpiredMarkets, *)
(* finaliseApprovedResolutions, executeSettlement).                        *)
(*                                                                         *)
(* Every step is one database transaction.  Each of them takes the market  *)
(* row FOR UPDATE before it reads the status it acts on, so transactions   *)
(* on one market are serial; several statuses one transaction passes       *)
(* through (closing, closed, resolution_pending) are one step.             *)
(***************************************************************************)
EXTENDS MarketStatus

CONSTANTS
  Markets,    \* market_ref values
  Officers,   \* operations users; each may hold every permission
  Outcomes,   \* the outcomes of a market
  None        \* SQL null

ASSUME NoneAssumption == None \notin Officers /\ None \notin Outcomes

VARIABLES
  status,            \* markets.status; "absent" before createMarket
  tradingSuspended,  \* markets.trading_suspended
  createdBy,         \* markets.created_by
  approvedBy,        \* markets.approved_by
  window,            \* where the clock stands in [opens_at, closes_at]
  proposal,          \* the market's row of resolution_proposals
  disputeOver        \* dispute_closes_at <= clock_timestamp()

vars == <<status, tradingSuspended, createdBy, approvedBy, window, proposal,
          disputeOver>>

NoProposal ==
  [status |-> "none", outcome |-> None, proposedBy |-> None, officer |-> None]

\* resolution_proposals joined with its row of resolution_approvals (officer).
Proposals ==
  [status : {"none", "proposed", "approved_pending_dispute", "approved"},
   outcome : Outcomes \cup {None},
   proposedBy : Officers \cup {None},
   officer : Officers \cup {None}]

TypeOK ==
  /\ status \in [Markets -> Status \cup {"absent"}]
  /\ tradingSuspended \in [Markets -> BOOLEAN]
  /\ createdBy \in [Markets -> Officers \cup {None}]
  /\ approvedBy \in [Markets -> Officers \cup {None}]
  /\ window \in [Markets -> {"before", "trading", "after"}]
  /\ proposal \in [Markets -> Proposals]
  /\ disputeOver \in [Markets -> BOOLEAN]

Init ==
  /\ status = [m \in Markets |-> "absent"]
  /\ tradingSuspended = [m \in Markets |-> FALSE]
  /\ createdBy = [m \in Markets |-> None]
  /\ approvedBy = [m \in Markets |-> None]
  /\ window = [m \in Markets |-> "before"]
  /\ proposal = [m \in Markets |-> NoProposal]
  /\ disputeOver = [m \in Markets |-> FALSE]
-----------------------------------------------------------------------------
(***************************************************************************)
(* transition_market.  mayTransition is what makes it raise; the update it *)
(* makes is recordTransition, whose target is the last status of the       *)
(* transaction.                                                            *)
(***************************************************************************)
\* Mutant: the creator may approve.
mayApproveOwn(m, from, target, actor) ==
  /\ <<from, target>> \in AllowedMoves
  /\ target = "scheduled" => approvedBy[m] # None
  /\ target = "open" => window[m] = "trading"

mayTransition(m, from, target, actor) ==
  /\ <<from, target>> \in AllowedMoves
  /\ target = "approved" => createdBy[m] # actor
  /\ target = "scheduled" => approvedBy[m] # None
  /\ target = "open" => window[m] = "trading"

recordTransition(m, target, actor) ==
  /\ status' = [status EXCEPT ![m] = target]
  /\ approvedBy' = IF target = "approved"
                   THEN [approvedBy EXCEPT ![m] = actor] ELSE approvedBy
  /\ tradingSuspended' =
       [tradingSuspended EXCEPT ![m] =
          CASE target = "suspended" -> TRUE
            [] target = "open" -> FALSE
            [] OTHER -> @]
-----------------------------------------------------------------------------
(* The operations API.                                                     *)

\* createMarket: the row, its rules, sources and outcomes in one transaction.
createMarket(o, m) ==
  /\ status[m] = "absent"
  /\ status' = [status EXCEPT ![m] = "draft"]
  /\ createdBy' = [createdBy EXCEPT ![m] = o]
  /\ UNCHANGED <<tradingSuspended, approvedBy, window, proposal, disputeOver>>

\* The routes submit, approve, publish, suspend, resume and void.  No route
\* leads to cancelled, disputed, appealed or archived.
RouteTargets ==
  {"under_review", "approved", "scheduled", "suspended", "open", "voided"}

transitionMarket(o, m, target) ==
  /\ mayTransition(m, status[m], target, o)
  /\ recordTransition(m, target, o)
  /\ UNCHANGED <<createdBy, window, proposal, disputeOver>>

\* The route close: closing, closed and resolution_pending at once.
closeMarket(o, m) ==
  /\ mayTransition(m, status[m], "closing", o)
  /\ mayTransition(m, "closing", "closed", o)
  /\ mayTransition(m, "closed", "resolution_pending", o)
  /\ recordTransition(m, "resolution_pending", o)
  /\ UNCHANGED <<createdBy, window, proposal, disputeOver>>

\* The table is unique in (market_id, status): a second row 'proposed' fails.
proposeResolution(o, m, x) ==
  /\ status[m] \in {"resolution_pending", "disputed"}
  /\ proposal[m].status # "proposed"
  /\ mayTransition(m, status[m], "proposed", o)
  /\ proposal' = [proposal EXCEPT ![m] =
                    [status |-> "proposed", outcome |-> x, proposedBy |-> o,
                     officer |-> None]]
  /\ recordTransition(m, "proposed", o)
  /\ UNCHANGED <<createdBy, window, disputeOver>>

\* Mutant: the proposer may approve.
approveOwn(o, m) ==
  /\ proposal[m].status = "proposed"
  /\ proposal' = [proposal EXCEPT ![m].status = "approved_pending_dispute",
                                  ![m].officer = o]
  /\ disputeOver' = [disputeOver EXCEPT ![m] = FALSE]
  /\ UNCHANGED <<status, tradingSuspended, createdBy, approvedBy, window>>

\* The status of the market is not looked at.  An approval of a proposal that
\* is already approved returns without a change.
approveResolution(o, m) ==
  /\ proposal[m].status = "proposed"
  /\ proposal[m].proposedBy # o
  /\ proposal' = [proposal EXCEPT ![m].status = "approved_pending_dispute",
                                  ![m].officer = o]
  /\ disputeOver' = [disputeOver EXCEPT ![m] = FALSE]
  /\ UNCHANGED <<status, tradingSuspended, createdBy, approvedBy, window>>
-----------------------------------------------------------------------------
(* The worker.  The actor it passes to transition_market is approved_by or *)
(* the approving officer.                                                  *)

openScheduledMarket(m) ==
  /\ status[m] = "scheduled"
  /\ approvedBy[m] # None
  /\ mayTransition(m, "scheduled", "pre_open", approvedBy[m])
  /\ mayTransition(m, "pre_open", "open", approvedBy[m])
  /\ recordTransition(m, "open", approvedBy[m])
  /\ UNCHANGED <<createdBy, window, proposal, disputeOver>>

closeExpiredMarket(m) ==
  /\ status[m] \in {"open", "suspended"}
  /\ window[m] = "after"
  /\ mayTransition(m, status[m], "closing", approvedBy[m])
  /\ mayTransition(m, "closing", "closed", approvedBy[m])
  /\ mayTransition(m, "closed", "resolution_pending", approvedBy[m])
  /\ recordTransition(m, "resolution_pending", approvedBy[m])
  /\ UNCHANGED <<createdBy, window, proposal, disputeOver>>

\* Mutant: markets closed while suspended, whose flag stays set, are skipped.
finaliseUnsuspended(m) ==
  /\ proposal[m].status = "approved_pending_dispute"
  /\ disputeOver[m]
  /\ status[m] = "proposed"
  /\ ~tradingSuspended[m]
  /\ proposal' = [proposal EXCEPT ![m].status = "approved"]
  /\ recordTransition(m, "resolved", proposal[m].officer)
  /\ UNCHANGED <<createdBy, window, disputeOver>>

finaliseApprovedResolution(m) ==
  /\ proposal[m].status = "approved_pending_dispute"
  /\ disputeOver[m]
  /\ status[m] = "proposed"
  /\ mayTransition(m, "proposed", "resolved", proposal[m].officer)
  /\ proposal' = [proposal EXCEPT ![m].status = "approved"]
  /\ recordTransition(m, "resolved", proposal[m].officer)
  /\ UNCHANGED <<createdBy, window, disputeOver>>

\* The status changes of executeSettlement: settling, then settled.
settleMarket(m) ==
  /\ status[m] = "resolved"
  /\ proposal[m].status = "approved"
  /\ mayTransition(m, "resolved", "settling", proposal[m].officer)
  /\ mayTransition(m, "settling", "settled", proposal[m].officer)
  /\ recordTransition(m, "settled", proposal[m].officer)
  /\ UNCHANGED <<createdBy, window, proposal, disputeOver>>
-----------------------------------------------------------------------------
(* The clock.  createMarket accepts any opening and closing time, past     *)
(* ones too, so the window may move on before the market exists.           *)

passOpening(m) ==
  /\ window[m] = "before"
  /\ window' = [window EXCEPT ![m] = "trading"]
  /\ UNCHANGED <<status, tradingSuspended, createdBy, approvedBy, proposal,
                 disputeOver>>

passClosing(m) ==
  /\ window[m] = "trading"
  /\ window' = [window EXCEPT ![m] = "after"]
  /\ UNCHANGED <<status, tradingSuspended, createdBy, approvedBy, proposal,
                 disputeOver>>

passDisputeWindow(m) ==
  /\ proposal[m].status = "approved_pending_dispute"
  /\ ~disputeOver[m]
  /\ disputeOver' = [disputeOver EXCEPT ![m] = TRUE]
  /\ UNCHANGED <<status, tradingSuspended, createdBy, approvedBy, window,
                 proposal>>
-----------------------------------------------------------------------------
Next ==
  \E m \in Markets :
    \/ \E o \in Officers :
         \/ createMarket(o, m)
         \/ \E target \in RouteTargets : transitionMarket(o, m, target)
         \/ closeMarket(o, m)
         \/ \E x \in Outcomes : proposeResolution(o, m, x)
         \/ approveResolution(o, m)
    \/ openScheduledMarket(m)
    \/ closeExpiredMarket(m)
    \/ finaliseApprovedResolution(m)
    \/ settleMarket(m)
    \/ passOpening(m)
    \/ passClosing(m)
    \/ passDisputeWindow(m)

Spec == Init /\ [][Next]_vars

\* Each polling cycle runs every job, and time passes; officers owe nothing.
Fairness ==
  \A m \in Markets :
    /\ WF_vars(openScheduledMarket(m))
    /\ WF_vars(closeExpiredMarket(m))
    /\ WF_vars(finaliseApprovedResolution(m))
    /\ WF_vars(settleMarket(m))
    /\ WF_vars(passOpening(m) \/ passClosing(m))
    /\ WF_vars(passDisputeWindow(m))

FairSpec == Spec /\ Fairness
-----------------------------------------------------------------------------
BeforeApproval == {"absent", "draft", "under_review"}
Trading == {"open", "suspended"}
Decided == {"resolved", "settling", "settled"}
AfterTrading == {"resolution_pending", "proposed", "voided"} \cup Decided

\* Whatever the order in which officers, the clock and the worker act, a
\* market that left review was approved by an officer other than its creator
\* (transition_market and the check constraint on markets).
IndependentApproval ==
  \A m \in Markets :
    status[m] \notin BeforeApproval =>
      approvedBy[m] \in Officers \ {createdBy[m]}

\* A market counts as resolved or settled only on the word of two officers,
\* the proposer and another one, and after the dispute window of their
\* proposal (proposeResolution, approveResolution, finalise).
ResolvedByTwoOfficers ==
  \A m \in Markets :
    status[m] \in Decided =>
      /\ proposal[m].status = "approved"
      /\ proposal[m].outcome \in Outcomes
      /\ {proposal[m].proposedBy, proposal[m].officer} \subseteq Officers
      /\ proposal[m].proposedBy # proposal[m].officer
      /\ disputeOver[m]

\* A market that was open and whose trading ended, by the worker or by an
\* officer, never takes orders again, and a decided one keeps its outcome.
NoReturnToTrading ==
  [][\A m \in Markets :
       /\ status[m] \in AfterTrading => status'[m] \in AfterTrading
       /\ status[m] \in Decided =>
            /\ status'[m] \in Decided
            /\ proposal'[m].outcome = proposal[m].outcome]_vars

\* The worker's jobs take a market to its end.  An officer who suspends or
\* resumes it around its closing time cannot keep it from being closed
\* (closeExpiredMarkets takes open and suspended); and once a second officer
\* approved the proposal of a proposed market, the market is settled without
\* further help, unless an officer voids it.
WorkerEndsMarket ==
  \A m \in Markets :
    /\ (status[m] \in Trading /\ window[m] = "after")
         ~> (status[m] \in AfterTrading)
    /\ (status[m] = "proposed" /\ proposal[m].status = "approved_pending_dispute")
         ~> (status[m] \in {"settled", "voided"})

\* The two copies of the transition table say the same, so that a client that
\* consults packages/core is never refused by the database, nor misled.
TablesAgree ==
  \A from, to \in Status :
    canTransitionMarket(from, to) <=> <<from, to>> \in AllowedMoves
=============================================================================
