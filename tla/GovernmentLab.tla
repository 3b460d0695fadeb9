----------------------------- MODULE GovernmentLab -----------------------------
(***************************************************************************)
(* government/ and the policy commands of cli.py: actions of a government, *)
(* the transitions of their status, and the candidates that each ingest    *)
(* extracts from the evidence.  Actions and transitions come from callers  *)
(* of the repository, one to a session.  Entities, mechanisms, dates and   *)
(* texts are left out.                                                     *)
(***************************************************************************)
EXTENDS CommandSessions, FiniteSets

CONSTANTS
    Notices,        \* items of evidence
    MaxActions      \* bound on the versions of actions

ASSUME GovernmentAssumption == MaxActions \in Nat

VARIABLES
    notices,        \* evidence: when each item was observed
    actions,        \* government_actions
    transitions,    \* government_transitions
    policies        \* government_candidates: the items they are of

governmentVars == <<notices, actions, transitions, policies>>

\* _TRANSITIONS: what may follow a status, and what a first one may be.
Follow ==
    [none         |-> {"rumored", "proposed", "consultation", "submitted", "approved", "published"},
     rumored      |-> {"proposed"},
     proposed     |-> {"consultation", "submitted", "approved", "suspended"},
     consultation |-> {"submitted", "approved"},
     submitted    |-> {"committee", "approved"},
     committee    |-> {"approved", "suspended"},
     approved     |-> {"published", "effective", "challenged"},
     published    |-> {"effective", "amended", "challenged"},
     effective    |-> {"enforced", "amended", "challenged", "suspended", "repealed", "expired"},
     enforced     |-> {"amended", "challenged", "suspended", "repealed", "expired"},
     challenged   |-> {"effective", "suspended", "repealed"},
     amended      |-> {"published", "effective", "repealed"},
     suspended    |-> {"effective", "repealed"},
     repealed     |-> {},
     expired      |-> {}]

ActionId == 1..MaxCommands
ActionStatus == DOMAIN Follow \ {"none"}
GovernmentAction == [id : ActionId, status : ActionStatus, at : Time, notice : Notices,
                     version : ActionId, supersedes : {0} \cup ActionId]
StatusTransition == [action : ActionId, from : DOMAIN Follow, to : ActionStatus, at : Time,
                     notice : Notices, sequence : 0..MaxCommands]

GovernmentInit == notices = << >> /\ actions = {} /\ transitions = {} /\ policies = {}

\* An item of evidence is ingested.
NoticeArrives ==
    /\ \E n \in Notices \ DOMAIN notices :
          notices' = [m \in DOMAIN notices \cup {n} |-> IF m = n THEN now ELSE notices[m]]
    /\ UNCHANGED <<actions, transitions, policies>>

Supported(notice, at) == notice \in DOMAIN notices /\ notices[notice] <= at

\* The last in the order of time and sequence.
LatestOf(rows) ==
    {t \in rows : \A u \in rows : u.at < t.at \/ (u.at = t.at /\ u.sequence <= t.sequence)}

\* Variant: the status of today.
CurrentToday(action, cutoff) ==
    LET of == {t \in transitions : t.action = action}
    IN  IF of = {} THEN {"none"}
        ELSE {t.to : t \in LatestOf(of)}

\* current_status: of the last transition by then; of two of the same sequence,
\* which is open.
CurrentStatus(action, cutoff) ==
    LET of == {t \in transitions : t.action = action /\ t.at <= cutoff}
    IN  IF of = {} THEN {"none"}
        ELSE {t.to : t \in LatestOf(of)}

\* transition: the status a caller expects is the one at the time of the transition.
TransitionRow(action, from, to, at, notice) ==
    [action |-> action, from |-> from, to |-> to, at |-> at, notice |-> notice,
     sequence |-> Cardinality({t \in transitions : t.action = action})]

\* add_action, with its first transition.
AddAction(o) ==
    /\ Cardinality(actions) < MaxActions
    /\ \E status \in Follow["none"], notice \in Notices, at \in 0..now, prior \in {0} \cup {a.id : a \in actions} :
          /\ Supported(notice, at)
          /\ LET id == started + 1
                 version == IF prior = 0 THEN 1
                            ELSE (CHOOSE a \in actions : a.id = prior).version + 1
             IN  Begin(o, [pc |-> "policy_action",
                           row |-> [id |-> id, status |-> status, at |-> at, notice |-> notice,
                                    version |-> version, supersedes |-> prior],
                           first |-> TransitionRow(id, "none", status, at, notice)])
    /\ UNCHANGED governmentVars

CommitAction(o) ==
    /\ At(o, "policy_action")
    /\ actions' = actions \cup {job[o].row}
    /\ transitions' = transitions \cup {job[o].first}
    /\ Finish(o)
    /\ UNCHANGED <<notices, policies>>

AddTransition(o) ==
    /\ \E a \in actions, notice \in Notices, at \in 0..now :
          /\ Supported(notice, at)
          /\ \E from \in CurrentStatus(a.id, at) : \E to \in Follow[from] :
                Begin(o, [pc |-> "policy_transition", row |-> TransitionRow(a.id, from, to, at, notice)])
    /\ UNCHANGED governmentVars

CommitTransition(o) ==
    /\ At(o, "policy_transition")
    /\ transitions' = transitions \cup {job[o].row}
    /\ Finish(o)
    /\ UNCHANGED <<notices, actions, policies>>

\* policy ingest, after a run that succeeded: the items without a candidate.
ExtractPending(o) ==
    /\ DOMAIN notices \ policies # {}
    /\ Begin(o, [pc |-> "policy_extract", rows |-> DOMAIN notices \ policies])
    /\ UNCHANGED governmentVars

\* One transaction; a candidate that another process inserted refuses it.
CommitPending(o) ==
    /\ At(o, "policy_extract")
    /\ policies' = IF job[o].rows \cap policies = {} THEN policies \cup job[o].rows ELSE policies
    /\ Finish(o)
    /\ UNCHANGED <<notices, actions, transitions>>

GovernmentNext(o) ==
    \/ Free(o) /\ (AddAction(o) \/ AddTransition(o) \/ ExtractPending(o))
    \/ CommitAction(o) \/ CommitTransition(o) \/ CommitPending(o)

\* policy list and policy replay: the actions of a cutoff, whatever supersedes them,
\* with their status then.
ActionsVisibleAt(cutoff) == {a \in actions : a.at <= cutoff /\ Supported(a.notice, cutoff)}

GovernmentTypeOK ==
    /\ DOMAIN notices \subseteq Notices /\ \A n \in DOMAIN notices : notices[n] \in Time
    /\ actions \subseteq GovernmentAction /\ transitions \subseteq StatusTransition
    /\ policies \subseteq DOMAIN notices

\* docs/government-lab.md: each change of a status is validated against the graph and
\* carries its evidence.  Whoever appends transitions, late, out of order or at once,
\* a status that an action has at any time was reached along the graph, by changes
\* no later than itself and of evidence that was there: every transition but a first
\* one leaves a status that another one had entered by its time, and every action
\* that is listed at a cutoff has a status then (transition, current_status).
StatusesAreReached ==
    /\ \A t \in transitions :
          /\ t.to \in Follow[t.from] /\ notices[t.notice] <= t.at
          /\ t.from # "none" =>
                \E u \in transitions \ {t} : u.action = t.action /\ u.to = t.from /\ u.at <= t.at
    /\ \A cutoff \in Time : \A a \in ActionsVisibleAt(cutoff) :
          /\ \E t \in transitions : t.action = a.id /\ t.at <= cutoff
          /\ a.supersedes # 0 =>
                \E b \in actions : b.id = a.supersedes /\ a.version = b.version + 1

=============================================================================
