-------------------------- MODULE TopologyRegistry --------------------------
(***************************************************************************)
(* The champion topology of topology/: immutable versions, evaluations of  *)
(* challengers, and the append-only registry events from which the active  *)
(* topology of a cutoff is read.  Operators run the activate and rollback  *)
(* commands of the CLI, each a process that takes the time first, then     *)
(* runs its queries one by one, and at last commits its event.             *)
(***************************************************************************)
EXTENDS Integers, FiniteSets

CONSTANTS
    Versions,       \* topology versions
    Root,           \* the version activated first
    Operators,      \* CLI processes, each of them one command at a time
    None,           \* no version
    MaxTime,        \* bound on the clock
    MaxEvaluations, \* bound on the evaluations recorded
    MaxEvents       \* bound on the registry events recorded

ASSUME TopologyAssumption ==
    /\ Root \in Versions
    /\ None \notin Versions
    /\ MaxTime \in Nat /\ MaxEvaluations \in Nat /\ MaxEvents \in Nat

VARIABLES
    now,            \* the wall clock
    persisted,      \* committed expert_topology_versions
    evaluations,    \* committed topology_evaluations
    events,         \* committed topology_registry_events
    cmd             \* what each operator's process knows

vars == <<now, persisted, evaluations, events, cmd>>

Time == 0..MaxTime
\* The commands treat a rejected challenger as they treat a quarantined one.
Decision == {"quarantined", "certified_pending_approval"}
Evaluation == [version: Versions, decision: Decision, at: Time]
Event == [version: Versions, previous: Versions \cup {None},
          action: {"initial_activation", "activation", "rollback"}, at: Time]

Command == [pc: {"idle", "activating", "certified", "rolling_back", "decided"},
            at: Time, action: {"activation", "rollback"},
            version: Versions \cup {None}, previous: Versions \cup {None}]

Idle == [pc |-> "idle", at |-> 0, action |-> "activation", version |-> None,
         previous |-> None]

\* The first of an ORDER BY time DESC; rows of one instant come in any order.
Latest(rows) == {e \in rows : \A f \in rows : f.at <= e.at}

\* active_at: the events visible at the cutoff decide.
VisibleAt(cutoff, log) == Latest({e \in log : e.at <= cutoff})

EvaluationsOf(v) == {e \in evaluations : e.version = v}

Init ==
    /\ now = 0
    /\ persisted = {Root}
    /\ evaluations = {}
    /\ events = {[version |-> Root, previous |-> None,
                  action |-> "initial_activation", at |-> 0]}
    /\ cmd = [op \in Operators |-> Idle]

-----------------------------------------------------------------------------

Tick ==
    /\ now < MaxTime
    /\ now' = now + 1
    /\ UNCHANGED <<persisted, evaluations, events, cmd>>

\* build_challenger from a persisted parent, and add_version.
AddVersion ==
    /\ \E v \in Versions \ persisted : persisted' = persisted \cup {v}
    /\ UNCHANGED <<now, evaluations, events, cmd>>

\* evaluate_topology and add_evaluation.  The champion that a challenger is
\* compared with is its caller's choice, and nothing reads it afterwards.
AddEvaluation ==
    /\ Cardinality(evaluations) < MaxEvaluations
    /\ \E v \in persisted, d \in Decision :
          evaluations' = evaluations \cup
              {[version |-> v, decision |-> d, at |-> now]}
    /\ UNCHANGED <<now, persisted, events, cmd>>

\* The command takes its time before it asks the database anything.
BeginActivate(op) ==
    /\ cmd[op].pc = "idle"
    /\ \E v \in persisted :
          cmd' = [cmd EXCEPT ![op] = [Idle EXCEPT !.pc = "activating", !.at = now,
                                                  !.version = v]]
    /\ UNCHANGED <<now, persisted, evaluations, events>>

\* Variant: any evaluation will do.
ReadAnyEvaluation(op) ==
    /\ cmd[op].pc = "activating"
    /\ EvaluationsOf(cmd[op].version) # {}
    /\ cmd' = [cmd EXCEPT ![op] = [@ EXCEPT !.pc = "certified"]]
    /\ UNCHANGED <<now, persisted, evaluations, events>>

\* The latest evaluation of the proposal must have certified its challenger.
ReadEvaluation(op) ==
    /\ cmd[op].pc = "activating"
    /\ \E e \in Latest(EvaluationsOf(cmd[op].version)) :
          e.decision = "certified_pending_approval"
    /\ cmd' = [cmd EXCEPT ![op] = [@ EXCEPT !.pc = "certified"]]
    /\ UNCHANGED <<now, persisted, evaluations, events>>

\* The active topology of the command's own instant is the one replaced.
ReadActive(op) ==
    /\ cmd[op].pc = "certified"
    /\ \E e \in VisibleAt(cmd[op].at, events) :
          cmd' = [cmd EXCEPT ![op] = [@ EXCEPT !.pc = "decided",
                                               !.previous = e.version]]
    /\ UNCHANGED <<now, persisted, evaluations, events>>

BeginRollback(op) ==
    /\ cmd[op].pc = "idle"
    /\ cmd' = [cmd EXCEPT ![op] = [Idle EXCEPT !.pc = "rolling_back", !.at = now,
                                               !.action = "rollback"]]
    /\ UNCHANGED <<now, persisted, evaluations, events>>

\* Variant: back to the version before, whichever it is.
ReadHistoryUnchecked(op) ==
    /\ cmd[op].pc = "rolling_back"
    /\ \E e \in Latest(events), v \in persisted :
          /\ v # e.version
          /\ cmd' = [cmd EXCEPT ![op] = [@ EXCEPT !.pc = "decided", !.version = v,
                                                  !.previous = e.version]]
    /\ UNCHANGED <<now, persisted, evaluations, events>>

\* Variant: what the first activation replaced is taken for a version.
ReadHistoryToNone(op) ==
    /\ cmd[op].pc = "rolling_back"
    /\ \E e \in Latest(events) :
          cmd' = [cmd EXCEPT ![op] = [@ EXCEPT !.pc = "decided",
                                               !.version = e.previous,
                                               !.previous = e.version]]
    /\ UNCHANGED <<now, persisted, evaluations, events>>

\* Rollback goes to what the last event of the whole history replaced; the
\* first activation replaced nothing, and add_registry_event refuses that.
ReadHistory(op) ==
    /\ cmd[op].pc = "rolling_back"
    /\ Cardinality(events) >= 2
    /\ \E e \in Latest(events) :
          /\ e.previous \in persisted
          /\ cmd' = [cmd EXCEPT ![op] = [@ EXCEPT !.pc = "decided",
                                                  !.version = e.previous,
                                                  !.previous = e.version]]
    /\ UNCHANGED <<now, persisted, evaluations, events>>

\* add_registry_event and the commit.
CommitEvent(op) ==
    /\ cmd[op].pc = "decided"
    /\ Cardinality(events) < MaxEvents
    /\ events' = events \cup {[version |-> cmd[op].version,
                               previous |-> cmd[op].previous,
                               action |-> cmd[op].action, at |-> cmd[op].at]}
    /\ cmd' = [cmd EXCEPT ![op] = Idle]
    /\ UNCHANGED <<now, persisted, evaluations>>

\* A query is refused, or the process dies: nothing was committed.
Abandon(op) ==
    /\ cmd[op].pc # "idle"
    /\ cmd' = [cmd EXCEPT ![op] = Idle]
    /\ UNCHANGED <<now, persisted, evaluations, events>>

Next ==
    \/ Tick
    \/ AddVersion
    \/ AddEvaluation
    \/ \E op \in Operators :
          \/ BeginActivate(op)
          \/ ReadEvaluation(op)
          \/ ReadActive(op)
          \/ BeginRollback(op)
          \/ ReadHistory(op)
          \/ CommitEvent(op)
          \/ Abandon(op)

Spec == Init /\ [][Next]_vars

-----------------------------------------------------------------------------

TypeOK ==
    /\ now \in Time
    /\ persisted \subseteq Versions
    /\ evaluations \subseteq Evaluation
    /\ events \subseteq Event
    /\ cmd \in [Operators -> Command]

Certified(v) ==
    \E e \in evaluations : e.version = v /\ e.decision = "certified_pending_approval"

\* "Safety veto outranks quality and cost gains": whatever activations and
\* rollbacks race, each version that was ever active is the first one or has
\* an evaluation that certified it.
EveryChampionCertified ==
    \A e \in events : e.version = Root \/ Certified(e.version)

\* "Rollback appends an event pointing to a retained prior topology": a rollback
\* goes to a version that some earlier activation made active.
RollbackRestoresAChampion ==
    \A r \in events : r.action = "rollback" =>
        /\ r.version \in persisted
        /\ \E e \in events : e.version = r.version /\ e.action # "rollback"

\* "Historical replay selects the latest activation event visible at cutoff,
\* preventing future experts, routers, or panels from leaking backward": the
\* active topology of a past instant does not change afterwards.
CutoffReadsAreStable ==
    [][\A t \in Time : t < now => VisibleAt(t, events') = VisibleAt(t, events)]_vars

=============================================================================
