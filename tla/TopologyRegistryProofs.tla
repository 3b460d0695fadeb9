----------------------- MODULE TopologyRegistryProofs -----------------------
(***************************************************************************)
(* Safety of the topology registry for any number of versions, operators   *)
(* and events.  The invariants the runs check say something of committed   *)
(* events only; IInv adds what each command has established so far, and    *)
(* that an event's previous version was itself active before.              *)
(***************************************************************************)
EXTENDS TopologyRegistry, TLAPS

\* Version v was made active by something other than a rollback.
WasActive(v) ==
    /\ v \in persisted
    /\ \E e \in events : e.version = v /\ e.action # "rollback"

Sound(v) == v = Root \/ Certified(v)

EventSound(e) ==
    /\ Sound(e.version)
    /\ WasActive(e.version)
    /\ e.previous # None => Sound(e.previous) /\ WasActive(e.previous)

\* What the command of operator op has established at its program counter.
Prepared(op) ==
    LET c == cmd[op]
    IN  /\ c.pc \in {"activating", "certified"} =>
               c.action = "activation" /\ c.version \in persisted
        /\ c.pc = "certified" => Certified(c.version)
        /\ c.pc = "rolling_back" => c.action = "rollback"
        /\ c.pc = "decided" =>
               /\ Sound(c.version) /\ c.version \in persisted
               /\ Sound(c.previous) /\ WasActive(c.previous)
               /\ c.action = "rollback" => WasActive(c.version)

IInv ==
    /\ TypeOK
    /\ Root \in persisted
    /\ \A e \in events : EventSound(e)
    /\ \A op \in Operators : Prepared(op)

-----------------------------------------------------------------------------

LEMMA InitIInv == Init => IInv
BY TopologyAssumption
   DEF Init, IInv, TypeOK, Time, Evaluation, Event, Command, Idle, EventSound,
       Sound, WasActive, Prepared

\* Rows are only ever added, so what they establish stays established.
LEMMA Grows ==
    ASSUME persisted \subseteq persisted', evaluations \subseteq evaluations',
           events \subseteq events', NEW v
    PROVE  /\ Certified(v) => Certified(v)'
           /\ Sound(v) => Sound(v)'
           /\ WasActive(v) => WasActive(v)'
BY DEF Certified, Sound, WasActive

\* A step that changes one command, and adds no event, needs only that command.
LEMMA CommandStep ==
    ASSUME IInv, NEW op \in Operators,
           UNCHANGED <<now, persisted, evaluations, events>>,
           NEW c \in Command, cmd' = [cmd EXCEPT ![op] = c],
           Prepared(op)'
    PROVE  IInv'
<1>1. TypeOK'
  BY DEF IInv, TypeOK
<1>2. \A e \in events' : EventSound(e)'
  BY DEF IInv, EventSound, Sound, Certified, WasActive
<1>3. ASSUME NEW q \in Operators PROVE Prepared(q)'
  <2>1. CASE q = op
    BY <2>1
  <2>2. CASE q # op
    <3>1. cmd'[q] = cmd[q]
      BY <2>2 DEF IInv, TypeOK
    <3>2. QED
      BY <3>1 DEF IInv, Prepared, Sound, Certified, WasActive
  <2>3. QED
    BY <2>1, <2>2
<1>4. QED
  BY <1>1, <1>2, <1>3 DEF IInv

\* The commands and the rows of a step that leaves the commands as they are.
LEMMA RowStep ==
    ASSUME IInv, persisted \subseteq persisted', evaluations \subseteq evaluations',
           events' = events, cmd' = cmd, TypeOK'
    PROVE  IInv'
<1>1. \A v : /\ Certified(v) => Certified(v)'
             /\ Sound(v) => Sound(v)'
             /\ WasActive(v) => WasActive(v)'
  BY Grows
<1>2. \A e \in events' : EventSound(e)'
  BY <1>1 DEF IInv, EventSound
<1>3. \A op \in Operators : Prepared(op)'
  BY <1>1 DEF IInv, Prepared
<1>4. QED
  BY <1>2, <1>3 DEF IInv

LEMMA IdleIsCommand ==
    /\ Idle \in Command
    /\ \A t \in Time, v \in Versions :
          [Idle EXCEPT !.pc = "activating", !.at = t, !.version = v] \in Command
    /\ \A t \in Time :
          [Idle EXCEPT !.pc = "rolling_back", !.at = t, !.action = "rollback"] \in Command
<1>1. Idle \in Command
  BY TopologyAssumption DEF Idle, Command, Time
<1>2. QED
  BY <1>1 DEF Command

-----------------------------------------------------------------------------

LEMMA CommitKeeps ==
    ASSUME IInv, NEW op \in Operators, CommitEvent(op)
    PROVE  IInv'
<1>1. PICK c \in Command : c = cmd[op]
  BY DEF IInv, TypeOK
<1> DEFINE new == [version |-> c.version, previous |-> c.previous,
                   action |-> c.action, at |-> c.at]
<1>1a. c.pc = "decided" /\ Prepared(op)
  BY <1>1 DEF IInv, CommitEvent
<1>2. /\ Sound(c.version) /\ c.version \in persisted
      /\ Sound(c.previous) /\ WasActive(c.previous)
      /\ c.action = "rollback" => WasActive(c.version)
  BY <1>1a, <1>1 DEF Prepared
<1>3. events' = events \cup {new} /\ cmd' = [cmd EXCEPT ![op] = Idle]
      /\ UNCHANGED <<now, persisted, evaluations>>
  BY <1>1 DEF CommitEvent
<1>4. new \in Event
  <2>1. c.version \in Versions /\ c.previous \in Versions \cup {None}
        /\ c.action \in {"activation", "rollback"} /\ c.at \in Time
    BY <1>1, <1>2 DEF Command, IInv, TypeOK
  <2>2. QED
    BY <2>1 DEF Event
<1>5. TypeOK'
  BY <1>3, <1>4, IdleIsCommand DEF IInv, TypeOK
<1>6. \A v : /\ Certified(v) => Certified(v)'
             /\ Sound(v) => Sound(v)'
             /\ WasActive(v) => WasActive(v)'
  BY <1>3, Grows
<1>7. WasActive(c.version)'
  <2>1. CASE c.action = "rollback"
    BY <2>1, <1>2, <1>6
  <2>2. CASE c.action # "rollback"
    <3>1. new \in events' /\ new.version = c.version /\ new.action # "rollback"
      BY <2>2, <1>3
    <3>2. c.version \in persisted'
      BY <1>2, <1>3
    <3>3. QED
      BY <3>1, <3>2 DEF WasActive
  <2>3. QED
    BY <2>1, <2>2
<1>8. EventSound(new)'
  BY <1>2, <1>6, <1>7 DEF EventSound
<1>9. \A e \in events' : EventSound(e)'
  BY <1>3, <1>6, <1>8 DEF IInv, EventSound
<1>10. ASSUME NEW q \in Operators PROVE Prepared(q)'
  <2>1. CASE q = op
    <3>1. cmd'[q].pc = "idle"
      BY <2>1, <1>3 DEF IInv, TypeOK, Idle
    <3>2. QED
      BY <3>1 DEF Prepared
  <2>2. CASE q # op
    <3>1. cmd'[q] = cmd[q] /\ Prepared(q)
      BY <2>2, <1>3 DEF IInv, TypeOK
    <3>2. QED
      BY <3>1, <1>3, <1>6 DEF Prepared
  <2>3. QED
    BY <2>1, <2>2
<1>11. QED
  BY <1>3, <1>5, <1>9, <1>10 DEF IInv

LEMMA NextIInv == IInv /\ [Next]_vars => IInv'
<1> SUFFICES ASSUME IInv, [Next]_vars PROVE IInv'
  OBVIOUS
<1>1. CASE Tick
  <2>1. TypeOK'
    BY <1>1, TopologyAssumption DEF IInv, TypeOK, Tick, Time
  <2>2. QED
    BY <1>1, <2>1, RowStep DEF Tick
<1>2. CASE AddVersion
  <2>1. TypeOK'
    BY <1>2 DEF IInv, TypeOK, AddVersion
  <2>2. QED
    BY <1>2, <2>1, RowStep DEF AddVersion
<1>3. CASE AddEvaluation
  <2>1. PICK v \in persisted, d \in Decision :
           evaluations' = evaluations \cup {[version |-> v, decision |-> d, at |-> now]}
    BY <1>3 DEF AddEvaluation
  <2>2. [version |-> v, decision |-> d, at |-> now] \in Evaluation
    BY DEF IInv, TypeOK, Evaluation
  <2>3. TypeOK'
    BY <1>3, <2>1, <2>2 DEF IInv, TypeOK, AddEvaluation
  <2>4. QED
    BY <1>3, <2>1, <2>3, RowStep DEF AddEvaluation
<1>4. ASSUME NEW op \in Operators, BeginActivate(op) PROVE IInv'
  <2>1. PICK v \in persisted :
           cmd' = [cmd EXCEPT ![op] = [Idle EXCEPT !.pc = "activating", !.at = now,
                                                   !.version = v]]
    BY <1>4 DEF BeginActivate
  <2> DEFINE c == [Idle EXCEPT !.pc = "activating", !.at = now, !.version = v]
  <2>2. c \in Command
    BY IdleIsCommand DEF IInv, TypeOK
  <2>3. cmd'[op] = c /\ persisted' = persisted
    BY <1>4, <2>1 DEF IInv, TypeOK, BeginActivate
  <2>4. Prepared(op)'
    BY <2>3 DEF Prepared, Idle
  <2>5. QED
    BY <1>4, <2>1, <2>2, <2>4, CommandStep DEF BeginActivate
<1>5. ASSUME NEW op \in Operators, ReadEvaluation(op) PROVE IInv'
  <2> DEFINE c == [cmd[op] EXCEPT !.pc = "certified"]
  <2>1. cmd[op] \in Command /\ cmd[op].pc = "activating" /\ Prepared(op)
    BY <1>5 DEF ReadEvaluation, IInv, TypeOK
  <2>2. Certified(cmd[op].version)
    BY <1>5 DEF ReadEvaluation, Latest, EvaluationsOf, Certified
  <2>3. c \in Command
    BY <2>1 DEF Command
  <2>4. cmd'[op] = c /\ persisted' = persisted /\ evaluations' = evaluations
    BY <1>5 DEF ReadEvaluation, IInv, TypeOK
  <2>5. Certified(cmd[op].version)'
    BY <2>2, <2>4 DEF Certified
  <2>6. c.pc = "certified" /\ c.version = cmd[op].version /\ c.action = cmd[op].action
    BY <2>1 DEF Command
  <2>7. Prepared(op)'
    BY <2>1, <2>4, <2>5, <2>6 DEF Prepared
  <2>8. QED
    BY <1>5, <2>3, <2>7, CommandStep DEF ReadEvaluation
<1>6. ASSUME NEW op \in Operators, ReadActive(op) PROVE IInv'
  <2>1. PICK e \in VisibleAt(cmd[op].at, events) :
           cmd' = [cmd EXCEPT ![op] = [@ EXCEPT !.pc = "decided", !.previous = e.version]]
    BY <1>6 DEF ReadActive
  <2> DEFINE c == [cmd[op] EXCEPT !.pc = "decided", !.previous = e.version]
  <2>2. cmd[op] \in Command /\ cmd[op].pc = "certified" /\ Prepared(op)
    BY <1>6 DEF ReadActive, IInv, TypeOK
  <2>3. e \in events /\ EventSound(e)
    BY DEF VisibleAt, Latest, IInv
  <2>4. e.version \in Versions
    BY <2>3 DEF IInv, TypeOK, Event
  <2>5. c \in Command
    BY <2>2, <2>4 DEF Command
  <2>6. cmd'[op] = c /\ UNCHANGED <<persisted, evaluations, events>>
    BY <1>6, <2>1 DEF ReadActive, IInv, TypeOK
  <2>7. /\ c.version = cmd[op].version /\ c.action = "activation"
        /\ c.previous = e.version /\ c.pc = "decided"
    BY <2>2 DEF Command, Prepared
  <2>8. /\ Sound(cmd[op].version)' /\ cmd[op].version \in persisted'
        /\ Sound(e.version)' /\ WasActive(e.version)'
    BY <2>2, <2>3, <2>6 DEF Prepared, EventSound, Sound, Certified, WasActive
  <2>9. Prepared(op)'
    BY <2>6, <2>7, <2>8 DEF Prepared
  <2>10. QED
    BY <1>6, <2>1, <2>5, <2>9, CommandStep DEF ReadActive
<1>7. ASSUME NEW op \in Operators, BeginRollback(op) PROVE IInv'
  <2> DEFINE c == [Idle EXCEPT !.pc = "rolling_back", !.at = now, !.action = "rollback"]
  <2>1. c \in Command
    BY IdleIsCommand, TopologyAssumption DEF IInv, TypeOK
  <2>2. cmd'[op] = c
    BY <1>7 DEF BeginRollback, IInv, TypeOK
  <2>3. Prepared(op)'
    BY <2>2 DEF Prepared, Idle
  <2>4. QED
    BY <1>7, <2>1, <2>3, CommandStep DEF BeginRollback
<1>8. ASSUME NEW op \in Operators, ReadHistory(op) PROVE IInv'
  <2>1. PICK e \in Latest(events) :
           /\ e.previous \in persisted
           /\ cmd' = [cmd EXCEPT ![op] = [@ EXCEPT !.pc = "decided",
                                                   !.version = e.previous,
                                                   !.previous = e.version]]
    BY <1>8 DEF ReadHistory
  <2> DEFINE c == [cmd[op] EXCEPT !.pc = "decided", !.version = e.previous,
                                  !.previous = e.version]
  <2>2. cmd[op] \in Command /\ cmd[op].pc = "rolling_back" /\ Prepared(op)
    BY <1>8 DEF ReadHistory, IInv, TypeOK
  <2>3. e \in events /\ EventSound(e) /\ e.previous # None
    BY <2>1, TopologyAssumption DEF Latest, IInv, TypeOK
  <2>4. e.version \in Versions /\ e.previous \in Versions
    BY <2>1, <2>3 DEF IInv, TypeOK, Event
  <2>5. c \in Command
    BY <2>2, <2>4 DEF Command
  <2>6. cmd'[op] = c /\ UNCHANGED <<persisted, evaluations, events>>
    BY <1>8, <2>1 DEF ReadHistory, IInv, TypeOK
  <2>7. /\ c.version = e.previous /\ c.previous = e.version /\ c.pc = "decided"
    BY <2>2 DEF Command
  <2>8. /\ Sound(e.previous)' /\ WasActive(e.previous)' /\ e.previous \in persisted'
        /\ Sound(e.version)' /\ WasActive(e.version)'
    BY <2>1, <2>3, <2>6 DEF EventSound, Sound, Certified, WasActive
  <2>9. Prepared(op)'
    BY <2>6, <2>7, <2>8 DEF Prepared
  <2>10. QED
    BY <1>8, <2>1, <2>5, <2>9, CommandStep DEF ReadHistory
<1>9. ASSUME NEW op \in Operators, CommitEvent(op) PROVE IInv'
  BY <1>9, CommitKeeps
<1>10. ASSUME NEW op \in Operators, Abandon(op) PROVE IInv'
  <2>1. cmd'[op] = Idle
    BY <1>10 DEF Abandon, IInv, TypeOK
  <2>2. Prepared(op)'
    BY <2>1 DEF Prepared, Idle
  <2>3. QED
    BY <1>10, <2>2, IdleIsCommand, CommandStep DEF Abandon
<1>11. CASE UNCHANGED vars
  <2>1. TypeOK'
    BY <1>11 DEF IInv, TypeOK, vars
  <2>2. QED
    BY <1>11, <2>1, RowStep DEF vars
<1>12. QED
  BY <1>1, <1>2, <1>3, <1>4, <1>5, <1>6, <1>7, <1>8, <1>9, <1>10, <1>11 DEF Next

\* What the runs check follows from an invariant of every step.
THEOREM RegistryInvariance == Spec => []IInv
BY InitIInv, NextIInv, PTL DEF Spec

\* Versions, evaluations, events and commands keep their types.
THEOREM RegistryTypes == Spec => []TypeOK
<1>1. IInv => TypeOK
  BY DEF IInv
<1>2. QED
  BY <1>1, RegistryInvariance, PTL

\* Whatever races, each version that was ever active is the first one or has an
\* evaluation that certified it.
THEOREM ChampionsAreCertified == Spec => []EveryChampionCertified
<1>1. IInv => EveryChampionCertified
  BY DEF IInv, EveryChampionCertified, EventSound, Sound
<1>2. QED
  BY <1>1, RegistryInvariance, PTL

\* A rollback restores a version that an earlier activation made active.
THEOREM RollbacksRestore == Spec => []RollbackRestoresAChampion
<1>1. IInv => RollbackRestoresAChampion
  BY DEF IInv, RollbackRestoresAChampion, EventSound, WasActive
<1>2. QED
  BY <1>1, RegistryInvariance, PTL

=============================================================================
