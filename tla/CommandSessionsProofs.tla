------------------------ MODULE CommandSessionsProofs ------------------------
(***************************************************************************)
(* What the proofs about the components need of the processes of the       *)
(* command line: a step of one operator changes what one process knows,    *)
(* and the clock and the count of the commands keep to their bounds.       *)
(***************************************************************************)
EXTENDS CommandSessions, WellFoundedInduction, TLAPS

\* Of the jobs it matters whose they are; what they know is up to the components.
SessionsOK ==
    /\ now \in Time
    /\ started \in Int /\ started <= MaxCommands
    /\ job = [o \in Operators |-> job[o]]

LEMMA SessionsStart ==
    ASSUME NEW spent \in Int, spent <= MaxCommands, SessionsInit(spent)
    PROVE  SessionsOK /\ \A o \in Operators : job[o] = Idle
BY SessionsAssumption DEF SessionsInit, SessionsOK, Time

\* Only the process of o learns, and it knows what it was told.
LEMMA OneLearns ==
    ASSUME SessionsOK, NEW o \in Operators, NEW j, Learn(o, j)
    PROVE  /\ SessionsOK' /\ now' = now /\ started' = started
           /\ job'[o] = j
           /\ \A q \in Operators : q # o => job'[q] = job[q]
BY DEF Learn, SessionsOK, Time

LEMMA OneBegins ==
    ASSUME SessionsOK, NEW o \in Operators, NEW j, Begin(o, j)
    PROVE  /\ SessionsOK' /\ now' = now /\ started' = started + 1
           /\ job[o] = Idle
           /\ job'[o] = j
           /\ \A q \in Operators : q # o => job'[q] = job[q]
BY SessionsAssumption DEF Begin, Free, SessionsOK, Time

\* A process that raises, dies or is done knows nothing any more.
LEMMA OneFinishes ==
    ASSUME SessionsOK, NEW o \in Operators, Finish(o)
    PROVE  /\ SessionsOK' /\ now' = now /\ started' = started
           /\ job'[o] = Idle
           /\ \A q \in Operators : q # o => job'[q] = job[q]
BY OneLearns DEF Finish

LEMMA ClockTicks ==
    ASSUME SessionsOK, Tick
    PROVE  /\ SessionsOK' /\ now <= now' /\ job' = job
BY SessionsAssumption DEF Tick, SessionsOK, Time

LEMMA NothingHappens ==
    ASSUME SessionsOK, UNCHANGED sessionVars
    PROVE  SessionsOK' /\ now' = now /\ job' = job
BY DEF sessionVars, SessionsOK, Time

-----------------------------------------------------------------------------
(* The least and the greatest of a set of naturals: what stands in for an  *)
(* induction, and finds the last of a set of instants.                     *)

LEMMA LeastNatural ==
    ASSUME NEW S, S \subseteq Nat, S # {}
    PROVE  \E x \in S : \A y \in S : x <= y
<1>1. PICK x \in S : \A y \in S : ~(<<y, x>> \in OpToRel(<, Nat))
  BY NatLessThanWellFounded, WFMin
<1>2. ASSUME NEW y \in S, ~(x <= y) PROVE FALSE
  <2>1. <<y, x>> \in Nat \X Nat /\ y < x
    BY <1>2
  <2>2. <<y, x>> \in OpToRel(<, Nat)
    BY <2>1 DEF OpToRel
  <2>3. QED
    BY <1>1, <2>2
<1>3. QED
  BY <1>2

LEMMA GreatestNatural ==
    ASSUME NEW S, S \subseteq Nat, S # {}, NEW m \in Nat, \A x \in S : x <= m
    PROVE  \E x \in S : \A y \in S : y <= x
<1> DEFINE T == {m - x : x \in S}
<1>1. \A x \in S : m - x \in Nat
  OBVIOUS
<1>2. T \subseteq Nat /\ T # {}
  BY <1>1
<1>3. PICK t \in T : \A u \in T : t <= u
  <2> HIDE DEF T
  <2>1. QED
    BY <1>2, LeastNatural
<1>4. PICK x \in S : t = m - x
  OBVIOUS
<1>5. \A y \in S : m - y \in T
  OBVIOUS
<1>6. \A y \in S : y <= x
  <2> HIDE DEF T
  <2> TAKE y \in S
  <2>1. t <= m - y
    BY <1>3, <1>5
  <2>2. QED
    BY <1>4, <2>1
<1>7. QED
  BY <1>6

=============================================================================
