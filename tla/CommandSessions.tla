-------------------------- MODULE CommandSessions --------------------------
(***************************************************************************)
(* The processes of the command line: each command is one process with one *)
(* database session.  It takes the wall clock, runs its queries one by one *)
(* and at last commits, raises, or dies.  job[o] is all that the process   *)
(* started by operator o knows; the tables of the components are shared.   *)
(***************************************************************************)
EXTENDS Integers

CONSTANTS
    Operators,      \* people or schedulers that start commands
    MaxTime,        \* bound on the wall clock
    MaxCommands     \* bound on the commands started

ASSUME SessionsAssumption == MaxTime \in Nat /\ MaxCommands \in Nat

VARIABLES
    now,            \* the wall clock
    started,        \* how many commands were started
    job             \* what the process of each operator knows

sessionVars == <<now, started, job>>

Time == 0..MaxTime

Idle == [pc |-> "idle"]

\* spent: how much of the bound on the commands an instance does not use.
SessionsInit(spent) ==
    /\ now = 0
    /\ started = spent
    /\ job = [o \in Operators |-> Idle]

Free(o) == job[o] = Idle /\ started < MaxCommands

\* main opens a session and enters the handler of the command.
Begin(o, knows) ==
    /\ Free(o)
    /\ job' = [job EXCEPT ![o] = knows]
    /\ started' = started + 1
    /\ UNCHANGED now

\* The handler has run a query, and goes on with what it now knows.
Learn(o, knows) ==
    /\ job' = [job EXCEPT ![o] = knows]
    /\ UNCHANGED <<now, started>>

Proceed(o, pc) == Learn(o, [job[o] EXCEPT !.pc = pc])

\* The handler returns or raises; what it had not committed is rolled back.
Finish(o) == Learn(o, Idle)

\* The process goes away between two of its steps.
Dies(o) == job[o] # Idle /\ Finish(o)

At(o, pc) == job[o].pc = pc

Tick ==
    /\ now < MaxTime
    /\ now' = now + 1
    /\ UNCHANGED <<started, job>>

=============================================================================
