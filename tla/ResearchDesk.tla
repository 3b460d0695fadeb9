---------------------------- MODULE ResearchDesk ----------------------------
(***************************************************************************)
(* The components of the research side.  The laboratory and the paper      *)
(* portfolios share the specifications; the others share no table with     *)
(* them, nor with each other, so a behaviour is one of the part it begins  *)
(* with, under the bounds of that part.                                    *)
(***************************************************************************)
EXTENDS PaperPortfolio, Backtest, ExpertEvolution, MacroTrends, EventObservatory,
        MarketData, ReplayLab, ResearchLab, GovernedCampaign, ExpertAgents

CONSTANTS
    Parts,          \* the parts to explore
    ClockOf,        \* how far the clock of a part runs
    CommandsOf      \* how many commands are started in a part

\* A filing and a fundamental that are there from the first have the numbers of two
\* commands that were before.
ASSUME DeskAssumption ==
    /\ \A p \in Parts : ClockOf[p] \in Nat /\ CommandsOf[p] \in 0..MaxCommands
    /\ \A p \in Parts \cap {"company", "context", "research"} : CommandsOf[p] + 2 <= MaxCommands

VARIABLE part

vars == <<part, sessionVars, labVars, paperVars, backtestVars, evolutionVars,
          macroVars, observatoryVars, marketVars, replayVars, companyVars, researchVars, campaignVars, agentVars>>

\* The tables of the parts that collect what research rests on.
sourceVars == <<macroVars, observatoryVars, marketVars>>
deskVars == <<companyVars, researchVars, campaignVars, agentVars>>

\* The evidence about companies that is there from the first, and a lead of any table
\* that cites what no filing does.
Cited == CHOOSE s \in Statements : TRUE
KnownStatements ==
    CASE part \in {"company", "context"} -> {Cited}
      [] part = "research" -> Statements
      [] OTHER -> {}
KnownLeads ==
    {{}} \cup {{l} : l \in {x \in [id : {1}, table : LeadTables, at : {0}, cites : {Statements \ {Cited}}] :
                               part = "research"}}

Init ==
    /\ part \in Parts
    /\ SessionsInit(MaxCommands - CommandsOf[part])
    /\ LabInit /\ PaperInit /\ BacktestInit /\ EvolutionInit
    /\ MacroInit /\ ObservatoryInit /\ MarketInit /\ ReplayInit
    /\ CompanyInit(KnownStatements) /\ \E known \in KnownLeads : ResearchInit(known)
    /\ CampaignInit /\ AgentsInit

Lab(o) ==
    /\ part = "lab"
    /\ \/ LabNext(o) /\ UNCHANGED paperVars
       \/ PaperNext(o) /\ UNCHANGED labVars
    /\ UNCHANGED <<backtestVars, evolutionVars, sourceVars, replayVars>>

Study ==
    /\ part = "backtest"
    /\ BacktestNext
    /\ UNCHANGED <<sessionVars, labVars, paperVars, evolutionVars, sourceVars, replayVars>>

Evolution(o) ==
    /\ part = "evolution"
    /\ EvolutionNext(o)
    /\ UNCHANGED <<labVars, paperVars, backtestVars, sourceVars, replayVars>>

Source(o) ==
    /\ \/ /\ part = "macro" /\ MacroNext(o)
          /\ UNCHANGED <<observatoryVars, marketVars>>
       \/ /\ part = "observatory" /\ ObservatoryNext(o)
          /\ UNCHANGED <<macroVars, marketVars>>
       \/ /\ part = "market" /\ MarketNext(o)
          /\ UNCHANGED <<macroVars, observatoryVars>>
    /\ UNCHANGED <<labVars, paperVars, backtestVars, evolutionVars, replayVars>>

Replay(o) ==
    /\ part = "replay"
    /\ ReplayNext(o)
    /\ UNCHANGED <<labVars, paperVars, backtestVars, evolutionVars, sourceVars>>

\* The registry under research, the building of contexts, and what is done with them.
Research(o) ==
    /\ \/ /\ part \in {"company", "context", "research"} /\ BuildNext(o)
       \/ /\ part = "company" /\ CompanyNext(o) /\ UNCHANGED researchVars
       \/ /\ part = "research" /\ ResearchNext(o)
    /\ UNCHANGED <<labVars, paperVars, backtestVars, evolutionVars, sourceVars, replayVars, campaignVars, agentVars>>

\* The cases of a campaign, and the ledger that its caller goes on writing.
Campaign ==
    /\ part = "campaign"
    /\ \/ \E o \in Operators : CampaignNext(o)
       \/ (BulletinObserved \/ AppendEntry) /\ UNCHANGED sessionVars
    /\ UNCHANGED <<labVars, paperVars, backtestVars, evolutionVars, sourceVars, replayVars,
                   companyVars, researchVars, agentVars>>

Agents(o) ==
    /\ part = "agents"
    /\ AgentsNext(o)
    /\ UNCHANGED <<labVars, paperVars, backtestVars, evolutionVars, sourceVars, replayVars,
                   companyVars, researchVars, campaignVars>>

\* The other components go on ingesting while a case is replayed or a context built.
Arrival ==
    /\ \/ /\ part = "replay"
          /\ EvidenceArrives \/ BarArrives
          /\ UNCHANGED deskVars
       \/ /\ part \in {"company", "context"} /\ StatementArrives
          /\ UNCHANGED <<replayVars, researchVars, campaignVars, agentVars>>
       \/ /\ part = "context" /\ LeadArrives
          /\ UNCHANGED <<replayVars, companyVars, campaignVars, agentVars>>
    /\ UNCHANGED <<sessionVars, labVars, paperVars, backtestVars, evolutionVars, sourceVars>>

Outside ==
    /\ \/ \E o \in Operators : Dies(o)
       \/ now < ClockOf[part] /\ Tick
    /\ UNCHANGED <<labVars, paperVars, backtestVars, evolutionVars, sourceVars, replayVars, deskVars>>

Next ==
    /\ \/ /\ Study \/ \E o \in Operators : Lab(o) \/ Evolution(o) \/ Source(o) \/ Replay(o)
          /\ UNCHANGED deskVars
       \/ Arrival \/ Outside \/ Campaign \/ \E o \in Operators : Research(o) \/ Agents(o)
    /\ UNCHANGED part

Spec == Init /\ [][Next]_vars

\* The tables of every part hold rows of their types, and a backtest accounts
\* for each of its signals once.
TypeOK ==
    /\ LabTypeOK /\ PaperTypeOK /\ BacktestTypeOK /\ EvolutionTypeOK
    /\ MacroTypeOK /\ ObservatoryTypeOK /\ MarketTypeOK /\ ReplayTypeOK
    /\ ResearchTypeOK /\ CampaignTypeOK /\ AgentsTypeOK

=============================================================================
